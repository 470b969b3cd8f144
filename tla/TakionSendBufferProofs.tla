----------------------- MODULE TakionSendBufferProofs -----------------------
(***************************************************************************)
(* Proofs about the retransmission buffer, for every buffer size, number   *)
(* of senders and number of packets: no wakeup of the re-send thread is    *)
(* lost, the types are kept, and a packet is in the buffer once for as     *)
(* long as the console may need it.                                        *)
(***************************************************************************)
EXTENDS TakionSendBuffer, WellFoundedInduction, FiniteSetTheorems, TLAPS

-----------------------------------------------------------------------------
(* Induction on the naturals, and the size of the number space.             *)

(* Every set of naturals that is not empty has a least element. *)
LEMMA LeastNat ==
  ASSUME NEW T, T \subseteq Nat, T # {}
  PROVE  \E x \in T : \A y \in T : x <= y
<1> DEFINE R == {ss \in Nat \X Nat : ss[1] < ss[2]}
<1>1. IsWellFoundedOn(R, Nat)
  BY NatLessThanWellFounded DEF OpToRel
<1> HIDE DEF R
<1>2. PICK x \in T : \A y \in T : <<y, x>> \notin R
  BY <1>1, WFMin
<1>3. \A y \in T : y < x => <<y, x>> \in R
  BY DEF R
<1>4. ASSUME NEW y \in T PROVE x <= y
  <2>1. ~(y < x)
    BY <1>2, <1>3
  <2>. QED  BY <2>1
<1>. QED  BY <1>4

(* Induction on a set: the library's theorem takes the formula as an        *)
(* operator, which the provers cannot instantiate.                          *)
LEMMA SetInduction ==
  ASSUME NEW S, 0 \in S, \A n \in Nat : n \in S => n + 1 \in S
  PROVE  Nat \subseteq S
<1> SUFFICES ASSUME NEW m \in Nat, m \notin S PROVE FALSE
  OBVIOUS
<1> DEFINE T == Nat \ S
<1>1. PICK x \in T : \A y \in T : x <= y
  <2>1. T \subseteq Nat /\ T # {}
    OBVIOUS
  <2> HIDE DEF T
  <2>. QED  BY <2>1, LeastNat
<1>2. x # 0 /\ x \in Nat
  OBVIOUS
<1>3. x - 1 \in Nat /\ x - 1 \notin T
  BY <1>1, <1>2
<1>4. x - 1 \in S
  BY <1>3
<1>. QED  BY <1>2, <1>3, <1>4

(* The quotient and the remainder of a division. *)
LEMMA DivMod ==
  ASSUME NEW a \in Int, NEW b \in Nat \ {0}
  PROVE  /\ a \div b \in Int
         /\ a % b \in 0 .. b - 1
         /\ a = (a \div b) * b + (a % b)
OBVIOUS

(* The size of the number space. *)
LEMMA SeqModType == SeqMod \in Nat \ {0} /\ SeqMod = Half + Half
BY HalfAssumption DEF SeqMod

-----------------------------------------------------------------------------
(* Wakeups.                                                                 *)

(* The mutex is held exactly at the positions between a lock or wakeup of   *)
(* the re-send thread and its next wait or unlock; the decision to wait     *)
(* without a timeout is still right when the wait begins, and afterwards a  *)
(* push that invalidates it has signalled.                                  *)
Locked == rpc \in {"top", "toTimed", "toUntimed", "after", "scan"}
IInv ==
  /\ mutex \in {"free", "resend"} /\ (Locked => mutex = "resend")
  /\ rpc = "toUntimed" => count = 0
  /\ PushWakes

(* An acknowledgement leaves the empty array empty.                         *)
LEMMA AckEmpty ==
  ASSUME NEW s, count = 0, AckArray(s)
  PROVE  count' = 0
<1> DEFINE c == [a |-> packets, start |-> NoShift, shift |-> 0]
           step(p, k) ==
             IF ~Covers(s, p.a[k].seq) THEN p
             ELSE IF p.start = NoShift THEN [p EXCEPT !.start = k, !.shift = 1]
             ELSE IF p.start + p.shift = k THEN [p EXCEPT !.shift = @ + 1]
             ELSE [a |-> Moved(p.a, p.start, p.start + p.shift, k - (p.start + p.shift)),
                   start |-> k - p.shift, shift |-> p.shift + 1]
           body(f) == [i \in 0 .. count |-> IF i = 0 THEN c ELSE step(f[i - 1], i - 1)]
           pass == CHOOSE f : f = body(f)
<1>1. Closing(s) = pass[count]
  BY DEF Closing
<1> HIDE DEF c, step
<1>2. [i \in 0 .. count |-> c] = body([i \in 0 .. count |-> c])
  OBVIOUS
<1>3. pass = body(pass)
  BY <1>2
<1>4. pass[count] = c
  BY <1>3
<1>5. Closing(s).shift = 0
  BY <1>1, <1>4 DEF c
<1> QED
  BY <1>5 DEF AckArray

(* Acknowledging can only make a wait without a timeout more right.         *)
LEMMA AckInv ==
  ASSUME NEW s, IInv, mutex = "free", AckArray(s), UNCHANGED <<mutex, woken>>,
         rpc' = rpc \/ rpc' = "relock"
  PROVE  IInv'
  BY AckEmpty DEF IInv, Locked, PushWakes

(* No step of any thread loses a wakeup.                                    *)
LEMMA StepInv == IInv /\ [Next]_vars => IInv'
<1> SUFFICES ASSUME IInv, [Next]_vars PROVE IInv'
  OBVIOUS
<1> USE DEF IInv, Locked, PushWakes
<1>1. ASSUME NEW t \in Senders, Send(t) PROVE IInv'
  BY <1>1 DEF Send, array, resender, history
<1>2. ASSUME NEW t \in Senders, Push(t) PROVE IInv'
  <2>1. UNCHANGED <<mutex, rpc>>
    BY <1>2 DEF Push, resender
  <2>2. CASE UNCHANGED <<count, woken>>
    BY <2>1, <2>2
  <2>3. CASE woken' = (woken \/ (count = 0 /\ Asleep))
    BY <1>2, <2>1, <2>3 DEF Push, Asleep
  <2> QED
    BY <1>2, <2>2, <2>3 DEF Push, array
<1>3. ASSUME NEW s \in SentSeqs, Ack(s) PROVE IInv'
  BY <1>3, AckInv DEF Ack, resender
<1>4. CASE Fini
  BY <1>4 DEF Fini, FiniSetStop, FiniSignal, FiniJoin, array, resender, history
<1>5. CASE ResendThread
  <2>1. CASE RLock \/ RTop \/ RSleep \/ RWake \/ RTimeout \/ RRefused \/ RAfter
    BY <1>5, <2>1 DEF RLock, RTop, RSleep, RWake, RTimeout, RRefused, RAfter, Resender, Asleep, array, history
  <2>2. CASE RScanEnd \/ RScanPacket \/ RGiveUp \/ RReadSeq \/ RRelock
    BY <2>2 DEF RScanEnd, RScanPacket, RGiveUp, RReadSeq, RRelock, Resender, array, history
  <2>3. CASE RAckIt
    BY <2>3, AckInv DEF RAckIt, Resender
  <2> QED
    BY <1>5, <2>1, <2>2, <2>3 DEF ResendThread
<1>6. ASSUME NEW i \in Slots, Age(i) PROVE IInv'
  BY <1>6 DEF Age, resender, history
<1>7. CASE UNCHANGED vars
  BY <1>7 DEF vars
<1> QED
  BY <1>1, <1>2, <1>3, <1>4, <1>5, <1>6, <1>7 DEF Next

(* The re-send thread never sleeps without a timeout beside packets that    *)
(* wait for an acknowledgement (chiaki_takion_send_buffer_push signals, and *)
(* both the test and the wait of takion_send_buffer_thread_func happen      *)
(* under the mutex).                                                        *)
THEOREM NoLostPush == Spec => []PushWakes
<1>1. Init => IInv
  BY DEF Init, IInv, Locked, PushWakes
<1>2. IInv => PushWakes
  BY DEF IInv
<1> QED
  BY <1>1, <1>2, StepInv, PTL DEF Spec

-----------------------------------------------------------------------------
(* The compaction of the array by an acknowledgement.                       *)

(* An entry of the array, and the array.                                    *)
Entry == [seq : SeqNums, tries : 0 .. MaxTries, last : {"recent", "old", "ahead"}]
Array == [Slots -> Entry]

Distinct(b, n) == \A i, j \in 0 .. n - 1 : b[i].seq = b[j].seq => i = j

(* The first n entries of b are those of the first m of a that s does not   *)
(* cover, each of them once.                                                *)
Kept(s, b, n, a, m) ==
  /\ \A j \in 0 .. n - 1 : ~Covers(s, b[j].seq) /\ \E q \in 0 .. m - 1 : b[j] = a[q]
  /\ \A q \in 0 .. m - 1 : ~Covers(s, a[q].seq) => \E j \in 0 .. n - 1 : b[j] = a[q]
  /\ Distinct(b, n)

(* A gap of shift covered entries behind the kept ones, with entries to     *)
(* keep behind it, and the array after these have moved down.               *)
Gap(s, a, b, start, shift, k) ==
  /\ start + shift <= k /\ k <= Size /\ Distinct(a, k)
  /\ Kept(s, b, start, a, start + shift)
  /\ \A j \in start + shift .. k - 1 : b[j] = a[j] /\ ~Covers(s, a[j].seq)
Closed(s, a, b, c, shift, k) ==
  /\ c \in Array /\ Kept(s, c, k - shift, a, k)
  /\ \A j \in Slots : j >= k - shift => c[j] = b[j]

(* Closing the gap keeps what is to be kept.                                *)
LEMMA CloseGap ==
  ASSUME NEW s, NEW a \in Array, NEW b \in Array,
         NEW start \in Nat, NEW shift \in Nat, NEW k \in Nat,
         Gap(s, a, b, start, shift, k)
  PROVE  Closed(s, a, b, Moved(b, start, start + shift, k - (start + shift)), shift, k)
<1> USE DEF Gap
<1> DEFINE c == Moved(b, start, start + shift, k - (start + shift))
<1>a. Size \in Nat
  BY SizeAssumption
<1>1. c \in Array
  <2>1. ASSUME NEW j \in Slots, j \in start .. start + (k - (start + shift)) - 1
        PROVE  j - start + (start + shift) \in Slots
    BY <2>1, <1>a DEF Slots
  <2>. QED  BY <2>1 DEF Moved, Array
<1>2. ASSUME NEW j \in Nat, j < start
      PROVE  c[j] = b[j]
  BY <1>2, <1>a DEF Moved, Slots
<1>3. ASSUME NEW j \in Nat, start <= j, j < k - shift
      PROVE  c[j] = a[j + shift] /\ j + shift \in start + shift .. k - 1
  <2>1. j \in Slots /\ j \in start .. start + (k - (start + shift)) - 1
    BY <1>3, <1>a DEF Slots
  <2>2. j - start + (start + shift) = j + shift
    BY <1>3
  <2>3. j + shift \in start + shift .. k - 1
    BY <1>3
  <2>. QED  BY <2>1, <2>2, <2>3 DEF Moved
<1>4. ASSUME NEW j \in Slots, j >= k - shift
      PROVE  c[j] = b[j]
  BY <1>4, <1>a DEF Moved, Slots
<1> HIDE DEF c
<1>5. ASSUME NEW j \in 0 .. k - shift - 1
      PROVE  ~Covers(s, c[j].seq) /\ \E q \in 0 .. k - 1 : c[j] = a[q]
  <2>1. CASE j < start
    BY <1>2, <2>1 DEF Kept
  <2>2. CASE start <= j
    BY <1>3, <2>2
  <2>. QED  BY <2>1, <2>2
<1>6. ASSUME NEW q \in 0 .. k - 1, ~Covers(s, a[q].seq)
      PROVE  \E j \in 0 .. k - shift - 1 : c[j] = a[q]
  <2>1. CASE q < start + shift
    <3>1. PICK j \in 0 .. start - 1 : b[j] = a[q]
      BY <1>6, <2>1 DEF Kept
    <3>. QED  BY <3>1, <1>2
  <2>2. CASE start + shift <= q
    <3>1. q - shift \in Nat /\ start <= q - shift /\ q - shift < k - shift /\ (q - shift) + shift = q
      BY <2>2
    <3>2. c[q - shift] = a[q]
      BY <3>1, <1>3
    <3>. QED  BY <3>1, <3>2
  <2>. QED  BY <2>1, <2>2
<1>7. ASSUME NEW i \in 0 .. k - shift - 1, NEW j \in 0 .. k - shift - 1,
             c[i].seq = c[j].seq, i < start, start <= j
      PROVE  FALSE
  <2>1. PICK q \in 0 .. start + shift - 1 : c[i] = a[q]
    BY <1>2, <1>7 DEF Kept
  <2>2. c[j] = a[j + shift] /\ j + shift \in 0 .. k - 1 /\ q \in 0 .. k - 1 /\ q # j + shift
    BY <1>3, <1>7
  <2>. QED  BY <2>1, <2>2, <1>7 DEF Distinct
<1>8. Distinct(c, k - shift)
  <2> SUFFICES ASSUME NEW i \in 0 .. k - shift - 1, NEW j \in 0 .. k - shift - 1,
                      c[i].seq = c[j].seq
               PROVE  i = j
    BY DEF Distinct
  <2>1. CASE i < start /\ j < start
    BY <1>2, <2>1 DEF Kept, Distinct
  <2>2. CASE start <= i /\ start <= j
    <3>1. /\ c[i] = a[i + shift] /\ i + shift \in 0 .. k - 1
          /\ c[j] = a[j + shift] /\ j + shift \in 0 .. k - 1
      BY <1>3, <2>2
    <3>2. i + shift = j + shift
      BY <3>1 DEF Distinct
    <3>. QED  BY <3>2
  <2>. QED  BY <1>7, <2>1, <2>2
<1>9. Kept(s, c, k - shift, a, k)
  BY <1>5, <1>6, <1>8 DEF Kept
<1>. QED  BY <1>1, <1>4, <1>9 DEF c, Closed

(* What the loop of chiaki_takion_send_buffer_ack has made of the array     *)
(* when it has looked at k entries: the last gap, if any, lies behind the   *)
(* kept entries, and everything behind it is untouched.                     *)
PassOK(s, k, p) ==
  /\ p.a \in Array
  /\ \/ /\ p.start = NoShift /\ p.shift = 0 /\ p.a = packets
        /\ \A q \in 0 .. k - 1 : ~Covers(s, packets[q].seq)
     \/ /\ p.start \in Nat /\ p.shift \in Nat \ {0} /\ p.start + p.shift <= k
        /\ Kept(s, p.a, p.start, packets, p.start + p.shift)
        /\ \A j \in Slots : j >= p.start => p.a[j] = packets[j]
        /\ \A q \in p.start + p.shift .. k - 1 : ~Covers(s, packets[q].seq)

(* One turn of that loop.                                                   *)
Turn(s, p, k) ==
  IF ~Covers(s, p.a[k].seq) THEN p
  ELSE IF p.start = NoShift THEN [p EXCEPT !.start = k, !.shift = 1]
  ELSE IF p.start + p.shift = k THEN [p EXCEPT !.shift = @ + 1]
  ELSE [a |-> Moved(p.a, p.start, p.start + p.shift, k - (p.start + p.shift)),
        start |-> k - p.shift, shift |-> p.shift + 1]

PassState == [a : Array, start : Int, shift : Int]

(* A turn keeps the invariant of the loop. *)
LEMMA TurnKeeps ==
  ASSUME NEW s, packets \in Array, count \in 0 .. Size, Distinct(packets, count),
         NEW k \in 0 .. count - 1, NEW p \in PassState, PassOK(s, k, p)
  PROVE  Turn(s, p, k) \in PassState /\ PassOK(s, k + 1, Turn(s, p, k))
<1>a. Size \in Nat /\ k \in Slots /\ k + 1 \in Nat /\ k \in Nat
  BY SizeAssumption DEF Slots
<1>b. p.a \in Array /\ p.start \in Int /\ p.shift \in Int
  BY DEF PassState
<1>c. p.a[k] = packets[k] /\ Distinct(packets, k)
  <2>1. p.a[k] = packets[k]
    BY <1>a, <1>b DEF PassOK
  <2>2. Distinct(packets, k)
    BY DEF Distinct
  <2>. QED  BY <2>1, <2>2
<1>1. CASE ~Covers(s, packets[k].seq)
  <2>1. Turn(s, p, k) = p
    BY <1>1, <1>c DEF Turn
  <2>2. PassOK(s, k + 1, p)
    <3>1. CASE p.start = NoShift /\ p.shift = 0 /\ p.a = packets
               /\ \A q \in 0 .. k - 1 : ~Covers(s, packets[q].seq)
      BY <3>1, <1>1, <1>b DEF PassOK
    <3>2. CASE ~(p.start = NoShift /\ p.shift = 0 /\ p.a = packets
                 /\ \A q \in 0 .. k - 1 : ~Covers(s, packets[q].seq))
      <4>1. /\ p.start \in Nat /\ p.shift \in Nat \ {0} /\ p.start + p.shift <= k
            /\ Kept(s, p.a, p.start, packets, p.start + p.shift)
            /\ \A j \in Slots : j >= p.start => p.a[j] = packets[j]
            /\ \A q \in p.start + p.shift .. k - 1 : ~Covers(s, packets[q].seq)
        BY <3>2 DEF PassOK
      <4>2. p.start + p.shift <= k + 1
        BY <4>1, <1>a
      <4>3. \A q \in p.start + p.shift .. (k + 1) - 1 : ~Covers(s, packets[q].seq)
        BY <4>1, <1>1, <1>a
      <4>. QED  BY <4>1, <4>2, <4>3, <1>b DEF PassOK
    <3>. QED  BY <3>1, <3>2
  <2>. QED  BY <2>1, <2>2
<1>2. CASE Covers(s, packets[k].seq) /\ p.start = NoShift
  <2>1. Turn(s, p, k) = [p EXCEPT !.start = k, !.shift = 1]
    BY <1>2, <1>c DEF Turn
  <2> DEFINE t == [p EXCEPT !.start = k, !.shift = 1]
  <2>2. t \in PassState /\ t.a = p.a /\ t.start = k /\ t.shift = 1
    <3> DEFINE u == [p EXCEPT !.start = k]
    <3>1. u \in PassState /\ u.a = p.a /\ u.start = k
      BY <1>a, <1>b DEF PassState
    <3>2. t = [u EXCEPT !.shift = 1]
      OBVIOUS
    <3> HIDE DEF u
    <3>. QED  BY <3>1, <3>2 DEF PassState
  <2>3. p.a = packets /\ \A q \in 0 .. k - 1 : ~Covers(s, packets[q].seq)
    BY <1>2 DEF PassOK, NoShift
  <2>4. Kept(s, packets, k, packets, k + 1)
    BY <2>3, <1>2, <1>a, <1>c DEF Kept
  <2> HIDE DEF t
  <2>5. PassOK(s, k + 1, t)
    BY <2>2, <2>3, <2>4, <1>a, <1>b DEF PassOK
  <2>. QED  BY <2>1, <2>2, <2>5 DEF t
<1>3. CASE Covers(s, packets[k].seq) /\ p.start # NoShift
  <2>0. /\ p.start \in Nat /\ p.shift \in Nat \ {0} /\ p.start + p.shift <= k
        /\ Kept(s, p.a, p.start, packets, p.start + p.shift)
        /\ \A j \in Slots : j >= p.start => p.a[j] = packets[j]
        /\ \A q \in p.start + p.shift .. k - 1 : ~Covers(s, packets[q].seq)
    BY <1>3 DEF PassOK
  <2>1. CASE p.start + p.shift = k
    <3>1. Turn(s, p, k) = [p EXCEPT !.shift = p.shift + 1]
      BY <1>3, <1>c, <2>1 DEF Turn
    <3> DEFINE t == [p EXCEPT !.shift = p.shift + 1]
    <3>2. t \in PassState /\ t.a = p.a /\ t.start = p.start /\ t.shift = p.shift + 1
      BY <1>b DEF PassState
    <3>3. Kept(s, p.a, p.start, packets, k + 1)
      BY <2>0, <2>1, <1>3, <1>a DEF Kept
    <3>4. p.start + (p.shift + 1) = k + 1 /\ p.shift + 1 \in Nat \ {0}
      BY <2>0, <2>1, <1>b
    <3> HIDE DEF t
    <3>5. PassOK(s, k + 1, t)
      BY <3>2, <3>3, <3>4, <2>0, <1>a, <1>b DEF PassOK
    <3>. QED  BY <3>1, <3>2, <3>5 DEF t
  <2>2. CASE p.start + p.shift # k
    <3> DEFINE m == Moved(p.a, p.start, p.start + p.shift, k - (p.start + p.shift))
               t == [a |-> m, start |-> k - p.shift, shift |-> p.shift + 1]
    <3>1. Turn(s, p, k) = t
      BY <1>3, <1>c, <2>2 DEF Turn
    <3>2. Gap(s, packets, p.a, p.start, p.shift, k)
      BY <2>0, <1>a, <1>c DEF Slots, Gap
    <3>3. Closed(s, packets, p.a, m, p.shift, k)
      BY <1>a, <1>b, <2>0, <3>2, CloseGap
    <3> HIDE DEF m
    <3>4. t \in PassState /\ t.a = m /\ t.start = k - p.shift /\ t.shift = p.shift + 1
      BY <3>3, <1>a, <1>b DEF PassState, Closed
    <3> HIDE DEF t
    <3>5. Kept(s, m, k - p.shift, packets, k + 1)
      BY SMTT(30), <3>3, <1>3, <1>a, <1>b DEF Kept, Closed
    <3>6. /\ k - p.shift \in Nat /\ k - p.shift >= p.start /\ p.shift + 1 \in Nat \ {0}
          /\ (k - p.shift) + (p.shift + 1) = k + 1
      BY <2>0, <1>a
    <3>7. \A j \in Slots : j >= k - p.shift => m[j] = packets[j]
      BY <3>3, <3>6, <2>0 DEF Slots, Closed
    <3>8. PassOK(s, k + 1, t)
      BY <3>3, <3>4, <3>5, <3>6, <3>7 DEF PassOK, Closed
    <3>. QED  BY <3>1, <3>4, <3>8
  <2>. QED  BY <2>1, <2>2
<1>. QED  BY <1>1, <1>2, <1>3

(* The whole loop: the recursive function of Closing exists and keeps the   *)
(* invariant of the turns.                                                  *)
LEMMA LoopDone ==
  ASSUME NEW s, packets \in Array, count \in 0 .. Size, Distinct(packets, count)
  PROVE  Closing(s) \in PassState /\ PassOK(s, count, Closing(s))
<1> DEFINE c == [a |-> packets, start |-> NoShift, shift |-> 0]
           body(f, n) == [i \in 0 .. n |-> IF i = 0 THEN c ELSE Turn(s, f[i - 1], i - 1)]
           pass == CHOOSE f : f = body(f, count)
           S == { n \in Nat : \E g : g = body(g, n) }
           T == { n \in Nat : n <= count => pass[n] \in PassState /\ PassOK(s, n, pass[n]) }
<1>0. Size \in Nat /\ count \in Nat
  BY SizeAssumption
<1>1. Closing(s) = pass[count]
  BY DEF Closing, Turn
<1>2. c \in PassState /\ PassOK(s, 0, c)
  BY DEF PassState, PassOK, NoShift
<1> HIDE DEF c
<1>3. 0 \in S
  <2>1. [i \in 0 .. 0 |-> c] = body([i \in 0 .. 0 |-> c], 0)
    OBVIOUS
  <2>. QED  BY <2>1
<1>4. ASSUME NEW n \in Nat, n \in S PROVE n + 1 \in S
  <2>1. PICK g : g = body(g, n)
    BY <1>4
  <2> DEFINE h == [i \in 0 .. n + 1 |-> IF i <= n THEN g[i] ELSE Turn(s, g[n], n)]
  <2>2. ASSUME NEW i \in 0 .. n + 1
        PROVE  h[i] = IF i = 0 THEN c ELSE Turn(s, h[i - 1], i - 1)
    <3>1. CASE i = 0
      BY <2>1, <3>1
    <3>2. CASE i # 0 /\ i <= n
      <4>1. g[i] = Turn(s, g[i - 1], i - 1)
        BY <2>1, <3>2
      <4>2. h[i - 1] = g[i - 1] /\ h[i] = g[i]
        BY <3>2
      <4>. QED  BY <3>2, <4>1, <4>2
    <3>3. CASE i = n + 1
      <4>1. h[i] = Turn(s, g[n], n) /\ h[n] = g[n] /\ i - 1 = n /\ i # 0
        BY <3>3
      <4>. QED  BY <4>1
    <3>. QED  BY <3>1, <3>2, <3>3
  <2>3. h = body(h, n + 1)
    <3>1. \A i \in 0 .. n + 1 : h[i] = body(h, n + 1)[i]
      BY <2>2
    <3>. QED  BY <3>1
  <2> HIDE DEF h
  <2>. QED  BY <2>3
<1>5. count \in S
  <2> HIDE DEF S
  <2>. QED  BY <1>0, <1>3, <1>4, SetInduction
<1>6. pass = body(pass, count)
  BY <1>5
<1> HIDE DEF pass
<1>7. 0 \in T
  BY <1>2, <1>6
<1>8. ASSUME NEW n \in Nat, n \in T PROVE n + 1 \in T
  <2> SUFFICES ASSUME n + 1 <= count
               PROVE  pass[n + 1] \in PassState /\ PassOK(s, n + 1, pass[n + 1])
    OBVIOUS
  <2>1. pass[n] \in PassState /\ PassOK(s, n, pass[n]) /\ n \in 0 .. count - 1
    BY <1>0, <1>8
  <2>2. pass[n + 1] = Turn(s, pass[n], n)
    BY <1>0, <1>6
  <2>3. Turn(s, pass[n], n) \in PassState /\ PassOK(s, n + 1, Turn(s, pass[n], n))
    BY <2>1, TurnKeeps
  <2>. QED  BY <2>2, <2>3
<1>9. count \in T
  <2> HIDE DEF T
  <2>. QED  BY <1>0, <1>7, <1>8, SetInduction
<1>. QED  BY <1>0, <1>1, <1>9

(* chiaki_takion_send_buffer_ack: what is left of the array are the entries *)
(* that s does not cover, each once, in a legal array.                      *)
LEMMA Compaction ==
  ASSUME NEW s, packets \in Array, count \in 0 .. Size, Distinct(packets, count), AckArray(s)
  PROVE  /\ packets' \in Array /\ count' \in 0 .. count
         /\ Kept(s, packets', count', packets, count)
<1> DEFINE p == Closing(s)
           from == p.start + p.shift
<1>0. Size \in Nat /\ count \in Nat /\ count <= Size
  BY SizeAssumption
<1>1. p \in PassState /\ PassOK(s, count, p)
  BY LoopDone
<1>2. /\ packets' = IF p.start # NoShift /\ from < count
                     THEN Moved(p.a, p.start, from, count - from) ELSE p.a
      /\ count' = count - p.shift
  BY DEF AckArray
<1>3. p.a \in Array /\ p.start \in Int /\ p.shift \in Int
  BY <1>1 DEF PassState
<1> HIDE DEF p
<1>4. CASE p.start = NoShift
  <2>1. p.shift = 0 /\ p.a = packets /\ \A q \in 0 .. count - 1 : ~Covers(s, packets[q].seq)
    BY <1>1, <1>4 DEF PassOK, NoShift
  <2>2. packets' = packets /\ count' = count
    BY <1>0, <1>2, <1>4, <2>1
  <2>3. Kept(s, packets, count, packets, count)
    BY <2>1 DEF Kept
  <2>. QED  BY <1>0, <2>2, <2>3
<1>5. CASE p.start # NoShift
  <2>0. /\ p.start \in Nat /\ p.shift \in Nat \ {0} /\ from <= count
        /\ Kept(s, p.a, p.start, packets, from)
        /\ \A j \in Slots : j >= p.start => p.a[j] = packets[j]
        /\ \A q \in from .. count - 1 : ~Covers(s, packets[q].seq)
    BY <1>1, <1>5 DEF PassOK
  <2>1. count' \in 0 .. count
    BY <1>0, <1>2, <2>0
  <2>2. CASE from < count
    <3>1. Gap(s, packets, p.a, p.start, p.shift, count)
      BY <1>0, <2>0 DEF Slots, Gap
    <3>2. Closed(s, packets, p.a, packets', p.shift, count)
      BY <1>0, <1>2, <1>3, <1>5, <2>0, <2>2, <3>1, CloseGap
    <3>. QED  BY <1>2, <2>1, <3>2 DEF Closed
  <2>3. CASE from = count
    <3>1. packets' = p.a /\ count' = p.start
      BY <1>0, <1>2, <2>0, <2>3
    <3>. QED  BY <1>3, <2>0, <2>1, <2>3, <3>1
  <2>. QED  BY <1>0, <2>0, <2>2, <2>3
<1>. QED  BY <1>4, <1>5

(* The numbers in the array afterwards are those that s does not cover.     *)
LEMMA AckHeld ==
  ASSUME NEW s, packets \in Array, count \in 0 .. Size, Distinct(packets, count), AckArray(s)
  PROVE  Held' = { x \in Held : ~Covers(s, x) } /\ Distinct(packets, count)'
<1>1. Kept(s, packets', count', packets, count)
  BY Compaction
<1>2. Distinct(packets, count)'
  BY <1>1 DEF Kept, Distinct
<1>3. ASSUME NEW x \in Held' PROVE x \in Held /\ ~Covers(s, x)
  <2>1. PICK j \in 0 .. count' - 1 : x = packets'[j].seq
    BY <1>3 DEF Held
  <2>. QED  BY <1>1, <2>1 DEF Held, Kept
<1>4. ASSUME NEW x \in Held, ~Covers(s, x) PROVE x \in Held'
  <2>1. PICK q \in 0 .. count - 1 : x = packets[q].seq
    BY <1>4 DEF Held
  <2>2. PICK j \in 0 .. count' - 1 : packets'[j] = packets[q]
    BY <1>1, <1>4, <2>1 DEF Kept
  <2>. QED  BY <2>1, <2>2 DEF Held
<1>. QED  BY <1>2, <1>3, <1>4

(* Distinct entries: as many numbers as entries.                            *)
LEMMA HeldCount ==
  ASSUME packets \in Array, count \in 0 .. Size, Distinct(packets, count)
  PROVE  Cardinality(Held) = count
<1>0. count \in Nat /\ Size \in Nat /\ count <= Size
  BY SizeAssumption
<1> DEFINE f == [i \in 1 .. count |-> packets[i - 1].seq]
<1>1. f \in Surjection(1 .. count, Held)
  <2>1. \A i \in 1 .. count : i - 1 \in 0 .. count - 1
    BY <1>0
  <2>2. f \in [1 .. count -> Held]
    BY <2>1 DEF Held
  <2>3. ASSUME NEW x \in Held PROVE \E i \in 1 .. count : f[i] = x
    <3>1. PICK j \in 0 .. count - 1 : x = packets[j].seq
      BY <2>3 DEF Held
    <3>2. j + 1 \in 1 .. count /\ f[j + 1] = x
      BY <1>0, <3>1
    <3>. QED  BY <3>2
  <2>. QED  BY <2>2, <2>3 DEF Surjection
<1>2. f \in Injection(1 .. count, Held)
  <2> SUFFICES ASSUME NEW i \in 1 .. count, NEW j \in 1 .. count, f[i] = f[j] PROVE i = j
    BY <1>1 DEF Injection, Surjection, IsInjective
  <2>1. i - 1 \in 0 .. count - 1 /\ j - 1 \in 0 .. count - 1 /\ packets[i - 1].seq = packets[j - 1].seq
    BY <1>0
  <2>2. i - 1 = j - 1
    BY <2>1 DEF Distinct
  <2>. QED  BY <2>2
<1>3. ExistsBijection(1 .. count, Held)
  BY <1>1, <1>2 DEF ExistsBijection, Bijection
<1>. QED  BY <1>0, <1>3, FS_CountingElements

-----------------------------------------------------------------------------
(* The inductive invariant.                                                 *)

Flags ==
  /\ shouldStop \in BOOLEAN /\ woken \in BOOLEAN /\ gaveUp \in BOOLEAN
  /\ mutex \in {"free", "resend"}
  /\ rpc \in {"start", "top", "toTimed", "toUntimed", "timed", "untimed", "after",
              "scan", "giveUp", "ackIt", "relock", "done"}
  /\ tpc \in {"running", "stopSet", "joining", "freed"}
Numbers ==
  /\ count \in 0 .. Size /\ ri \in 0 .. Size /\ rseq \in SeqNums /\ sent \in 0 .. MaxSends

(* What a sender holds between sending and pushing has been sent.           *)
Pending ==
  /\ unpushed \in [Senders -> SeqNums \cup {NoSeq}]
  /\ \A t \in Senders : unpushed[t] # NoSeq => unpushed[t] \in SentSeqs

(* In the middle of a scan the index names a slot and a packet is given up; *)
(* the buffer is freed only after the re-send thread has ended.             *)
Scan ==
  /\ Unlocked => ri < Size /\ gaveUp
  /\ tpc = "freed" => rpc = "done"

(* The array: no number twice, and exactly the packets that are owned.      *)
Owned ==
  /\ packets \in Array /\ Distinct(packets, count)
  /\ live \subseteq SentSeqs /\ unacked \subseteq SentSeqs
  /\ live = IF tpc = "freed" THEN {} ELSE Held

BInv == Flags /\ Numbers /\ Pending /\ Scan /\ Owned /\ KeptWhileTrying

(* The constants. *)
LEMMA Sizes == Size \in Nat \ {0} /\ MaxTries \in Nat /\ MaxSends \in Nat
BY SizeAssumption, SendsAssumption

(* The number of every packet is a sequence number. *)
LEMMA SeqOfType ==
  ASSUME NEW k \in Int
  PROVE  SeqOf(k) \in SeqNums
<1>1. FirstSeq + k \in Int
  BY SeqAssumption, SeqModType DEF SeqNums
<1>. QED  BY <1>1, SeqModType, DivMod DEF SeqOf, SeqAdd, SeqNums

(* The invariant holds of the empty buffer. *)
LEMMA InitB == Init => BInv
<1> SUFFICES ASSUME Init PROVE BInv
  OBVIOUS
<1>1. 0 \in SeqNums
  BY SeqModType DEF SeqNums
<1>2. Held = {}
  BY DEF Init, Held
<1>3. packets \in Array /\ Distinct(packets, count)
  BY <1>1, Sizes DEF Init, Array, Entry, Distinct
<1>4. Flags /\ Scan
  BY DEF Init, Flags, Scan, Unlocked
<1>5. Numbers
  BY <1>1, Sizes DEF Init, Numbers
<1>6. Pending
  BY DEF Init, Pending
<1>7. Owned /\ KeptWhileTrying
  BY <1>2, <1>3 DEF Init, Owned, KeptWhileTrying
<1>. QED  BY <1>4, <1>5, <1>6, <1>7 DEF BInv

(* Steps that leave the array, the senders and the history alone keep       *)
(* everything that is said about them.                                      *)
LEMMA QuietStep ==
  ASSUME BInv, UNCHANGED <<packets, count, sent, unpushed, live, unacked, gaveUp>>,
         (tpc' = "freed") = (tpc = "freed")
  PROVE  Pending' /\ Owned' /\ KeptWhileTrying'
BY DEF BInv, Pending, Owned, KeptWhileTrying, SentSeqs, Held, Distinct

(* A sender takes the next number. *)
LEMMA SendB ==
  ASSUME BInv, NEW t \in Senders, Send(t)
  PROVE  BInv'
<1>1. /\ UNCHANGED <<packets, count, shouldStop, mutex, rpc, ri, rseq, woken, tpc, live, unacked, gaveUp>>
      /\ sent' = sent + 1 /\ sent < MaxSends /\ tpc # "freed"
      /\ unpushed' \in {unpushed, [unpushed EXCEPT ![t] = SeqOf(sent)]}
  BY DEF Send, array, resender, history
<1>2. sent \in Nat /\ SeqOf(sent) \in SeqNums
  BY SeqOfType, Sizes DEF BInv, Numbers
<1>3. SentSeqs \subseteq SentSeqs' /\ SeqOf(sent) \in SentSeqs'
  <2>1. 0 .. sent - 1 \subseteq 0 .. sent' - 1 /\ sent \in 0 .. sent' - 1
    BY <1>1, <1>2
  <2>. QED  BY <2>1 DEF SentSeqs
<1>4. Flags' /\ Scan' /\ KeptWhileTrying'
  BY <1>1 DEF BInv, Flags, Scan, KeptWhileTrying, Unlocked
<1>5. Numbers'
  BY <1>1, Sizes DEF BInv, Numbers
<1>6. Owned'
  BY <1>1, <1>3 DEF BInv, Owned, Held, Distinct
<1>7. Pending'
  BY <1>1, <1>2, <1>3 DEF BInv, Pending
<1>. QED  BY <1>4, <1>5, <1>6, <1>7 DEF BInv

(* A push appends a number that is not in the array yet. *)
LEMMA PushB ==
  ASSUME BInv, NEW t \in Senders, Push(t)
  PROVE  BInv'
<1>1. /\ UNCHANGED <<shouldStop, mutex, rpc, ri, rseq, tpc, sent, gaveUp>>
      /\ unpushed[t] # NoSeq /\ tpc # "freed"
      /\ unpushed' = [unpushed EXCEPT ![t] = NoSeq]
  BY DEF Push, resender
<1>2. SentSeqs' = SentSeqs
  BY <1>1 DEF SentSeqs
<1>3. unpushed[t] \in SeqNums /\ unpushed[t] \in SentSeqs
  BY <1>1 DEF BInv, Pending
<1>4. Pending'
  BY <1>1, <1>2 DEF BInv, Pending
<1>5. Scan'
  BY <1>1 DEF BInv, Scan, Unlocked
<1>6. CASE UNCHANGED <<packets, count, woken, live, unacked>>
  <2>1. Flags' /\ Numbers'
    BY <1>1, <1>6 DEF BInv, Flags, Numbers
  <2>2. Owned' /\ KeptWhileTrying'
    BY <1>1, <1>2, <1>6 DEF BInv, Owned, KeptWhileTrying, Held, Distinct
  <2>. QED  BY <1>4, <1>5, <2>1, <2>2 DEF BInv
<1>7. CASE /\ count < Size /\ unpushed[t] \notin Held
           /\ \E l \in {"recent", "ahead"} :
                packets' = [packets EXCEPT ![count] = [seq |-> unpushed[t], tries |-> 0, last |-> l]]
           /\ count' = count + 1
           /\ live' = live \cup {unpushed[t]} /\ unacked' = unacked \cup {unpushed[t]}
           /\ woken' = (woken \/ (count = 0 /\ Asleep))
  <2>0. count \in Nat /\ count \in Slots
    BY <1>7, Sizes DEF BInv, Numbers, Slots
  <2>1. PICK e \in Entry : e.seq = unpushed[t] /\ packets' = [packets EXCEPT ![count] = e]
    <3>1. PICK l \in {"recent", "ahead"} :
            packets' = [packets EXCEPT ![count] = [seq |-> unpushed[t], tries |-> 0, last |-> l]]
      BY <1>7
    <3> DEFINE e == [seq |-> unpushed[t], tries |-> 0, last |-> l]
    <3>2. e \in Entry /\ e.seq = unpushed[t]
      BY <1>3, Sizes DEF Entry
    <3>. QED  BY <3>1, <3>2
  <2>2. packets' \in Array /\ packets'[count] = e
        /\ \A i \in 0 .. count - 1 : packets'[i] = packets[i]
    BY <2>0, <2>1, Sizes DEF BInv, Owned, Array, Slots
  <2>3. Held' = Held \cup {unpushed[t]}
    <3>1. 0 .. count' - 1 = (0 .. count - 1) \cup {count}
      BY <1>7, <2>0
    <3>. QED  BY <2>1, <2>2, <3>1 DEF Held
  <2>4. Distinct(packets, count)'
    <3> SUFFICES ASSUME NEW i \in 0 .. count, NEW j \in 0 .. count,
                        packets'[i].seq = packets'[j].seq
                 PROVE  i = j
      BY <1>7, <2>0 DEF Distinct
    <3>1. CASE i < count /\ j < count
      BY <2>0, <2>2, <3>1 DEF BInv, Owned, Distinct
    <3>2. CASE i = count /\ j < count
      BY <1>7, <2>0, <2>1, <2>2, <3>2 DEF Held
    <3>3. CASE i < count /\ j = count
      BY <1>7, <2>0, <2>1, <2>2, <3>3 DEF Held
    <3>. QED  BY <2>0, <3>1, <3>2, <3>3
  <2>5. Owned'
    BY <1>1, <1>2, <1>3, <1>7, <2>2, <2>3, <2>4 DEF BInv, Owned
  <2>6. Flags'
    BY <1>1, <1>7 DEF BInv, Flags, Asleep
  <2>7. Numbers'
    BY <1>1, <1>7, Sizes DEF BInv, Numbers
  <2>8. KeptWhileTrying'
    BY <1>1, <1>7 DEF BInv, KeptWhileTrying
  <2>. QED  BY <1>4, <1>5, <2>5, <2>6, <2>7, <2>8 DEF BInv
<1>8. \/ UNCHANGED <<packets, count, woken, live, unacked>>
      \/ /\ count < Size /\ unpushed[t] \notin Held
         /\ \E l \in {"recent", "ahead"} :
              packets' = [packets EXCEPT ![count] = [seq |-> unpushed[t], tries |-> 0, last |-> l]]
         /\ count' = count + 1
         /\ live' = live \cup {unpushed[t]} /\ unacked' = unacked \cup {unpushed[t]}
         /\ woken' = (woken \/ (count = 0 /\ Asleep))
  <2>1. CASE count >= Size \/ unpushed[t] \in Held
    BY <2>1 DEF Push, array
  <2>2. CASE ~(count >= Size \/ unpushed[t] \in Held)
    <3>1. count < Size
      BY <2>2, Sizes DEF BInv, Numbers
    <3>2. /\ \E l \in IF Unlocked THEN {"recent", "ahead"} ELSE {"recent"} :
                packets' = [packets EXCEPT ![count] = [seq |-> unpushed[t], tries |-> 0, last |-> l]]
          /\ count' = count + 1
          /\ live' = live \cup {unpushed[t]} /\ unacked' = unacked \cup {unpushed[t]}
          /\ woken' = (woken \/ (count = 0 /\ Asleep))
      BY <2>2 DEF Push
    <3>. QED  BY <2>2, <3>1, <3>2
  <2>. QED  BY <2>1, <2>2
<1>. QED  BY <1>6, <1>7, <1>8

(* Both acknowledgements: the console's and the one of giving up.           *)
LEMMA AckOwned ==
  ASSUME BInv, NEW s, AckArray(s), tpc # "freed", UNCHANGED <<tpc, sent>>,
         unacked' \subseteq unacked
  PROVE  Owned' /\ count' \in 0 .. Size
<1>0. packets \in Array /\ count \in 0 .. Size /\ Distinct(packets, count) /\ live = Held
  BY DEF BInv, Owned, Numbers
<1>1. packets' \in Array /\ count' \in 0 .. count
  BY <1>0, Compaction
<1>2. Held' = { x \in Held : ~Covers(s, x) } /\ Distinct(packets, count)'
  BY <1>0, AckHeld
<1>3. live' = Held'
  BY <1>0, <1>2 DEF AckArray
<1>4. SentSeqs' = SentSeqs
  BY DEF SentSeqs
<1>5. live' \subseteq SentSeqs' /\ unacked' \subseteq SentSeqs'
  BY <1>0, <1>2, <1>3, <1>4 DEF BInv, Owned
<1>6. Owned'
  BY <1>1, <1>2, <1>3, <1>5 DEF Owned
<1>. QED  BY <1>0, <1>1, <1>6, Sizes

(* The console acknowledges. *)
LEMMA AckB ==
  ASSUME BInv, NEW s \in SentSeqs, Ack(s)
  PROVE  BInv'
<1>1. /\ UNCHANGED <<shouldStop, mutex, rpc, ri, rseq, woken, tpc, sent, unpushed, gaveUp>>
      /\ AckArray(s) /\ tpc = "running" /\ unacked' = { x \in unacked : ~Covers(s, x) }
  BY DEF Ack, resender
<1>2. Owned' /\ count' \in 0 .. Size
  BY <1>1, AckOwned
<1>3. Flags' /\ Scan'
  BY <1>1 DEF BInv, Flags, Scan, Unlocked
<1>4. Numbers'
  BY <1>1, <1>2 DEF BInv, Numbers
<1>5. Pending'
  BY <1>1 DEF BInv, Pending, SentSeqs
<1>6. KeptWhileTrying'
  BY <1>1 DEF BInv, KeptWhileTrying, AckArray
<1>. QED  BY <1>2, <1>3, <1>4, <1>5, <1>6 DEF BInv

(* The re-send thread gives a packet up, with what it has read. *)
LEMMA RAckItB ==
  ASSUME BInv, RAckIt
  PROVE  BInv'
<1>1. /\ UNCHANGED <<shouldStop, mutex, ri, rseq, woken, tpc, sent, unpushed, unacked, gaveUp>>
      /\ AckArray(rseq) /\ rpc = "ackIt" /\ rpc' = "relock"
  BY DEF RAckIt, Resender
<1>2. tpc # "freed" /\ gaveUp
  BY <1>1 DEF BInv, Scan, Unlocked
<1>3. Owned' /\ count' \in 0 .. Size
  BY <1>1, <1>2, AckOwned
<1>4. Flags' /\ Scan'
  BY <1>1 DEF BInv, Flags, Scan, Unlocked
<1>5. Numbers'
  BY <1>1, <1>3 DEF BInv, Numbers
<1>6. Pending'
  BY <1>1 DEF BInv, Pending, SentSeqs
<1>7. KeptWhileTrying'
  BY <1>1, <1>2 DEF KeptWhileTrying
<1>. QED  BY <1>3, <1>4, <1>5, <1>6, <1>7 DEF BInv

(* The teardown. *)
LEMMA FiniB ==
  ASSUME BInv, Fini
  PROVE  BInv'
<1>1. CASE FiniSetStop \/ FiniSignal
  <2>1. /\ UNCHANGED <<packets, count, mutex, rpc, ri, rseq, sent, unpushed, live, unacked, gaveUp>>
        /\ tpc # "freed" /\ tpc' \in {"stopSet", "joining"}
        /\ (shouldStop' = TRUE \/ shouldStop' = shouldStop)
        /\ (woken' = woken \/ woken' = (woken \/ Asleep))
    BY <1>1 DEF FiniSetStop, FiniSignal, array, resender, history
  <2>2. Pending' /\ Owned' /\ KeptWhileTrying'
    BY <2>1, QuietStep
  <2>3. Flags'
    BY <2>1 DEF BInv, Flags, Asleep
  <2>4. Numbers' /\ Scan'
    BY <2>1 DEF BInv, Numbers, Scan, Unlocked
  <2>. QED  BY <2>2, <2>3, <2>4 DEF BInv
<1>2. CASE FiniJoin
  <2>1. /\ UNCHANGED <<packets, count, shouldStop, mutex, rpc, ri, rseq, woken, sent, unpushed, unacked, gaveUp>>
        /\ tpc = "joining" /\ rpc = "done" /\ tpc' = "freed" /\ live' = live \ Held
    BY <1>2 DEF FiniJoin, array, resender
  <2>2. Flags' /\ Numbers' /\ Scan' /\ KeptWhileTrying'
    BY <2>1 DEF BInv, Flags, Numbers, Scan, KeptWhileTrying, Unlocked
  <2>3. Pending' /\ Owned'
    BY <2>1 DEF BInv, Pending, Owned, SentSeqs, Distinct
  <2>. QED  BY <2>2, <2>3 DEF BInv
<1>. QED  BY <1>1, <1>2 DEF Fini

(* The steps of the re-send thread that leave the packets alone.            *)
LEMMA WaitB ==
  ASSUME BInv, RLock \/ RTop \/ RSleep \/ RWake \/ RTimeout \/ RRefused \/ RScanEnd
               \/ RGiveUp \/ RReadSeq \/ RRelock
  PROVE  BInv'
<1>1. CASE RLock \/ RTop \/ RSleep \/ RWake \/ RTimeout \/ RRefused \/ RScanEnd
  <2>1. /\ UNCHANGED <<packets, count, shouldStop, ri, rseq, tpc, sent, unpushed, live, unacked, gaveUp>>
        /\ rpc # "done" /\ rpc' \in {"top", "toTimed", "toUntimed", "timed", "untimed", "after", "done"}
        /\ mutex' \in {mutex, "free", "resend"} /\ woken' \in {woken, FALSE}
    BY <1>1 DEF RLock, RTop, RSleep, RWake, RTimeout, RRefused, RScanEnd, Resender, Asleep, array, history
  <2>2. Pending' /\ Owned' /\ KeptWhileTrying'
    BY <2>1, QuietStep
  <2>3. Flags'
    BY <2>1 DEF BInv, Flags
  <2>4. Numbers' /\ Scan'
    BY <2>1 DEF BInv, Numbers, Scan, Unlocked
  <2>. QED  BY <2>2, <2>3, <2>4 DEF BInv
<1>2. CASE RGiveUp
  <2>1. /\ UNCHANGED <<packets, count, shouldStop, ri, rseq, woken, tpc, sent, unpushed, live, unacked>>
        /\ rpc = "scan" /\ rpc' = "giveUp" /\ ri < count /\ gaveUp' = TRUE /\ mutex' = "free"
    BY <1>2 DEF RGiveUp, Resender, array
  <2>2. Flags' /\ Numbers' /\ Pending' /\ Owned' /\ KeptWhileTrying'
    BY <2>1 DEF BInv, Flags, Numbers, Pending, Owned, KeptWhileTrying, SentSeqs, Held, Distinct
  <2>3. Scan'
    BY <2>1, Sizes DEF BInv, Numbers, Scan
  <2>. QED  BY <2>2, <2>3 DEF BInv
<1>3. CASE RReadSeq
  <2>1. /\ UNCHANGED <<packets, count, shouldStop, mutex, ri, woken, tpc, sent, unpushed, live, unacked, gaveUp>>
        /\ rpc = "giveUp" /\ rpc' = "ackIt" /\ rseq' = packets[ri].seq
    BY <1>3 DEF RReadSeq, Resender, array, history
  <2>2. Pending' /\ Owned' /\ KeptWhileTrying'
    BY <2>1, QuietStep
  <2>3. ri \in Slots
    BY <2>1, Sizes DEF BInv, Numbers, Scan, Unlocked, Slots
  <2>4. packets[ri].seq \in SeqNums
    BY <2>3 DEF BInv, Owned, Array, Entry
  <2>5. Flags' /\ Numbers' /\ Scan'
    BY <2>1, <2>4 DEF BInv, Flags, Numbers, Scan, Unlocked
  <2>. QED  BY <2>2, <2>5 DEF BInv
<1>4. CASE RRelock
  <2>1. /\ UNCHANGED <<packets, count, shouldStop, rseq, woken, tpc, sent, unpushed, live, unacked, gaveUp>>
        /\ rpc = "relock" /\ rpc' = "scan" /\ mutex' = "resend"
        /\ ri' = IF ri > 0 THEN ri ELSE 1
    BY <1>4 DEF RRelock, Resender, array, history
  <2>2. Pending' /\ Owned' /\ KeptWhileTrying'
    BY <2>1, QuietStep
  <2>3. ri' \in 0 .. Size
    BY <2>1, Sizes DEF BInv, Numbers
  <2>4. Flags' /\ Numbers' /\ Scan'
    BY <2>1, <2>3 DEF BInv, Flags, Numbers, Scan, Unlocked
  <2>. QED  BY <2>2, <2>4 DEF BInv
<1>. QED  BY <1>1, <1>2, <1>3, <1>4

(* Steps that change the retry state of entries and not their numbers.      *)
LEMMA SameSeqs ==
  ASSUME BInv, packets' \in Array,
         \A i \in 0 .. count - 1 : packets'[i].seq = packets[i].seq,
         UNCHANGED <<count, tpc, sent, unpushed, live, unacked, gaveUp>>
  PROVE  Pending' /\ Owned' /\ KeptWhileTrying'
<1>1. Held' = Held
  BY DEF Held
<1>2. Distinct(packets, count)'
  BY DEF BInv, Owned, Distinct
<1>. QED  BY <1>1, <1>2 DEF BInv, Pending, Owned, KeptWhileTrying, SentSeqs

(* Two fields of an entry replaced. *)
LEMMA Retried ==
  ASSUME NEW q \in Entry, NEW n, NEW l
  PROVE  [[q EXCEPT !.tries = n] EXCEPT !.last = l] = [seq |-> q.seq, tries |-> n, last |-> l]
<1> DEFINE u == [q EXCEPT !.tries = n]
<1>1. u = [seq |-> q.seq, tries |-> n, last |-> q.last]
  BY DEF Entry
<1> HIDE DEF u
<1>2. [u EXCEPT !.last = l] = [seq |-> q.seq, tries |-> n, last |-> l]
  BY <1>1
<1>. QED  BY <1>2 DEF u

(* The retry state of the entries changes. *)
LEMMA RetryB ==
  ASSUME BInv, RAfter \/ RScanPacket \/ \E i \in Slots : Age(i)
  PROVE  BInv'
<1>0. /\ count \in Nat /\ count <= Size /\ Size \in Nat /\ ri \in Nat
      /\ packets \in Array /\ \A i \in 0 .. count - 1 : i \in Slots
  BY Sizes DEF BInv, Numbers, Owned, Slots
<1>1. CASE RAfter
  <2>1. /\ UNCHANGED <<count, shouldStop, rseq, woken, tpc, sent, unpushed, live, unacked, gaveUp>>
        /\ rpc = "after" /\ rpc' \in {"done", "scan"} /\ mutex' \in {"free", mutex} /\ ri' = 0
        /\ packets' = [i \in Slots |-> [packets[i] EXCEPT !.last = IF @ = "ahead" THEN "recent" ELSE @]]
    BY <1>1 DEF RAfter, Resender, history
  <2>2. packets' \in Array /\ \A i \in Slots : packets'[i].seq = packets[i].seq
    BY <1>0, <2>1 DEF Array, Entry
  <2>3. Pending' /\ Owned' /\ KeptWhileTrying'
    BY <1>0, <2>1, <2>2, SameSeqs
  <2>4. Flags' /\ Numbers' /\ Scan'
    BY <1>0, <2>1 DEF BInv, Flags, Numbers, Scan, Unlocked
  <2>. QED  BY <2>3, <2>4 DEF BInv
<1>2. CASE RScanPacket
  <2>1. /\ UNCHANGED <<count, shouldStop, mutex, rseq, woken, tpc, sent, unpushed, live, unacked, gaveUp>>
        /\ rpc = "scan" /\ rpc' = "scan" /\ ri < count /\ ri' = ri + 1
        /\ \/ packets' = packets
           \/ /\ packets[ri].tries < MaxTries
              /\ packets' = [packets EXCEPT ![ri].tries = @ + 1, ![ri].last = "recent"]
    BY <1>2 DEF RScanPacket, Resender, history
  <2>2. packets' \in Array /\ \A i \in Slots : packets'[i].seq = packets[i].seq
    <3>1. CASE packets' = packets
      BY <1>0, <3>1
    <3>2. CASE packets[ri].tries < MaxTries
               /\ packets' = [packets EXCEPT ![ri].tries = @ + 1, ![ri].last = "recent"]
      <4>1. ri \in Slots
        BY <1>0, <2>1 DEF Slots
      <4> DEFINE e == [seq |-> packets[ri].seq, tries |-> packets[ri].tries + 1, last |-> "recent"]
      <4>2. packets[ri] \in Entry /\ e \in Entry
        BY <1>0, <3>2, <4>1, Sizes DEF Array, Entry
      <4>3. packets' = [packets EXCEPT ![ri] = e]
        <5>1. packets' = [packets EXCEPT ![ri] =
                            [[packets[ri] EXCEPT !.tries = packets[ri].tries + 1] EXCEPT !.last = "recent"]]
          BY <1>0, <3>2, <4>1 DEF Array
        <5>2. [[packets[ri] EXCEPT !.tries = packets[ri].tries + 1] EXCEPT !.last = "recent"] = e
          BY <4>2, Retried
        <5>. QED  BY <5>1, <5>2
      <4> HIDE DEF e
      <4>4. e.seq = packets[ri].seq
        BY DEF e
      <4>. QED  BY <1>0, <4>1, <4>2, <4>3, <4>4 DEF Array
    <3>. QED  BY <2>1, <3>1, <3>2
  <2>3. Pending' /\ Owned' /\ KeptWhileTrying'
    BY <1>0, <2>1, <2>2, SameSeqs
  <2>4. Flags' /\ Numbers' /\ Scan'
    BY <1>0, <2>1 DEF BInv, Flags, Numbers, Scan, Unlocked
  <2>. QED  BY <2>3, <2>4 DEF BInv
<1>3. CASE \E i \in Slots : Age(i)
  <2>1. PICK i \in Slots : Age(i)
    BY <1>3
  <2>2. /\ UNCHANGED <<count, shouldStop, mutex, rpc, ri, rseq, woken, tpc, sent, unpushed, live, unacked, gaveUp>>
        /\ packets' = [packets EXCEPT ![i].last = "old"]
    BY <2>1 DEF Age, resender, history
  <2>3. packets' \in Array /\ \A j \in Slots : packets'[j].seq = packets[j].seq
    BY <1>0, <2>2 DEF Array, Entry
  <2>4. Pending' /\ Owned' /\ KeptWhileTrying'
    BY <1>0, <2>2, <2>3, SameSeqs
  <2>5. Flags' /\ Numbers' /\ Scan'
    BY <2>2 DEF BInv, Flags, Numbers, Scan, Unlocked
  <2>. QED  BY <2>4, <2>5 DEF BInv
<1>. QED  BY <1>1, <1>2, <1>3

(* Every step keeps the invariant. *)
LEMMA StepB == BInv /\ [Next]_vars => BInv'
<1> SUFFICES ASSUME BInv, [Next]_vars PROVE BInv'
  OBVIOUS
<1>1. CASE UNCHANGED vars
  <2>1. Pending' /\ Owned' /\ KeptWhileTrying'
    BY <1>1, QuietStep DEF vars
  <2>2. Flags' /\ Numbers' /\ Scan'
    BY <1>1 DEF vars, BInv, Flags, Numbers, Scan, Unlocked
  <2>. QED  BY <2>1, <2>2 DEF BInv
<1>2. CASE ResendThread
  BY <1>2, WaitB, RAckItB, RetryB DEF ResendThread
<1>3. CASE Next /\ ~ResendThread
  BY <1>3, SendB, PushB, AckB, FiniB, RetryB DEF Next
<1>. QED  BY <1>1, <1>2, <1>3

(* The invariant says what the runs check. *)
LEMMA BImplies == BInv => TypeOK /\ BufferKept
<1> SUFFICES ASSUME BInv PROVE TypeOK /\ BufferKept
  OBVIOUS
<1>1. TypeOK
  BY DEF BInv, TypeOK, Flags, Numbers, Pending, Owned, Array, Entry
<1>2. Cardinality(Held) = count
  BY HeldCount DEF BInv, Numbers, Owned
<1>3. OwnedOnce
  BY <1>2 DEF BInv, Owned, OwnedOnce
<1>. QED  BY <1>1, <1>3 DEF BInv, BufferKept

(* The invariant holds throughout. *)
LEMMA AlwaysB == Spec => []BInv
BY InitB, StepB, PTL DEF Spec

(* Type correctness: the compaction never leaves the array, and the index   *)
(* with which the re-send thread reads a slot outside the mutex names one.  *)
THEOREM TypeCorrect == Spec => []TypeOK
BY AlwaysB, BImplies, PTL

(* Whatever is pushed, acknowledged, given up and torn down in whatever     *)
(* order, the memory of every packet has one owner, no packet is in the     *)
(* array twice, and what the console has not acknowledged is still there    *)
(* until a packet exhausts its tries (chiaki_takion_send_buffer_push,       *)
(* chiaki_takion_send_buffer_ack, takion_send_buffer_resend).               *)
THEOREM PacketsKept == Spec => []BufferKept
BY AlwaysB, BImplies, PTL
=============================================================================
