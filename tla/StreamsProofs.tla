---------------------------- MODULE StreamsProofs ----------------------------
(***************************************************************************)
(* Proofs about what the packets of a stream go through, for every number  *)
(* of slots, units, references and threads, in this order: wrapped numbers *)
(* less than half the space apart keep their order (SeqOrder), the reorder *)
(* queue keeps its promises (Invariant, Refinement), the senders share one *)
(* key stream (SendCorrect), the video receiver hands on whole frames and  *)
(* tells the console of the others (FramesHold); sound (AudioHolds),       *)
(* messages (MessagesHold), the controller state (InputHolds) and the ctrl *)
(* connection (CtrlHolds) keep their parts of UnitsSound, which is         *)
(* UnitsHold.                                                              *)
(***************************************************************************)
EXTENDS Streams, WellFoundedInduction, FiniteSetTheorems, SequenceTheorems, TLAPS

-----------------------------------------------------------------------------
(* Remainders and serial numbers, for every sequence space: numbers less    *)
(* than half the space apart are ordered by their wrapped forms exactly as  *)
(* they are by themselves.  First the induction on naturals that the proofs *)
(* about loops rest on.                                                     *)

(* Every set of naturals that is not empty has a least element. *)
LEMMA LeastNat ==
  ASSUME NEW T, T \subseteq Nat, T # {}
  PROVE  \E x \in T : \A y \in T : x <= y
<1> DEFINE R == {ss \in Nat \X Nat : ss[1] < ss[2]}
<1>1. IsWellFoundedOn(R, Nat)
  BY NatLessThanWellFounded DEF OpToRel
<1> HIDE DEF R
<1>2. PICK x \in T : \A y \in T : <<y, x>> \notin R
  BY <1>1, WFMin
<1>3. \A y \in T : y < x => <<y, x>> \in R
  BY DEF R
<1>4. ASSUME NEW y \in T PROVE x <= y
  <2>1. ~(y < x)
    BY <1>2, <1>3
  <2>. QED  BY <2>1
<1>. QED  BY <1>4

(* Induction on a set: the library's theorem takes the formula as an        *)
(* operator, which the provers cannot instantiate.                          *)
LEMMA SetInduction ==
  ASSUME NEW S, 0 \in S, \A n \in Nat : n \in S => n + 1 \in S
  PROVE  Nat \subseteq S
<1> SUFFICES ASSUME NEW m \in Nat, m \notin S PROVE FALSE
  OBVIOUS
<1> DEFINE T == Nat \ S
<1>1. PICK x \in T : \A y \in T : x <= y
  <2>1. T \subseteq Nat /\ T # {}
    OBVIOUS
  <2> HIDE DEF T
  <2>. QED  BY <2>1, LeastNat
<1>2. x # 0 /\ x \in Nat
  OBVIOUS
<1>3. x - 1 \in Nat /\ x - 1 \notin T
  BY <1>1, <1>2
<1>4. x - 1 \in S
  BY <1>3
<1>. QED  BY <1>2, <1>3, <1>4

(* The function that a loop of n turns computes from its first value c: the *)
(* recursive definition has a solution.                                     *)
Loops(g, V, c, turn, n) ==
  g \in [0 .. n -> V] /\ g[0] = c /\ \A i \in 1 .. n : g[i] = turn[<<i, g[i - 1]>>]
LEMMA LoopFunction ==
  ASSUME NEW V, NEW c \in V, NEW turn \in [Nat \X V -> V], NEW n \in Nat
  PROVE  \E g : Loops(g, V, c, turn, n)
<1> DEFINE Solves(g, m) ==
             g \in [0 .. m -> V] /\ g[0] = c /\ \A i \in 1 .. m : g[i] = turn[<<i, g[i - 1]>>]
           S == { m \in Nat : \E g : Solves(g, m) }
<1>1. 0 \in S
  <2>1. Solves([i \in 0 .. 0 |-> c], 0)
    OBVIOUS
  <2>. QED  BY <2>1
<1>2. ASSUME NEW m \in Nat, m \in S PROVE m + 1 \in S
  <2>1. PICK g : Solves(g, m)
    BY <1>2
  <2> DEFINE x == turn[<<m + 1, g[m]>>]
             h == [i \in 0 .. m + 1 |-> IF i = m + 1 THEN x ELSE g[i]]
  <2>2. g[m] \in V /\ x \in V
    BY <2>1
  <2> HIDE DEF x
  <2>3. h \in [0 .. m + 1 -> V] /\ h[0] = c /\ h[m + 1] = x /\ \A i \in 0 .. m : h[i] = g[i]
    BY <2>1, <2>2
  <2> HIDE DEF h
  <2>4. ASSUME NEW i \in 1 .. m + 1 PROVE h[i] = turn[<<i, h[i - 1]>>]
    <3>1. CASE i = m + 1
      <4>1. i - 1 = m /\ h[m] = g[m]
        BY <2>3, <3>1
      <4>. QED  BY <2>3, <3>1, <4>1 DEF x
    <3>2. CASE i # m + 1
      <4>1. i \in 1 .. m /\ i \in 0 .. m /\ i - 1 \in 0 .. m
        BY <3>2
      <4>2. g[i] = turn[<<i, g[i - 1]>>]
        BY <2>1, <4>1
      <4>. QED  BY <2>3, <4>1, <4>2
    <3>. QED  BY <3>1, <3>2
  <2>. QED  BY <2>3, <2>4
<1>3. n \in S
  <2> HIDE DEF S
  <2>. QED  BY <1>1, <1>2, SetInduction
<1>. QED  BY <1>3 DEF Loops

(* The quotient and the remainder of a division. *)
LEMMA DivMod ==
  ASSUME NEW a \in Int, NEW b \in Nat \ {0}
  PROVE  /\ a \div b \in Int
         /\ a % b \in 0 .. b - 1
         /\ a = (a \div b) * b + (a % b)
OBVIOUS

(* Distinct multiples of b are at least b apart. *)
LEMMA MultipleGap ==
  ASSUME NEW p \in Int, NEW q \in Int, NEW b \in Nat \ {0}, p < q
  PROVE  p * b + b <= q * b
<1>1. PICK d \in Nat : q = p + 1 + d
  <2>1. q - p - 1 \in Nat
    OBVIOUS
  <2>. QED  BY <2>1
<1>2. q * b = p * b + b + d * b
  BY <1>1
<1>3. d * b >= 0
  BY <1>1
<1>. QED  BY <1>2, <1>3

(* The remainder is the only number of its range that differs from a by a   *)
(* multiple of b.                                                           *)
LEMMA RemainderUnique ==
  ASSUME NEW a \in Int, NEW b \in Nat \ {0},
         NEW q \in Int, NEW r \in 0 .. b - 1, a = q * b + r
  PROVE  a % b = r /\ a \div b = q
<1> DEFINE q2 == a \div b
           r2 == a % b
<1>1. q2 \in Int /\ r2 \in 0 .. b - 1 /\ a = q2 * b + r2
  BY DivMod
<1> HIDE DEF q2, r2
<1>2. CASE q = q2
  BY <1>1, <1>2 DEF r2, q2
<1>3. CASE q2 < q
  <2>1. q2 * b + b <= q * b
    BY <1>1, <1>3, MultipleGap
  <2>. QED  BY <1>1, <2>1
<1>4. CASE q < q2
  <2>1. q * b + b <= q2 * b
    BY <1>1, <1>4, MultipleGap
  <2>. QED  BY <1>1, <2>1
<1>. QED  BY <1>1, <1>2, <1>3, <1>4

(* Adding a multiple of b changes no remainder. *)
LEMMA RemainderShift ==
  ASSUME NEW a \in Int, NEW b \in Nat \ {0}, NEW k \in Int
  PROVE  (a + k * b) % b = a % b
<1> DEFINE q == a \div b
           r == a % b
<1>1. q \in Int /\ r \in 0 .. b - 1 /\ a = q * b + r
  BY DivMod
<1> HIDE DEF q, r
<1>2. a + k * b = (q + k) * b + r /\ q + k \in Int /\ a + k * b \in Int
  BY <1>1
<1>3. (a + k * b) % b = r
  BY <1>1, <1>2, RemainderUnique
<1>. QED  BY <1>3 DEF r

(* A sum may be reduced before or after the addition. *)
LEMMA RemainderSum ==
  ASSUME NEW a \in Int, NEW c \in Int, NEW b \in Nat \ {0}
  PROVE  ((a % b) + c) % b = (a + c) % b
<1> DEFINE q == a \div b
           r == a % b
<1>1. q \in Int /\ r \in 0 .. b - 1 /\ a = q * b + r
  BY DivMod
<1> HIDE DEF q, r
<1>2. PICK s \in Int : s = r + c
  BY <1>1
<1>3. (s + q * b) % b = s % b
  BY <1>1, RemainderShift
<1>4. s + q * b = a + c
  BY <1>1, <1>2
<1>. QED  BY <1>2, <1>3, <1>4 DEF r

(* Reducing modulo a multiple of b first does not change the remainder. *)
LEMMA RemainderNested ==
  ASSUME NEW a \in Int, NEW b \in Nat \ {0}, NEW m \in Nat \ {0}, m % b = 0
  PROVE  (a % m) % b = a % b
<1> DEFINE q == a \div m
           r == a % m
           k == m \div b
<1>1. q \in Int /\ r \in 0 .. m - 1 /\ a = q * m + r
  BY DivMod
<1>2. k \in Int /\ m = k * b
  BY DivMod
<1> HIDE DEF q, r, k
<1>3. q * m = (q * k) * b /\ q * k \in Int
  BY <1>1, <1>2
<1>4. a = r + (q * k) * b /\ r \in Int
  BY <1>1, <1>3
<1>5. a % b = r % b
  BY <1>3, <1>4, RemainderShift
<1>. QED  BY <1>5 DEF r

(* Numbers less than b apart have the same remainder only if they are equal.*)
LEMMA RemainderInjective ==
  ASSUME NEW a \in Int, NEW c \in Int, NEW b \in Nat \ {0},
         a - c < b, c - a < b, a % b = c % b
  PROVE  a = c
<1> DEFINE q == a \div b
           p == c \div b
           r == a % b
<1>1. q \in Int /\ p \in Int /\ r \in 0 .. b - 1 /\ a = q * b + r /\ c = p * b + r
  BY DivMod
<1> HIDE DEF q, p, r
<1>2. CASE p < q
  <2>1. p * b + b <= q * b
    BY <1>1, <1>2, MultipleGap
  <2>. QED  BY <1>1, <2>1
<1>3. CASE q < p
  <2>1. q * b + b <= p * b
    BY <1>1, <1>3, MultipleGap
  <2>. QED  BY <1>1, <2>1
<1>4. CASE p = q
  BY <1>1, <1>4
<1>. QED  BY <1>1, <1>2, <1>3, <1>4

(* The distance of numbers less than b apart is that of their remainders.   *)
LEMMA RemainderDistance ==
  ASSUME NEW n \in Int, NEW m \in Int, NEW b \in Nat \ {0}, 0 <= n - m, n - m < b
  PROVE  ((n % b) - (m % b)) % b = n - m
<1> DEFINE w == m % b
           q == m \div b
<1>1. w \in Int /\ q \in Int /\ m = q * b + w
  BY DivMod
<1> HIDE DEF w, q
<1>2. ((n % b) - w) % b = (n - w) % b
  <2>1. PICK c \in Int : c = 0 - w
    BY <1>1
  <2>2. ((n % b) + c) % b = (n + c) % b
    BY <2>1, RemainderSum
  <2>3. n % b \in Int
    BY DivMod
  <2>4. (n % b) + c = (n % b) - w /\ n + c = n - w
    BY <1>1, <2>1, <2>3
  <2>. QED  BY <2>2, <2>4
<1>3. (n - w) % b = n - m
  <2>1. n - w = q * b + (n - m) /\ n - w \in Int
    BY <1>1
  <2>2. n - m \in 0 .. b - 1
    OBVIOUS
  <2>. QED  BY <1>1, <2>1, <2>2, RemainderUnique
<1>. QED  BY <1>2, <1>3 DEF w

(* The comparisons of seqnum.h on the remainders of numbers that are less   *)
(* than half the space apart are comparisons of the numbers.                *)
LEMMA RemainderOrder ==
  ASSUME NEW n \in Int, NEW m \in Int, NEW h \in Nat \ {0}, n - m < h, m - n < h
  PROVE  LET a == n % (h + h)
             b == m % (h + h)
         IN  /\ a = b <=> n = m
             /\ (a < b /\ b - a < h) \/ (a > b /\ a - b > h) <=> n < m
             /\ (a < b /\ b - a > h) \/ (a > b /\ a - b < h) <=> n > m
<1> DEFINE M == h + h
           a == n % M
           b == m % M
<1> DEFINE q == n \div M
           p == m \div M
<1>1. M \in Nat \ {0} /\ M = h + h /\ h \in Nat
  OBVIOUS
<1> HIDE DEF M
<1>2. /\ q \in Int /\ p \in Int
      /\ a \in 0 .. M - 1 /\ b \in 0 .. M - 1
      /\ n = q * M + a /\ m = p * M + b
  BY <1>1, DivMod
<1> HIDE DEF a, b, q, p, M
<1>3. \/ q = p /\ n - m = a - b
      \/ q = p + 1 /\ n - m = a - b + M
      \/ p = q + 1 /\ n - m = a - b - M
  <2>1. CASE q = p
    BY <1>1, <1>2, <2>1
  <2>2. CASE q = p + 1
    <3>1. q * M = p * M + M
      BY <1>1, <1>2, <2>2
    <3>. QED  BY <1>1, <1>2, <2>2, <3>1
  <2>3. CASE p = q + 1
    <3>1. p * M = q * M + M
      BY <1>1, <1>2, <2>3
    <3>. QED  BY <1>1, <1>2, <2>3, <3>1
  <2>4. CASE p + 1 < q
    <3>1. (p + 1) * M + M <= q * M
      BY <1>1, <1>2, <2>4, MultipleGap
    <3>2. (p + 1) * M = p * M + M
      BY <1>1, <1>2
    <3>. QED  BY <1>1, <1>2, <3>1, <3>2
  <2>5. CASE q + 1 < p
    <3>1. (q + 1) * M + M <= p * M
      BY <1>1, <1>2, <2>5, MultipleGap
    <3>2. (q + 1) * M = q * M + M
      BY <1>1, <1>2
    <3>. QED  BY <1>1, <1>2, <3>1, <3>2
  <2>. QED  BY <1>1, <1>2, <2>1, <2>2, <2>3, <2>4, <2>5
<1>4. /\ a = b <=> n = m
      /\ (a < b /\ b - a < h) \/ (a > b /\ a - b > h) <=> n < m
      /\ (a < b /\ b - a > h) \/ (a > b /\ a - b < h) <=> n > m
  BY <1>1, <1>2, <1>3
<1>. QED  BY <1>4 DEF a, b, M

-----------------------------------------------------------------------------
(* The size of the number space. *)
LEMMA SeqModType == SeqMod \in Nat \ {0} /\ SeqMod = Half + Half
BY HalfAssumption DEF SeqMod

(* A wrapped number is a sequence number. *)
LEMMA WrapType ==
  ASSUME NEW n \in Int
  PROVE  Wrap(n) \in SeqNums
BY SeqModType, DivMod DEF Wrap, SeqNums

(* Advancing a wrapped number is wrapping the advanced number. *)
LEMMA WrapAdd ==
  ASSUME NEW n \in Int, NEW i \in Int
  PROVE  SeqAdd(Wrap(n), i) = Wrap(n + i)
BY SeqModType, RemainderSum DEF SeqAdd, Wrap

(* The distance between wrapped numbers is the distance of the numbers. *)
LEMMA WrapDistance ==
  ASSUME NEW n \in Int, NEW m \in Int, 0 <= n - m, n - m < SeqMod
  PROVE  (Wrap(n) - Wrap(m)) % SeqMod = n - m
BY SeqModType, RemainderDistance DEF Wrap

(* RFC 1982: for numbers less than half the space apart, the comparisons of *)
(* seqnum.h on the wrapped numbers are the comparisons of the numbers.      *)
THEOREM SeqOrder ==
  ASSUME NEW n \in Int, NEW m \in Int, n - m < Half, m - n < Half
  PROVE  /\ Wrap(n) = Wrap(m) <=> n = m
         /\ SeqLt(Wrap(n), Wrap(m)) <=> n < m
         /\ SeqGt(Wrap(n), Wrap(m)) <=> n > m
         /\ SeqGe(Wrap(n), Wrap(m)) <=> n >= m
<1> DEFINE a == Wrap(n)
           b == Wrap(m)
<1>1. a \in Int /\ b \in Int
  BY WrapType, SeqModType DEF SeqNums
<1>2. /\ a = b <=> n = m
      /\ (a < b /\ b - a < Half) \/ (a > b /\ a - b > Half) <=> n < m
      /\ (a < b /\ b - a > Half) \/ (a > b /\ a - b < Half) <=> n > m
  <2>1. SeqMod = Half + Half /\ Half \in Nat \ {0}
    BY SeqModType, HalfAssumption
  <2>2. a = n % (Half + Half) /\ b = m % (Half + Half)
    BY <2>1 DEF Wrap
  <2> HIDE DEF a, b
  <2>. QED  BY <2>1, <2>2, RemainderOrder
<1> HIDE DEF a, b
<1>3. (a = b <=> n = m) /\ (SeqLt(a, b) <=> n < m) /\ (SeqGt(a, b) <=> n > m)
  BY <1>2 DEF SeqLt, SeqGt
<1>4. SeqGe(a, b) <=> n >= m
  BY <1>3 DEF SeqGe
<1>. QED  BY <1>3, <1>4 DEF a, b

-----------------------------------------------------------------------------
(* The reorder queue.                                                       *)
(*                                                                          *)
(* The argument works on unwrapped numbers.  Lemmas first translate what    *)
(* the code computes from wrapped numbers (which slot, before or after,     *)
(* how far) into statements about pos and n; the inductive invariant IInv   *)
(* and every step of its proof then speak of unwrapped numbers only.        *)

(* The entry of the unwrapped number n. *)
Entry(n) == slot[n % Size]

(* Inductive invariant: the window in unwrapped numbers.  Alive and Owned   *)
(* together say that allocated packets and marked entries correspond one to *)
(* one, which neither says alone.                                           *)
WindowSync == begin = Wrap(pos) /\ count <= Size
InWindow(n) == n \in Nat /\ pos <= n /\ n < pos + count
Alive ==
  open => \A n \in Nat : InWindow(n) /\ Entry(n).set =>
            Entry(n).user \in Users /\ memory[Entry(n).user] = n
Owned ==
  \A u \in Users : memory[u] # Free =>
    /\ open /\ InWindow(memory[u])
    /\ Entry(memory[u]).set /\ Entry(memory[u]).user = u
IInv == TypeOK /\ WindowSync /\ Alive /\ Owned

(* The ring divides the number space, so wrapped numbers keep their slots. *)
LEMMA QueueSizes ==
  /\ Size \in Nat \ {0} /\ Half \in Nat \ {0} /\ Size < Half
  /\ SeqMod \in Nat \ {0} /\ SeqMod = Half + Half /\ SeqMod % Size = 0
BY SizeAssumption, HalfAssumption, SeqModType

(* The slot of a number. *)
LEMMA SlotOfWrap ==
  ASSUME NEW n \in Int
  PROVE  /\ Idx(Wrap(n)) = n % Size
         /\ n % Size \in 0 .. Size - 1
<1>1. (n % SeqMod) % Size = n % Size
  BY QueueSizes, RemainderNested
<1>2. n % Size \in 0 .. Size - 1
  BY QueueSizes, DivMod
<1>. QED  BY <1>1, <1>2 DEF Idx, Wrap

(* The slot at distance i of a number. *)
LEMMA SlotOfIndex ==
  ASSUME NEW p \in Int, NEW i \in Int
  PROVE  Idx(SeqAdd(Wrap(p), i)) = (p + i) % Size
<1>1. SeqAdd(Wrap(p), i) = Wrap(p + i) /\ p + i \in Int
  BY WrapAdd
<1>. QED  BY <1>1, SlotOfWrap

(* Numbers less than Size apart do not share a slot. *)
LEMMA SlotsDiffer ==
  ASSUME NEW n \in Int, NEW m \in Int, n # m, n - m < Size, m - n < Size
  PROVE  n % Size # m % Size
BY QueueSizes, RemainderInjective

(* What push finds out by comparing wrapped numbers. *)
LEMMA Compare ==
  ASSUME NEW n \in Int, NEW p \in Int, NEW c \in 0 .. Size,
         n - p < Half, p - n < Half
  PROVE  /\ SeqLt(Wrap(n), Wrap(p)) <=> n < p
         /\ SeqGe(Wrap(n), Wrap(p)) /\ SeqLt(Wrap(n), SeqAdd(Wrap(p), c))
              <=> p <= n /\ n < p + c
         /\ p <= n => (SeqLt(SeqAdd(Wrap(p), Size), SeqAdd(Wrap(n), 1)) <=> p + Size <= n)
<1>1. /\ SeqLt(Wrap(n), Wrap(p)) <=> n < p
      /\ SeqGe(Wrap(n), Wrap(p)) <=> n >= p
  BY SeqOrder
<1>2. SeqAdd(Wrap(p), c) = Wrap(p + c) /\ p + c \in Int
  BY QueueSizes, WrapAdd
<1>3. SeqAdd(Wrap(p), Size) = Wrap(p + Size) /\ p + Size \in Int
  BY QueueSizes, WrapAdd
<1>4. SeqAdd(Wrap(n), 1) = Wrap(n + 1) /\ n + 1 \in Int
  BY WrapAdd
<1>5. ASSUME p <= n
      PROVE  SeqLt(Wrap(n), Wrap(p + c)) <=> n < p + c
  <2>1. n - (p + c) < Half /\ (p + c) - n < Half
    BY <1>5, QueueSizes
  <2>. QED  BY <2>1, <1>2, SeqOrder
<1>6. ASSUME p <= n
      PROVE  SeqLt(Wrap(p + Size), Wrap(n + 1)) <=> p + Size <= n
  <2>1. (p + Size) - (n + 1) < Half /\ (n + 1) - (p + Size) < Half
    BY <1>6, QueueSizes
  <2>2. SeqLt(Wrap(p + Size), Wrap(n + 1)) <=> p + Size < n + 1
    BY <2>1, <1>3, <1>4, SeqOrder
  <2>. QED  BY <2>2, QueueSizes
<1>. QED  BY <1>1, <1>2, <1>3, <1>4, <1>5, <1>6

(* The same for the window of the current state. *)
LEMMA PushCases ==
  ASSUME TypeOK, WindowSync, NEW n \in Nat, Near(n)
  PROVE  /\ Inside(Wrap(n)) <=> InWindow(n)
         /\ Before(Wrap(n)) <=> n < pos
         /\ pos <= n => (Overflows(Wrap(n)) <=> pos + Size <= n)
<1>1. pos \in Nat /\ count \in 0 .. Size /\ begin = Wrap(pos) /\ n \in Int
  BY DEF TypeOK, WindowSync
<1>2. n - pos < Half /\ pos - n < Half
  BY <1>1, QueueSizes DEF Near
<1>3. /\ SeqLt(Wrap(n), Wrap(pos)) <=> n < pos
      /\ SeqGe(Wrap(n), Wrap(pos)) /\ SeqLt(Wrap(n), SeqAdd(Wrap(pos), count))
           <=> pos <= n /\ n < pos + count
      /\ pos <= n => (SeqLt(SeqAdd(Wrap(pos), Size), SeqAdd(Wrap(n), 1)) <=> pos + Size <= n)
  BY <1>1, <1>2, Compare
<1>4. InWindow(n) <=> pos <= n /\ n < pos + count
  BY <1>1 DEF InWindow
<1>. QED  BY <1>1, <1>3, <1>4 DEF Inside, Before, Overflows

(* Moving the end of a window of c numbers from p on up to n: the entries   *)
(* of the window stay, those between it and n are empty, n is stored.       *)
LEMMA ExtendedWindow ==
  ASSUME NEW p \in Int, NEW c \in 0 .. Size, NEW n \in Int, p + c <= n, n < p + Size,
         NEW u \in Users, Extended(Wrap(p), c, Wrap(n), u),
         slot \in [0 .. Size - 1 -> [set : BOOLEAN, user : Users \cup {NoUser}]]
  PROVE  /\ count' = n - p + 1
         /\ slot' \in [0 .. Size - 1 -> [set : BOOLEAN, user : Users \cup {NoUser}]]
         /\ Entry(n)' = [set |-> TRUE, user |-> u]
         /\ \A m \in Int : p <= m /\ m < p + c => Entry(m)' = Entry(m)
         /\ \A m \in Int : p + c <= m /\ m < n => ~Entry(m)'.set
<1> DEFINE fresh == { Idx(SeqAdd(Wrap(p), i)) : i \in c .. n - p }
<1>1. (Wrap(n) - Wrap(p)) % SeqMod = n - p
  BY QueueSizes, WrapDistance
<1>2. count' = n - p + 1
  BY <1>1 DEF Extended
<1>3. slot' = [i \in 0 .. Size - 1 |->
                 IF i = n % Size THEN [set |-> TRUE, user |-> u]
                 ELSE IF i \in fresh THEN [set |-> FALSE, user |-> slot[i].user]
                 ELSE slot[i]]
  <2>1. Idx(Wrap(n)) = n % Size
    BY SlotOfWrap
  <2>. QED  BY <1>1, <2>1 DEF Extended
<1>4. \A i \in c .. n - p : Idx(SeqAdd(Wrap(p), i)) = (p + i) % Size
  BY SlotOfIndex
<1>5. \A m \in Int : m % Size \in 0 .. Size - 1
  BY SlotOfWrap
<1>6. \A m \in Int : p + c <= m /\ m < n => m % Size \in fresh /\ m % Size # n % Size
  <2>. SUFFICES ASSUME NEW m \in Int, p + c <= m, m < n
                PROVE  m % Size \in fresh /\ m % Size # n % Size
    OBVIOUS
  <2>1. m - p \in c .. n - p /\ p + (m - p) = m
    OBVIOUS
  <2>2. m % Size = Idx(SeqAdd(Wrap(p), m - p))
    BY <2>1, SlotOfIndex
  <2>3. m # n /\ m - n < Size /\ n - m < Size
    BY QueueSizes
  <2>4. m % Size # n % Size
    BY <2>3, SlotsDiffer
  <2>. QED  BY <2>1, <2>2, <2>4
<1>7. \A m \in Int : p <= m /\ m < p + c => m % Size \notin fresh /\ m % Size # n % Size
  <2>. SUFFICES ASSUME NEW m \in Int, p <= m, m < p + c
                PROVE  m % Size \notin fresh /\ m % Size # n % Size
    OBVIOUS
  <2>1. ASSUME NEW i \in c .. n - p
        PROVE  m % Size # Idx(SeqAdd(Wrap(p), i))
    <3>1. p + i \in Int /\ p + i # m /\ (p + i) - m < Size /\ m - (p + i) < Size
      BY QueueSizes
    <3>. QED  BY <1>4, <3>1, SlotsDiffer
  <2>2. m # n /\ m - n < Size /\ n - m < Size
    BY QueueSizes
  <2>3. m % Size # n % Size
    BY <2>2, SlotsDiffer
  <2>. QED  BY <2>1, <2>3
<1> HIDE DEF fresh
<1>8. slot' \in [0 .. Size - 1 -> [set : BOOLEAN, user : Users \cup {NoUser}]]
  BY <1>3
<1>9. Entry(n)' = [set |-> TRUE, user |-> u]
  BY <1>3, <1>5 DEF Entry
<1>10. \A m \in Int : p <= m /\ m < p + c => Entry(m)' = Entry(m)
  BY <1>3, <1>5, <1>7 DEF Entry
<1>11. \A m \in Int : p + c <= m /\ m < n => ~Entry(m)'.set
  <2>. SUFFICES ASSUME NEW m \in Int, p + c <= m, m < n
                PROVE  ~Entry(m)'.set
    OBVIOUS
  <2>1. slot'[m % Size] = [set |-> FALSE, user |-> slot[m % Size].user]
    BY <1>3, <1>5, <1>6
  <2>. QED  BY <2>1 DEF Entry
<1>. QED  BY <1>2, <1>8, <1>9, <1>10, <1>11

-----------------------------------------------------------------------------
(* Every slot holds a flag and a packet or nothing. *)
LEMMA EntryType ==
  ASSUME TypeOK, NEW n \in Int
  PROVE  n % Size \in 0 .. Size - 1 /\ Entry(n) \in [set : BOOLEAN, user : Users \cup {NoUser}]
<1>1. n % Size \in 0 .. Size - 1
  BY SlotOfWrap
<1>. QED  BY <1>1 DEF TypeOK, Entry

SlotType == [0 .. Size - 1 -> [set : BOOLEAN, user : Users \cup {NoUser}]]

(* What a push that keeps its packet does: the window moves forward (or     *)
(* stays) to end at or after n, n is stored, what falls out of the window   *)
(* is freed, and every other entry of the new window is an old one.         *)
Stored(n, u) ==
  /\ pos' \in Nat /\ pos <= pos' /\ pos' <= n
  /\ count' \in 0 .. Size /\ n < pos' + count'
  /\ begin' = Wrap(pos')
  /\ open /\ open' = open /\ delivered' = delivered /\ dropBegin' = dropBegin
  /\ slot' \in SlotType
  /\ Entry(n)' = [set |-> TRUE, user |-> u]
  /\ memory' = [v \in Users |-> IF v = u THEN n
                                ELSE IF memory[v] < pos' THEN Free ELSE memory[v]]
OthersKept(n) ==
  /\ \A m \in Nat : m # n /\ InWindow(m)' /\ Entry(m)'.set => InWindow(m) /\ Entry(m)' = Entry(m)
  /\ \A m \in Nat : m # n /\ InWindow(m) /\ pos' <= m => InWindow(m)' /\ Entry(m)' = Entry(m)

New(n) == ~(InWindow(n) /\ Entry(n).set)

(* Storing a fresh number and leaving the others alone keeps the invariant. *)
LEMMA StoreStep ==
  ASSUME IInv, NEW n \in Nat, NEW u \in Users, memory[u] = Free,
         New(n), Stored(n, u), OthersKept(n)
  PROVE  IInv'
<1>1. TypeOK /\ memory \in [Users -> Nat \cup {Free}] /\ pos \in Nat
  BY DEF IInv, TypeOK
<1>2. TypeOK'
  <2>1. begin' \in SeqNums
    BY WrapType DEF Stored
  <2>2. memory' \in [Users -> Nat \cup {Free}]
    BY <1>1 DEF Stored
  <2>. QED  BY <1>1, <2>1, <2>2 DEF Stored, TypeOK, SlotType
<1>3. WindowSync'
  BY QueueSizes DEF WindowSync, Stored
<1>4. Alive'
  <2>. SUFFICES ASSUME NEW m \in Nat, InWindow(m)', Entry(m)'.set
                PROVE  Entry(m)'.user \in Users /\ memory'[Entry(m)'.user] = m
    BY DEF Alive, InWindow
  <2>1. CASE m = n
    BY <2>1 DEF Stored
  <2>2. CASE m # n
    <3>1. InWindow(m) /\ Entry(m)' = Entry(m)
      BY <2>2 DEF OthersKept
    <3>2. Entry(m).user \in Users /\ memory[Entry(m).user] = m
      BY <3>1 DEF IInv, Alive, Stored
    <3>3. Entry(m).user # u /\ ~(m < pos')
      BY <3>1, <3>2, <1>1 DEF Free, InWindow, Stored
    <3>. QED  BY <3>1, <3>2, <3>3 DEF Stored
  <2>. QED  BY <2>1, <2>2
<1>5. Owned'
  <2>. SUFFICES ASSUME NEW v \in Users, memory'[v] # Free
                PROVE  /\ open' /\ InWindow(memory[v])'
                       /\ Entry(memory[v])'.set /\ Entry(memory[v])'.user = v
    BY DEF Owned
  <2>1. CASE v = u
    <3>1. memory'[v] = n
      BY <2>1 DEF Stored
    <3>2. InWindow(n)'
      BY QueueSizes DEF InWindow, Stored
    <3>3. open' /\ Entry(n)'.set /\ Entry(n)'.user = v
      BY <2>1 DEF Stored
    <3>. QED  BY <3>1, <3>2, <3>3 DEF InWindow, Entry
  <2>2. CASE v # u
    <3>1. memory'[v] = memory[v] /\ memory[v] # Free /\ ~(memory[v] < pos')
      BY <2>2 DEF Stored
    <3>2. /\ InWindow(memory[v])
          /\ Entry(memory[v]).set /\ Entry(memory[v]).user = v
      BY <3>1 DEF IInv, Owned
    <3>3. memory[v] \in Nat /\ memory[v] # n /\ pos' <= memory[v]
      BY <1>1, <3>1, <3>2 DEF Stored, New
    <3>4. PICK m \in Nat : m = memory[v]
      BY <3>3
    <3>5. InWindow(m)' /\ Entry(m)' = Entry(m)
      BY <3>2, <3>3, <3>4 DEF OthersKept
    <3>6. open' /\ Entry(m)'.set /\ Entry(m)'.user = v
      BY <3>2, <3>4, <3>5 DEF Stored
    <3>. QED  BY <3>1, <3>4, <3>5, <3>6 DEF InWindow, Entry
  <2>. QED  BY <2>1, <2>2
<1>. QED  BY <1>2, <1>3, <1>4, <1>5 DEF IInv

-----------------------------------------------------------------------------
(* The actions preserve the invariant. *)

(* An allocated packet is one of the window. *)
LEMMA AllocatedInWindow ==
  ASSUME IInv, NEW v \in Users, memory[v] # Free
  PROVE  memory[v] \in Nat /\ InWindow(memory[v]) /\ ~(memory[v] < pos)
BY DEF IInv, TypeOK, Owned, InWindow

(* push, the number inside the window (reorderqueue.c:79-99). *)
LEMMA PushInsideStep ==
  ASSUME IInv, open, NEW n \in Nat, Near(n), NEW u \in Users, memory[u] = Free,
         PushInside(n, u)
  PROVE  New(n) /\ Stored(n, u) /\ OthersKept(n) /\ pos' = pos /\ n < pos + Size
<1>1. /\ TypeOK /\ WindowSync /\ pos \in Nat /\ slot \in SlotType
      /\ memory \in [Users -> Nat \cup {Free}] /\ count \in 0 .. Size
  BY DEF IInv, TypeOK, SlotType
<1>2. InWindow(n) /\ ~Entry(n).set
  BY <1>1, PushCases, SlotOfWrap DEF PushInside, Entry
<1>3. slot' = [slot EXCEPT ![n % Size] = [set |-> TRUE, user |-> u]] /\ n % Size \in 0 .. Size - 1
  <2>1. Idx(Wrap(n)) = n % Size /\ n % Size \in 0 .. Size - 1
    BY SlotOfWrap
  <2>. QED  BY <2>1 DEF PushInside
<1>4. pos' = pos /\ count' = count /\ begin' = begin /\ open' = open /\ delivered' = delivered /\ dropBegin' = dropBegin
  BY DEF PushInside
<1>5. Stored(n, u)
  <2>1. slot' \in SlotType /\ Entry(n)' = [set |-> TRUE, user |-> u]
    BY <1>1, <1>3 DEF SlotType, Entry
  <2>2. memory' = [v \in Users |-> IF v = u THEN n
                                  ELSE IF memory[v] < pos' THEN Free ELSE memory[v]]
    <3>1. memory' = [v \in Users |-> IF v = u THEN n ELSE memory[v]]
      BY <1>1 DEF PushInside
    <3>2. \A v \in Users : memory[v] < pos => memory[v] = Free
      BY AllocatedInWindow
    <3>. QED  BY <1>4, <3>1, <3>2
  <2>3. pos <= n /\ n < pos + count
    BY <1>2 DEF InWindow
  <2>. QED  BY <1>1, <1>4, <2>1, <2>2, <2>3 DEF Stored, WindowSync
<1>6. OthersKept(n)
  <2>1. ASSUME NEW m \in Nat, m # n, InWindow(m)
        PROVE  Entry(m)' = Entry(m)
    <3>1. m % Size # n % Size
      <4>1. m - n < Size /\ n - m < Size
        BY <1>1, <1>2, <2>1, QueueSizes DEF InWindow
      <4>. QED  BY <2>1, <4>1, SlotsDiffer
    <3>. QED  BY <1>1, <1>3, <3>1, SlotOfWrap DEF Entry, SlotType
  <2>2. \A m \in Nat : InWindow(m)' <=> InWindow(m)
    BY <1>4 DEF InWindow
  <2>. QED  BY <2>1, <2>2 DEF OthersKept
<1>7. n < pos + Size
  BY <1>1, <1>2, QueueSizes DEF InWindow
<1>. QED  BY <1>2, <1>4, <1>5, <1>6, <1>7 DEF New

(* Moving the end of a window that starts at p up to n stores n and keeps   *)
(* the c entries before it.                                                 *)
LEMMA ExtendStep ==
  ASSUME IInv, open, open' = open, delivered' = delivered, dropBegin' = dropBegin,
         NEW n \in Nat, NEW u \in Users, memory[u] = Free,
         NEW p \in Nat, NEW c \in 0 .. Size,
         pos <= p, pos + count <= p + c, c > 0 => p + c = pos + count,
         p + c <= n, n < p + Size,
         pos' = p, begin' = Wrap(p), Extended(Wrap(p), c, Wrap(n), u),
         memory' = [v \in Users |-> IF v = u THEN n
                                   ELSE IF memory[v] < p THEN Free ELSE memory[v]]
  PROVE  New(n) /\ Stored(n, u) /\ OthersKept(n)
<1>1. pos \in Nat /\ slot \in SlotType /\ count \in 0 .. Size
  BY DEF IInv, TypeOK, SlotType
<1>2. /\ count' = n - p + 1
      /\ slot' \in SlotType
      /\ Entry(n)' = [set |-> TRUE, user |-> u]
      /\ \A m \in Int : p <= m /\ m < p + c => Entry(m)' = Entry(m)
      /\ \A m \in Int : p + c <= m /\ m < n => ~Entry(m)'.set
  <2>. p \in Int /\ n \in Int
    OBVIOUS
  <2>. QED  BY <1>1, ExtendedWindow DEF SlotType
<1>3. Stored(n, u)
  BY <1>1, <1>2, QueueSizes DEF Stored
<1>4. OthersKept(n)
  <2>1. ASSUME NEW m \in Nat, m # n, InWindow(m)', Entry(m)'.set
        PROVE  InWindow(m) /\ Entry(m)' = Entry(m)
    <3>1. p <= m /\ m < n
      BY <1>2, <2>1 DEF InWindow
    <3>2. m < p + c
      BY <1>2, <2>1, <3>1
    <3>3. InWindow(m)
      BY <1>1, <3>1, <3>2 DEF InWindow
    <3>. QED  BY <1>2, <3>1, <3>2, <3>3
  <2>2. ASSUME NEW m \in Nat, m # n, InWindow(m), p <= m
        PROVE  InWindow(m)' /\ Entry(m)' = Entry(m)
    <3>1. m < p + c
      BY <1>1, <2>2 DEF InWindow
    <3>. QED  BY <1>2, <2>2, <3>1 DEF InWindow
  <2>. QED  BY <2>1, <2>2 DEF OthersKept
<1>5. ~InWindow(n)
  BY <1>1 DEF InWindow
<1>. QED  BY <1>3, <1>4, <1>5 DEF New

(* push, the number beyond the window and room for it (101-125). *)
LEMMA PushBeyondStep ==
  ASSUME IInv, open, NEW n \in Nat, Near(n), NEW u \in Users, memory[u] = Free,
         PushBeyond(n, u)
  PROVE  New(n) /\ Stored(n, u) /\ OthersKept(n) /\ pos' = pos /\ n < pos + Size
<1>1. /\ TypeOK /\ WindowSync /\ pos \in Nat /\ begin = Wrap(pos)
      /\ memory \in [Users -> Nat \cup {Free}] /\ count \in 0 .. Size
  BY DEF IInv, TypeOK, WindowSync
<1>2. pos + count <= n /\ n < pos + Size
  <2>1. ~InWindow(n) /\ ~(n < pos) /\ (pos <= n => ~(pos + Size <= n))
    BY <1>1, PushCases DEF PushBeyond
  <2>. QED  BY <1>1, <2>1, QueueSizes DEF InWindow
<1>3. /\ pos' = pos /\ begin' = Wrap(pos) /\ open' = open /\ delivered' = delivered /\ dropBegin' = dropBegin
      /\ Extended(Wrap(pos), count, Wrap(n), u)
  BY <1>1 DEF PushBeyond
<1>4. memory' = [v \in Users |-> IF v = u THEN n
                                ELSE IF memory[v] < pos THEN Free ELSE memory[v]]
  <2>1. memory' = [v \in Users |-> IF v = u THEN n ELSE memory[v]]
    BY <1>1 DEF PushBeyond
  <2>2. \A v \in Users : memory[v] < pos => memory[v] = Free
    BY AllocatedInWindow
  <2>. QED  BY <2>1, <2>2
<1>. QED  BY <1>1, <1>2, <1>3, <1>4, ExtendStep

(* The entry of index i of the queue is that of number pos + i. *)
LEMMA EntryOfIndex ==
  ASSUME WindowSync, pos \in Nat, NEW i \in Int
  PROVE  slot[SlotAt(i)] = Entry(pos + i)
<1>1. begin = Wrap(pos) /\ pos \in Int
  BY DEF WindowSync
<1>2. Idx(SeqAdd(Wrap(pos), i)) = (pos + i) % Size
  BY <1>1, SlotOfIndex
<1>. QED  BY <1>1, <1>2 DEF SlotAt, Entry

(* push, the number beyond the window, begin moved up (105-112). *)
LEMMA PushEvictingStep ==
  ASSUME IInv, open, NEW n \in Nat, Near(n), NEW u \in Users, memory[u] = Free,
         PushEvicting(n, u)
  PROVE  /\ New(n) /\ Stored(n, u) /\ OthersKept(n)
         /\ dropBegin /\ pos < pos' /\ pos + Size <= n /\ n \in {pos' + Size - 1, pos'}
<1> DEFINE excess == (n + 1) - (pos + Size)
           k == IF excess < count THEN excess ELSE count
           p == IF k = count THEN n ELSE pos + k
           evicted == { slot[SlotAt(i)].user : i \in { j \in 0 .. k - 1 : slot[SlotAt(j)].set } }
<1>1. /\ TypeOK /\ WindowSync /\ pos \in Nat /\ begin = Wrap(pos)
      /\ memory \in [Users -> Nat \cup {Free}] /\ count \in 0 .. Size
  BY DEF IInv, TypeOK, WindowSync
<1>2. pos + Size <= n /\ n - pos < Half
  <2>1. ~(n < pos) /\ (pos <= n => pos + Size <= n)
    BY <1>1, PushCases DEF PushEvicting
  <2>. QED  BY <1>1, <2>1, QueueSizes DEF Near
<1> HIDE DEF evicted, p, k
<1>3. (SeqAdd(Wrap(n), 1) - SeqAdd(Wrap(pos), Size)) % SeqMod = excess
  <2>1. SeqAdd(Wrap(n), 1) = Wrap(n + 1) /\ SeqAdd(Wrap(pos), Size) = Wrap(pos + Size)
    <3>1. n \in Int /\ pos \in Int /\ Size \in Int /\ 1 \in Int
      BY <1>1, QueueSizes
    <3>2. SeqAdd(Wrap(n), 1) = Wrap(n + 1)
      BY <3>1, WrapAdd
    <3>3. SeqAdd(Wrap(pos), Size) = Wrap(pos + Size)
      BY <3>1, WrapAdd
    <3>. QED  BY <3>2, <3>3
  <2>2. 0 <= (n + 1) - (pos + Size) /\ (n + 1) - (pos + Size) < SeqMod
    BY <1>1, <1>2, QueueSizes
  <2>3. (Wrap(n + 1) - Wrap(pos + Size)) % SeqMod = (n + 1) - (pos + Size)
    BY <1>1, <2>2, QueueSizes, WrapDistance
  <2>. QED  BY <2>1, <2>3, Zenon
<1>4. excess \in Nat \ {0} /\ k \in 0 .. count /\ p \in Nat
  BY <1>1, <1>2, QueueSizes DEF p, k
<1>5. SeqAdd(begin, k) = Wrap(pos + k)
  <2>1. pos \in Int /\ k \in Int
    BY <1>1, <1>4
  <2>. QED  BY <1>1, <2>1, WrapAdd
<1>6. /\ begin' = Wrap(p) /\ pos' = p /\ open' = open /\ delivered' = delivered /\ dropBegin' = dropBegin
      /\ Extended(Wrap(p), count - k, Wrap(n), u)
      /\ memory' = [v \in Users |-> IF v = u THEN n
                                    ELSE IF v \in evicted THEN Free ELSE memory[v]]
  BY <1>1, <1>3, <1>5 DEF PushEvicting, evicted, p, k
<1>7. /\ pos <= p /\ count - k \in 0 .. Size /\ pos + count <= p + (count - k)
      /\ count - k > 0 => p + (count - k) = pos + count
      /\ p + (count - k) <= n /\ n < p + Size
  BY <1>1, <1>2, <1>4, QueueSizes DEF p, k
<1>8. \A v \in Users : memory[v] # Free => (v \in evicted <=> memory[v] < p)
  <2>. SUFFICES ASSUME NEW v \in Users, memory[v] # Free
                PROVE  v \in evicted <=> memory[v] < p
    OBVIOUS
  <2>1. PICK m \in Nat : m = memory[v] /\ InWindow(m) /\ Entry(m).set /\ Entry(m).user = v
    BY AllocatedInWindow DEF IInv, Owned
  <2>2. \A i \in Int : slot[SlotAt(i)] = Entry(pos + i)
    BY <1>1, EntryOfIndex
  <2>3. ASSUME m < p
        PROVE  v \in evicted
    <3>1. m - pos \in 0 .. k - 1
      BY <1>1, <1>4, <2>1, <2>3 DEF InWindow, p, k
    <3>2. slot[SlotAt(m - pos)] = Entry(m)
      <4>1. pos + (m - pos) = m /\ m - pos \in Int
        BY <1>1
      <4>. QED  BY <2>2, <4>1
    <3>. QED  BY <2>1, <3>1, <3>2 DEF evicted
  <2>4. ASSUME NEW i \in 0 .. k - 1, slot[SlotAt(i)].set, slot[SlotAt(i)].user = v
        PROVE  m < p
    <3>1. Entry(pos + i).set /\ Entry(pos + i).user = v
      BY <1>4, <2>2, <2>4
    <3>2. InWindow(pos + i) /\ pos + i \in Nat
      BY <1>1, <1>4 DEF InWindow
    <3>3. memory[v] = pos + i
      BY <3>1, <3>2 DEF IInv, Alive
    <3>. QED  BY <1>1, <1>2, <1>4, <2>1, <3>3, QueueSizes DEF p
  <2>. QED  BY <2>1, <2>3, <2>4 DEF evicted
<1>9. \A v \in Users : memory[v] = Free => memory[v] < p
  BY <1>4 DEF Free
<1>10. memory' = [v \in Users |-> IF v = u THEN n
                                 ELSE IF memory[v] < p THEN Free ELSE memory[v]]
  <2>. SUFFICES ASSUME NEW v \in Users, v # u
                PROVE  (IF v \in evicted THEN Free ELSE memory[v])
                         = (IF memory[v] < p THEN Free ELSE memory[v])
    BY <1>6
  <2>. QED  BY <1>8, <1>9
<1>11. New(n) /\ Stored(n, u) /\ OthersKept(n)
  BY <1>4, <1>6, <1>7, <1>10, ExtendStep
<1>12. pos < p /\ n \in {p + Size - 1, p}
  BY <1>1, <1>2, <1>4, QueueSizes DEF p, k
<1>. QED  BY <1>2, <1>6, <1>11, <1>12 DEF PushEvicting

(* pull delivers the number at the begin and moves on (128-149). *)
LEMMA PullStep ==
  ASSUME IInv, open, Pull
  PROVE  IInv' /\ delivered' = Append(delivered, pos) /\ pos' = pos + 1 /\ dropBegin' = dropBegin
<1> DEFINE e == Entry(pos).user
<1>1. /\ TypeOK /\ WindowSync /\ pos \in Nat /\ begin = Wrap(pos)
      /\ memory \in [Users -> Nat \cup {Free}] /\ count \in 0 .. Size
  BY DEF IInv, TypeOK, WindowSync
<1>2. slot[SlotAt(0)] = Entry(pos)
  <2>1. slot[SlotAt(0)] = Entry(pos + 0) /\ pos + 0 = pos
    BY <1>1, EntryOfIndex
  <2>. QED  BY <2>1
<1>3. /\ count > 0 /\ Entry(pos).set
      /\ begin' = SeqAdd(begin, 1) /\ count' = count - 1 /\ pos' = pos + 1
      /\ delivered' = Append(delivered, memory[e])
      /\ memory' = [v \in Users |-> IF v = e THEN Free ELSE memory[v]]
      /\ slot' = slot /\ open' = open /\ dropBegin' = dropBegin
  BY <1>2 DEF Pull, Freed
<1>4. e \in Users /\ memory[e] = pos
  <2>1. InWindow(pos)
    BY <1>1, <1>3 DEF InWindow
  <2>. QED  BY <1>1, <1>3, <2>1 DEF IInv, Alive
<1> HIDE DEF e
<1>5. begin' = Wrap(pos + 1)
  BY <1>1, <1>3, WrapAdd
<1>6. TypeOK'
  <2>1. begin' \in SeqNums
    BY <1>1, <1>5, WrapType
  <2>2. memory' \in [Users -> Nat \cup {Free}] /\ count' \in 0 .. Size /\ pos' \in Nat
    BY <1>1, <1>3, QueueSizes
  <2>3. delivered' \in Seq(Nat \cup {Free})
    BY <1>1, <1>3, <1>4 DEF TypeOK
  <2>. QED  BY <1>1, <1>3, <2>1, <2>2, <2>3 DEF TypeOK
<1>7. WindowSync'
  BY <1>1, <1>3, <1>5, QueueSizes DEF WindowSync
<1>8. \A m \in Nat : Entry(m)' = Entry(m) /\ (InWindow(m)' <=> InWindow(m) /\ m # pos)
  BY <1>1, <1>3 DEF Entry, InWindow
<1>9. Alive'
  <2>. SUFFICES ASSUME NEW m \in Nat, InWindow(m)', Entry(m)'.set
                PROVE  Entry(m)'.user \in Users /\ memory'[Entry(m)'.user] = m
    BY DEF Alive, InWindow
  <2>1. InWindow(m) /\ m # pos /\ Entry(m)' = Entry(m)
    BY <1>8
  <2>2. Entry(m).user \in Users /\ memory[Entry(m).user] = m
    BY <2>1 DEF IInv, Alive
  <2>. QED  BY <1>3, <1>4, <2>1, <2>2
<1>10. Owned'
  <2>. SUFFICES ASSUME NEW v \in Users, memory'[v] # Free
                PROVE  /\ open' /\ InWindow(memory[v])'
                       /\ Entry(memory[v])'.set /\ Entry(memory[v])'.user = v
    BY DEF Owned
  <2>1. v # e /\ memory'[v] = memory[v] /\ memory[v] # Free
    BY <1>3
  <2>2. PICK m \in Nat : m = memory[v] /\ InWindow(m) /\ Entry(m).set /\ Entry(m).user = v
    BY <2>1, AllocatedInWindow DEF IInv, Owned
  <2>3. m # pos
    BY <2>1, <2>2 DEF e
  <2>4. InWindow(m)' /\ Entry(m)' = Entry(m)
    BY <1>8, <2>2, <2>3
  <2>. QED  BY <1>3, <2>1, <2>2, <2>4 DEF InWindow, Entry
<1>. QED  BY <1>3, <1>4, <1>6, <1>7, <1>9, <1>10 DEF IInv

(* fini frees what the window holds. *)
LEMMA FiniStep ==
  ASSUME IInv, open, Fini
  PROVE  IInv'
<1>1. /\ TypeOK /\ WindowSync /\ pos \in Nat /\ count \in 0 .. Size
      /\ memory \in [Users -> Nat \cup {Free}]
  BY DEF IInv, TypeOK
<1>2. \A v \in Users : memory'[v] = Free
  <2>. SUFFICES ASSUME NEW v \in Users, memory[v] # Free
                PROVE  v \in { slot[SlotAt(i)].user : i \in { j \in 0 .. Size - 1 : Holds(j) } }
    BY DEF Fini, Freed
  <2>1. PICK m \in Nat : m = memory[v] /\ InWindow(m) /\ Entry(m).set /\ Entry(m).user = v
    BY AllocatedInWindow DEF IInv, Owned
  <2>2. PICK i \in 0 .. Size - 1 : i = m - pos /\ i < count /\ pos + i = m
    BY <1>1, <2>1, QueueSizes DEF InWindow
  <2>3. slot[SlotAt(i)] = Entry(pos + i)
    BY <1>1, EntryOfIndex
  <2>. QED  BY <1>1, <2>1, <2>2, <2>3 DEF Holds
<1>3. TypeOK'
  BY <1>1 DEF TypeOK, Fini, Freed
<1>4. WindowSync' /\ Alive'
  BY <1>1 DEF WindowSync, Alive, Fini
<1>5. Owned'
  BY <1>2 DEF Owned
<1>. QED  BY <1>3, <1>4, <1>5 DEF IInv

(* The invariant holds of the empty queue. *)
LEMMA InitInv == Init => IInv
<1>. SUFFICES ASSUME Init PROVE IInv
  OBVIOUS
<1>1. TypeOK
  <2>1. begin \in SeqNums
    BY NumAssumption, WrapType DEF Init
  <2>. QED  BY <2>1, QueueSizes, NumAssumption DEF Init, TypeOK
<1>2. WindowSync /\ Alive /\ Owned
  BY QueueSizes, NumAssumption DEF Init, WindowSync, Alive, Owned, InWindow
<1>. QED  BY <1>1, <1>2 DEF IInv

(* A stuttering step keeps the invariant. *)
LEMMA StutterInv == IInv /\ UNCHANGED vars => IInv'
BY DEF vars, IInv, TypeOK, WindowSync, Alive, Owned, InWindow, Entry

(* Every operation keeps the invariant. *)
LEMMA StepInv ==
  ASSUME IInv, [Next]_vars
  PROVE  IInv'
<1>1. ASSUME open, NEW n \in 0 .. MaxNum, NEW u \in Users, Near(n), Push(n, u)
      PROVE  IInv'
  <2>. n \in Nat /\ memory[u] = Free
    BY <1>1, NumAssumption DEF Push
  <2>1. CASE PushInside(n, u)
    BY <1>1, <2>1, PushInsideStep, StoreStep
  <2>2. CASE PushRefused(n, u)
    BY <2>2, StutterInv DEF PushRefused
  <2>3. CASE PushBeyond(n, u)
    BY <1>1, <2>3, PushBeyondStep, StoreStep
  <2>4. CASE PushEvicting(n, u)
    BY <1>1, <2>4, PushEvictingStep, StoreStep
  <2>. QED  BY <1>1, <2>1, <2>2, <2>3, <2>4 DEF Push
<1>2. CASE open /\ Pull
  BY <1>2, PullStep
<1>3. CASE open /\ Fini
  BY <1>3, FiniStep
<1>4. CASE UNCHANGED vars
  BY <1>4, StutterInv
<1>. QED  BY <1>1, <1>2, <1>3, <1>4 DEF Next

(* The inductive invariant holds in every reachable state. *)
THEOREM Invariant == Spec => []IInv
<1>1. Init => IInv
  BY InitInv
<1>2. IInv /\ [Next]_vars => IInv'
  BY StepInv
<1>. QED  BY <1>1, <1>2, PTL DEF Spec

(* Type correctness of the queue. *)
THEOREM TypeCorrect == Spec => []TypeOK
<1>1. IInv => TypeOK
  BY DEF IInv
<1>. QED  BY <1>1, Invariant, PTL

(* Every entry that pull or peek can return is the live packet with the     *)
(* number its index stands for.                                             *)
LEMMA EntriesAreAlive == IInv => EntriesAlive
<1>1. ASSUME IInv PROVE EntriesAlive
  <2>. SUFFICES ASSUME open, NEW i \in 0 .. Size - 1, Holds(i)
                PROVE  memory[slot[SlotAt(i)].user] = pos + i
    BY DEF EntriesAlive
  <2>1. pos \in Nat /\ count \in 0 .. Size /\ i \in 0 .. count - 1 /\ slot[SlotAt(i)].set
    BY <1>1 DEF IInv, TypeOK, Holds
  <2>2. slot[SlotAt(i)] = Entry(pos + i)
    BY <1>1, <2>1, EntryOfIndex DEF IInv
  <2>3. InWindow(pos + i) /\ pos + i \in Nat
    BY <2>1 DEF InWindow
  <2>. QED  BY <1>1, <2>1, <2>2, <2>3 DEF IInv, Alive
<1>. QED  BY <1>1

(* No packet is lost track of: allocated packets are entries of the window, *)
(* and the queue's destruction frees them all.                              *)
LEMMA NothingLeaks == IInv => NoLeak
<1>1. ASSUME IInv PROVE NoLeak
  <2>. SUFFICES ASSUME NEW v \in Users, memory[v] # Free
                PROVE  open /\ \E i \in 0 .. Size - 1 : Holds(i) /\ slot[SlotAt(i)].user = v
    BY DEF NoLeak
  <2>1. PICK m \in Nat : m = memory[v] /\ InWindow(m) /\ Entry(m).set /\ Entry(m).user = v
    BY <1>1, AllocatedInWindow DEF IInv, Owned
  <2>2. pos \in Nat /\ count \in 0 .. Size
    BY <1>1 DEF IInv, TypeOK
  <2>3. PICK i \in 0 .. Size - 1 : i = m - pos /\ i < count /\ pos + i = m
    BY <2>1, <2>2, QueueSizes DEF InWindow
  <2>4. slot[SlotAt(i)] = Entry(pos + i)
    BY <1>1, <2>2, EntryOfIndex DEF IInv
  <2>. QED  BY <1>1, <2>1, <2>2, <2>3, <2>4 DEF IInv, Owned, Holds
<1>. QED  BY <1>1

(* Every buffer given to the queue has one owner: the live ones are entries *)
(* of the window, each under its own number, and the rest was freed or      *)
(* handed to the caller of pull.                                            *)
THEOREM OwnershipHolds == Spec => []Ownership
<1>1. IInv => Ownership
  BY EntriesAreAlive, NothingLeaks DEF Ownership
<1>. QED  BY <1>1, Invariant, PTL

-----------------------------------------------------------------------------
(* Refinement: every step of the queue is a step of ReorderWindow.          *)

(* The abstract set of held numbers, by the slots of the window. *)
LEMMA HeldMeaning ==
  ASSUME IInv
  PROVE  HeldNums = { m \in Nat : InWindow(m) /\ Entry(m).set }
<1>1. WindowSync /\ pos \in Nat /\ count \in 0 .. Size
  BY DEF IInv, TypeOK
<1>2. ASSUME NEW j \in 0 .. Size - 1, Holds(j)
      PROVE  pos + j \in Nat /\ InWindow(pos + j) /\ Entry(pos + j).set
  <2>1. slot[SlotAt(j)] = Entry(pos + j) /\ j < count
    BY <1>1, <1>2, EntryOfIndex DEF Holds
  <2>. QED  BY <1>1, <1>2, <2>1 DEF Holds, InWindow
<1>3. ASSUME NEW m \in Nat, InWindow(m), Entry(m).set
      PROVE  \E j \in 0 .. Size - 1 : Holds(j) /\ pos + j = m
  <2>1. PICK j \in 0 .. Size - 1 : j < count /\ pos + j = m
    <3>1. m - pos \in 0 .. Size - 1 /\ m - pos < count /\ pos + (m - pos) = m
      BY <1>1, <1>3, QueueSizes DEF InWindow
    <3>. QED  BY <3>1
  <2>2. slot[SlotAt(j)] = Entry(pos + j)
    BY <1>1, EntryOfIndex
  <2>. QED  BY <1>1, <1>3, <2>1, <2>2 DEF Holds
<1>. QED  BY <1>2, <1>3 DEF HeldNums

(* What a stored packet does to the set of held numbers. *)
LEMMA StoreHeld ==
  ASSUME IInv, IInv', NEW n \in Nat, NEW u, Stored(n, u), OthersKept(n)
  PROVE  HeldNums' = { m \in HeldNums : m >= pos' } \cup {n}
<1>1. HeldNums = { m \in Nat : InWindow(m) /\ Entry(m).set }
  BY HeldMeaning
<1>2. HeldNums' = { m \in Nat : InWindow(m)' /\ Entry(m)'.set }
  <2>1. (IInv => HeldNums = { m \in Nat : InWindow(m) /\ Entry(m).set })'
    BY HeldMeaning, PTL
  <2>. QED  BY <2>1
<1>3. ASSUME NEW m \in Nat, InWindow(m)', Entry(m)'.set, m # n
      PROVE  InWindow(m) /\ Entry(m).set /\ m >= pos'
  BY <1>3 DEF OthersKept, InWindow, Stored
<1>4. ASSUME NEW m \in Nat, InWindow(m), Entry(m).set, m >= pos', m # n
      PROVE  InWindow(m)' /\ Entry(m)'.set
  BY <1>4 DEF OthersKept, Stored
<1>5. InWindow(n)' /\ Entry(n)'.set
  <2>1. InWindow(n)'
    BY QueueSizes DEF InWindow, Stored
  <2>2. Entry(n)'.set
    BY DEF Stored
  <2>. QED  BY <2>1, <2>2
<1>. QED  BY <1>1, <1>2, <1>3, <1>4, <1>5

(* What leaves the queue alone leaves the held numbers alone. *)
LEMMA SameHeld ==
  ASSUME count' = count, slot' = slot, begin' = begin, pos' = pos
  PROVE  HeldNums' = HeldNums
BY DEF HeldNums, Holds, SlotAt, Idx, SeqAdd

(* pull removes the first number from the held ones. *)
LEMMA PullHeld ==
  ASSUME IInv, IInv', open, Pull
  PROVE  pos \in HeldNums /\ HeldNums' = HeldNums \ {pos}
<1>1. HeldNums = { m \in Nat : InWindow(m) /\ Entry(m).set }
  BY HeldMeaning
<1>2. HeldNums' = { m \in Nat : InWindow(m)' /\ Entry(m)'.set }
  <2>1. (IInv => HeldNums = { m \in Nat : InWindow(m) /\ Entry(m).set })'
    BY HeldMeaning, PTL
  <2>. QED  BY <2>1
<1>3. WindowSync /\ pos \in Nat /\ count \in 0 .. Size
  BY DEF IInv, TypeOK
<1>4. /\ count > 0 /\ Entry(pos).set
      /\ pos' = pos + 1 /\ count' = count - 1 /\ slot' = slot
  <2>1. slot[SlotAt(0)] = Entry(pos + 0) /\ pos + 0 = pos
    BY <1>3, EntryOfIndex
  <2>. QED  BY <2>1 DEF Pull
<1>5. InWindow(pos)
  BY <1>3, <1>4 DEF InWindow
<1>6. \A m \in Nat : Entry(m)' = Entry(m) /\ (InWindow(m)' <=> InWindow(m) /\ m # pos)
  BY <1>3, <1>4 DEF Entry, InWindow
<1>. QED  BY <1>1, <1>2, <1>3, <1>4, <1>5, <1>6

(* Every operation is a step or a stutter of ReorderWindow. *)
LEMMA StepRefines ==
  ASSUME IInv, IInv', [Next]_vars
  PROVE  [Window!Next]_<<pos, HeldNums, delivered, dropBegin>>
<1>. USE DEF Window!Next, Window!Accept, Window!Slide, Window!Deliver
<1>1. ASSUME open, NEW n \in 0 .. MaxNum, NEW u \in Users, Near(n), Push(n, u)
      PROVE  Window!Next \/ UNCHANGED <<pos, HeldNums, delivered, dropBegin>>
  <2>. n \in Nat /\ memory[u] = Free /\ pos \in Nat
    BY <1>1, NumAssumption DEF Push, IInv, TypeOK
  <2>1. ASSUME New(n), Stored(n, u), OthersKept(n), pos' = pos, n < pos + Size
        PROVE  Window!Accept
    <3>1. HeldNums = { m \in Nat : InWindow(m) /\ Entry(m).set }
      BY HeldMeaning
    <3>2. HeldNums' = { m \in HeldNums : m >= pos' } \cup {n}
      BY <2>1, StoreHeld
    <3>3. n \notin HeldNums /\ \A m \in HeldNums : m >= pos
      BY <2>1, <3>1 DEF New, InWindow
    <3>4. HeldNums' = HeldNums \cup {n}
      BY <2>1, <3>2, <3>3
    <3>5. n \in pos .. pos + Size - 1
      BY <2>1, QueueSizes DEF Stored
    <3>. QED  BY <2>1, <3>3, <3>4, <3>5 DEF Stored
  <2>2. CASE PushInside(n, u)
    BY <1>1, <2>1, <2>2, PushInsideStep
  <2>3. CASE PushRefused(n, u)
    BY <2>3, SameHeld DEF PushRefused, vars
  <2>4. CASE PushBeyond(n, u)
    BY <1>1, <2>1, <2>4, PushBeyondStep
  <2>5. CASE PushEvicting(n, u)
    <3>1. /\ Stored(n, u) /\ OthersKept(n)
          /\ dropBegin /\ pos < pos' /\ pos + Size <= n /\ n \in {pos' + Size - 1, pos'}
      BY <1>1, <2>5, PushEvictingStep
    <3>2. HeldNums' = { m \in HeldNums : m >= pos' } \cup {n}
      BY <3>1, StoreHeld
    <3>. QED  BY <3>1, <3>2 DEF Stored
  <2>. QED  BY <1>1, <2>2, <2>3, <2>4, <2>5 DEF Push
<1>2. CASE open /\ Pull
  <2>1. pos \in HeldNums /\ HeldNums' = HeldNums \ {pos}
    BY <1>2, PullHeld
  <2>2. delivered' = Append(delivered, pos) /\ pos' = pos + 1 /\ dropBegin' = dropBegin
    BY <1>2, PullStep
  <2>. QED  BY <2>1, <2>2
<1>3. CASE open /\ Fini
  BY <1>3, SameHeld DEF Fini
<1>4. CASE UNCHANGED vars
  BY <1>4, SameHeld DEF vars
<1>. QED  BY <1>1, <1>2, <1>3, <1>4 DEF Next

(* The code's queue implements the abstract reordering window: rings,       *)
(* wrapping numbers and pointers do not show.                               *)
THEOREM Refinement == Spec => WindowSpec
<1>1. Init => Window!Init
  BY QueueSizes, NumAssumption DEF Init, Window!Init, HeldNums, Holds
<1>2. IInv /\ IInv' /\ [Next]_vars => [Window!Next]_Window!wvars
  BY StepRefines DEF Window!wvars
<1>. QED  BY <1>1, <1>2, Invariant, PTL DEF Spec, WindowSpec, Window!Spec

-----------------------------------------------------------------------------
(* Order of delivery. *)

(* Only pull delivers, and with DROP_STRATEGY_END only pull moves the begin.*)
LEMMA DeliveryStep ==
  ASSUME IInv, [Next]_vars
  PROVE  /\ \/ /\ delivered' = delivered /\ pos' \in Nat /\ pos <= pos'
               /\ ~dropBegin => pos' = pos
            \/ delivered' = Append(delivered, pos) /\ pos' = pos + 1
         /\ dropBegin' = dropBegin
<1>. pos \in Nat
  BY DEF IInv, TypeOK
<1>1. ASSUME open, NEW n \in 0 .. MaxNum, NEW u \in Users, Near(n), Push(n, u)
      PROVE  /\ delivered' = delivered /\ pos' \in Nat /\ pos <= pos' /\ (~dropBegin => pos' = pos)
             /\ dropBegin' = dropBegin
  <2>. n \in Nat /\ memory[u] = Free
    BY <1>1, NumAssumption DEF Push
  <2>1. CASE PushInside(n, u)
    BY <1>1, <2>1, PushInsideStep DEF Stored
  <2>2. CASE PushRefused(n, u)
    BY <2>2 DEF PushRefused, vars
  <2>3. CASE PushBeyond(n, u)
    BY <1>1, <2>3, PushBeyondStep DEF Stored
  <2>4. CASE PushEvicting(n, u)
    BY <1>1, <2>4, PushEvictingStep DEF Stored
  <2>. QED  BY <1>1, <2>1, <2>2, <2>3, <2>4 DEF Push
<1>2. CASE open /\ Pull
  BY <1>2, PullStep
<1>3. CASE open /\ Fini
  BY <1>3 DEF Fini
<1>4. CASE UNCHANGED vars
  BY <1>4 DEF vars
<1>. QED  BY <1>1, <1>2, <1>3, <1>4 DEF Next

(* The caller of pull sees the numbers in increasing order, each at most    *)
(* once, and with DROP_STRATEGY_END without a gap.                          *)
THEOREM DeliveryInOrder == Spec => []Delivery
<1>1. Init => Delivery
  BY NumAssumption DEF Init, Delivery, DeliveredInOrder, DeliveredGapless
<1>2. ASSUME IInv, Delivery, [Next]_vars
      PROVE  Delivery'
  <2>. USE DEF Delivery, DeliveredInOrder, DeliveredGapless
  <2>1. pos \in Nat /\ delivered \in Seq(Nat \cup {Free}) /\ Start \in Nat
    BY <1>2, NumAssumption DEF IInv, TypeOK
  <2>2. CASE /\ delivered' = delivered /\ pos' \in Nat /\ pos <= pos'
             /\ (~dropBegin => pos' = pos) /\ dropBegin' = dropBegin
    <3>1. \A i \in 1 .. Len(delivered) : delivered[i] \in Int
      BY <2>1 DEF Free
    <3>2. DeliveredInOrder'
      <4>1. ASSUME NEW i \in 1 .. Len(delivered)
            PROVE  delivered[i] < pos'
        BY <1>2, <2>1, <2>2, <3>1
      <4>. QED  BY <1>2, <2>2, <4>1
    <3>3. DeliveredGapless'
      BY <1>2, <2>2
    <3>. QED  BY <3>2, <3>3
  <2>3. CASE delivered' = Append(delivered, pos) /\ pos' = pos + 1 /\ dropBegin' = dropBegin
    <3>1. /\ Len(delivered') = Len(delivered) + 1
          /\ delivered'[Len(delivered) + 1] = pos
          /\ \A i \in 1 .. Len(delivered) : delivered'[i] = delivered[i] /\ delivered[i] \in Int
      BY <2>1, <2>3 DEF Free
    <3>2. Len(delivered) \in Nat
      BY <2>1
    <3>3. DeliveredInOrder'
      BY <1>2, <2>1, <2>3, <3>1, <3>2
    <3>4. DeliveredGapless'
      BY <1>2, <2>1, <2>3, <3>1, <3>2
    <3>. QED  BY <3>3, <3>4
  <2>4. /\ \/ /\ delivered' = delivered /\ pos' \in Nat /\ pos <= pos'
              /\ ~dropBegin => pos' = pos
           \/ delivered' = Append(delivered, pos) /\ pos' = pos + 1
        /\ dropBegin' = dropBegin
    BY <1>2, DeliveryStep
  <2>. QED  BY <2>2, <2>3, <2>4
<1>. QED  BY <1>1, <1>2, Invariant, PTL DEF Spec, Delivery

-----------------------------------------------------------------------------
(* Sending.                                                                 *)

(* What the code's constants give. *)
SendConstants ==
  /\ Block \in Nat \ {0} /\ Refresh \in Nat \ {0} /\ SizeMax \in Nat
  /\ Sizes \subseteq Nat
  /\ Senders!Nobody \notin Threads

(* The current key is the one its index names, and a packet about to be     *)
(* sent has the key of its position.                                        *)
KeysAgree ==
  /\ gmacKey = index
  /\ \A t \in Threads : step[t] = "raw" => packet[t].key = Senders!PeriodOf(packet[t].pos)
  /\ ~crypt => position = 0 /\ \A t \in Threads : packet[t].pos = 0 /\ packet[t].key = 0

(* The mutex is held by the one thread that is encrypting; what it is about *)
(* to use lies before the position and past every byte used so far.         *)
StreamOwned ==
  /\ \A t \in Threads : step[t] = "encrypt" <=> holder = t
  /\ \A b \in Senders!Bytes : uses[b] > 0 => b < position
  /\ \A t \in Threads : step[t] = "encrypt" =>
       /\ packet[t].pos + Block + packet[t].size <= position
       /\ \A b \in Senders!Bytes : uses[b] > 0 => b < packet[t].pos + Block

SendInv == Senders!TypeOK /\ KeysAgree /\ StreamOwned /\ Senders!SendSound

-----------------------------------------------------------------------------
LEMMA PeriodZero == ASSUME SendConstants PROVE Senders!PeriodOf(0) = 0
  BY SMT DEF Senders!PeriodOf, SendConstants

LEMMA DivType == ASSUME NEW m \in Nat, NEW d \in Nat \ {0} PROVE m \div d \in Nat
  BY SMT

LEMMA PeriodType == ASSUME SendConstants, NEW p \in Nat PROVE Senders!PeriodOf(p) \in Nat
<1> DEFINE m == IF p > 0 THEN p - 1 ELSE 0
<1>1. m \in Nat BY SMT
<1>2. Refresh \in Nat \ {0} BY DEF SendConstants
<1>3. m \div Refresh \in Nat BY <1>1, <1>2, DivType
<1> QED BY <1>3 DEF Senders!PeriodOf

(* A position moves by at least the size asked for. *)
LEMMA AdvanceCovers ==
  ASSUME SendConstants, NEW n \in Nat
  PROVE  Senders!Advance(n) \in Nat /\ Senders!Advance(n) >= n
<1>1. n % Block \in Nat BY SMT DEF SendConstants
<1> QED BY <1>1, SMT DEF Senders!Advance

-----------------------------------------------------------------------------
LEMMA SendStart == ASSUME SendConstants, Senders!Init PROVE SendInv
<1>1. Senders!TypeOK
  BY DEF Senders!Init, Senders!TypeOK, Senders!Packet, Senders!Blank, SendConstants, Senders!Bytes
<1>2. KeysAgree BY DEF Senders!Init, KeysAgree, Senders!Blank
<1>3. StreamOwned BY DEF Senders!Init, StreamOwned, SendConstants, Senders!Bytes
<1>4. Senders!SendSound
  BY DEF Senders!Init, Senders!SendSound, Senders!KeyStreamOnce, Senders!MacRight, Senders!Bytes
<1> QED BY <1>1, <1>2, <1>3, <1>4 DEF SendInv

(* Taking a position moves the end of the used part up only. *)
LEMMA TakenBefore ==
  ASSUME SendConstants, Senders!TypeOK, NEW n \in Nat
  PROVE  /\ Senders!Advanced(n) \in Nat /\ Senders!Advanced(n) >= position
         /\ Senders!Taken \in Nat
         /\ crypt => Senders!Taken + n <= Senders!Advanced(n) /\ Senders!Taken = position
         /\ ~crypt => Senders!Taken = 0 /\ Senders!Advanced(n) = position
<1>1. position \in Nat BY DEF Senders!TypeOK
<1>2. Senders!Advance(n) \in Nat /\ Senders!Advance(n) >= n BY AdvanceCovers
<1> QED BY <1>1, <1>2, SMT DEF Senders!Advanced, Senders!Taken

LEMMA TakePositionKeeps ==
  ASSUME SendConstants, SendInv, NEW t \in Threads, NEW n \in Sizes,
         NEW numbered \in BOOLEAN, Senders!TakePosition(t, n, numbered)
  PROVE  SendInv'
<1>1. n \in Nat BY DEF SendConstants
<1>2. Senders!TypeOK BY DEF SendInv
<1>3. /\ Senders!Advanced(n) \in Nat /\ Senders!Advanced(n) >= position /\ Senders!Taken \in Nat
      /\ ~crypt => Senders!Taken = 0 /\ Senders!Advanced(n) = position
  BY <1>1, <1>2, TakenBefore
<1>4. Senders!TypeOK'
  <2>1. packet' \in [Threads -> Senders!Packet]
    BY <1>1, <1>2, <1>3 DEF Senders!TakePosition, Senders!TypeOK, Senders!Packet, Senders!Blank
  <2>2. step' \in [Threads -> {"idle", "number", "seal", "raw", "encrypt"}]
    BY <1>2 DEF Senders!TakePosition, Senders!TypeOK
  <2> QED BY <1>2, <1>3, <2>1, <2>2 DEF Senders!TakePosition, Senders!TypeOK
<1>5. KeysAgree'
  <2>1. \A u \in Threads : step'[u] = "raw" => packet'[u].key = Senders!PeriodOf(packet'[u].pos)
    BY <1>2 DEF Senders!TakePosition, Senders!TypeOK, SendInv, KeysAgree
  <2>2. ~crypt' => position' = 0 /\ \A u \in Threads : packet'[u].pos = 0 /\ packet'[u].key = 0
    BY <1>2, <1>3 DEF Senders!TakePosition, Senders!TypeOK, SendInv, KeysAgree, Senders!Blank, Senders!Packet
  <2> QED BY <2>1, <2>2 DEF Senders!TakePosition, SendInv, KeysAgree
<1>6. StreamOwned'
  <2>1. \A u \in Threads : step[u] # "encrypt"
    BY <1>2 DEF Senders!TakePosition, SendInv, StreamOwned, SendConstants
  <2>2. \A u \in Threads : step'[u] # "encrypt" /\ holder' # u
    BY <1>2, <2>1 DEF Senders!TakePosition, Senders!TypeOK, SendConstants
  <2>3. \A b \in Senders!Bytes : uses'[b] > 0 => b < position'
    BY <1>2, <1>3, SMT DEF Senders!TakePosition, SendInv, StreamOwned, Senders!TypeOK, Senders!Bytes, SendConstants
  <2> QED BY <2>2, <2>3 DEF StreamOwned
<1>7. Senders!SendSound'
  BY DEF Senders!TakePosition, SendInv, Senders!SendSound, Senders!KeyStreamOnce, Senders!MacRight
<1> QED BY <1>4, <1>5, <1>6, <1>7 DEF SendInv

(* Steps that leave the stream alone and hold no lock. *)
LEMMA LockFreeKeeps ==
  ASSUME SendConstants, SendInv, NEW t \in Threads, step[t] # "encrypt",
         Senders!TypeOK', UNCHANGED <<position, holder, uses, wire>>,
         NEW s \in {"idle", "seal", "raw"}, step' = [step EXCEPT ![t] = s],
         \A u \in Threads : packet'[u].pos = packet[u].pos /\ packet'[u].size = packet[u].size
  PROVE  StreamOwned' /\ Senders!SendSound'
<1>1. \A u \in Threads : step'[u] = "encrypt" <=> step[u] = "encrypt"
  BY DEF SendInv, Senders!TypeOK
<1>2. StreamOwned' BY <1>1 DEF SendInv, StreamOwned
<1> QED BY <1>2 DEF SendInv, Senders!SendSound, Senders!KeyStreamOnce, Senders!MacRight

LEMMA TakeNumberKeeps ==
  ASSUME SendConstants, SendInv, NEW t \in Threads, Senders!TakeNumber(t)
  PROVE  SendInv'
<1>1. Senders!TypeOK'
  <2>1. packet' \in [Threads -> Senders!Packet]
    BY DEF Senders!TakeNumber, SendInv, Senders!TypeOK, Senders!Packet
  <2>2. step' \in [Threads -> {"idle", "number", "seal", "raw", "encrypt"}]
    BY DEF Senders!TakeNumber, SendInv, Senders!TypeOK
  <2> QED BY <2>1, <2>2 DEF Senders!TakeNumber, SendInv, Senders!TypeOK
<1>2. \A u \in Threads : packet'[u].pos = packet[u].pos /\ packet'[u].size = packet[u].size
                         /\ packet'[u].key = packet[u].key
  BY DEF Senders!TakeNumber, SendInv, Senders!TypeOK, Senders!Packet
<1>3. KeysAgree' BY <1>2 DEF Senders!TakeNumber, SendInv, Senders!TypeOK, KeysAgree
<1>4. StreamOwned' /\ Senders!SendSound' BY <1>1, <1>2, LockFreeKeeps DEF Senders!TakeNumber
<1> QED BY <1>1, <1>3, <1>4 DEF SendInv

LEMMA GmacTypes ==
  ASSUME SendConstants, SendInv, NEW p \in Nat, Senders!Gmac(p)
  PROVE  index' \in Nat /\ gmacKey' = index' /\ Senders!KeyFor(p) = Senders!PeriodOf(p) /\ Senders!PeriodOf(p) \in Nat
BY PeriodType DEF Senders!Gmac, Senders!KeyFor, SendInv, Senders!TypeOK, KeysAgree

LEMMA SealKeeps ==
  ASSUME SendConstants, SendInv, NEW t \in Threads, Senders!Seal(t)
  PROVE  SendInv'
<1>1. packet[t] \in Senders!Packet /\ packet[t].pos \in Nat
  BY DEF SendInv, Senders!TypeOK, Senders!Packet
<1>2. crypt => /\ index' \in Nat /\ gmacKey' = index'
               /\ Senders!KeyFor(packet[t].pos) = Senders!PeriodOf(packet[t].pos) /\ Senders!PeriodOf(packet[t].pos) \in Nat
  BY <1>1, GmacTypes DEF Senders!Seal
<1>3. index' \in Nat /\ gmacKey' = index'
  BY <1>2 DEF Senders!Seal, SendInv, Senders!TypeOK, KeysAgree
<1>4. \A u \in Threads : packet'[u].pos = packet[u].pos /\ packet'[u].size = packet[u].size
  BY DEF Senders!Seal, SendInv, Senders!TypeOK, Senders!Packet
<1>5. Senders!TypeOK'
  <2>1. packet' \in [Threads -> Senders!Packet]
    BY <1>1, <1>2 DEF Senders!Seal, SendInv, Senders!TypeOK, Senders!Packet
  <2>2. step' \in [Threads -> {"idle", "number", "seal", "raw", "encrypt"}]
    BY DEF Senders!Seal, SendInv, Senders!TypeOK
  <2> QED BY <1>3, <2>1, <2>2 DEF Senders!Seal, SendInv, Senders!TypeOK
<1>6. \A u \in Threads : step'[u] = "raw" => packet'[u].key = Senders!PeriodOf(packet'[u].pos)
  <2> SUFFICES ASSUME NEW u \in Threads, step'[u] = "raw"
               PROVE  packet'[u].key = Senders!PeriodOf(packet'[u].pos)
    OBVIOUS
  <2>1. CASE u # t
    <3>1. step[u] = "raw" /\ packet'[u] = packet[u]
      BY <2>1 DEF Senders!Seal, SendInv, Senders!TypeOK
    <3> QED BY <3>1 DEF SendInv, KeysAgree
  <2>2. CASE u = t /\ crypt
    <3>1. packet'[t].key = Senders!KeyFor(packet[t].pos)
      BY <2>2 DEF Senders!Seal, SendInv, Senders!TypeOK, Senders!Packet
    <3> QED BY <1>2, <1>4, <2>2, <3>1
  <2>3. CASE u = t /\ ~crypt
    <3>1. packet' = packet /\ packet[t].pos = 0 BY <2>3 DEF Senders!Seal, SendInv, KeysAgree
    <3>2. packet[t].key = 0 BY <2>3 DEF Senders!Seal, SendInv, KeysAgree
    <3> QED BY <2>3, <3>1, <3>2, PeriodZero
  <2> QED BY <2>1, <2>2, <2>3
<1>7. KeysAgree' BY <1>3, <1>4, <1>6 DEF Senders!Seal, SendInv, KeysAgree
<1>8. StreamOwned' /\ Senders!SendSound' BY <1>4, <1>5, LockFreeKeeps DEF Senders!Seal
<1> QED BY <1>5, <1>7, <1>8 DEF SendInv
LEMMA SealFailsKeeps ==
  ASSUME SendConstants, SendInv, NEW t \in Threads, Senders!SealFails(t)
  PROVE  SendInv'
<1>1. packet[t].pos \in Nat BY DEF SendInv, Senders!TypeOK, Senders!Packet
<1>2. index' \in Nat /\ gmacKey' = index' BY <1>1, GmacTypes DEF Senders!SealFails
<1>3. Senders!TypeOK' BY <1>2 DEF Senders!SealFails, SendInv, Senders!TypeOK
<1>4. KeysAgree' BY <1>2 DEF Senders!SealFails, SendInv, Senders!TypeOK, KeysAgree
<1>5. StreamOwned' /\ Senders!SendSound' BY <1>3, LockFreeKeeps DEF Senders!SealFails
<1> QED BY <1>3, <1>4, <1>5 DEF SendInv

LEMMA SendRawKeeps ==
  ASSUME SendConstants, SendInv, NEW t \in Threads, Senders!SendRaw(t)
  PROVE  SendInv'
<1>1. Senders!Sealed(t) \in [pos : Nat, key : Nat]
  BY DEF Senders!Sealed, SendInv, Senders!TypeOK, Senders!Packet
<1>2. Senders!TypeOK' BY <1>1 DEF Senders!SendRaw, SendInv, Senders!TypeOK
<1>3. KeysAgree' BY DEF Senders!SendRaw, SendInv, Senders!TypeOK, KeysAgree
<1>4. StreamOwned'
  <2>1. \A u \in Threads : step'[u] = "encrypt" <=> step[u] = "encrypt"
    BY DEF Senders!SendRaw, SendInv, Senders!TypeOK
  <2> QED BY <2>1 DEF Senders!SendRaw, SendInv, StreamOwned
<1>5. Senders!SendSound'
  <2>1. Senders!Sealed(t).key = Senders!PeriodOf(Senders!Sealed(t).pos)
    BY DEF Senders!SendRaw, Senders!Sealed, SendInv, KeysAgree
  <2>2. Senders!MacRight'
    BY <2>1 DEF Senders!SendRaw, SendInv, Senders!SendSound, Senders!MacRight
  <2> QED BY <2>2 DEF Senders!SendRaw, SendInv, Senders!SendSound, Senders!KeyStreamOnce
<1> QED BY <1>2, <1>3, <1>4, <1>5 DEF SendInv

LEMMA SendFailsKeeps ==
  ASSUME SendConstants, SendInv, NEW t \in Threads, Senders!SendFails(t)
  PROVE  SendInv'
<1>1. Senders!TypeOK' BY DEF Senders!SendFails, SendInv, Senders!TypeOK
<1>2. KeysAgree' BY DEF Senders!SendFails, SendInv, Senders!TypeOK, KeysAgree
<1>3. StreamOwned' /\ Senders!SendSound' BY <1>1, LockFreeKeeps DEF Senders!SendFails
<1> QED BY <1>1, <1>2, <1>3 DEF SendInv

(* The thread that holds the lock owns the part it has just taken. *)
LEMMA TakeLockedKeeps ==
  ASSUME SendConstants, SendInv, NEW t \in Threads, NEW n \in Sizes, Senders!TakeLocked(t, n)
  PROVE  SendInv'
<1>1. n \in Nat /\ Block \in Nat /\ Senders!Reserved(n) = n + Block
  BY DEF SendConstants, Senders!Reserved
<1>2. Senders!Reserved(n) \in Nat BY <1>1, SMT
<1>3. Senders!TypeOK /\ crypt BY DEF SendInv, Senders!TakeLocked
<1>4. /\ Senders!Advanced(Senders!Reserved(n)) \in Nat /\ Senders!Advanced(Senders!Reserved(n)) >= position
      /\ Senders!Taken + Senders!Reserved(n) <= Senders!Advanced(Senders!Reserved(n)) /\ Senders!Taken = position
  BY <1>2, <1>3, TakenBefore
<1>5. packet' = [packet EXCEPT ![t] = [Senders!Blank EXCEPT !.pos = position, !.size = n]]
  BY <1>4 DEF Senders!TakeLocked
<1>6. Senders!TypeOK'
  <2>1. packet' \in [Threads -> Senders!Packet]
    BY <1>1, <1>3, <1>5 DEF Senders!TypeOK, Senders!Packet, Senders!Blank
  <2>2. step' \in [Threads -> {"idle", "number", "seal", "raw", "encrypt"}]
    BY <1>3 DEF Senders!TakeLocked, Senders!TypeOK
  <2> QED BY <1>3, <1>4, <2>1, <2>2 DEF Senders!TakeLocked, Senders!TypeOK
<1>7. KeysAgree' BY <1>3, <1>5 DEF Senders!TakeLocked, Senders!TypeOK, SendInv, KeysAgree
<1>8. StreamOwned'
  <2>1. \A u \in Threads : step'[u] = "encrypt" <=> holder' = u
    BY <1>3 DEF Senders!TakeLocked, Senders!TypeOK, SendInv, StreamOwned, SendConstants
  <2>2. \A b \in Senders!Bytes : uses'[b] > 0 => b < position
    BY DEF Senders!TakeLocked, SendInv, StreamOwned
  <2>3. \A b \in Senders!Bytes : uses'[b] > 0 => b < position'
    BY <1>3, <1>4, <2>2, SMT DEF Senders!TakeLocked, Senders!TypeOK, Senders!Bytes, SendConstants
  <2>4. packet'[t].pos = position /\ packet'[t].size = n
    BY <1>3, <1>5 DEF Senders!TypeOK, Senders!Packet, Senders!Blank
  <2>5. packet'[t].pos + Block + packet'[t].size <= position'
    BY <1>1, <1>3, <1>4, <2>4, SMT DEF Senders!TakeLocked, Senders!TypeOK
  <2>6. \A b \in Senders!Bytes : uses'[b] > 0 => b < packet'[t].pos + Block
    BY <1>1, <1>3, <2>2, <2>4, SMT DEF Senders!TypeOK, Senders!Bytes, SendConstants
  <2>7. \A u \in Threads : step'[u] = "encrypt" => u = t
    BY <2>1 DEF Senders!TakeLocked
  <2> QED BY <2>1, <2>3, <2>5, <2>6, <2>7 DEF StreamOwned
<1>9. Senders!SendSound'
  BY DEF Senders!TakeLocked, SendInv, Senders!SendSound, Senders!KeyStreamOnce, Senders!MacRight
<1> QED BY <1>6, <1>7, <1>8, <1>9 DEF SendInv

(* Masking a payload uses new bytes only, all of them before the position.  *)
LEMMA MaskKeeps ==
  ASSUME SendConstants, SendInv, NEW t \in Threads, step[t] = "encrypt", Senders!Mask(t)
  PROVE  /\ uses' \in [Senders!Bytes -> Nat]
         /\ \A b \in Senders!Bytes : uses'[b] <= 1
         /\ \A b \in Senders!Bytes : uses'[b] > 0 => b < position
<1>1. uses \in [Senders!Bytes -> Nat] /\ position \in Nat BY DEF SendInv, Senders!TypeOK
<1>2. packet[t].pos \in Nat /\ packet[t].size \in Nat
  BY DEF SendInv, Senders!TypeOK, Senders!Packet
<1>3. /\ packet[t].pos + Block + packet[t].size <= position
      /\ \A b \in Senders!Bytes : uses[b] > 0 => b < packet[t].pos + Block
  BY DEF SendInv, StreamOwned
<1>4. uses' \in [Senders!Bytes -> Nat] BY <1>1 DEF Senders!Mask
<1> SUFFICES ASSUME NEW b \in Senders!Bytes
             PROVE  uses'[b] <= 1 /\ (uses'[b] > 0 => b < position)
  BY <1>4
<1>5. b \in Nat /\ uses[b] \in Nat /\ Block \in Nat
  BY <1>1, SMT DEF Senders!Bytes, SendConstants
<1>6. CASE b \in Senders!Masked(t)
  <2>1. b >= packet[t].pos + Block /\ b <= packet[t].pos + Block + packet[t].size - 1
    BY <1>2, <1>5, <1>6, SMT DEF Senders!Masked
  <2>2. uses[b] = 0 BY <1>2, <1>3, <1>5, <2>1, SMT
  <2>3. uses'[b] = 1 BY <1>6, <2>2 DEF Senders!Mask
  <2>4. b < position BY <1>1, <1>2, <1>3, <1>5, <2>1, SMT
  <2> QED BY <2>3, <2>4
<1>7. CASE b \notin Senders!Masked(t)
  <2>1. uses'[b] = uses[b] BY <1>7 DEF Senders!Mask
  <2>2. uses[b] <= 1 /\ (uses[b] > 0 => b < position)
    BY DEF SendInv, StreamOwned, Senders!SendSound, Senders!KeyStreamOnce
  <2> QED BY <2>1, <2>2
<1> QED BY <1>6, <1>7

(* When the lock is given up, nobody encrypts. *)
LEMMA Released ==
  ASSUME SendConstants, SendInv, NEW t \in Threads, step[t] = "encrypt",
         holder' = Senders!Nobody, step' = [step EXCEPT ![t] = "idle"]
  PROVE  \A u \in Threads : step'[u] # "encrypt" /\ holder' # u
<1>1. \A u \in Threads : step[u] = "encrypt" => u = t BY DEF SendInv, StreamOwned
<1> QED BY <1>1 DEF SendInv, Senders!TypeOK, SendConstants

LEMMA EncryptAndSendKeeps ==
  ASSUME SendConstants, SendInv, NEW t \in Threads, Senders!EncryptAndSend(t)
  PROVE  SendInv'
<1>1. packet[t].pos \in Nat BY DEF SendInv, Senders!TypeOK, Senders!Packet
<1>2. /\ index' \in Nat /\ gmacKey' = index'
      /\ Senders!KeyFor(packet[t].pos) = Senders!PeriodOf(packet[t].pos) /\ Senders!PeriodOf(packet[t].pos) \in Nat
  BY <1>1, GmacTypes DEF Senders!EncryptAndSend
<1>3. /\ uses' \in [Senders!Bytes -> Nat] /\ \A b \in Senders!Bytes : uses'[b] <= 1
      /\ \A b \in Senders!Bytes : uses'[b] > 0 => b < position
  BY MaskKeeps DEF Senders!EncryptAndSend
<1>4. Senders!TypeOK'
  BY <1>1, <1>2, <1>3 DEF Senders!EncryptAndSend, SendInv, Senders!TypeOK
<1>5. KeysAgree' BY <1>2 DEF Senders!EncryptAndSend, SendInv, Senders!TypeOK, KeysAgree
<1>6. StreamOwned' BY <1>3, Released DEF Senders!EncryptAndSend, StreamOwned
<1>7. Senders!SendSound'
  BY <1>2, <1>3 DEF Senders!EncryptAndSend, SendInv, Senders!SendSound, Senders!KeyStreamOnce, Senders!MacRight
<1> QED BY <1>4, <1>5, <1>6, <1>7 DEF SendInv

LEMMA EncryptFailsKeeps ==
  ASSUME SendConstants, SendInv, NEW t \in Threads, Senders!EncryptFails(t)
  PROVE  SendInv'
<1>1. packet[t].pos \in Nat BY DEF SendInv, Senders!TypeOK, Senders!Packet
<1>2. index' \in Nat /\ gmacKey' = index'
  BY <1>1, GmacTypes DEF Senders!EncryptFails, SendInv, Senders!TypeOK, KeysAgree
<1>3. /\ uses' \in [Senders!Bytes -> Nat] /\ \A b \in Senders!Bytes : uses'[b] <= 1
      /\ \A b \in Senders!Bytes : uses'[b] > 0 => b < position
  <2>1. CASE Senders!Mask(t) BY <2>1, MaskKeeps DEF Senders!EncryptFails
  <2>2. CASE uses' = uses
    BY <2>2 DEF SendInv, Senders!TypeOK, StreamOwned, Senders!SendSound, Senders!KeyStreamOnce
  <2> QED BY <2>1, <2>2 DEF Senders!EncryptFails
<1>4. Senders!TypeOK' BY <1>2, <1>3 DEF Senders!EncryptFails, SendInv, Senders!TypeOK
<1>5. KeysAgree' BY <1>2 DEF Senders!EncryptFails, SendInv, Senders!TypeOK, KeysAgree
<1>6. StreamOwned' BY <1>3, Released DEF Senders!EncryptFails, StreamOwned
<1>7. Senders!SendSound'
  BY <1>3 DEF Senders!EncryptFails, SendInv, Senders!SendSound, Senders!KeyStreamOnce, Senders!MacRight
<1> QED BY <1>4, <1>5, <1>6, <1>7 DEF SendInv

LEMMA SetCryptKeeps == ASSUME SendConstants, SendInv, Senders!SetCrypt PROVE SendInv'
<1>1. Senders!TypeOK' BY DEF Senders!SetCrypt, SendInv, Senders!TypeOK
<1>2. KeysAgree' BY DEF Senders!SetCrypt, SendInv, KeysAgree
<1>3. StreamOwned' /\ Senders!SendSound'
  BY DEF Senders!SetCrypt, SendInv, StreamOwned, Senders!SendSound, Senders!KeyStreamOnce, Senders!MacRight
<1> QED BY <1>1, <1>2, <1>3 DEF SendInv

LEMMA SendStutters == ASSUME SendInv, UNCHANGED Senders!vars PROVE SendInv'
BY DEF Senders!vars, SendInv, Senders!TypeOK, KeysAgree, StreamOwned, Senders!SendSound, Senders!KeyStreamOnce, Senders!MacRight

LEMMA SendStepKeeps == ASSUME SendConstants, SendInv, [Senders!Next]_(Senders!vars) PROVE SendInv'
<1>1. CASE UNCHANGED Senders!vars BY <1>1, SendStutters
<1>2. CASE Senders!SetCrypt BY <1>2, SetCryptKeeps
<1>3. CASE \E t \in Threads, n \in Sizes, numbered \in BOOLEAN : Senders!TakePosition(t, n, numbered)
  BY <1>3, TakePositionKeeps
<1>4. CASE \E t \in Threads, n \in Sizes : Senders!TakeLocked(t, n) BY <1>4, TakeLockedKeeps
<1>5. CASE \E t \in Threads : Senders!TakeNumber(t) \/ Senders!Seal(t) \/ Senders!SealFails(t)
  BY <1>5, TakeNumberKeeps, SealKeeps, SealFailsKeeps
<1>6. CASE \E t \in Threads : Senders!SendRaw(t) \/ Senders!SendFails(t)
  BY <1>6, SendRawKeeps, SendFailsKeeps
<1>7. CASE \E t \in Threads : Senders!EncryptAndSend(t) \/ Senders!EncryptFails(t)
  BY <1>7, EncryptAndSendKeeps, EncryptFailsKeeps
<1> QED BY <1>1, <1>2, <1>3, <1>4, <1>5, <1>6, <1>7 DEF Senders!Next

(* For every set of threads and every size of payload: a byte of the key    *)
(* stream masks at most one byte of payload (takion.c:677-760), and every   *)
(* packet on the network is sealed with the key of its own position's       *)
(* period (gkcrypt.c:380-400), whatever the order of the sends.             *)
THEOREM SendCorrect == Senders!Spec => [](Senders!TypeOK /\ Senders!SendSound)
<1>0. SendConstants BY SendAssumption DEF SendConstants
<1>1. Senders!Init => SendInv BY <1>0, SendStart
<1>2. SendInv /\ [Senders!Next]_(Senders!vars) => SendInv' BY <1>0, SendStepKeeps
<1>3. SendInv => Senders!TypeOK /\ Senders!SendSound BY DEF SendInv
<1> QED BY <1>1, <1>2, <1>3, PTL DEF Senders!Spec

-----------------------------------------------------------------------------
(* The video receiver.                                                      *)

VideoMod == 2 * VideoHalf
HandedOn == [frame : Int, ref : Int, profile : Int, whole : BOOLEAN]
Receiver ==
  [cur : Int, prev : Int, complete : Int, profile : Int, lost : Int, refs : Seq(Int),
   units : [Video!SlotIds -> Int], nsource : Int, nfec : Int, curU : Int, completeU : Int,
   told : SUBSET Int, accepted : SUBSET Int,
   last : HandedOn]

LEMMA VideoSizes ==
  /\ VideoMod \in Nat \ {0} /\ VideoMod = VideoHalf + VideoHalf /\ VideoMod >= 2
  /\ VideoHalf \in Nat \ {0} /\ VideoSource \in Nat \ {0} /\ VideoFec \in Nat
  /\ MaxFrame \in Nat /\ Refs \in Nat \ {0} /\ Refs < VideoMod
  /\ Gap \in Nat \ {0} /\ Gap <= VideoHalf /\ Refs * (Gap - 1) <= VideoMod
  /\ Video!SeqMod = VideoMod /\ Video!FecSlots \in Nat \ {0}
BY VideoAssumption DEF VideoMod, Video!SeqMod, Video!FecSlots

LEMMA WrapFrame ==
  ASSUME NEW n \in Int PROVE Video!Wrap(n) = n % VideoMod /\ Video!Wrap(n) \in 0 .. VideoMod - 1
BY VideoSizes, DivMod DEF Video!Wrap

LEMMA WrapTwice ==
  ASSUME NEW n \in Int PROVE Video!Wrap(n) % VideoMod = n % VideoMod
<1>1. PICK a \in 0 .. VideoMod - 1 : a = n % VideoMod
  BY VideoSizes, DivMod
<1>2. a \in Int /\ a = 0 * VideoMod + a
  BY VideoSizes
<1>3. a % VideoMod = a
  BY <1>2, VideoSizes, RemainderUnique
<1>. QED  BY <1>1, <1>3, WrapFrame

(* The comparisons of the receiver are those of the frames' numbers.        *)
LEMMA FrameOrder ==
  ASSUME NEW n \in Int, NEW m \in Int, n - m < VideoHalf, m - n < VideoHalf
  PROVE  /\ Video!Wrap(n) = Video!Wrap(m) <=> n = m
         /\ Video!SeqLt(Video!Wrap(n), Video!Wrap(m)) <=> n < m
         /\ Video!SeqGt(Video!Wrap(n), Video!Wrap(m)) <=> n > m
<1> DEFINE a == Video!Wrap(n)
           b == Video!Wrap(m)
<1>1. a \in Int /\ b \in Int
  BY WrapFrame, VideoSizes
<1>2. /\ a = b <=> n = m
      /\ (a < b /\ b - a < VideoHalf) \/ (a > b /\ a - b > VideoHalf) <=> n < m
      /\ (a < b /\ b - a > VideoHalf) \/ (a > b /\ a - b < VideoHalf) <=> n > m
  <2>1. VideoMod = VideoHalf + VideoHalf /\ VideoHalf \in Nat \ {0}
    BY VideoSizes
  <2>2. a = n % (VideoHalf + VideoHalf) /\ b = m % (VideoHalf + VideoHalf)
    BY <2>1, WrapFrame
  <2> HIDE DEF a, b
  <2>. QED  BY <2>1, <2>2, RemainderOrder
<1> HIDE DEF a, b
<1>3. (Video!SeqLt(a, b) <=> n < m) /\ (Video!SeqGt(a, b) <=> n > m)
  BY <1>2 DEF Video!SeqLt, Video!SeqGt
<1>. QED  BY <1>2, <1>3 DEF a, b

(* The next number expected, and what a report of it and of what follows    *)
(* up to frame n names.                                                     *)
LEMMA ExpectedFrame ==
  ASSUME NEW r, NEW c \in Int, r.complete = Video!Wrap(c)
  PROVE  Video!Expected(r) = Video!Wrap(c + 1)
<1>1. ((c % VideoMod) + 1) % VideoMod = (c + 1) % VideoMod
  BY VideoSizes, RemainderSum
<1>2. Video!Wrap(c) \in Int /\ Video!Wrap(c) + 1 \in Int
  BY WrapFrame, VideoSizes
<1>. QED  BY <1>1, <1>2, WrapFrame DEF Video!Expected

LEMMA ReportSpan ==
  ASSUME NEW n \in Int, NEW m \in Int, NEW to \in Int, 0 <= n - m, n - m < VideoMod,
         to % VideoMod = n % VideoMod
  PROVE  (to - Video!Wrap(m)) % VideoMod = n - m
<1> DEFINE w == m % VideoMod
<1>1. w \in Int /\ n % VideoMod \in Int /\ Video!Wrap(m) = w
  BY WrapFrame, DivMod, VideoSizes
<1>2. ((n % VideoMod) - w) % VideoMod = n - m
  BY VideoSizes, RemainderDistance
<1> HIDE DEF w
<1>3. PICK k \in Int : k = 0 - w
  BY <1>1
<1>4. ((to % VideoMod) + k) % VideoMod = (to + k) % VideoMod
  BY VideoSizes, RemainderSum
<1>5. to + k = to - w /\ (n % VideoMod) + k = (n % VideoMod) - w
  BY <1>1, <1>3
<1>. QED  BY <1>1, <1>2, <1>4, <1>5

LEMMA TellReports ==
  ASSUME NEW r \in Receiver, NEW n \in Int, NEW to \in Int,
         r.complete = Video!Wrap(r.completeU), r.completeU < n, n - r.completeU <= VideoMod,
         to % VideoMod = n % VideoMod
  PROVE  Video!Tell(r, Video!Expected(r), to)
           = [r EXCEPT !.told = @ \cup (r.completeU + 1 .. n)]
<1> DEFINE c == r.completeU
<1>1. c \in Int /\ c + 1 \in Int
  BY DEF Receiver
<1>2. Video!Expected(r) = Video!Wrap(c + 1)
  BY <1>1, ExpectedFrame
<1>3. (Video!Wrap(c + 1) - r.complete) % VideoMod = 1
  <2>1. (((c + 1) % VideoMod) - (c % VideoMod)) % VideoMod = (c + 1) - c
    BY <1>1, VideoSizes, RemainderDistance
  <2>2. (c + 1) - c = 1
    BY <1>1
  <2>3. Video!Wrap(c + 1) = (c + 1) % VideoMod /\ r.complete = c % VideoMod
    BY <1>1, WrapFrame
  <2>. QED  BY <2>1, <2>2, <2>3
<1>4. (to - Video!Wrap(c + 1)) % VideoMod = n - (c + 1)
  <2>1. PICK m \in Int : m = c + 1
    BY <1>1
  <2>2. 0 <= n - m /\ n - m < VideoMod
    BY <1>1, <2>1, VideoSizes
  <2>3. (to - Video!Wrap(m)) % VideoMod = n - m
    BY <2>2, ReportSpan
  <2>. QED  BY <2>1, <2>3
<1>5. {c + 1 + i : i \in 0 .. n - (c + 1)} = c + 1 .. n
  <2>1. ASSUME NEW x \in c + 1 .. n PROVE x \in {c + 1 + i : i \in 0 .. n - (c + 1)}
    <3>1. x - (c + 1) \in 0 .. n - (c + 1) /\ x = c + 1 + (x - (c + 1))
      BY <1>1
    <3>. QED  BY <3>1
  <2>. QED  BY <1>1, <2>1
<1>. QED  BY <1>2, <1>3, <1>4, <1>5, VideoSizes DEF Video!Tell

-----------------------------------------------------------------------------
(* The invariant of the receiver r, in parts.  Numbers: the wrapped numbers *)
(* are those of the frames the history names.  Slots: they hold units of    *)
(* the frame being built only.  Reports: what was told are frames the       *)
(* decoder does not have.  References: those that it has, the k-th not more *)
(* than k gaps back.  Handing: what holds of the last frame handed on.      *)
InProgress(r) == r.cur # r.prev
NumbersMatch(r) ==
  /\ r.completeU \in Nat /\ r.curU \in 0 .. MaxFrame /\ r.completeU <= r.curU
  /\ r.curU - r.completeU < Gap
  /\ r.complete = Video!Wrap(r.completeU)
  /\ \/ r.cur = -1 /\ r.curU = 0 /\ r.prev = -1
     \/ r.cur = Video!Wrap(r.curU) /\ r.curU > 0
  /\ r.prev \in -1 .. VideoMod - 1 /\ r.profile \in {-1, 0, 1}
  /\ InProgress(r) => r.completeU < r.curU
Filled(u, S) == {i \in S : u[i] # Video!Empty}
SourceSlots == 0 .. VideoSource - 1
FecOnly == VideoSource .. VideoSource + Video!FecSlots - 1
SlotsOwn(r) ==
  /\ \A i \in Video!SlotIds : r.units[i] = Video!Empty \/ (r.units[i] = r.curU /\ r.curU > 0)
  /\ r.nsource \in Nat /\ r.nsource <= Cardinality(Filled(r.units, SourceSlots))
  /\ r.nfec \in Nat /\ r.nfec <= Cardinality(Filled(r.units, FecOnly))
Reports(r) ==
  /\ r.told \subseteq 1 .. r.curU /\ r.accepted \subseteq 1 .. r.completeU
  /\ r.told \cap r.accepted = {}
  /\ InProgress(r) => r.curU \notin r.told
  /\ r.completeU + 1 .. r.curU - 1 \subseteq r.told
ReferencesHeld(r) ==
  /\ Len(r.refs) <= Refs
  /\ \A k \in 1 .. Len(r.refs) :
       \E x \in r.accepted : /\ r.refs[k] = Video!Wrap(x)
                             /\ r.completeU - (k - 1) * (Gap - 1) <= x
HandedRight(r) ==
  /\ r.last.whole
  /\ r.last.frame = 0 \/ r.last.profile = Video!ProfileOf(r.last.frame)
  /\ r.last.ref # Video!None => r.last.ref \in r.accepted
  /\ r.last.frame <= r.curU
  /\ InProgress(r) => r.last.frame # r.curU
Kept(r) ==
  r \in Receiver /\ NumbersMatch(r) /\ SlotsOwn(r) /\ Reports(r) /\ ReferencesHeld(r) /\ HandedRight(r)

(* The counters of a frame in progress are exact, and too low to flush it.  *)
Exact(r) == InProgress(r) => r.nsource + r.nfec = Cardinality(Filled(r.units, Video!SlotIds))
Lacks(r) == InProgress(r) => r.nsource + r.nfec < VideoSource
VideoInv(r) == Kept(r) /\ Exact(r) /\ Lacks(r)

(* The receiver module counts with the same operator. *)
LEMMA SameCount == \A S : Video!Cardinality(S) = Cardinality(S)
BY DEF Video!Cardinality, Cardinality

LEMMA SlotSets ==
  /\ Video!SlotIds = SourceSlots \cup FecOnly /\ SourceSlots \cap FecOnly = {}
  /\ IsFiniteSet(SourceSlots) /\ Cardinality(SourceSlots) = VideoSource
  /\ IsFiniteSet(FecOnly) /\ Cardinality(FecOnly) = Video!FecSlots
  /\ IsFiniteSet(Video!SlotIds) /\ Cardinality(Video!SlotIds) = VideoSource + Video!FecSlots
<1>1. Video!SlotIds = SourceSlots \cup FecOnly /\ SourceSlots \cap FecOnly = {}
  BY VideoSizes DEF Video!SlotIds, SourceSlots, FecOnly
<1>2. /\ IsFiniteSet(SourceSlots) /\ Cardinality(SourceSlots) = VideoSource
  BY VideoSizes, FS_Interval DEF SourceSlots
<1>3. IsFiniteSet(FecOnly) /\ Cardinality(FecOnly) = Video!FecSlots
  BY VideoSizes, FS_Interval DEF FecOnly
<1>4. IsFiniteSet(Video!SlotIds) /\ Cardinality(Video!SlotIds) = VideoSource + Video!FecSlots
  BY VideoSizes, FS_Interval DEF Video!SlotIds
<1>. QED  BY <1>1, <1>2, <1>3, <1>4

(* Filling one empty slot counts once. *)
LEMMA FillCounts ==
  ASSUME NEW u, NEW w, NEW S, IsFiniteSet(S), NEW i,
         \A j \in S \ {i} : w[j] = u[j],
         u[i] = Video!Empty, w[i] # Video!Empty
  PROVE  /\ i \in S => Cardinality(Filled(w, S)) = Cardinality(Filled(u, S)) + 1
         /\ i \notin S => Filled(w, S) = Filled(u, S)
         /\ Cardinality(Filled(u, S)) \in Nat
<1> DEFINE F == Filled(u, S)
<1>1. IsFiniteSet(F) /\ i \notin F
  <2>1. F \subseteq S /\ i \notin F
    BY DEF Filled
  <2>. QED  BY <2>1, FS_Subset
<1>2. i \in S => Filled(w, S) = F \cup {i}
  BY DEF Filled
<1>3. i \notin S => Filled(w, S) = F
  BY DEF Filled
<1> HIDE DEF F
<1>4. Cardinality(F \cup {i}) = Cardinality(F) + 1
  BY <1>1, FS_AddElement
<1>5. Cardinality(F) \in Nat
  BY <1>1, FS_CardinalityType
<1>. QED  BY <1>2, <1>3, <1>4, <1>5 DEF F

(* What is filled in beside what was there does not count less.             *)
LEMMA FillMonotone ==
  ASSUME NEW u, NEW w, NEW S, IsFiniteSet(S),
         \A j \in S : u[j] # Video!Empty => w[j] # Video!Empty
  PROVE  /\ Cardinality(Filled(u, S)) \in Nat /\ Cardinality(Filled(w, S)) \in Nat
         /\ Cardinality(Filled(u, S)) <= Cardinality(Filled(w, S))
         /\ Cardinality(Filled(u, S)) <= Cardinality(S) /\ Cardinality(S) \in Nat
<1>1. Filled(u, S) \subseteq Filled(w, S) /\ Filled(w, S) \subseteq S /\ Filled(u, S) \subseteq S
  BY DEF Filled
<1>2. IsFiniteSet(Filled(w, S)) /\ IsFiniteSet(Filled(u, S))
  BY <1>1, FS_Subset
<1>. QED  BY <1>1, <1>2, FS_Subset, FS_CardinalityType

-----------------------------------------------------------------------------
(* The results of a flush.                                                  *)

(* What a step that ends the frame in progress leaves alone.                *)
SameFrame(f, r) ==
  /\ f \in Receiver /\ r \in Receiver
  /\ f.cur = r.cur /\ f.curU = r.curU /\ f.prev = r.cur
  /\ f.profile = r.profile /\ f.nsource = r.nsource /\ f.nfec = r.nfec

LEMMA CurRange ==
  ASSUME NEW r, NumbersMatch(r)
  PROVE  r.cur \in -1 .. VideoMod - 1 /\ r.prev \in -1 .. VideoMod - 1
<1>1. CASE r.cur = -1
  BY <1>1, VideoSizes DEF NumbersMatch
<1>2. CASE r.cur = Video!Wrap(r.curU) /\ r.curU > 0
  <2>1. r.curU \in Int
    BY VideoSizes DEF NumbersMatch
  <2>2. Video!Wrap(r.curU) \in 0 .. VideoMod - 1
    BY <2>1, WrapFrame
  <2>. QED  BY <1>2, <2>2, VideoSizes DEF NumbersMatch
<1>. QED  BY <1>1, <1>2 DEF NumbersMatch

LEMMA FailedFields ==
  ASSUME NEW r, Kept(r), InProgress(r), r.curU > 0
  PROVE  LET f == Video!Failed(r)
         IN  /\ SameFrame(f, r) /\ f.told = r.told \cup (r.completeU + 1 .. r.curU)
             /\ f.units = r.units /\ f.refs = r.refs /\ f.last = r.last
             /\ f.complete = r.complete /\ f.completeU = r.completeU /\ f.accepted = r.accepted
<1>1. /\ r \in Receiver /\ r.completeU \in Nat /\ r.curU \in Nat /\ r.completeU < r.curU
      /\ r.curU - r.completeU < Gap /\ r.complete = Video!Wrap(r.completeU)
      /\ r.cur = Video!Wrap(r.curU) /\ r.cur \in Int
  <2>1. r \in Receiver /\ NumbersMatch(r)
    BY DEF Kept
  <2>2. r.cur \in Int
    BY <2>1 DEF Receiver
  <2>. QED  BY <2>1, <2>2, VideoSizes DEF NumbersMatch
<1>2. r.cur % VideoMod = r.curU % VideoMod
  BY <1>1, WrapTwice
<1>3. Video!Tell(r, Video!Expected(r), r.cur)
        = [r EXCEPT !.told = @ \cup (r.completeU + 1 .. r.curU)]
  <2>1. r.curU - r.completeU <= VideoMod
    BY <1>1, VideoSizes
  <2>. QED  BY <1>1, <1>2, <2>1, TellReports
<1>4. Video!Expected(r) \in Int
  <2>1. Video!Expected(r) = Video!Wrap(r.completeU + 1) /\ r.completeU + 1 \in Int
    BY <1>1, ExpectedFrame
  <2>. QED  BY <2>1, WrapFrame, VideoSizes
<1>5. PICK x \in Int : x = r.lost + r.cur - Video!Expected(r) + 1
  BY <1>1, <1>4 DEF Receiver
<1>6. Video!Failed(r)
        = [r EXCEPT !.told = @ \cup (r.completeU + 1 .. r.curU), !.lost = x, !.prev = r.cur]
  BY <1>1, <1>3, <1>5 DEF Video!Failed, Receiver
<1>7. r.completeU + 1 .. r.curU \subseteq Int
  OBVIOUS
<1>. QED  BY ZenonT(60), <1>1, <1>6, <1>7 DEF SameFrame, Receiver

LEMMA FailedKeeps ==
  ASSUME NEW r, Kept(r), InProgress(r), r.curU > 0
  PROVE  /\ Kept(Video!Failed(r)) /\ ~InProgress(Video!Failed(r))
         /\ SameFrame(Video!Failed(r), r) /\ Video!Failed(r).completeU = r.completeU
<1> DEFINE f == Video!Failed(r)
<1>1. /\ SameFrame(f, r) /\ f.told = r.told \cup (r.completeU + 1 .. r.curU)
      /\ f.units = r.units /\ f.refs = r.refs /\ f.last = r.last
      /\ f.complete = r.complete /\ f.completeU = r.completeU /\ f.accepted = r.accepted
  BY FailedFields
<1> HIDE DEF f
<1>2. f \in Receiver /\ ~InProgress(f)
  BY <1>1 DEF SameFrame, InProgress
<1>3. r.cur \in -1 .. VideoMod - 1
  BY CurRange DEF Kept
<1>4. NumbersMatch(f)
  BY <1>1, <1>2, <1>3 DEF Kept, NumbersMatch, SameFrame
<1>5. SlotsOwn(f)
  BY <1>1 DEF Kept, SlotsOwn, SameFrame
<1>6. Reports(f)
  <2>1. /\ r.told \subseteq 1 .. r.curU /\ r.accepted \subseteq 1 .. r.completeU
        /\ r.completeU \in Nat /\ r.curU \in Nat /\ r.told \cap r.accepted = {}
    BY VideoSizes DEF Kept, NumbersMatch, Reports
  <2>2. f.told \subseteq 1 .. f.curU
    BY <1>1, <2>1 DEF SameFrame
  <2>3. f.accepted \subseteq 1 .. f.completeU
    BY <1>1, <2>1
  <2>4. f.told \cap f.accepted = {}
    BY <1>1, <2>1
  <2>5. f.completeU + 1 .. f.curU - 1 \subseteq f.told
    BY <1>1, <2>1 DEF SameFrame
  <2>. QED  BY <1>2, <2>2, <2>3, <2>4, <2>5 DEF Reports
<1>7. ReferencesHeld(f)
  BY <1>1 DEF Kept, ReferencesHeld
<1>8. HandedRight(f)
  BY <1>1, <1>2 DEF Kept, HandedRight, SameFrame
<1>. QED  BY <1>1, <1>2, <1>4, <1>5, <1>6, <1>7, <1>8 DEF Kept, f

(* A reference that is found is a frame the decoder has.                    *)
LEMMA ReferenceIsFrame ==
  ASSUME NEW r, Kept(r), r.completeU < r.curU, NEW d \in 0 .. Refs, Video!HaveRef(r, d)
  PROVE  r.curU - d - 1 \in r.accepted
<1>1. /\ r.completeU \in Nat /\ r.curU \in Nat /\ r.curU - r.completeU < Gap
      /\ r.cur = Video!Wrap(r.curU) /\ r.refs \in Seq(Int) /\ r.accepted \subseteq 1 .. r.completeU
  <2>1. r \in Receiver /\ NumbersMatch(r) /\ Reports(r)
    BY DEF Kept
  <2>2. r.refs \in Seq(Int)
    BY <2>1 DEF Receiver
  <2>. QED  BY <2>1, <2>2, VideoSizes DEF NumbersMatch, Reports
<1>2. PICK y \in Int : y = r.curU - d - 1
  BY <1>1
<1>3. Video!Wrap(r.cur - d - 1) = Video!Wrap(y)
  <2>1. PICK c \in Int : c = 0 - d - 1
    OBVIOUS
  <2>2. ((r.curU % VideoMod) + c) % VideoMod = (r.curU + c) % VideoMod
    BY <1>1, VideoSizes, RemainderSum
  <2>3. r.curU % VideoMod \in Int /\ Video!Wrap(r.curU) = r.curU % VideoMod
    <3>1. PICK u \in Int : u = r.curU
      BY <1>1
    <3>2. Video!Wrap(u) = u % VideoMod /\ Video!Wrap(u) \in Int
      BY WrapFrame, VideoSizes
    <3>. QED  BY <3>1, <3>2
  <2>4. r.cur - d - 1 = (r.curU % VideoMod) + c /\ y = r.curU + c
    <3>1. PICK u \in Int, v \in Int : u = r.curU /\ v = r.curU % VideoMod
      BY <1>1, <2>3
    <3>2. v - d - 1 = v + c /\ u - d - 1 = u + c
      BY <2>1
    <3>. QED  BY <1>1, <1>2, <2>3, <3>1, <3>2
  <2>5. r.cur - d - 1 \in Int
    BY <2>1, <2>3, <2>4
  <2>. QED  BY <1>2, <2>2, <2>4, <2>5, WrapFrame
<1>4. PICK k \in 1 .. Len(r.refs) : r.refs[k] = Video!Wrap(y)
  BY <1>1, <1>3 DEF Video!HaveRef, Video!Range
<1>5. PICK x \in r.accepted : /\ r.refs[k] = Video!Wrap(x)
                              /\ r.completeU - (k - 1) * (Gap - 1) <= x
  BY <1>4 DEF Kept, ReferencesHeld
<1>6. x \in Int /\ x <= r.completeU
  BY <1>1, <1>5
<1>7. (k - 1) * (Gap - 1) + (Gap - 1) <= VideoMod
  <2>1. PICK g \in Nat : g = Gap - 1
    BY VideoSizes
  <2>2. PICK j \in Nat : Refs = k + j
    <3>1. k <= Refs /\ k \in Nat
      BY <1>1, <1>4, VideoSizes DEF Kept, ReferencesHeld
    <3>2. Refs - k \in Nat /\ Refs = k + (Refs - k)
      BY <3>1, VideoSizes
    <3>. QED  BY <3>2
  <2>3. k * g + j * g <= VideoMod /\ j * g >= 0
    <3>1. (k + j) * g = k * g + j * g /\ j * g >= 0
      BY <2>1, <2>2, <1>4
    <3>. QED  BY <2>1, <2>2, <3>1, VideoSizes
  <2>4. (k - 1) * g + g = k * g /\ k * g \in Int /\ j * g \in Int
    BY <2>1, <2>2, <1>4
  <2>. QED  BY <2>1, <2>3, <2>4, VideoSizes
<1>8. y - x < VideoMod /\ x - y < VideoMod
  <2>1. PICK p \in Int : p = (k - 1) * (Gap - 1)
    BY <1>4, VideoSizes
  <2>2. p + (Gap - 1) <= VideoMod /\ r.completeU - p <= x
    BY <1>5, <1>7, <2>1
  <2>3. VideoMod \in Nat /\ Gap \in Nat /\ Refs < VideoMod /\ Refs \in Nat
    BY VideoSizes
  <2>4. PICK c \in Int, u \in Int : c = r.completeU /\ u = r.curU
    BY <1>1
  <2>5. c < u /\ u - c < Gap /\ y = u - d - 1 /\ x <= c /\ c - p <= x
    BY <1>1, <1>2, <1>6, <2>2, <2>4
  <2>6. x \in Int /\ y \in Int /\ d \in Int /\ 0 <= d /\ d <= Refs
    BY <1>2, <1>6, <2>3
  <2>7. y - x < VideoMod
    BY <2>2, <2>3, <2>5, <2>6
  <2>8. x - y < VideoMod
    BY SMTT(30), <2>3, <2>4, <2>5, <2>6
  <2>. QED  BY <2>7, <2>8
<1>9. x = y
  <2>1. x % VideoMod = y % VideoMod
    BY <1>2, <1>4, <1>5, <1>6, WrapFrame
  <2>. QED  BY <1>2, <1>6, <1>8, <2>1, VideoSizes, RemainderInjective
<1>. QED  BY <1>2, <1>5, <1>9

(* FEC fills the empty slots of the source units with units of the frame.   *)
LEMMA RestoredKeeps ==
  ASSUME NEW r, Kept(r), r.curU > 0
  PROVE  LET w == Video!Restored(r)
         IN  /\ Kept(w) /\ \A i \in SourceSlots : w.units[i] = r.curU
             /\ w = [r EXCEPT !.units = w.units] /\ w.units \in [Video!SlotIds -> Int]
<1> DEFINE w == Video!Restored(r)
           u == [i \in Video!SlotIds |-> IF i < VideoSource /\ r.units[i] = Video!Empty
                                         THEN r.curU ELSE r.units[i]]
<1>1. r \in Receiver /\ r.curU \in Nat /\ r.units \in [Video!SlotIds -> Int]
  <2>1. r \in Receiver /\ NumbersMatch(r)
    BY DEF Kept
  <2>. QED  BY <2>1, VideoSizes DEF NumbersMatch, Receiver
<1>2. w = [r EXCEPT !.units = u]
  <2>1. r.units = [i \in Video!SlotIds |-> r.units[i]]
    BY <1>1
  <2>. QED  BY <1>1, <2>1 DEF Video!Restored, Receiver
<1>3. u \in [Video!SlotIds -> Int]
  BY <1>1
<1>4. /\ w \in Receiver /\ w.units = u
      /\ w.cur = r.cur /\ w.prev = r.prev /\ w.complete = r.complete /\ w.profile = r.profile
      /\ w.refs = r.refs /\ w.nsource = r.nsource /\ w.nfec = r.nfec /\ w.curU = r.curU
      /\ w.completeU = r.completeU /\ w.told = r.told /\ w.accepted = r.accepted /\ w.last = r.last
  BY <1>1, <1>2, <1>3 DEF Receiver
<1>5. \A i \in Video!SlotIds : /\ u[i] = Video!Empty \/ u[i] = r.curU
                               /\ r.units[i] # Video!Empty => u[i] # Video!Empty
                               /\ i < VideoSource => u[i] = r.curU
  <2>1. \A i \in Video!SlotIds : r.units[i] = Video!Empty \/ r.units[i] = r.curU
    BY DEF Kept, SlotsOwn
  <2>. QED  BY <2>1
<1> HIDE DEF w, u
<1>6. \A i \in SourceSlots : u[i] = r.curU
  <2>1. \A i \in SourceSlots : i \in Video!SlotIds /\ i < VideoSource
    BY SlotSets, VideoSizes DEF SourceSlots
  <2>. QED  BY <1>5, <2>1
<1>7. SlotsOwn(w)
  <2>1. \A i \in SourceSlots : r.units[i] # Video!Empty => u[i] # Video!Empty
    BY <1>5, SlotSets
  <2>2. \A i \in FecOnly : r.units[i] # Video!Empty => u[i] # Video!Empty
    BY <1>5, SlotSets
  <2>3. /\ Cardinality(Filled(r.units, SourceSlots)) <= Cardinality(Filled(u, SourceSlots))
        /\ Cardinality(Filled(r.units, SourceSlots)) \in Nat
        /\ Cardinality(Filled(u, SourceSlots)) \in Nat
    BY <2>1, SlotSets, FillMonotone
  <2>4. /\ Cardinality(Filled(r.units, FecOnly)) <= Cardinality(Filled(u, FecOnly))
        /\ Cardinality(Filled(r.units, FecOnly)) \in Nat
        /\ Cardinality(Filled(u, FecOnly)) \in Nat
    BY <2>2, SlotSets, FillMonotone
  <2>. QED  BY <1>4, <1>5, <2>3, <2>4 DEF Kept, SlotsOwn
<1>8. NumbersMatch(w) /\ Reports(w) /\ ReferencesHeld(w) /\ HandedRight(w)
  <2>1. InProgress(w) <=> InProgress(r)
    BY <1>4 DEF InProgress
  <2>. QED  BY <1>4, <2>1 DEF Kept, NumbersMatch, Reports, ReferencesHeld, HandedRight
<1>. QED  BY <1>2, <1>3, <1>4, <1>6, <1>7, <1>8 DEF Kept, w

(* No frame it refers to is there. *)
LEMMA UnfitKeeps ==
  ASSUME NEW r, Kept(r), r.curU > 0
  PROVE  /\ Kept(Video!Unfit(r)) /\ ~InProgress(Video!Unfit(r)) /\ SameFrame(Video!Unfit(r), r)
<1> DEFINE f == Video!Unfit(r)
<1>1. /\ SameFrame(f, r) /\ f.told = r.told /\ f.units = r.units /\ f.refs = r.refs
      /\ f.last = r.last /\ f.complete = r.complete /\ f.completeU = r.completeU
      /\ f.accepted = r.accepted
  <2>1. r \in Receiver
    BY DEF Kept
  <2>2. PICK x \in Int : x = r.lost + 1
    BY <2>1 DEF Receiver
  <2>3. f = [r EXCEPT !.lost = x, !.prev = r.cur]
    BY <2>2 DEF Video!Unfit
  <2>. QED  BY <2>1, <2>3 DEF SameFrame, Receiver
<1> HIDE DEF f
<1>2. f \in Receiver /\ ~InProgress(f)
  BY <1>1 DEF SameFrame, InProgress
<1>3. r.cur \in -1 .. VideoMod - 1
  BY CurRange DEF Kept
<1>4. NumbersMatch(f)
  BY <1>1, <1>2, <1>3 DEF Kept, NumbersMatch, SameFrame
<1>5. SlotsOwn(f)
  BY <1>1 DEF Kept, SlotsOwn, SameFrame
<1>6. ReferencesHeld(f)
  BY <1>1 DEF Kept, ReferencesHeld
<1>7. Reports(f) /\ HandedRight(f)
  BY <1>1, <1>2 DEF Kept, Reports, HandedRight, SameFrame
<1>. QED  BY <1>1, <1>2, <1>4, <1>5, <1>6, <1>7 DEF Kept, f

(* The list of references after the frame was added: the newest first.      *)
LEMMA AddedReference ==
  ASSUME NEW refs \in Seq(Int), Len(refs) <= Refs, NEW c \in Int
  PROVE  LET added == SubSeq(<<c>> \o refs, 1, IF Len(refs) < Refs THEN Len(refs) + 1 ELSE Refs)
         IN  /\ added \in Seq(Int) /\ Len(added) <= Refs /\ Len(added) > 0 /\ added[1] = c
             /\ \A k \in 2 .. Len(added) : k - 1 \in 1 .. Len(refs) /\ added[k] = refs[k - 1]
<1> DEFINE n == IF Len(refs) < Refs THEN Len(refs) + 1 ELSE Refs
           all == <<c>> \o refs
<1>1. /\ all \in Seq(Int) /\ Len(all) = Len(refs) + 1 /\ all[1] = c
      /\ \A k \in 2 .. Len(refs) + 1 : all[k] = refs[k - 1]
  OBVIOUS
<1>2. n \in Nat /\ n >= 1 /\ n <= Len(all) /\ n <= Refs /\ n <= Len(refs) + 1
  BY <1>1, VideoSizes
<1> HIDE DEF n, all
<1>3. /\ SubSeq(all, 1, n) \in Seq(Int) /\ Len(SubSeq(all, 1, n)) = n
      /\ \A k \in 1 .. n : SubSeq(all, 1, n)[k] = all[k]
  BY <1>1, <1>2
<1>4. \A k \in 2 .. n : k - 1 \in 1 .. Len(refs) /\ k \in 2 .. Len(refs) + 1 /\ k \in 1 .. n
  BY <1>2
<1>. QED  BY <1>1, <1>2, <1>3, <1>4 DEF n, all

(* A frame goes to the decoder, which takes it or not.                      *)
LEMMA HandedReceiver ==
  ASSUME NEW r \in Receiver, NEW n \in HandedOn
  PROVE  [r EXCEPT !.lost = 0, !.prev = r.cur, !.last = n] \in Receiver
<1>1. ASSUME NEW z \in Int, NEW c \in Int
      PROVE  [r EXCEPT !.lost = z, !.prev = c, !.last = n] \in Receiver
  BY DEF Receiver
<1>2. PICK z \in Int, c \in Int : z = 0 /\ c = r.cur
  BY DEF Receiver
<1>. QED  BY <1>1, <1>2

LEMMA HandedFields ==
  ASSUME NEW r \in Receiver, NEW d \in Int, NEW takes \in BOOLEAN,
         r.curU \in Nat, Len(r.refs) <= Refs, \A i \in SourceSlots : r.units[i] = r.curU
  PROVE  LET f == Video!Handed(r, d, takes)
             added == SubSeq(<<r.cur>> \o r.refs, 1,
                             IF Len(r.refs) < Refs THEN Len(r.refs) + 1 ELSE Refs)
         IN  /\ SameFrame(f, r) /\ f.told = r.told /\ f.units = r.units
             /\ f.last.frame = r.curU /\ f.last.profile = r.profile /\ f.last.whole = TRUE
             /\ f.last.ref = IF d = Video!None THEN Video!None ELSE r.curU - d - 1
             /\ takes => /\ f.refs = added /\ f.complete = r.cur /\ f.completeU = r.curU
                         /\ f.accepted = r.accepted \cup {r.curU}
             /\ ~takes => /\ f.refs = r.refs /\ f.complete = r.complete
                          /\ f.completeU = r.completeU /\ f.accepted = r.accepted
<1> DEFINE f == Video!Handed(r, d, takes)
           whole == \A i \in Video!SlotIds : i < VideoSource => r.units[i] = r.curU
           ref == IF d = Video!None THEN Video!None ELSE r.curU - d - 1
           news == [frame |-> r.curU, profile |-> r.profile, ref |-> ref, whole |-> whole]
           h == [r EXCEPT !.lost = 0, !.prev = r.cur, !.last = news]
           added == SubSeq(<<r.cur>> \o r.refs, 1,
                           IF Len(r.refs) < Refs THEN Len(r.refs) + 1 ELSE Refs)
<1>1. whole
  <2>1. \A i \in Video!SlotIds : i < VideoSource => i \in SourceSlots
    BY SlotSets, VideoSizes DEF Video!SlotIds, SourceSlots
  <2>. QED  BY <2>1
<1>2. f = IF takes THEN [Video!AddRef(h) EXCEPT !.complete = r.cur, !.completeU = r.curU,
                                                !.accepted = @ \cup {r.curU}]
                   ELSE h
  BY DEF Video!Handed
<1>3. ref \in Int /\ r.profile \in Int /\ r.cur \in Int /\ r.refs \in Seq(Int)
  BY DEF Receiver, Video!None
<1>4. added \in Seq(Int)
  BY <1>3, AddedReference
<1> HIDE DEF whole, ref
<1>5. news \in HandedOn
      /\ news.frame = r.curU /\ news.profile = r.profile /\ news.whole = TRUE /\ news.ref = ref
  BY <1>1, <1>3 DEF HandedOn
<1> HIDE DEF news
<1>6. /\ h \in Receiver /\ h.cur = r.cur /\ h.curU = r.curU /\ h.prev = r.cur
      /\ h.profile = r.profile /\ h.nsource = r.nsource /\ h.nfec = r.nfec
      /\ h.told = r.told /\ h.units = r.units /\ h.last = news /\ h.refs = r.refs
      /\ h.complete = r.complete /\ h.completeU = r.completeU /\ h.accepted = r.accepted
  <2>1. h \in Receiver
    BY <1>5, HandedReceiver
  <2>2. /\ h.cur = r.cur /\ h.curU = r.curU /\ h.prev = r.cur
        /\ h.profile = r.profile /\ h.nsource = r.nsource /\ h.nfec = r.nfec
    BY DEF Receiver
  <2>3. h.told = r.told /\ h.units = r.units /\ h.last = news /\ h.refs = r.refs
    BY DEF Receiver
  <2>4. h.complete = r.complete /\ h.completeU = r.completeU /\ h.accepted = r.accepted
    BY DEF Receiver
  <2>. QED  BY <2>1, <2>2, <2>3, <2>4
<1> HIDE DEF h
<1>7. Video!AddRef(h) = [h EXCEPT !.refs = added]
  <2>1. h.refs = r.refs /\ h.cur = r.cur
    BY <1>6
  <2>2. Video!AddRef(h) = [h EXCEPT !.refs = SubSeq(<<h.cur>> \o h.refs, 1,
                             IF Len(h.refs) < Refs THEN Len(h.refs) + 1 ELSE Refs)]
    BY DEF Video!AddRef
  <2>. QED  BY <2>1, <2>2
<1> HIDE DEF f, added
<1>8. CASE takes
  <2>1. f = [h EXCEPT !.refs = added, !.complete = r.cur, !.completeU = r.curU,
                      !.accepted = @ \cup {r.curU}]
    BY <1>2, <1>6, <1>7, <1>8 DEF Receiver
  <2>2. r.curU \in Int /\ r.accepted \cup {r.curU} \in SUBSET Int
    BY DEF Receiver
  <2>3. SameFrame(f, r) /\ f.told = r.told /\ f.units = r.units /\ f.last = news
    BY <1>3, <1>4, <1>6, <2>1, <2>2 DEF SameFrame, Receiver
  <2>4. f.refs = added /\ f.complete = r.cur /\ f.completeU = r.curU
        /\ f.accepted = r.accepted \cup {r.curU}
    BY <1>6, <2>1 DEF Receiver
  <2>. QED  BY <1>5, <1>8, <2>3, <2>4 DEF f, added, ref
<1>9. CASE ~takes
  BY <1>2, <1>5, <1>6, <1>9 DEF SameFrame, f, ref
<1>. QED  BY <1>8, <1>9

(* With the frame added, the k-th reference is still not more than k gaps   *)
(* back: it was the one before, and the frame is less than a gap further.   *)
LEMMA AddedHeld ==
  ASSUME NEW r, Kept(r), InProgress(r), NEW f, f.completeU = r.curU,
         f.accepted = r.accepted \cup {r.curU}, r.cur = Video!Wrap(r.curU),
         f.refs = SubSeq(<<r.cur>> \o r.refs, 1,
                         IF Len(r.refs) < Refs THEN Len(r.refs) + 1 ELSE Refs)
  PROVE  ReferencesHeld(f)
<1>1. /\ r.completeU \in Nat /\ r.curU \in Nat /\ r.curU - r.completeU < Gap
      /\ r.cur \in Int /\ r.refs \in Seq(Int) /\ Len(r.refs) <= Refs
      /\ r.accepted \subseteq 1 .. r.completeU
  <2>1. r \in Receiver /\ NumbersMatch(r) /\ Reports(r) /\ ReferencesHeld(r)
    BY DEF Kept
  <2>2. r.refs \in Seq(Int) /\ r.cur \in Int
    BY <2>1 DEF Receiver
  <2>. QED  BY <2>1, <2>2, VideoSizes DEF NumbersMatch, Reports, ReferencesHeld
<1>2. /\ f.refs \in Seq(Int) /\ Len(f.refs) <= Refs /\ Len(f.refs) > 0 /\ f.refs[1] = r.cur
      /\ \A k \in 2 .. Len(f.refs) : k - 1 \in 1 .. Len(r.refs) /\ f.refs[k] = r.refs[k - 1]
  BY <1>1, AddedReference
<1>3. ASSUME NEW k \in 1 .. Len(f.refs)
      PROVE  \E x \in f.accepted : /\ f.refs[k] = Video!Wrap(x)
                                   /\ f.completeU - (k - 1) * (Gap - 1) <= x
  <2>1. CASE k = 1
    <3>1. f.completeU - (k - 1) * (Gap - 1) <= r.curU
      <4>1. (k - 1) * (Gap - 1) = 0
        BY <2>1, VideoSizes
      <4>. QED  BY <1>1, <4>1
    <3>. QED  BY <1>2, <2>1, <3>1
  <2>2. CASE k # 1
    <3>1. k \in 2 .. Len(f.refs) /\ k - 1 \in 1 .. Len(r.refs) /\ f.refs[k] = r.refs[k - 1]
      BY <1>2, <2>2
    <3>2. PICK j \in 1 .. Len(r.refs) : j = k - 1
      BY <3>1
    <3>3. PICK x \in r.accepted : /\ r.refs[j] = Video!Wrap(x)
                                  /\ r.completeU - (j - 1) * (Gap - 1) <= x
      BY <3>2 DEF Kept, ReferencesHeld
    <3>4. x \in Int
      BY <1>1, <3>3
    <3>5. PICK p \in Int, q \in Int : p = (k - 1) * (Gap - 1) /\ q = (j - 1) * (Gap - 1)
      BY <3>2, VideoSizes
    <3>6. p = q + (Gap - 1)
      <4>1. PICK g \in Int : g = Gap - 1
        BY VideoSizes
      <4>2. PICK i \in Int : i = j - 1
        BY <3>2
      <4>3. (i + 1) * g = i * g + g
        BY <4>1, <4>2
      <4>4. k - 1 = i + 1
        BY <3>2, <4>2
      <4>. QED  BY <3>5, <4>1, <4>2, <4>3, <4>4
    <3>7. r.curU - p <= x
      <4>1. PICK c \in Int, u \in Int : c = r.completeU /\ u = r.curU
        BY <1>1
      <4>2. u - c < Gap /\ c - q <= x /\ Gap \in Int
        BY <1>1, <3>3, <3>5, <4>1, VideoSizes
      <4>3. u - p <= x
        BY <3>4, <3>6, <4>2
      <4>. QED  BY <4>1, <4>3
    <3>. QED  BY <3>1, <3>2, <3>3, <3>5, <3>7
  <2>. QED  BY <2>1, <2>2
<1>. QED  BY <1>2, <1>3 DEF ReferencesHeld

LEMMA HandedKeeps ==
  ASSUME NEW r, Kept(r), InProgress(r), r.curU > 0, r.profile = Video!ProfileOf(r.curU),
         \A i \in SourceSlots : r.units[i] = r.curU,
         NEW d \in {Video!None} \cup 0 .. Refs, d = Video!None \/ Video!HaveRef(r, d),
         NEW takes \in BOOLEAN
  PROVE  LET f == Video!Handed(r, d, takes)
         IN  Kept(f) /\ ~InProgress(f) /\ SameFrame(f, r)
<1> DEFINE f == Video!Handed(r, d, takes)
           added == SubSeq(<<r.cur>> \o r.refs, 1,
                           IF Len(r.refs) < Refs THEN Len(r.refs) + 1 ELSE Refs)
<1>1. /\ r \in Receiver /\ r.completeU \in Nat /\ r.curU \in Nat /\ r.completeU < r.curU
      /\ r.curU <= MaxFrame /\ r.cur = Video!Wrap(r.curU) /\ Len(r.refs) <= Refs
      /\ r.told \subseteq 1 .. r.curU /\ r.accepted \subseteq 1 .. r.completeU
      /\ r.told \cap r.accepted = {} /\ r.curU \notin r.told
      /\ r.completeU + 1 .. r.curU - 1 \subseteq r.told /\ r.profile \in {-1, 0, 1}
  BY SMTT(30), VideoSizes DEF Kept, NumbersMatch, Reports, ReferencesHeld
<1>2. d \in Int
  BY VideoSizes DEF Video!None
<1>3. /\ SameFrame(f, r) /\ f.told = r.told /\ f.units = r.units
      /\ f.last.frame = r.curU /\ f.last.profile = r.profile /\ f.last.whole = TRUE
      /\ f.last.ref = IF d = Video!None THEN Video!None ELSE r.curU - d - 1
      /\ takes => /\ f.refs = added /\ f.complete = r.cur /\ f.completeU = r.curU
                  /\ f.accepted = r.accepted \cup {r.curU}
      /\ ~takes => /\ f.refs = r.refs /\ f.complete = r.complete
                   /\ f.completeU = r.completeU /\ f.accepted = r.accepted
  <2>1. r \in Receiver /\ r.curU \in Nat /\ Len(r.refs) <= Refs
    BY <1>1
  <2>. QED  BY <1>2, <2>1, HandedFields, ZenonT(60)
<1>4. d # Video!None => r.curU - d - 1 \in r.accepted
  BY <1>1, ReferenceIsFrame
<1> HIDE DEF f, added
<1>5. f \in Receiver /\ ~InProgress(f) /\ f.curU = r.curU /\ f.cur = r.cur /\ f.prev = r.cur
      /\ f.profile = r.profile /\ f.nsource = r.nsource /\ f.nfec = r.nfec
  BY <1>3 DEF SameFrame, InProgress
<1>6. r.cur \in -1 .. VideoMod - 1
  BY CurRange DEF Kept
<1>7. NumbersMatch(f)
  <2>1. CASE takes
    BY <1>1, <1>3, <1>5, <1>6, <2>1, VideoSizes DEF NumbersMatch
  <2>2. CASE ~takes
    BY <1>1, <1>3, <1>5, <1>6, <2>2 DEF Kept, NumbersMatch
  <2>. QED  BY <2>1, <2>2
<1>8. SlotsOwn(f)
  BY <1>3, <1>5 DEF Kept, SlotsOwn
<1>9. Reports(f)
  <2>1. CASE takes
    <3>1. f.told \subseteq 1 .. f.curU /\ f.accepted \subseteq 1 .. f.completeU
      BY <1>1, <1>3, <1>5, <2>1
    <3>2. f.told \cap f.accepted = {}
      BY <1>1, <1>3, <2>1
    <3>3. f.completeU + 1 .. f.curU - 1 = {}
      BY <1>1, <1>3, <1>5, <2>1
    <3>. QED  BY <1>5, <3>1, <3>2, <3>3 DEF Reports
  <2>2. CASE ~takes
    BY <1>1, <1>3, <1>5, <2>2 DEF Reports
  <2>. QED  BY <2>1, <2>2
<1>10. ReferencesHeld(f)
  <2>1. CASE takes
    BY <1>1, <1>3, <2>1, AddedHeld DEF added
  <2>2. CASE ~takes
    BY <1>3, <2>2 DEF Kept, ReferencesHeld
  <2>. QED  BY <2>1, <2>2
<1>11. HandedRight(f)
  <2>1. f.last.ref # Video!None => f.last.ref \in f.accepted
    <3>1. r.accepted \subseteq f.accepted
      BY <1>3
    <3>. QED  BY <1>3, <1>4, <3>1
  <2>. QED  BY <1>1, <1>3, <1>5, <2>1 DEF HandedRight
<1>. QED  BY <1>3, <1>5, <1>7, <1>8, <1>9, <1>10, <1>11 DEF Kept, f

(* Every result of a flush ends the frame in progress.  The header must be  *)
(* that of the frame only if there is something to hand to the decoder.     *)
LEMMA FlushKeeps ==
  ASSUME NEW r, Kept(r), InProgress(r), r.curU > 0,
         Video!Decodable(r) => r.profile = Video!ProfileOf(r.curU),
         NEW f \in Video!Flushes(r)
  PROVE  Kept(f) /\ ~InProgress(f) /\ SameFrame(f, r)
<1>1. CASE ~Video!Decodable(r)
  <2>1. f = Video!Failed(r)
    BY <1>1 DEF Video!Flushes
  <2>. QED  BY <2>1, FailedKeeps
<1>2. CASE Video!Decodable(r)
  <2> DEFINE w == Video!Restored(r)
  <2>1. /\ Kept(w) /\ \A i \in SourceSlots : w.units[i] = r.curU
        /\ w = [r EXCEPT !.units = w.units] /\ w.units \in [Video!SlotIds -> Int]
    BY RestoredKeeps
  <2>2. r \in Receiver
    BY DEF Kept
  <2>3. PICK d \in {Video!None} \cup 0 .. Refs :
          f \in { Video!Handed(w, e, takes) : e \in Video!Usable(w, d), takes \in BOOLEAN }
                  \cup (IF d \in Video!Usable(w, d) THEN {} ELSE {Video!Unfit(w)})
    BY <1>2 DEF Video!Flushes
  <2> HIDE DEF w
  <2>4. /\ w.cur = r.cur /\ w.prev = r.prev /\ w.curU = r.curU /\ w.profile = r.profile
        /\ w.nsource = r.nsource /\ w.nfec = r.nfec
    BY <2>1, <2>2 DEF Receiver
  <2>5. InProgress(w) /\ w.curU > 0 /\ w.profile = Video!ProfileOf(w.curU)
        /\ \A i \in SourceSlots : w.units[i] = w.curU
    BY <1>2, <2>1, <2>4 DEF InProgress
  <2>6. Kept(f) /\ ~InProgress(f) /\ SameFrame(f, w)
    <3>1. CASE f = Video!Unfit(w)
      BY <2>1, <2>5, <3>1, UnfitKeeps
    <3>2. ASSUME NEW e \in Video!Usable(w, d), NEW takes \in BOOLEAN,
                 f = Video!Handed(w, e, takes)
          PROVE  Kept(f) /\ ~InProgress(f) /\ SameFrame(f, w)
      <4>1. e \in {Video!None} \cup 0 .. Refs /\ (e = Video!None \/ Video!HaveRef(w, e))
        <5>1. CASE d = Video!None \/ Video!HaveRef(w, d)
          BY <5>1 DEF Video!Usable
        <5>2. CASE ~(d = Video!None \/ Video!HaveRef(w, d))
          <6>1. e \in d + 1 .. Refs - 1 /\ Video!HaveRef(w, e) /\ d \in 0 .. Refs
            BY <5>2 DEF Video!Usable
          <6>. QED  BY <6>1, VideoSizes
        <5>. QED  BY <5>1, <5>2
      <4>2. Kept(Video!Handed(w, e, takes)) /\ ~InProgress(Video!Handed(w, e, takes))
            /\ SameFrame(Video!Handed(w, e, takes), w)
        BY <2>1, <2>5, <4>1, HandedKeeps, Zenon
      <4>. QED  BY <3>2, <4>2
    <3>. QED  BY <2>3, <3>1, <3>2
  <2>. QED  BY <2>2, <2>4, <2>6 DEF SameFrame
<1>. QED  BY <1>1, <1>2

(* A frame in progress lacks more units than FEC can restore, so that a     *)
(* late flush never hands it on.                                            *)
LEMMA LateFails ==
  ASSUME NEW r, Kept(r), Exact(r), Lacks(r), InProgress(r)
  PROVE  ~Video!Decodable(r)
<1> DEFINE F == Filled(r.units, Video!SlotIds)
           E == {i \in Video!SlotIds : r.units[i] = Video!Empty}
<1>1. /\ r.nsource \in Nat /\ r.nfec \in Nat /\ r.nsource + r.nfec < VideoSource
      /\ Cardinality(F) = r.nsource + r.nfec
  BY DEF Kept, SlotsOwn, Exact, Lacks
<1>2. F \cup E = Video!SlotIds /\ F \cap E = {} /\ F \subseteq Video!SlotIds
      /\ E \subseteq Video!SlotIds
  BY DEF Filled
<1>3. ~(Cardinality(E) <= Video!FecSlots)
  <2> HIDE DEF F, E
  <2>1. IsFiniteSet(F) /\ IsFiniteSet(E)
    BY <1>2, SlotSets, FS_Subset
  <2>2. Cardinality(F \cup E) = Cardinality(F) + Cardinality(E) - Cardinality(F \cap E)
    BY <2>1, FS_Union
  <2>3. Cardinality(F \cap E) = 0
    BY <1>2, FS_EmptySet
  <2>4. Cardinality(F) \in Nat /\ Cardinality(E) \in Nat
    BY <2>1, FS_CardinalityType
  <2>5. Cardinality(F) + Cardinality(E) = VideoSource + Video!FecSlots
    <3>1. Cardinality(F \cup E) = VideoSource + Video!FecSlots
      BY <1>2, SlotSets
    <3>. QED  BY <2>2, <2>3, <2>4, <3>1
  <2>. QED  BY <1>1, <2>4, <2>5, VideoSizes
<1>4. ~(r.nsource >= VideoSource)
  BY <1>1, VideoSizes
<1>5. Video!Decodable(r) <=> r.nsource >= VideoSource \/ Cardinality(E) <= Video!FecSlots
  BY SameCount DEF Video!Decodable
<1> HIDE DEF E, F
<1>. QED  BY <1>3, <1>4, <1>5

-----------------------------------------------------------------------------
(* A packet.                                                                *)

(* Whatever was being built, nothing is after the late flush; no frame has  *)
(* become complete.                                                         *)
LEMMA LateKeeps ==
  ASSUME NEW r, VideoInv(r), NEW f \in Video!LateFlush(r)
  PROVE  /\ Kept(f) /\ ~InProgress(f) /\ f.completeU = r.completeU
         /\ f.cur = r.cur /\ f.curU = r.curU /\ f.profile = r.profile
<1>1. Kept(r) /\ Exact(r) /\ Lacks(r) /\ NumbersMatch(r)
  BY DEF VideoInv, Kept
<1>2. CASE r.cur >= 0 /\ r.prev # r.cur
  <2>1. InProgress(r) /\ r.curU > 0
    BY <1>1, <1>2 DEF InProgress, NumbersMatch
  <2>2. ~Video!Decodable(r)
    BY <1>1, <2>1, LateFails
  <2>3. f = Video!Failed(r)
    BY <1>2, <2>2 DEF Video!LateFlush, Video!Flushes
  <2>4. Kept(f) /\ ~InProgress(f) /\ SameFrame(f, r) /\ f.completeU = r.completeU
    BY <1>1, <2>1, <2>3, FailedKeeps
  <2>. QED  BY <2>4 DEF SameFrame
<1>3. CASE ~(r.cur >= 0 /\ r.prev # r.cur)
  <2>1. f = r
    BY <1>3 DEF Video!LateFlush
  <2>2. r.cur \in -1 .. VideoMod - 1 /\ VideoMod \in Nat
    BY <1>1, CurRange, VideoSizes
  <2>3. r.cur >= 0 \/ r.cur = -1
    BY <2>2
  <2>4. r.curU > 0 => r.cur >= 0
    <3>1. r.curU \in Int
      BY <1>1, VideoSizes DEF NumbersMatch
    <3>2. Video!Wrap(r.curU) >= 0
      BY <3>1, WrapFrame, VideoSizes
    <3>. QED  BY <1>1, <3>1, <3>2 DEF NumbersMatch
  <2>5. ~InProgress(r)
    BY <1>1, <1>3, <2>3, <2>4 DEF InProgress, NumbersMatch
  <2>. QED  BY <1>1, <2>1, <2>5
<1>. QED  BY <1>2, <1>3

(* The frames in between are reported, all of them, and frame n begins.     *)
LEMMA BegunFields ==
  ASSUME NEW r, Kept(r), NEW n \in 1 .. MaxFrame, n > r.curU, n - r.completeU < Gap
  PROVE  LET b == Video!Begun(r, n)
         IN  /\ b = [r EXCEPT !.told = @ \cup (r.completeU + 1 .. n - 1),
                              !.cur = Video!Wrap(n), !.curU = n, !.nsource = 0, !.nfec = 0,
                              !.units = [i \in Video!SlotIds |-> Video!Empty]]
<1> DEFINE s == Video!Wrap(n)
           c == r.completeU
           gap == Video!SeqGt(s, Video!Expected(r)) /\ ~(s = 1 /\ r.cur < 0)
           m == IF gap THEN Video!Tell(r, Video!Expected(r), s - 1) ELSE r
           empty == [i \in Video!SlotIds |-> Video!Empty]
<1>1. /\ r \in Receiver /\ c \in Nat /\ r.curU \in Nat /\ c <= r.curU /\ n \in Nat /\ n >= 1
      /\ r.complete = Video!Wrap(c) /\ NumbersMatch(r) /\ c < n
  <2>1. r \in Receiver /\ NumbersMatch(r)
    BY DEF Kept
  <2>2. c \in Nat /\ r.curU \in Nat /\ c <= r.curU /\ r.complete = Video!Wrap(c)
    BY <2>1, VideoSizes DEF NumbersMatch
  <2>3. n \in Nat /\ n >= 1
    BY VideoSizes
  <2>. QED  BY <2>1, <2>2, <2>3
<1>2. s \in 0 .. VideoMod - 1 /\ s = n % VideoMod
  BY <1>1, WrapFrame
<1>3. Video!Expected(r) = Video!Wrap(c + 1)
  BY <1>1, ExpectedFrame
<1>4. Video!SeqGt(s, Video!Expected(r)) <=> n > c + 1
  <2>1. PICK e \in Int : e = c + 1
    BY <1>1
  <2>2. n - e < VideoHalf /\ e - n < VideoHalf
    BY <1>1, <2>1, VideoSizes
  <2>3. Video!SeqGt(Video!Wrap(n), Video!Wrap(e)) <=> n > e
    BY <1>1, <2>2, FrameOrder
  <2>. QED  BY <1>3, <2>1, <2>3
<1>5. s = 1 /\ r.cur < 0 => n = c + 1
  <2>1. SUFFICES ASSUME s = 1, r.cur < 0 PROVE n = c + 1
    OBVIOUS
  <2>2. r.curU = 0
    <3>1. r.curU \in Int
      BY <1>1
    <3>2. Video!Wrap(r.curU) >= 0
      BY <3>1, WrapFrame, VideoSizes
    <3>3. r.curU = 0 \/ r.cur = Video!Wrap(r.curU)
      BY <1>1 DEF NumbersMatch
    <3>4. Video!Wrap(r.curU) \in Int
      BY <3>1, WrapFrame, VideoSizes
    <3>. QED  BY <2>1, <3>2, <3>3, <3>4
  <2>3. c = 0 /\ n < Gap
    BY <1>1, <2>2
  <2>4. PICK a \in 0 .. VideoMod - 1 : a = n
    BY <1>1, <2>3, VideoSizes
  <2>5. n % VideoMod = n
    <3>1. a \in Int /\ a = 0 * VideoMod + a
      BY VideoSizes
    <3>2. a % VideoMod = a
      BY <3>1, VideoSizes, RemainderUnique
    <3>. QED  BY <2>4, <3>2
  <2>. QED  BY <1>2, <2>1, <2>3, <2>5
<1>6. gap <=> n > c + 1
  BY <1>1, <1>4, <1>5
<1>7. m = [r EXCEPT !.told = @ \cup (c + 1 .. n - 1)]
  <2>1. CASE n > c + 1
    <3>1. PICK k \in Int : k = n - 1
      BY <1>1
    <3>2. (s - 1) % VideoMod = k % VideoMod
      <4>1. PICK y \in Int : y = -1
        OBVIOUS
      <4>2. ((n % VideoMod) + y) % VideoMod = (n + y) % VideoMod
        BY <1>1, VideoSizes, RemainderSum
      <4>3. s - 1 = (n % VideoMod) + y /\ k = n + y
        BY <1>1, <1>2, <3>1, <4>1, VideoSizes
      <4>. QED  BY <4>2, <4>3
    <3>3. c < k /\ k - c <= VideoMod /\ s - 1 \in Int
      BY <1>1, <1>2, <2>1, <3>1, VideoSizes
    <3>4. Video!Tell(r, Video!Expected(r), s - 1) = [r EXCEPT !.told = @ \cup (c + 1 .. k)]
      BY <1>1, <3>2, <3>3, TellReports
    <3>. QED  BY <1>6, <2>1, <3>1, <3>4
  <2>2. CASE ~(n > c + 1)
    <3>1. c + 1 .. n - 1 = {} /\ m = r
      BY <1>1, <1>6, <2>2
    <3>2. r = [r EXCEPT !.told = @ \cup {}]
      BY <1>1 DEF Receiver
    <3>. QED  BY <3>1, <3>2
  <2>. QED  BY <2>1, <2>2
<1>8. Video!Begun(r, n) = Video!Alloc([m EXCEPT !.cur = s, !.curU = n])
  BY DEF Video!Begun
<1> HIDE DEF s, m, gap
<1>9. PICK t : t = r.told \cup (c + 1 .. n - 1)
  OBVIOUS
<1>10. m = [r EXCEPT !.told = t]
  BY <1>7, <1>9
<1>11. Video!Begun(r, n) = [r EXCEPT !.told = t, !.cur = s, !.curU = n, !.nsource = 0,
                                     !.nfec = 0, !.units = empty]
  BY <1>1, <1>8, <1>10 DEF Video!Alloc, Receiver
<1>. QED  BY <1>9, <1>11 DEF s

LEMMA BegunKeeps ==
  ASSUME NEW r, Kept(r), ~InProgress(r), NEW n \in 1 .. MaxFrame, n > r.curU,
         n - r.completeU < Gap
  PROVE  LET b == Video!Begun(r, n)
         IN  /\ VideoInv(b) /\ b.curU = n /\ b.profile = r.profile /\ b.completeU = r.completeU
<1> DEFINE b == Video!Begun(r, n)
           empty == [i \in Video!SlotIds |-> Video!Empty]
<1>1. /\ r \in Receiver /\ r.completeU \in Nat /\ r.curU \in Nat /\ r.completeU <= r.curU
      /\ n \in Nat /\ n >= 1 /\ n <= MaxFrame /\ r.complete = Video!Wrap(r.completeU)
      /\ r.profile \in {-1, 0, 1}
      /\ r.told \subseteq 1 .. r.curU /\ r.accepted \subseteq 1 .. r.completeU
      /\ r.told \cap r.accepted = {} /\ r.completeU + 1 .. r.curU - 1 \subseteq r.told
      /\ r.last.frame <= r.curU /\ r.last \in HandedOn
  <2>1. r \in Receiver /\ NumbersMatch(r) /\ Reports(r) /\ HandedRight(r)
    BY DEF Kept
  <2>2. r.last \in HandedOn
    BY <2>1 DEF Receiver
  <2>. QED  BY <2>1, <2>2, VideoSizes DEF NumbersMatch, Reports, HandedRight
<1>2. b = [r EXCEPT !.told = @ \cup (r.completeU + 1 .. n - 1),
                    !.cur = Video!Wrap(n), !.curU = n, !.nsource = 0, !.nfec = 0,
                    !.units = empty]
  BY BegunFields
<1>3. Video!Wrap(n) \in 0 .. VideoMod - 1 /\ Video!Wrap(n) \in Int
  BY <1>1, WrapFrame, VideoSizes
<1>4. PICK t \in SUBSET Int : t = r.told \cup (r.completeU + 1 .. n - 1)
  <2>1. r.told \in SUBSET Int
    BY <1>1 DEF Receiver
  <2>2. r.completeU + 1 .. n - 1 \subseteq Int
    OBVIOUS
  <2>. QED  BY <2>1, <2>2
<1>5. empty \in [Video!SlotIds -> Int] /\ \A i \in Video!SlotIds : empty[i] = Video!Empty
  BY DEF Video!Empty
<1> HIDE DEF b, empty
<1>6. b = [r EXCEPT !.told = t, !.cur = Video!Wrap(n), !.curU = n, !.nsource = 0, !.nfec = 0,
                    !.units = empty]
  BY <1>2, <1>4
<1>7. b \in Receiver
  <2>1. PICK z \in Int, w \in Int, m \in Int : z = 0 /\ w = Video!Wrap(n) /\ m = n
    BY <1>1, <1>3
  <2>2. [r EXCEPT !.told = t, !.cur = w, !.curU = m, !.nsource = z, !.nfec = z,
                  !.units = empty] \in Receiver
    BY <1>1, <1>5 DEF Receiver
  <2>. QED  BY <1>6, <2>1, <2>2
<1>8. /\ b.told = t /\ b.cur = Video!Wrap(n) /\ b.curU = n /\ b.nsource = 0 /\ b.nfec = 0
      /\ b.units = empty /\ b.prev = r.prev /\ b.complete = r.complete
      /\ b.profile = r.profile /\ b.refs = r.refs /\ b.completeU = r.completeU
      /\ b.accepted = r.accepted /\ b.last = r.last
  BY <1>1, <1>6 DEF Receiver
<1>9. r.prev \in -1 .. VideoMod - 1
  BY CurRange DEF Kept
<1>10. NumbersMatch(b)
  BY <1>1, <1>8, <1>9, VideoSizes DEF NumbersMatch
<1>11. \A S \in SUBSET Video!SlotIds : Filled(empty, S) = {}
  BY <1>5 DEF Filled
<1>12. Cardinality({}) = 0
  BY FS_EmptySet
<1>13. SlotsOwn(b)
  <2>1. SourceSlots \in SUBSET Video!SlotIds /\ FecOnly \in SUBSET Video!SlotIds
    BY SlotSets
  <2>2. Cardinality(Filled(empty, SourceSlots)) = 0 /\ Cardinality(Filled(empty, FecOnly)) = 0
    BY <1>11, <1>12, <2>1
  <2>. QED  BY <1>5, <1>8, <2>2 DEF SlotsOwn
<1>14. Reports(b)
  <2>1. b.told \subseteq 1 .. b.curU
    <3>1. r.told \subseteq 1 .. n
      BY <1>1
    <3>2. r.completeU + 1 .. n - 1 \subseteq 1 .. n
      BY <1>1
    <3>. QED  BY <1>4, <1>8, <3>1, <3>2
  <2>2. b.accepted \subseteq 1 .. b.completeU /\ b.told \cap b.accepted = {}
    BY <1>1, <1>4, <1>8
  <2>3. b.curU \notin b.told
    BY <1>1, <1>4, <1>8
  <2>4. b.completeU + 1 .. b.curU - 1 \subseteq b.told
    BY <1>4, <1>8
  <2>. QED  BY <2>1, <2>2, <2>3, <2>4 DEF Reports
<1>15. ReferencesHeld(b)
  BY <1>8 DEF Kept, ReferencesHeld
<1>16. HandedRight(b)
  <2>1. r.last.frame \in Int /\ r.last.frame <= n /\ r.last.frame # n
    BY <1>1 DEF HandedOn
  <2>. QED  BY <1>8, <2>1 DEF Kept, HandedRight
<1>17. Exact(b)
  <2>1. Cardinality(Filled(empty, Video!SlotIds)) = 0
    BY <1>11, <1>12
  <2>. QED  BY <1>8, <2>1 DEF Exact
<1>18. Lacks(b)
  BY <1>8, VideoSizes DEF Lacks
<1>. QED  BY <1>7, <1>8, <1>10, <1>13, <1>14, <1>15, <1>16, <1>17, <1>18 DEF VideoInv, Kept, b

(* A unit fills its slot and is counted, unless it is there already.        *)
LEMMA PutKeeps ==
  ASSUME NEW r, Kept(r), Exact(r), r.curU > 0, NEW i \in Video!UnitIds
  PROVE  LET p == Video!Put(r, r.curU, i)
         IN  /\ Kept(p) /\ Exact(p)
             /\ p.cur = r.cur /\ p.prev = r.prev /\ p.curU = r.curU /\ p.profile = r.profile
<1> DEFINE p == Video!Put(r, r.curU, i)
           u == [r.units EXCEPT ![i] = r.curU]
<1>1. /\ r \in Receiver /\ r.curU \in Nat /\ r.nsource \in Nat /\ r.nfec \in Nat
      /\ r.units \in [Video!SlotIds -> Int]
      /\ r.nsource <= Cardinality(Filled(r.units, SourceSlots))
      /\ r.nfec <= Cardinality(Filled(r.units, FecOnly))
      /\ \A j \in Video!SlotIds : r.units[j] = Video!Empty \/ r.units[j] = r.curU
  <2>1. r \in Receiver /\ NumbersMatch(r) /\ SlotsOwn(r)
    BY DEF Kept
  <2>. QED  BY <2>1, VideoSizes DEF NumbersMatch, SlotsOwn, Receiver
<1>2. i \in Int /\ i \in Video!SlotIds /\ (i < VideoSource <=> i \in SourceSlots)
      /\ (i \in FecOnly <=> ~(i < VideoSource))
  BY VideoSizes DEF Video!UnitIds, Video!SlotIds, SourceSlots, FecOnly, Video!FecSlots
<1>3. CASE r.units[i] # Video!Empty
  <2>1. p = r
    BY <1>3 DEF Video!Put
  <2>. QED  BY <2>1
<1>4. CASE r.units[i] = Video!Empty
  <2>1. u \in [Video!SlotIds -> Int] /\ u[i] = r.curU
        /\ \A j \in Video!SlotIds \ {i} : u[j] = r.units[j]
    BY <1>1, <1>2
  <2>2. u[i] # Video!Empty
    BY <1>1, <2>1 DEF Video!Empty
  <2> HIDE DEF u
  <2>3. /\ i \in SourceSlots => Cardinality(Filled(u, SourceSlots))
                                  = Cardinality(Filled(r.units, SourceSlots)) + 1
        /\ i \notin SourceSlots => Filled(u, SourceSlots) = Filled(r.units, SourceSlots)
        /\ Cardinality(Filled(r.units, SourceSlots)) \in Nat
    <3>1. \A j \in SourceSlots \ {i} : u[j] = r.units[j]
      BY <2>1, SlotSets
    <3>. QED  BY <1>4, <2>2, <3>1, SlotSets, FillCounts
  <2>4. /\ i \in FecOnly => Cardinality(Filled(u, FecOnly))
                              = Cardinality(Filled(r.units, FecOnly)) + 1
        /\ i \notin FecOnly => Filled(u, FecOnly) = Filled(r.units, FecOnly)
        /\ Cardinality(Filled(r.units, FecOnly)) \in Nat
    <3>1. \A j \in FecOnly \ {i} : u[j] = r.units[j]
      BY <2>1, SlotSets
    <3>. QED  BY <1>4, <2>2, <3>1, SlotSets, FillCounts
  <2>5. /\ Cardinality(Filled(u, Video!SlotIds)) = Cardinality(Filled(r.units, Video!SlotIds)) + 1
        /\ Cardinality(Filled(r.units, Video!SlotIds)) \in Nat
    <3>1. IsFiniteSet(Video!SlotIds) /\ i \in Video!SlotIds
      BY <1>2, SlotSets
    <3>2. \A j \in Video!SlotIds \ {i} : u[j] = r.units[j]
      BY <2>1
    <3> DEFINE all == Video!SlotIds
    <3> HIDE DEF all
    <3>3. IsFiniteSet(all) /\ i \in all /\ \A j \in all \ {i} : u[j] = r.units[j]
      BY <3>1, <3>2 DEF all
    <3>4. /\ i \in all => Cardinality(Filled(u, all)) = Cardinality(Filled(r.units, all)) + 1
          /\ i \notin all => Filled(u, all) = Filled(r.units, all)
          /\ Cardinality(Filled(r.units, all)) \in Nat
      BY <1>4, <2>2, <3>3, FillCounts
    <3>. QED  BY <3>3, <3>4 DEF all
  <2>6. PICK x \in Nat, y \in Nat :
          /\ x = IF i < VideoSource THEN r.nsource + 1 ELSE r.nsource
          /\ y = IF i < VideoSource THEN r.nfec ELSE r.nfec + 1
    BY <1>1
  <2>7. p = [r EXCEPT !.units = u, !.nsource = x, !.nfec = y]
    <3>1. p = IF i < VideoSource THEN [r EXCEPT !.units[i] = r.curU, !.nsource = @ + 1]
                                 ELSE [r EXCEPT !.units[i] = r.curU, !.nfec = @ + 1]
      BY <1>4 DEF Video!Put
    <3>2. CASE i < VideoSource
      <4>1. p = [r EXCEPT !.units = u, !.nsource = r.nsource + 1]
        BY <1>1, <3>1, <3>2 DEF u, Receiver
      <4>. QED  BY <1>1, <2>6, <3>2, <4>1 DEF Receiver
    <3>3. CASE ~(i < VideoSource)
      <4>1. p = [r EXCEPT !.units = u, !.nfec = r.nfec + 1]
        BY <1>1, <3>1, <3>3 DEF u, Receiver
      <4>. QED  BY <1>1, <2>6, <3>3, <4>1 DEF Receiver
    <3>. QED  BY <3>2, <3>3
  <2> HIDE DEF p
  <2>8. /\ p \in Receiver /\ p.units = u /\ p.nsource = x /\ p.nfec = y
        /\ p.cur = r.cur /\ p.prev = r.prev /\ p.complete = r.complete /\ p.profile = r.profile
        /\ p.refs = r.refs /\ p.curU = r.curU /\ p.completeU = r.completeU
        /\ p.told = r.told /\ p.accepted = r.accepted /\ p.last = r.last
    <3>1. p \in Receiver
      <4>1. \A a \in Int, b \in Int : [r EXCEPT !.units = u, !.nsource = a, !.nfec = b] \in Receiver
        BY <1>1, <2>1 DEF Receiver
      <4>2. x \in Int /\ y \in Int
        OBVIOUS
      <4>. QED  BY <2>7, <4>1, <4>2
    <3>2. p.units = u /\ p.nsource = x /\ p.nfec = y
      BY <1>1, <2>7 DEF Receiver
    <3>3. /\ p.cur = r.cur /\ p.prev = r.prev /\ p.complete = r.complete
          /\ p.profile = r.profile /\ p.refs = r.refs /\ p.curU = r.curU
      BY <1>1, <2>7 DEF Receiver
    <3>4. /\ p.completeU = r.completeU /\ p.told = r.told
          /\ p.accepted = r.accepted /\ p.last = r.last
      BY <1>1, <2>7 DEF Receiver
    <3>. QED  BY <3>1, <3>2, <3>3, <3>4
  <2>9. InProgress(p) <=> InProgress(r)
    BY <2>8 DEF InProgress
  <2>10. NumbersMatch(p) /\ Reports(p) /\ ReferencesHeld(p) /\ HandedRight(p)
    BY <2>8, <2>9 DEF Kept, NumbersMatch, Reports, ReferencesHeld, HandedRight
  <2>11. SlotsOwn(p)
    <3>1. \A j \in Video!SlotIds : u[j] = Video!Empty \/ u[j] = r.curU
      BY <1>1, <2>1
    <3>2. CASE i < VideoSource
      <4>1. x <= Cardinality(Filled(u, SourceSlots)) /\ y <= Cardinality(Filled(u, FecOnly))
        BY <1>1, <1>2, <2>3, <2>4, <2>6, <3>2
      <4>. QED  BY <2>8, <3>1, <4>1 DEF SlotsOwn
    <3>3. CASE ~(i < VideoSource)
      <4>1. x <= Cardinality(Filled(u, SourceSlots)) /\ y <= Cardinality(Filled(u, FecOnly))
        BY <1>1, <1>2, <2>3, <2>4, <2>6, <3>3
      <4>. QED  BY <2>8, <3>1, <4>1 DEF SlotsOwn
    <3>. QED  BY <3>2, <3>3
  <2>12. Exact(p)
    <3>1. x + y = r.nsource + r.nfec + 1
      BY <1>1, <2>6
    <3>. QED  BY <1>1, <2>5, <2>8, <2>9, <3>1 DEF Exact
  <2>. QED  BY <1>4, <2>8, <2>10, <2>11, <2>12 DEF Kept, p
<1>. QED  BY <1>3, <1>4

(* After the unit was put, the frame is flushed or still lacks units.       *)
LEMMA FlushedKeeps ==
  ASSUME NEW p, Kept(p), Exact(p), p.curU > 0, p.profile = Video!ProfileOf(p.curU),
         NEW i, NEW f \in Video!Flushed(p, i)
  PROVE  VideoInv(f)
<1>1. CASE p.cur # p.prev /\ (Video!FlushPossible(p) \/ i = VideoSource + VideoFec - 1)
  <2>1. InProgress(p) /\ f \in Video!Flushes(p)
    BY <1>1 DEF Video!Flushed, InProgress
  <2>2. Kept(f) /\ ~InProgress(f)
    BY <2>1, FlushKeeps
  <2>. QED  BY <2>2 DEF VideoInv, Exact, Lacks
<1>2. CASE ~(p.cur # p.prev /\ (Video!FlushPossible(p) \/ i = VideoSource + VideoFec - 1))
  <2>1. f = p
    BY <1>2 DEF Video!Flushed
  <2>2. Lacks(p)
    <3>1. p.nsource \in Nat /\ p.nfec \in Nat
      BY DEF Kept, SlotsOwn
    <3>. QED  BY <1>2, <3>1, VideoSizes DEF Lacks, InProgress, Video!FlushPossible
  <2>. QED  BY <2>1, <2>2 DEF VideoInv
<1>. QED  BY <1>1, <1>2

LEMMA EnteredKeeps ==
  ASSUME NEW r, VideoInv(r), NEW n \in 1 .. MaxFrame, n - r.completeU < Gap,
         n > r.curU - VideoHalf, ~Video!Old(r, n),
         NEW e \in Video!Entered(Video!WithProfile(r, n), n)
  PROVE  VideoInv(e) /\ e.curU = n /\ e.profile = Video!ProfileOf(n)
<1> DEFINE w == Video!WithProfile(r, n)
<1>1. /\ r \in Receiver /\ NumbersMatch(r) /\ r.curU \in Nat /\ r.completeU \in Nat
      /\ r.completeU <= r.curU /\ n \in Int /\ n >= 1 /\ n \in Nat
  BY VideoSizes DEF VideoInv, Kept, NumbersMatch
<1>2. Video!ProfileOf(n) \in {0, 1} /\ Video!ProfileOf(n) \in Int
  BY DEF Video!ProfileOf
<1>3. /\ w \in Receiver /\ w.profile = Video!ProfileOf(n)
      /\ w.cur = r.cur /\ w.prev = r.prev /\ w.complete = r.complete /\ w.units = r.units
      /\ w.refs = r.refs /\ w.nsource = r.nsource /\ w.nfec = r.nfec /\ w.curU = r.curU
      /\ w.completeU = r.completeU /\ w.told = r.told /\ w.accepted = r.accepted
      /\ w.last = r.last
  <2>1. PICK x \in Int : x = Video!ProfileOf(n)
    BY <1>2
  <2>2. w = [r EXCEPT !.profile = x]
    BY <2>1 DEF Video!WithProfile
  <2>3. w \in Receiver
    BY <1>1, <2>2 DEF Receiver
  <2>. QED  BY <1>1, <2>1, <2>2, <2>3 DEF Receiver
<1> HIDE DEF w
<1>4. VideoInv(w)
  <2>1. InProgress(w) <=> InProgress(r)
    BY <1>3 DEF InProgress
  <2>2. NumbersMatch(w)
    BY <1>1, <1>2, <1>3, <2>1 DEF NumbersMatch
  <2>3. SlotsOwn(w) /\ Reports(w) /\ ReferencesHeld(w) /\ HandedRight(w)
    BY <1>3, <2>1 DEF VideoInv, Kept, SlotsOwn, Reports, ReferencesHeld, HandedRight
  <2>4. Exact(w) /\ Lacks(w)
    BY <1>3, <2>1 DEF VideoInv, Exact, Lacks
  <2>. QED  BY <1>3, <2>2, <2>3, <2>4 DEF VideoInv, Kept
<1>5. r.cur >= 0 => r.cur = Video!Wrap(r.curU) /\ r.curU > 0
  BY <1>1 DEF NumbersMatch
<1>6. n - r.curU < VideoHalf /\ r.curU - n < VideoHalf
  BY <1>1, VideoSizes
<1>7. r.cur >= 0 => /\ Video!SeqLt(Video!Wrap(n), r.cur) <=> n < r.curU
                    /\ Video!SeqGt(Video!Wrap(n), r.cur) <=> n > r.curU
  BY <1>1, <1>5, <1>6, FrameOrder
<1>8. r.cur < 0 => r.curU = 0
  <2>1. CASE r.cur = -1 /\ r.curU = 0
    BY <2>1
  <2>2. CASE r.cur = Video!Wrap(r.curU)
    <3>1. r.curU \in Int
      BY <1>1
    <3>2. Video!Wrap(r.curU) >= 0 /\ Video!Wrap(r.curU) \in Int
      BY <3>1, WrapFrame, VideoSizes
    <3>. QED  BY <2>2, <3>2
  <2>. QED  BY <1>1, <2>1, <2>2 DEF NumbersMatch
<1>9. r.cur \in Int
  BY <1>1 DEF Receiver
<1>10. CASE Video!NextFrame(w, n)
  <2>1. n > r.curU
    BY <1>1, <1>3, <1>7, <1>8, <1>9, <1>10 DEF Video!NextFrame
  <2>2. PICK f \in Video!LateFlush(w) : e = Video!Begun(f, n)
    BY <1>10 DEF Video!Entered, w
  <2>3. /\ Kept(f) /\ ~InProgress(f) /\ f.completeU = w.completeU
        /\ f.curU = w.curU /\ f.profile = w.profile
    BY <1>4, LateKeeps
  <2>4. n > f.curU /\ n - f.completeU < Gap
    BY <1>3, <2>1, <2>3
  <2>5. VideoInv(e) /\ e.curU = n /\ e.profile = f.profile
    BY <2>2, <2>3, <2>4, BegunKeeps
  <2>. QED  BY <1>3, <2>3, <2>5
<1>11. CASE ~Video!NextFrame(w, n)
  <2>1. e = w
    BY <1>11 DEF Video!Entered, w
  <2>2. r.cur >= 0 /\ ~(n > r.curU)
    BY <1>3, <1>7, <1>9, <1>11 DEF Video!NextFrame
  <2>3. ~(n < r.curU)
    BY <1>7, <2>2 DEF Video!Old
  <2>4. n = r.curU
    BY <1>1, <2>2, <2>3
  <2>. QED  BY <1>3, <1>4, <2>1, <2>4
<1>. QED  BY <1>10, <1>11

LEMMA PacketKeeps ==
  ASSUME VideoInv(rcv), NEW n \in 1 .. MaxFrame, NEW i \in Video!UnitIds,
         Video!Near(n), Video!AVPacket(n, i)
  PROVE  VideoInv(rcv')
<1>1. PICK e \in Video!Entered(Video!WithProfile(rcv, n), n) :
        rcv' \in Video!Flushed(Video!Put(e, n, i), i)
  BY DEF Video!AVPacket
<1>2. VideoInv(e) /\ e.curU = n /\ e.profile = Video!ProfileOf(n)
  BY EnteredKeeps DEF Video!AVPacket, Video!Near
<1>3. n > 0
  BY VideoSizes
<1>4. /\ Kept(Video!Put(e, n, i)) /\ Exact(Video!Put(e, n, i))
      /\ Video!Put(e, n, i).curU = n /\ Video!Put(e, n, i).profile = Video!ProfileOf(n)
  <2>1. Kept(e) /\ Exact(e) /\ e.curU > 0
    BY <1>2, <1>3 DEF VideoInv
  <2>2. /\ Kept(Video!Put(e, e.curU, i)) /\ Exact(Video!Put(e, e.curU, i))
        /\ Video!Put(e, e.curU, i).curU = e.curU
        /\ Video!Put(e, e.curU, i).profile = e.profile
    BY <2>1, PutKeeps
  <2>. QED  BY <1>2, <2>2
<1>5. PICK p : p = Video!Put(e, n, i)
  OBVIOUS
<1>. QED  BY <1>1, <1>3, <1>4, <1>5, FlushedKeeps

LEMMA VideoStarts == Video!Init => VideoInv(rcv)
<1> SUFFICES ASSUME Video!Init PROVE VideoInv(rcv)
  OBVIOUS
<1> DEFINE empty == [i \in Video!SlotIds |-> Video!Empty]
           news == [frame |-> 0, ref |-> Video!None, profile |-> 0, whole |-> TRUE]
<1>1. rcv = [cur |-> -1, prev |-> -1, complete |-> 0, profile |-> -1, lost |-> 0,
             refs |-> << >>, units |-> empty, nsource |-> 0, nfec |-> 0, curU |-> 0,
             completeU |-> 0, told |-> {}, accepted |-> {}, last |-> news]
  BY DEF Video!Init
<1>2. empty \in [Video!SlotIds -> Int] /\ \A i \in Video!SlotIds : empty[i] = Video!Empty
  BY DEF Video!Empty
<1>3. news \in HandedOn /\ news.frame = 0 /\ news.whole = TRUE /\ news.ref = Video!None
  BY DEF HandedOn, Video!None
<1> HIDE DEF empty, news
<1>4. << >> \in Seq(Int) /\ Len(<< >>) = 0
  OBVIOUS
<1>5. rcv \in Receiver
  BY <1>1, <1>2, <1>3, <1>4 DEF Receiver
<1>6. /\ rcv.cur = -1 /\ rcv.prev = -1 /\ rcv.complete = 0 /\ rcv.profile = -1
      /\ rcv.refs = << >> /\ rcv.units = empty /\ rcv.nsource = 0 /\ rcv.nfec = 0
      /\ rcv.curU = 0 /\ rcv.completeU = 0 /\ rcv.told = {} /\ rcv.accepted = {}
      /\ rcv.last = news
  BY <1>1
<1>7. ~InProgress(rcv)
  BY <1>6 DEF InProgress
<1>8. NumbersMatch(rcv)
  <2>1. PICK z \in 0 .. VideoMod - 1 : z = 0
    BY VideoSizes
  <2>2. z \in Int /\ z = 0 * VideoMod + z
    BY VideoSizes
  <2>3. z % VideoMod = z
    BY <2>2, VideoSizes, RemainderUnique
  <2>4. Video!Wrap(0) = 0
    BY <2>1, <2>2, <2>3, WrapFrame
  <2>. QED  BY <1>6, <1>7, <2>4, VideoSizes DEF NumbersMatch
<1>9. SlotsOwn(rcv)
  <2>1. SourceSlots \subseteq Video!SlotIds /\ FecOnly \subseteq Video!SlotIds
    BY SlotSets
  <2>2. Filled(empty, SourceSlots) = {} /\ Filled(empty, FecOnly) = {}
    BY <1>2, <2>1 DEF Filled
  <2>. QED  BY <1>2, <1>6, <2>2, FS_EmptySet DEF SlotsOwn
<1>10. Reports(rcv)
  BY <1>6, <1>7 DEF Reports
<1>11. ReferencesHeld(rcv)
  BY <1>4, <1>6, VideoSizes DEF ReferencesHeld
<1>12. HandedRight(rcv)
  BY <1>3, <1>6, <1>7 DEF HandedRight
<1>. QED  BY <1>5, <1>7, <1>8, <1>9, <1>10, <1>11, <1>12 DEF VideoInv, Kept, Exact, Lacks

(* What the invariant says to a reader of the properties.                   *)
LEMMA VideoInvSound ==
  VideoInv(rcv) => /\ Video!TypeOK /\ Video!FrameInProgress /\ Video!HandedDecodable
                   /\ Video!NoSilentGap /\ Video!NoFalseAlarm
<1> SUFFICES ASSUME VideoInv(rcv)
             PROVE  /\ Video!TypeOK /\ Video!FrameInProgress /\ Video!HandedDecodable
                    /\ Video!NoSilentGap /\ Video!NoFalseAlarm
  OBVIOUS
<1>1. /\ rcv \in Receiver /\ NumbersMatch(rcv) /\ SlotsOwn(rcv) /\ Reports(rcv)
      /\ ReferencesHeld(rcv) /\ HandedRight(rcv) /\ Exact(rcv) /\ Lacks(rcv)
  BY DEF VideoInv, Kept
<1>2. /\ rcv.completeU \in Nat /\ rcv.curU \in Nat /\ rcv.curU <= MaxFrame
      /\ rcv.completeU <= rcv.curU
  BY <1>1, VideoSizes DEF NumbersMatch
<1>3. Video!TypeOK
  <2>1. Video!SeqNums = 0 .. VideoMod - 1
    BY VideoSizes DEF Video!SeqNums
  <2>2. rcv.cur \in Video!SeqNums \cup {-1} /\ rcv.prev \in Video!SeqNums \cup {-1}
    BY <1>1, <2>1, CurRange, VideoSizes
  <2>3. rcv.complete \in Video!SeqNums /\ rcv.profile \in {-1, 0, 1} /\ rcv.lost \in Int
    <3>1. rcv.completeU \in Int /\ rcv.lost \in Int
      BY <1>1, <1>2 DEF Receiver
    <3>2. Video!Wrap(rcv.completeU) \in 0 .. VideoMod - 1
      BY <3>1, WrapFrame
    <3>. QED  BY <1>1, <2>1, <3>1, <3>2 DEF NumbersMatch
  <2>4. Video!Range(rcv.refs) \subseteq Video!SeqNums /\ Len(rcv.refs) \in 0 .. Refs
    <3>1. rcv.refs \in Seq(Int) /\ rcv.accepted \subseteq Int
      BY <1>1 DEF Receiver
    <3>2. \A k \in 1 .. Len(rcv.refs) : rcv.refs[k] \in 0 .. VideoMod - 1
      BY <1>1, <3>1, WrapFrame DEF ReferencesHeld
    <3>3. Len(rcv.refs) \in 0 .. Refs
      BY <1>1, <3>1, VideoSizes DEF ReferencesHeld
    <3>. QED  BY <2>1, <3>1, <3>2, <3>3 DEF Video!Range
  <2>5. rcv.units \in [Video!SlotIds -> {Video!Empty} \cup 1 .. MaxFrame]
    <3>1. rcv.units \in [Video!SlotIds -> Int]
      BY <1>1 DEF Receiver
    <3>2. \A i \in Video!SlotIds : rcv.units[i] \in {Video!Empty} \cup 1 .. MaxFrame
      BY <1>1, <1>2, VideoSizes DEF SlotsOwn
    <3>. QED  BY <3>1, <3>2
  <2>6. rcv.nsource \in 0 .. VideoSource /\ rcv.nfec \in 0 .. Video!FecSlots
    <3>1. Filled(rcv.units, SourceSlots) \subseteq SourceSlots
          /\ Filled(rcv.units, FecOnly) \subseteq FecOnly
      BY DEF Filled
    <3>2. /\ Cardinality(Filled(rcv.units, SourceSlots)) <= VideoSource
          /\ Cardinality(Filled(rcv.units, SourceSlots)) \in Nat
      BY <3>1, SlotSets, FS_Subset, FS_CardinalityType
    <3>3. /\ Cardinality(Filled(rcv.units, FecOnly)) <= Video!FecSlots
          /\ Cardinality(Filled(rcv.units, FecOnly)) \in Nat
      BY <3>1, SlotSets, FS_Subset, FS_CardinalityType
    <3>. QED  BY <1>1, <3>2, <3>3, VideoSizes DEF SlotsOwn
  <2>7. rcv.told \subseteq 0 .. MaxFrame /\ rcv.accepted \subseteq 1 .. MaxFrame
    BY <1>1, <1>2, VideoSizes DEF Reports
  <2>. QED  BY <2>2, <2>3, <2>4, <2>5, <2>6, <2>7 DEF Video!TypeOK
<1>4. Video!FrameInProgress
  <2>1. Video!Building <=> InProgress(rcv)
    BY DEF Video!Building, InProgress
  <2>2. Video!CountsRight
    BY <1>1, <2>1, SameCount DEF Video!CountsRight, Exact, Filled
  <2>3. Video!EnoughFlushed
    BY <1>1, <2>1 DEF Video!EnoughFlushed, Lacks
  <2>4. Video!HandedOnce
    BY <1>1, <2>1 DEF Video!HandedOnce, HandedRight
  <2>. QED  BY <2>2, <2>3, <2>4 DEF Video!FrameInProgress
<1>5. Video!HandedDecodable
  BY <1>1 DEF Video!HandedDecodable, Video!FrameWhole, Video!HeaderMatches,
              Video!DecodableRef, HandedRight
<1>6. Video!NoSilentGap /\ Video!NoFalseAlarm
  BY <1>1 DEF Video!NoSilentGap, Video!NoFalseAlarm, Reports
<1>. QED  BY <1>3, <1>4, <1>5, <1>6

(* Only the part of a behaviour that is about video changes the receiver.   *)
LEMMA VideoStep == StreamsNext => (\E n \in 1 .. MaxFrame, i \in Video!UnitIds :
                     Video!Near(n) /\ Video!AVPacket(n, i)) \/ rcv' = rcv
BY DEF StreamsNext, DataOnly, AudioOnly, MessagesOnly, SendersOnly, CtrlOnly, InputOnly,
       VideoOnly, Video!Next, Video!OldPacket

(* The decoder is handed whole frames it can decode, each once, with its    *)
(* own header and a reference the decoder has; the console is told of every *)
(* frame that is missing and of none that the decoder took                  *)
(* (videoreceiver.c:92, 117, frameprocessor.c:229).                         *)
THEOREM FramesHold == StreamsSpec => []FramesSound
<1>1. StreamsInit => VideoInv(rcv)
  BY VideoStarts DEF StreamsInit
<1>2. VideoInv(rcv) /\ [StreamsNext]_streams => VideoInv(rcv)'
  <2>1. ASSUME VideoInv(rcv), StreamsNext PROVE VideoInv(rcv)'
    <3>1. CASE rcv' = rcv
      BY <2>1, <3>1
    <3>2. ASSUME NEW n \in 1 .. MaxFrame, NEW i \in Video!UnitIds,
                 Video!Near(n), Video!AVPacket(n, i)
          PROVE  VideoInv(rcv')
      BY <2>1, <3>2, PacketKeeps
    <3>. QED  BY <2>1, <3>1, <3>2, VideoStep
  <2>2. ASSUME VideoInv(rcv), UNCHANGED streams PROVE VideoInv(rcv)'
    BY <2>2 DEF streams
  <2>. QED  BY <2>1, <2>2
<1>3. VideoInv(rcv) => FramesSound
  BY VideoInvSound DEF FramesSound
<1>. QED  BY <1>1, <1>2, <1>3, PTL DEF StreamsSpec

-----------------------------------------------------------------------------
(* The behaviours of Streams.                                               *)

(* They are behaviours of the queue, with all it promises ...               *)
THEOREM StreamsQueue == StreamsSpec => Spec
<1>1. StreamsInit => Init
  BY DEF StreamsInit
<1>2. [StreamsNext]_streams => [Next]_vars
  BY DEF StreamsNext, streams, vars, DataOnly, VideoOnly, AudioOnly, MessagesOnly,
         SendersOnly, CtrlOnly, InputOnly
<1>. QED  BY <1>1, <1>2, PTL DEF StreamsSpec, Spec

(* ... and of the senders, who share one key stream (takion.c:536).         *)
THEOREM StreamsSenders == StreamsSpec => Senders!Spec
<1>1. StreamsInit => Senders!Init
  BY DEF StreamsInit
<1>2. [StreamsNext]_streams => [Senders!Next]_(Senders!vars)
  BY DEF StreamsNext, streams, sending, Senders!vars, DataOnly, VideoOnly, AudioOnly,
         MessagesOnly, SendersOnly, CtrlOnly, InputOnly
<1>. QED  BY <1>1, <1>2, PTL DEF StreamsSpec, Senders!Spec

-----------------------------------------------------------------------------
(* Audio.                                                                   *)

AudioMod == 2 * AudioHalf

LEMMA AudioSizes ==
  /\ AudioHalf \in Nat \ {0} /\ AudioMod \in Nat \ {0} /\ AudioMod = AudioHalf + AudioHalf
  /\ Source \in Nat \ {0} /\ Fec \in Nat /\ LastFrame \in Nat /\ Lag \in Nat /\ Words \in Nat
  /\ Source + Fec + Lag <= AudioHalf
BY AudioAssumption DEF AudioMod

LEMMA AudioIndex ==
  ASSUME NEW f \in Int
  PROVE  Audio!Index(f) = f % AudioMod /\ Audio!Index(f) \in 0 .. AudioMod - 1
BY AudioSizes, DivMod DEF Audio!Index, AudioMod

(* The comparison of indices is that of the frames' numbers, also for those *)
(* exactly half the space behind.                                           *)
LEMMA NewerMeaning ==
  ASSUME NEW f \in Int, NEW l \in Int, f - l < AudioHalf, l - f <= AudioHalf
  PROVE  Audio!Newer(Audio!Index(f), Audio!Index(l)) <=> f > l
<1> DEFINE a == f % AudioMod
           b == l % AudioMod
<1>1. a \in 0 .. AudioMod - 1 /\ b \in 0 .. AudioMod - 1 /\ Audio!Index(f) = a /\ Audio!Index(l) = b
  BY AudioIndex
<1>2. Audio!Newer(a, b) <=> a # b /\ (a - b) % AudioMod < AudioHalf
  BY DEF Audio!Newer, AudioMod
<1>3. CASE f > l
  <2>1. 0 <= f - l /\ f - l < AudioMod /\ l - f < AudioMod
    BY <1>3, AudioSizes
  <2>2. (a - b) % AudioMod = f - l
    BY <2>1, AudioSizes, RemainderDistance
  <2>3. a # b
    BY <1>3, <2>1, AudioSizes, RemainderInjective
  <2>. QED  BY <1>1, <1>2, <1>3, <2>2, <2>3
<1>4. CASE f = l
  BY <1>1, <1>2, <1>4
<1>5. CASE f < l
  <2>1. PICK g \in Int : g = f + 1 * AudioMod
    BY AudioSizes
  <2>2. g % AudioMod = a
    <3>1. AudioMod \in Nat \ {0} /\ 1 \in Int
      BY AudioSizes
    <3>2. (f + 1 * AudioMod) % AudioMod = a
      <4> HIDE DEF a
      <4>. QED  BY <3>1, RemainderShift DEF a
    <3>. QED  BY <2>1, <3>2
  <2>3. 0 <= g - l /\ g - l < AudioMod /\ g - l >= AudioHalf
    BY <1>5, <2>1, AudioSizes
  <2>4. ((g % AudioMod) - b) % AudioMod = g - l
    BY <2>3, AudioSizes, RemainderDistance
  <2>5. ~((a - b) % AudioMod < AudioHalf)
    BY <2>2, <2>3, <2>4, AudioSizes
  <2>. QED  BY <1>1, <1>2, <1>5, <2>5
<1>. QED  BY <1>3, <1>4, <1>5

-----------------------------------------------------------------------------
(* What the sink has heard, and the index of the last frame of it.          *)
LastOf(h) == IF h = <<>> THEN 0 ELSE h[Len(h)]
Ascending(h) == \A i \in 1 .. Len(h) - 1 : h[i] < h[i + 1]
OwnFrames(h, A) == \A i \in 1 .. Len(h) : \E p \in A : h[i] \in p .. p + Source - 1
Hearing == [previous : Int, heard : Seq(1 .. LastFrame + Source)]
Heard(a, A) ==
  /\ a \in Hearing
  /\ a.previous = Audio!Index(LastOf(a.heard))
  /\ LastOf(a.heard) < sent /\ sent - LastOf(a.heard) <= AudioHalf
  /\ Ascending(a.heard) /\ OwnFrames(a.heard, A)

(* The packets on their way are not too far behind.                         *)
Flying ==
  /\ sent \in 1 .. LastFrame + Source
  /\ air \subseteq 1 .. LastFrame
  /\ \A p \in air : p + Source <= sent /\ sent - p <= Lag + Source

(* The microphone's buffers: empty, one filled, or both with one frame.     *)
Speaking ==
  /\ {spoken, frameA, frameB} \subseteq 0 .. Words
  /\ frameB = Audio!None => frameA = Audio!None
  /\ frameA # Audio!None => frameA = spoken
  /\ frameA = Audio!None => voice = <<>>
  /\ voice # <<>> => spoken > 1 /\ voice = <<spoken, spoken - 1, spoken>>

AudioInv ==
  /\ Flying /\ arrived \subseteq 1 .. LastFrame /\ startup \in BOOLEAN
  /\ Heard([previous |-> previous, heard |-> heard], arrived)
  /\ Speaking

LEMMA LastOfType ==
  ASSUME NEW h \in Seq(1 .. LastFrame + Source)
  PROVE  LastOf(h) \in Nat /\ LastOf(h) <= LastFrame + Source /\ (h # <<>> => LastOf(h) > 0)
BY AudioSizes DEF LastOf

LEMMA AppendHeard ==
  ASSUME NEW h \in Seq(1 .. LastFrame + Source), NEW f \in 1 .. LastFrame + Source,
         Ascending(h), LastOf(h) < f, NEW A, OwnFrames(h, A), NEW p \in A, f \in p .. p + Source - 1
  PROVE  /\ Append(h, f) \in Seq(1 .. LastFrame + Source) /\ LastOf(Append(h, f)) = f
         /\ Ascending(Append(h, f)) /\ OwnFrames(Append(h, f), A)
<1> DEFINE g == Append(h, f)
<1>1. /\ g \in Seq(1 .. LastFrame + Source) /\ Len(g) = Len(h) + 1 /\ g[Len(g)] = f
      /\ \A i \in 1 .. Len(h) : g[i] = h[i]
  OBVIOUS
<1> HIDE DEF g
<1>2. g # <<>>
  BY <1>1
<1>3. LastOf(g) = f
  BY <1>1, <1>2 DEF LastOf
<1>4. ASSUME NEW i \in 1 .. Len(g) - 1 PROVE g[i] < g[i + 1]
  <2>1. CASE i = Len(h)
    <3>1. h # <<>> /\ LastOf(h) = h[i]
      BY <1>4, <2>1 DEF LastOf
    <3>2. g[i] = h[i] /\ g[i + 1] = f
      BY <1>1, <1>4, <2>1
    <3>. QED  BY <3>1, <3>2
  <2>2. CASE i # Len(h)
    <3>1. i \in 1 .. Len(h) - 1 /\ i \in 1 .. Len(h) /\ i + 1 \in 1 .. Len(h)
      BY <1>1, <2>2
    <3>2. h[i] < h[i + 1] /\ g[i] = h[i] /\ g[i + 1] = h[i + 1]
      BY <1>1, <3>1 DEF Ascending
    <3>. QED  BY <3>2
  <2>. QED  BY <2>1, <2>2
<1>5. ASSUME NEW i \in 1 .. Len(g) PROVE \E q \in A : g[i] \in q .. q + Source - 1
  <2>1. CASE i = Len(g)
    BY <1>1, <2>1
  <2>2. CASE i # Len(g)
    <3>1. i \in 1 .. Len(h) /\ g[i] = h[i]
      BY <1>1, <2>2
    <3>. QED  BY <3>1 DEF OwnFrames
  <2>. QED  BY <2>1, <2>2
<1>. QED  BY <1>1, <1>3, <1>4, <1>5 DEF Ascending, OwnFrames, g

(* One turn of the loop over the units of the packet that starts with p:    *)
(* its own frames that are newer are heard, and the repeated ones never.    *)
Heed(p, i, a) ==
  IF Audio!Ignored(p, i) \/ ~Audio!Newer(Audio!Unit(p, i).index, a.previous)
  THEN a
  ELSE [previous |-> Audio!Unit(p, i).index, heard |-> Append(a.heard, Audio!Unit(p, i).frame)]
Reached(p, k, a) == \A j \in 1 .. k : j <= Source => p + j - 1 <= LastOf(a.heard)

LEMMA TurnHeard ==
  ASSUME Flying, NEW p \in air, NEW A, p \in A, NEW k \in Nat, k < Source + Fec,
         NEW a, Heard(a, A), Reached(p, k, a)
  PROVE  Heard(Heed(p, k + 1, a), A) /\ Reached(p, k + 1, Heed(p, k + 1, a))
<1> DEFINE l == LastOf(a.heard)
<1>1. /\ p \in Nat /\ p >= 1 /\ p <= LastFrame /\ p + Source <= sent /\ sent - p <= Lag + Source
      /\ sent \in Nat
  BY AudioSizes DEF Flying
<1>2. /\ a \in Hearing /\ a.heard \in Seq(1 .. LastFrame + Source) /\ a.previous = Audio!Index(l)
      /\ l < sent /\ sent - l <= AudioHalf /\ Ascending(a.heard) /\ OwnFrames(a.heard, A)
  BY DEF Heard, Hearing
<1>3. l \in Nat
  BY <1>2, LastOfType
<1> HIDE DEF l
<1>4. CASE k < Source
  <2>1. PICK f \in Int : f = p + k
    BY <1>1
  <2>2. Audio!Unit(p, k + 1).index = Audio!Index(f) /\ Audio!Unit(p, k + 1).frame = f
    <3>1. p + (k + 1) - 1 = f /\ k + 1 <= Source
      BY <1>1, <1>4, <2>1, AudioSizes
    <3>. QED  BY <3>1 DEF Audio!Unit
  <2>3. ~Audio!Ignored(p, k + 1)
    BY <1>4, AudioSizes DEF Audio!Ignored
  <2>4. f < sent /\ f >= 1 /\ f \in p .. p + Source - 1 /\ f \in 1 .. LastFrame + Source
        /\ sent - f <= AudioHalf
    BY <1>1, <1>4, <2>1, AudioSizes
  <2>5. Audio!Newer(Audio!Index(f), a.previous) <=> f > l
    <3>1. f - l < AudioHalf /\ l - f <= AudioHalf
      BY <1>1, <1>2, <1>3, <2>4, AudioSizes
    <3>. QED  BY <1>2, <1>3, <3>1, NewerMeaning
  <2>6. CASE f > l
    <3> DEFINE b == [previous |-> Audio!Index(f), heard |-> Append(a.heard, f)]
    <3>1. Heed(p, k + 1, a) = b
      BY <2>2, <2>3, <2>5, <2>6 DEF Heed
    <3>2. /\ Append(a.heard, f) \in Seq(1 .. LastFrame + Source)
          /\ LastOf(Append(a.heard, f)) = f
          /\ Ascending(Append(a.heard, f)) /\ OwnFrames(Append(a.heard, f), A)
      BY <1>2, <2>4, <2>6, AppendHeard DEF l
    <3>3. Audio!Index(f) \in Int
      BY AudioIndex, AudioSizes
    <3>4. Heard(b, A)
      BY <2>4, <3>2, <3>3 DEF Heard, Hearing
    <3>5. Reached(p, k + 1, b)
      <4>1. \A j \in 1 .. k + 1 : p + j - 1 <= f
        BY <1>1, <2>1
      <4>. QED  BY <3>2, <4>1 DEF Reached
    <3>. QED  BY <3>1, <3>4, <3>5
  <2>7. CASE ~(f > l)
    <3>1. Heed(p, k + 1, a) = a
      BY <2>2, <2>5, <2>7 DEF Heed
    <3>2. \A j \in 1 .. k + 1 : p + j - 1 <= l
      BY <1>1, <1>3, <2>1, <2>7
    <3>. QED  BY <3>1, <3>2 DEF Reached, l
  <2>. QED  BY <2>6, <2>7
<1>5. CASE ~(k < Source)
  <2>1. PICK f \in Int : f = p - Fec + (k + 1) - Source - 1
    BY <1>1, AudioSizes
  <2>2. Audio!Unit(p, k + 1).index = Audio!Index(f)
    <3>1. ~(k + 1 <= Source)
      BY <1>5, AudioSizes
    <3>. QED  BY <2>1, <3>1 DEF Audio!Unit
  <2>3. p + Source - 1 <= l
    <3>1. Source \in 1 .. k /\ Source <= Source
      BY <1>5, AudioSizes
    <3>. QED  BY <3>1 DEF Reached, l
  <2>4. f < p /\ f >= p - Fec
    BY <1>1, <1>5, <2>1, AudioSizes
  <2>5. f - l < AudioHalf /\ l - f <= AudioHalf /\ ~(f > l)
    BY <1>1, <1>2, <1>3, <2>3, <2>4, AudioSizes
  <2>6. ~Audio!Newer(Audio!Index(f), a.previous)
    BY <1>2, <1>3, <2>5, NewerMeaning
  <2>7. Heed(p, k + 1, a) = a
    BY <2>2, <2>6 DEF Heed
  <2>8. Reached(p, k + 1, a)
    <3>1. \A j \in 1 .. k + 1 : j <= Source => j \in 1 .. k
      BY <1>5, AudioSizes
    <3>. QED  BY <3>1 DEF Reached
  <2>. QED  BY <2>7, <2>8
<1>. QED  BY <1>4, <1>5

(* chiaki_audio_receiver_av_packet: the whole loop.  Its recursive function *)
(* exists and hears more with every turn.                                   *)
LEMMA HandledHeard ==
  ASSUME Flying, NEW p \in air, NEW A, p \in A,
         Heard([previous |-> previous, heard |-> heard], A)
  PROVE  Heard(Audio!Handled(p), A)
<1> DEFINE c == [previous |-> previous, heard |-> heard]
           n == Source + Fec
           Wide == [previous : Int, heard : Seq(Int)]
           turn == [t \in Nat \X Wide |-> Heed(p, t[1], t[2])]
           body(f) == [i \in 0 .. n |-> IF i = 0 THEN c ELSE Heed(p, i, f[i - 1])]
           after == CHOOSE f : f = body(f)
           T == { k \in Nat : k <= n => Heard(after[k], A) /\ Reached(p, k, after[k]) }
<1>0. n \in Nat /\ AudioMod \in Nat \ {0}
  BY AudioSizes
<1>1. Audio!Handled(p) = after[n]
  BY DEF Audio!Handled, Heed
<1>2. c \in Wide /\ Heard(c, A) /\ Reached(p, 0, c)
  BY AudioSizes DEF Heard, Hearing, Reached
<1>3. ASSUME NEW i \in Nat, NEW a \in Wide PROVE Heed(p, i, a) \in Wide
  <2>0. p \in Int
    BY DEF Flying
  <2>1. Audio!Unit(p, i).frame \in Int /\ Audio!Unit(p, i).index \in Int
    <3>1. \A f \in Int : Audio!Index(f) \in Int
      BY AudioIndex, AudioSizes
    <3>2. p + i - 1 \in Int /\ p - Fec + i - Source - 1 \in Int
      BY <2>0, AudioSizes
    <3>. QED  BY <3>1, <3>2 DEF Audio!Unit
  <2>2. Append(a.heard, Audio!Unit(p, i).frame) \in Seq(Int)
    BY <2>1
  <2>. QED  BY <2>1, <2>2 DEF Heed
<1>4. turn \in [Nat \X Wide -> Wide]
  BY <1>3
<1> HIDE DEF c, Wide
<1>5. PICK g : Loops(g, Wide, c, turn, n)
  <2>1. c \in Wide /\ n \in Nat
    BY <1>0, <1>2
  <2> HIDE DEF turn, n
  <2>. QED  BY <1>4, <2>1, LoopFunction
<1>6. g = body(g)
  <2>1. ASSUME NEW i \in 0 .. n PROVE g[i] = IF i = 0 THEN c ELSE Heed(p, i, g[i - 1])
    <3>1. i = 0 \/ (i \in 1 .. n /\ i \in Nat /\ i - 1 \in 0 .. n)
      BY <1>0
    <3>. QED  BY <1>5, <3>1 DEF Loops
  <2>2. g \in [0 .. n -> Wide]
    BY <1>5 DEF Loops
  <2> HIDE DEF turn, n
  <2>. QED  BY <2>1, <2>2
<1>7. after = body(after)
  <2> HIDE DEF n
  <2>. QED  BY <1>6
<1> HIDE DEF after
<1>8. 0 \in T
  <2>1. after[0] = c
    BY <1>0, <1>7
  <2>. QED  BY <1>2, <2>1
<1>9. ASSUME NEW k \in Nat, k \in T PROVE k + 1 \in T
  <2> SUFFICES ASSUME k + 1 <= n
               PROVE  Heard(after[k + 1], A) /\ Reached(p, k + 1, after[k + 1])
    OBVIOUS
  <2>1. Heard(after[k], A) /\ Reached(p, k, after[k]) /\ k < Source + Fec
    BY <1>0, <1>9
  <2>2. after[k + 1] = Heed(p, k + 1, after[k])
    <3>1. k + 1 \in 0 .. n /\ k + 1 # 0 /\ (k + 1) - 1 = k
      BY <1>0
    <3> HIDE DEF n
    <3>. QED  BY <1>7, <3>1
  <2>. QED  BY <2>1, <2>2, TurnHeard
<1>10. n \in T
  <2> HIDE DEF T, n
  <2>. QED  BY <1>0, <1>8, <1>9, SetInduction
<1>. QED  BY <1>0, <1>1, <1>10

(* One step of each actor keeps the invariant.                              *)
LEMMA AudioStep == AudioInv /\ [Audio!Next]_hearing => AudioInv'
<1> SUFFICES ASSUME AudioInv, [Audio!Next]_hearing PROVE AudioInv'
  OBVIOUS
<1> USE DEF AudioInv
<1> DEFINE c == [previous |-> previous, heard |-> heard]
<1>0. /\ sent \in Nat /\ sent >= 1 /\ sent <= LastFrame + Source
      /\ heard \in Seq(1 .. LastFrame + Source) /\ previous \in Int
      /\ previous = Audio!Index(LastOf(heard))
      /\ LastOf(heard) < sent /\ sent - LastOf(heard) <= AudioHalf
      /\ Ascending(heard) /\ OwnFrames(heard, arrived)
  BY AudioSizes DEF Flying, Heard, Hearing
<1>00. LastOf(heard) \in Nat
  BY <1>0, LastOfType
<1>1. CASE Audio!Send
  <2> USE <1>1 DEF Audio!Send
  <2>0. /\ sent <= LastFrame /\ sent' = sent + Source
        /\ air' = {p \in air \cup {sent} : sent - p <= Lag}
        /\ sent + Source - LastOf(heard) <= AudioHalf
    BY DEF Audio!Short, Audio!Latest, LastOf
  <2>1. UNCHANGED <<arrived, previous, startup, heard, spoken, frameA, frameB, voice>>
    BY DEF Audio!receiver, Audio!microphone
  <2>2. Flying'
    <3>1. sent' \in 1 .. LastFrame + Source
      BY <1>0, <2>0, AudioSizes
    <3>2. ASSUME NEW p \in air'
          PROVE  p \in 1 .. LastFrame /\ p + Source <= sent' /\ sent' - p <= Lag + Source
      <4>1. p \in Nat /\ p >= 1 /\ p <= LastFrame /\ p <= sent
        BY <1>0, <2>0, <3>2, AudioSizes DEF Flying
      <4>. QED  BY <1>0, <2>0, <3>2, <4>1, AudioSizes
    <3>. QED  BY <3>1, <3>2 DEF Flying
  <2>3. Heard(c, arrived)'
    <3>1. LastOf(heard) < sent' /\ sent' - LastOf(heard) <= AudioHalf
      <4>1. LastOf(heard) \in Int /\ sent \in Nat /\ sent' \in Nat
        BY <1>0, <1>00, <2>0, AudioSizes
      <4>. QED  BY SMTT(30), <1>0, <1>00, <2>0, <4>1, AudioSizes
    <3>. QED  BY <1>0, <2>1, <3>1 DEF Heard, Hearing
  <2>. QED  BY <2>1, <2>2, <2>3 DEF Speaking
<1>2. ASSUME NEW p \in air, Audio!Arrives(p) PROVE AudioInv'
  <2> USE <1>2 DEF Audio!Arrives
  <2>0. /\ air' \subseteq air /\ arrived' = arrived \cup {p}
        /\ previous' = Audio!Handled(p).previous /\ heard' = Audio!Handled(p).heard
        /\ UNCHANGED <<sent, spoken, frameA, frameB, voice>>
    BY DEF Audio!microphone
  <2>1. startup' \in BOOLEAN
    BY DEF Audio!Starting
  <2>2. Flying' /\ arrived' \subseteq 1 .. LastFrame
    BY <2>0 DEF Flying
  <2>3. OwnFrames(heard, arrived')
    BY <1>0, <2>0 DEF OwnFrames
  <2>4. Heard(c, arrived')
    BY <1>0, <2>3 DEF Heard, Hearing
  <2>5. Heard(Audio!Handled(p), arrived')
    BY <2>0, <2>4, HandledHeard
  <2>6. Audio!Handled(p) = [previous |-> previous', heard |-> heard']
    <3>1. Audio!Handled(p) \in Hearing
      BY <2>5 DEF Heard
    <3>. QED  BY <2>0, <3>1 DEF Hearing
  <2>7. Heard(c, arrived)'
    BY <2>0, <2>5, <2>6 DEF Heard
  <2>8. Speaking'
    BY <2>0 DEF Speaking
  <2>. QED  BY <2>1, <2>2, <2>7, <2>8
<1>3. ASSUME NEW p \in air, Audio!Dropped(p) PROVE AudioInv'
  <2>1. /\ air' \subseteq air
        /\ UNCHANGED <<sent, arrived, previous, startup, heard, spoken, frameA, frameB, voice>>
    BY <1>3 DEF Audio!Dropped, Audio!receiver, Audio!microphone
  <2>. QED  BY <2>1 DEF Flying, Heard, Speaking
<1>4. CASE Audio!Speak
  <2> USE <1>4 DEF Audio!Speak
  <2>1. UNCHANGED <<sent, air, arrived, previous, startup, heard>>
    BY DEF Audio!receiver
  <2>2. Speaking'
    BY AudioSizes DEF Speaking, Audio!None
  <2>. QED  BY <2>1, <2>2 DEF Flying, Heard
<1>5. CASE UNCHANGED hearing
  BY <1>5 DEF hearing, Flying, Heard, Speaking
<1>. QED  BY <1>1, <1>2, <1>3, <1>4, <1>5 DEF Audio!Next

LEMMA AudioStart == Audio!Init => AudioInv
<1> SUFFICES ASSUME Audio!Init PROVE AudioInv
  OBVIOUS
<1> USE DEF Audio!Init
<1>1. Flying /\ arrived \subseteq 1 .. LastFrame /\ startup \in BOOLEAN
  BY AudioSizes DEF Flying
<1>2. heard \in Seq(1 .. LastFrame + Source) /\ LastOf(heard) = 0
  BY DEF LastOf
<1>3. Audio!Index(0) = 0
  BY AudioSizes, AudioIndex
<1>4. Heard([previous |-> previous, heard |-> heard], arrived)
  BY <1>2, <1>3, AudioSizes DEF Heard, Hearing, Ascending, OwnFrames
<1>5. Speaking
  BY AudioSizes DEF Speaking, Audio!None
<1>. QED  BY <1>1, <1>4, <1>5 DEF AudioInv

LEMMA AudioSafe == AudioInv => Audio!TypeOK /\ Audio!UnitsSound
<1> SUFFICES ASSUME AudioInv PROVE Audio!TypeOK /\ Audio!UnitsSound
  OBVIOUS
<1>1. /\ heard \in Seq(1 .. LastFrame + Source) /\ previous = Audio!Index(LastOf(heard))
      /\ Ascending(heard) /\ OwnFrames(heard, arrived)
  BY DEF AudioInv, Heard, Hearing
<1>2. previous \in 0 .. AudioMod - 1
  BY <1>1, LastOfType, AudioIndex
<1>3. voice = <<>> \/ voice \in Seq(1 .. Words)
  <2>1. CASE voice # <<>>
    <3>1. spoken \in 1 .. Words /\ spoken - 1 \in 1 .. Words /\ voice = <<spoken, spoken - 1, spoken>>
      BY <2>1, AudioSizes DEF AudioInv, Speaking
    <3>. QED  BY <3>1
  <2>. QED  BY <2>1
<1>4. Audio!TypeOK
  BY <1>1, <1>2, <1>3 DEF AudioInv, Flying, Speaking, Audio!TypeOK, AudioMod
<1>5. Audio!HeardInOrder /\ Audio!HeardOwn
  BY <1>1 DEF Ascending, OwnFrames, Audio!HeardInOrder, Audio!HeardOwn
<1>6. Audio!VoiceRepeats
  BY DEF AudioInv, Speaking, Audio!VoiceRepeats
<1>. QED  BY <1>4, <1>5, <1>6 DEF Audio!UnitsSound

(* The audio receiver and the microphone, whatever is lost, late or         *)
(* repeated: the part of UnitsSound that is about them.                     *)
AudioRight == part = "audio" => UnitsSound
THEOREM AudioHolds == StreamsSpec => []AudioRight
<1>1. StreamsInit => AudioInv
  BY AudioStart DEF StreamsInit
<1>2. AudioInv /\ [StreamsNext]_streams => AudioInv'
  <2> SUFFICES ASSUME AudioInv, [StreamsNext]_streams PROVE AudioInv'
    OBVIOUS
  <2>1. [Audio!Next]_hearing
    BY DEF StreamsNext, DataOnly, VideoOnly, AudioOnly, MessagesOnly, SendersOnly, CtrlOnly,
           InputOnly, streams
  <2>. QED  BY <2>1, AudioStep
<1>3. AudioInv => AudioRight
  BY AudioSafe DEF AudioRight, UnitsSound
<1>. QED  BY <1>1, <1>2, <1>3, PTL DEF StreamsSpec

-----------------------------------------------------------------------------
(* Messages.                                                                *)

LEMMA MessageSizes ==
  /\ HeadRest \in Nat /\ HeadFirst = HeadRest + 1 /\ Overhead \in Nat
  /\ Mtus \subseteq Nat /\ \A m \in Mtus : m > Overhead + HeadFirst
  /\ Totals \subseteq Nat \ {0}
  /\ 0 \in Motions /\ 0 \in Strengths
BY MessageAssumption

Part == [size : Nat, last : BOOLEAN, ok : BOOLEAN]

(* The sums over the first pieces of s. *)
Sums(u, s) ==
  /\ u \in [0 .. Len(s) -> Nat] /\ u[0] = 0
  /\ \A i \in 1 .. Len(s) : u[i] = u[i - 1] + s[i].size

LEMMA SumExists ==
  ASSUME NEW s \in Seq(Part)
  PROVE  \E u : Sums(u, s) /\ Messages!SumOf(s) = u[Len(s)]
<1> DEFINE n == Len(s)
           turn == [t \in Nat \X Nat |-> IF t[1] \in 1 .. n THEN t[2] + s[t[1]].size ELSE 0]
           body(f) == [i \in 0 .. n |-> IF i = 0 THEN 0 ELSE f[i - 1] + s[i].size]
           upto == CHOOSE f : f = body(f)
<1>1. n \in Nat /\ \A i \in 1 .. n : s[i].size \in Nat
  <2>1. ASSUME NEW i \in 1 .. n PROVE s[i].size \in Nat
    <3>1. s[i] \in Part
      OBVIOUS
    <3>. QED  BY <3>1 DEF Part
  <2>. QED  BY <2>1
<1>2. Messages!SumOf(s) = upto[n]
  BY DEF Messages!SumOf
<1> HIDE DEF n
<1>3. turn \in [Nat \X Nat -> Nat]
  BY <1>1
<1>4. PICK g : Loops(g, Nat, 0, turn, n)
  <2> HIDE DEF turn
  <2>. QED  BY <1>1, <1>3, LoopFunction
<1>5. ASSUME NEW i \in 1 .. n PROVE g[i] = g[i - 1] + s[i].size
  <2>1. i \in Nat /\ i - 1 \in 0 .. n
    BY <1>1
  <2>2. g[i - 1] \in Nat /\ g[i] = turn[<<i, g[i - 1]>>]
    BY <1>4, <2>1 DEF Loops
  <2>. QED  BY <2>1, <2>2
<1>6. g = body(g)
  <2>1. g \in [0 .. n -> Nat] /\ g[0] = 0
    BY <1>4 DEF Loops
  <2>2. \A i \in 0 .. n : i = 0 \/ i \in 1 .. n
    BY <1>1
  <2>. QED  BY <1>5, <2>1, <2>2
<1>7. upto = body(upto)
  BY <1>6
<1>8. upto \in [0 .. n -> Nat]
  <2> DEFINE T == { k \in Nat : k <= n => upto[k] \in Nat }
  <2> HIDE DEF upto
  <2>1. 0 \in T
    BY <1>1, <1>7
  <2>2. ASSUME NEW k \in Nat, k \in T PROVE k + 1 \in T
    <3> SUFFICES ASSUME k + 1 <= n PROVE upto[k + 1] \in Nat
      OBVIOUS
    <3>1. k + 1 \in 0 .. n /\ k + 1 # 0 /\ (k + 1) - 1 = k /\ k + 1 \in 1 .. n
      BY <1>1
    <3>2. upto[k + 1] = upto[k] + s[k + 1].size
      BY <1>7, <3>1
    <3>3. upto[k] \in Nat /\ s[k + 1].size \in Nat
      BY <1>1, <2>2, <3>1
    <3>. QED  BY <3>2, <3>3
  <2>3. Nat \subseteq T
    <3> HIDE DEF T
    <3>. QED  BY <2>1, <2>2, SetInduction
  <2>. QED  BY <1>1, <1>7, <2>3
<1> HIDE DEF upto
<1>9. ASSUME NEW i \in 1 .. n PROVE upto[i] = upto[i - 1] + s[i].size
  BY <1>1, <1>7
<1>10. upto[0] = 0
  BY <1>1, <1>7
<1>11. Sums(upto, s)
  BY <1>8, <1>9, <1>10 DEF Sums, n
<1>. QED  BY <1>2, <1>11 DEF n

(* One piece more adds its size.                                            *)
LEMMA SumAppend ==
  ASSUME NEW s \in Seq(Part), NEW x \in Part
  PROVE  /\ Messages!SumOf(s) \in Nat
         /\ Messages!SumOf(Append(s, x)) = Messages!SumOf(s) + x.size
<1> DEFINE t == Append(s, x)
           n == Len(s)
<1>1. t \in Seq(Part) /\ Len(t) = n + 1 /\ t[n + 1] = x /\ \A i \in 1 .. n : t[i] = s[i]
  OBVIOUS
<1>2. n \in Nat
  OBVIOUS
<1> HIDE DEF t
<1>3. PICK u : Sums(u, s) /\ Messages!SumOf(s) = u[n]
  BY SumExists
<1>4. PICK w : Sums(w, t) /\ Messages!SumOf(t) = w[n + 1]
  BY <1>1, SumExists
<1> HIDE DEF n
<1>5. /\ u \in [0 .. n -> Nat] /\ u[0] = 0 /\ \A i \in 1 .. n : u[i] = u[i - 1] + s[i].size
      /\ w[0] = 0 /\ \A i \in 1 .. n + 1 : w[i] = w[i - 1] + t[i].size
  BY <1>1, <1>3, <1>4 DEF Sums, n
<1> DEFINE T == { k \in Nat : k <= n => w[k] = u[k] }
<1>6. 0 \in T
  BY <1>5
<1>7. ASSUME NEW k \in Nat, k \in T PROVE k + 1 \in T
  <2> SUFFICES ASSUME k + 1 <= n PROVE w[k + 1] = u[k + 1]
    OBVIOUS
  <2>1. k + 1 \in 1 .. n /\ k + 1 \in 1 .. n + 1 /\ (k + 1) - 1 = k /\ w[k] = u[k]
    BY <1>2, <1>7
  <2>2. w[k + 1] = w[k] + t[k + 1].size /\ u[k + 1] = u[k] + s[k + 1].size
    BY <1>5, <2>1
  <2>. QED  BY <1>1, <2>1, <2>2
<1>8. n \in T
  <2> HIDE DEF T
  <2>. QED  BY <1>2, <1>6, <1>7, SetInduction
<1>9. n + 1 \in 1 .. n + 1 /\ (n + 1) - 1 = n /\ n \in 0 .. n
  BY <1>2
<1>10. w[n + 1] = w[n] + x.size /\ w[n] = u[n] /\ u[n] \in Nat
  BY <1>1, <1>5, <1>8, <1>9
<1>. QED  BY <1>3, <1>4, <1>10 DEF t

-----------------------------------------------------------------------------
(* The split: the first piece is full and so are those after it, each with  *)
(* the header of its place; only the last can be smaller, and it is marked. *)
Filling(i) == mtu - (IF i = 1 THEN HeadFirst ELSE HeadRest)
Split ==
  /\ mtu \in Nat /\ mtu > HeadFirst /\ total \in Totals /\ left \in 0 .. total
  /\ first \in BOOLEAN /\ pieces \in Seq(Part) /\ result \in {"none", "ok", "failed"}
  /\ first => result # "none" \/ pieces = <<>>
  /\ ~first => pieces # <<>>
  /\ result # "none" => pieces # <<>>
EachFits ==
  \A i \in 1 .. Len(pieces) :
    /\ pieces[i].size > 0 /\ pieces[i].size <= Filling(i)
    /\ pieces[i].last => i = Len(pieces) /\ result # "none"
FullLast ==
  LET n == Len(pieces) IN
    /\ result = "none" /\ left = 0 => n > 1 /\ pieces[n].size = Filling(n)
    /\ result # "none" => left = 0 /\ (pieces[n].last \/ (n > 1 /\ pieces[n].size = Filling(n)))
Complete == Messages!SumOf(pieces) + left = total

(* The pad's state is the console's last word, and so are the events.       *)
PadTold ==
  /\ said \in [motion : [1 .. 4 -> Motions], haptic : Strengths, trigger : Strengths]
  /\ told \in [reset : BOOLEAN, haptic : Strengths, trigger : Strengths]
  /\ motion = Messages!InMemory(said.motion)
  /\ haptic = said.haptic /\ trigger = said.trigger
  /\ told.reset <=> said.motion # Messages!Zero
  /\ told.haptic = said.haptic /\ told.trigger = said.trigger

MessageInv == Split /\ EachFits /\ FullLast /\ Complete /\ PadTold

LEMMA MemoryZero ==
  ASSUME NEW b \in [1 .. 4 -> Motions]
  PROVE  /\ Messages!InMemory(b) \in [1 .. 4 -> Motions]
         /\ Messages!InMemory(b) = Messages!Zero <=> b = Messages!Zero
<1>1. 1 \in 1 .. 4 /\ 2 \in 1 .. 4 /\ 3 \in 1 .. 4 /\ 4 \in 1 .. 4
      /\ \A i \in 1 .. 4 : i = 1 \/ i = 2 \/ i = 3 \/ i = 4
  OBVIOUS
<1>2. Messages!InMemory(b) = <<b[4], b[3], b[2], b[1]>> /\ Messages!Zero = <<0, 0, 0, 0>>
  BY DEF Messages!InMemory, Messages!Zero
<1>3. <<b[4], b[3], b[2], b[1]>> \in [1 .. 4 -> Motions]
  BY <1>1
<1>4. b = <<0, 0, 0, 0>> <=> b[1] = 0 /\ b[2] = 0 /\ b[3] = 0 /\ b[4] = 0
  BY <1>1
<1>5. <<b[4], b[3], b[2], b[1]>> = <<0, 0, 0, 0>> <=> b[1] = 0 /\ b[2] = 0 /\ b[3] = 0 /\ b[4] = 0
  OBVIOUS
<1>. QED  BY <1>2, <1>3, <1>4, <1>5

LEMMA MessageStart == Messages!Init => MessageInv
<1> SUFFICES ASSUME Messages!Init PROVE MessageInv
  OBVIOUS
<1> USE DEF Messages!Init
<1>1. mtu \in Nat /\ mtu > HeadFirst
  <2>1. PICK down \in Mtus, up \in Mtus : mtu = (IF down < up THEN down ELSE up) - Overhead
    OBVIOUS
  <2>2. PICK m \in Mtus : mtu = m - Overhead
    BY <2>1
  <2>. QED  BY <2>2, MessageSizes
<1>2. /\ total \in Totals /\ total \in Nat \ {0} /\ left = total /\ first = TRUE
      /\ pieces = <<>> /\ result = "none"
  BY MessageSizes
<1>3. Split
  BY <1>1, <1>2 DEF Split
<1>4. EachFits /\ FullLast
  BY <1>2 DEF EachFits, FullLast
<1>5. Complete
  <2>1. PICK u : Sums(u, pieces) /\ Messages!SumOf(pieces) = u[Len(pieces)]
    BY <1>3, SumExists DEF Split
  <2>2. Len(pieces) = 0
    BY <1>2
  <2>3. Messages!SumOf(pieces) = 0
    BY <2>1, <2>2 DEF Sums
  <2>. QED  BY <1>2, <2>3 DEF Complete
<1>6. PadTold
  <2>1. Messages!Zero \in [1 .. 4 -> Motions] /\ Messages!InMemory(Messages!Zero) = Messages!Zero
    <3>1. Messages!Zero \in [1 .. 4 -> Motions]
      BY MessageSizes DEF Messages!Zero
    <3>. QED  BY <3>1, MemoryZero
  <2>2. /\ motion = Messages!Zero /\ haptic = 0 /\ trigger = 0
        /\ said = [motion |-> Messages!Zero, haptic |-> 0, trigger |-> 0]
        /\ told = [reset |-> FALSE, haptic |-> 0, trigger |-> 0]
    BY DEF Messages!Strong
  <2>. QED  BY <2>1, <2>2, MessageSizes DEF PadTold
<1>. QED  BY <1>3, <1>4, <1>5, <1>6 DEF MessageInv

(* Sending one piece more, the last or not.                                 *)
LEMMA PieceAdded ==
  ASSUME Split, EachFits, Complete, result = "none",
         NEW size \in Nat, size > 0, size <= left, size <= Filling(Len(pieces) + 1),
         NEW last \in BOOLEAN, NEW ok \in BOOLEAN, Messages!Piece(size, last, ok),
         left' = left - size, UNCHANGED <<mtu, total>>, last => result' # "none",
         result' \in {"none", "ok", "failed"}, first' \in BOOLEAN,
         first' => result' # "none"
  PROVE  /\ Split' /\ EachFits' /\ Complete'
         /\ Len(pieces') = Len(pieces) + 1
         /\ pieces'[Len(pieces) + 1].size = size /\ pieces'[Len(pieces) + 1].last = last
<1> DEFINE x == [size |-> size, last |-> last, ok |-> ok]
           n == Len(pieces)
<1>0. /\ mtu \in Nat /\ mtu > HeadFirst /\ total \in Totals /\ total \in Nat /\ left \in 0 .. total
      /\ pieces \in Seq(Part) /\ n \in Nat
  BY MessageSizes DEF Split
<1>1. x \in Part /\ x.size = size /\ x.last = last /\ pieces' = Append(pieces, x)
  BY DEF Part, Messages!Piece
<1> HIDE DEF x
<1>2. /\ pieces' \in Seq(Part) /\ Len(pieces') = n + 1 /\ pieces'[n + 1] = x
      /\ \A i \in 1 .. n : pieces'[i] = pieces[i]
  BY <1>0, <1>1
<1>3. pieces' # <<>>
  BY <1>0, <1>2
<1> HIDE DEF n
<1>4. Split'
  <2>1. left' \in 0 .. total /\ mtu' = mtu /\ total' = total
    BY <1>0
  <2>. QED  BY <1>0, <1>2, <1>3, <2>1 DEF Split
<1>5. ASSUME NEW i \in 1 .. n + 1
      PROVE  /\ pieces'[i].size > 0 /\ pieces'[i].size <= Filling(i)
             /\ pieces'[i].last => i = n + 1 /\ result' # "none"
  <2>1. CASE i = n + 1
    BY <1>1, <1>2, <2>1 DEF n
  <2>2. CASE i # n + 1
    <3>1. i \in 1 .. n /\ pieces'[i] = pieces[i]
      BY <1>0, <1>2, <2>2
    <3>2. pieces[i].size > 0 /\ pieces[i].size <= Filling(i) /\ ~pieces[i].last
      BY <3>1 DEF EachFits, n
    <3>. QED  BY <3>1, <3>2
  <2>. QED  BY <2>1, <2>2
<1>6. EachFits'
  <2>1. \A i : Filling(i)' = Filling(i)
    BY DEF Filling
  <2>. QED  BY <1>2, <1>5, <2>1 DEF EachFits
<1>7. Complete'
  <2>1. Messages!SumOf(pieces) \in Nat /\ Messages!SumOf(pieces) + left = total
    BY <1>0, <1>1, SumAppend DEF Complete
  <2>2. Messages!SumOf(Append(pieces, x)) = Messages!SumOf(pieces) + size
    BY <1>0, <1>1, SumAppend
  <2>3. Messages!SumOf(pieces)' = Messages!SumOf(Append(pieces, x))
    BY <1>1 DEF Messages!SumOf
  <2>. QED  BY <1>0, <2>1, <2>2, <2>3 DEF Complete
<1>. QED  BY <1>1, <1>2, <1>4, <1>6, <1>7 DEF n

LEMMA MessageStep == MessageInv /\ [Messages!Next]_talking => MessageInv'
<1> SUFFICES ASSUME MessageInv, [Messages!Next]_talking PROVE MessageInv'
  OBVIOUS
<1> DEFINE n == Len(pieces)
<1>0. /\ Split /\ EachFits /\ FullLast /\ Complete /\ PadTold
      /\ mtu \in Nat /\ mtu > HeadFirst /\ total \in Nat /\ left \in 0 .. total
      /\ pieces \in Seq(Part) /\ n \in Nat /\ (n = 0 <=> pieces = <<>>)
      /\ HeadRest \in Nat /\ HeadFirst = HeadRest + 1
  BY MessageSizes DEF MessageInv, Split
<1>1. ASSUME NEW ok \in BOOLEAN, Messages!SendPiece(ok) PROVE MessageInv'
  <2> DEFINE size == mtu - (IF first THEN HeadFirst ELSE HeadRest)
  <2>1. /\ result = "none" /\ result' = "none" /\ Messages!TooBig
        /\ Messages!Piece(size, FALSE, ok) /\ left' = left - size /\ first' = FALSE
        /\ UNCHANGED <<mtu, total>> /\ UNCHANGED <<motion, haptic, trigger, said, told>>
    BY <1>1 DEF Messages!SendPiece, Messages!pad
  <2>2. first \in BOOLEAN /\ (first <=> n = 0)
    BY <1>0, <2>1 DEF Split
  <2>3. size \in Nat /\ size > 0 /\ size <= left /\ (first => size < left)
    BY <1>0, <2>1, <2>2 DEF Messages!TooBig
  <2>4. size = Filling(n + 1)
    BY <1>0, <2>2 DEF Filling
  <2>. HIDE DEF size
  <2>5. /\ Split' /\ EachFits' /\ Complete'
        /\ Len(pieces') = n + 1 /\ pieces'[n + 1].size = size
    <3>1. size <= Filling(Len(pieces) + 1) /\ FALSE \in BOOLEAN
      BY <2>3, <2>4
    <3>2. /\ result' \in {"none", "ok", "failed"} /\ first' \in BOOLEAN /\ (first' => result' # "none")
          /\ (FALSE => result' # "none")
      BY <2>1
    <3>3. Split /\ EachFits /\ Complete
      BY <1>0
    <3>. QED  BY <2>1, <2>3, <3>1, <3>2, <3>3, PieceAdded
  <2>6. FullLast'
    <3>1. left' = 0 => n + 1 > 1
      BY <1>0, <2>1, <2>2, <2>3
    <3>2. Filling(n + 1)' = Filling(n + 1)'
      OBVIOUS
    <3>3. pieces'[n + 1].size = mtu' - (IF n + 1 = 1 THEN HeadFirst ELSE HeadRest)
      BY <2>1, <2>4, <2>5 DEF Filling
    <3>. QED  BY <2>1, <2>5, <3>1, <3>3 DEF FullLast, Filling
  <2>7. PadTold'
    BY <1>0, <2>1 DEF PadTold, Messages!InMemory
  <2>. QED  BY <2>5, <2>6, <2>7 DEF MessageInv
<1>2. ASSUME NEW ok \in BOOLEAN, Messages!SendLast(ok) PROVE MessageInv'
  <2>1. /\ result = "none" /\ ~Messages!TooBig
        /\ UNCHANGED <<mtu, total, first>> /\ UNCHANGED <<motion, haptic, trigger, said, told>>
    BY <1>2 DEF Messages!SendLast, Messages!pad
  <2>2. PadTold'
    BY <1>0, <2>1 DEF PadTold, Messages!InMemory
  <2>3. first \in BOOLEAN /\ (first <=> n = 0)
    BY <1>0, <2>1 DEF Split
  <2>4. CASE left > 0
    <3>1. Messages!Piece(left, TRUE, ok) /\ left' = 0 /\ result' \in {"ok", "failed"}
      BY <1>2, <2>4 DEF Messages!SendLast
    <3>2. left \in Nat /\ left <= Filling(n + 1) /\ left' = left - left
      BY <1>0, <2>1, <2>3, <3>1 DEF Messages!TooBig, Filling
    <3>3. /\ Split' /\ EachFits' /\ Complete'
          /\ Len(pieces') = n + 1 /\ pieces'[n + 1].last = TRUE
      <4>1. left <= left /\ left <= Filling(Len(pieces) + 1) /\ TRUE \in BOOLEAN
        BY <3>2
      <4>2. /\ result' \in {"none", "ok", "failed"} /\ first' \in BOOLEAN /\ (first' => result' # "none")
            /\ (TRUE => result' # "none")
        BY <2>1, <2>3, <3>1
      <4>3. Split /\ EachFits /\ Complete
        BY <1>0
      <4>. QED  BY <2>1, <2>4, <3>1, <3>2, <4>1, <4>2, <4>3, PieceAdded
    <3>4. FullLast'
      BY <3>1, <3>3 DEF FullLast
    <3>. QED  BY <2>2, <3>3, <3>4 DEF MessageInv
  <2>5. CASE ~(left > 0)
    <3>1. left = 0 /\ UNCHANGED <<pieces, left>> /\ result' \in {"ok", "failed"}
      BY <1>0, <1>2, <2>5 DEF Messages!SendLast
    <3>2. n > 1 /\ pieces[n].size = Filling(n)
      BY <1>0, <2>1, <3>1 DEF FullLast
    <3>3. Split'
      BY <1>0, <2>1, <3>1, <3>2 DEF Split
    <3>4. EachFits'
      BY <1>0, <2>1, <3>1 DEF EachFits, Filling
    <3>5. FullLast'
      BY <2>1, <3>1, <3>2 DEF FullLast, Filling
    <3>6. Complete'
      BY <1>0, <2>1, <3>1 DEF Complete, Messages!SumOf
    <3>. QED  BY <2>2, <3>3, <3>4, <3>5, <3>6 DEF MessageInv
  <2>. QED  BY <2>4, <2>5
<1>3. ASSUME NEW b \in [1 .. 4 -> Motions], NEW h \in Strengths, NEW t \in Strengths,
             Messages!PadInfo(b, h, t)
      PROVE  MessageInv'
  <2>1. /\ said' = [motion |-> b, haptic |-> h, trigger |-> t]
        /\ motion' = Messages!InMemory(b) /\ haptic' = h /\ trigger' = t
        /\ told' = [reset |-> IF Messages!MotionNews(motion, motion')
                              THEN b # Messages!Zero ELSE told.reset,
                    haptic |-> IF haptic # h THEN h ELSE told.haptic,
                    trigger |-> IF trigger # t THEN t ELSE told.trigger]
        /\ UNCHANGED <<mtu, total, left, first, pieces, result>>
    BY <1>3 DEF Messages!PadInfo, Messages!split
  <2>2. Split' /\ EachFits' /\ FullLast' /\ Complete'
    BY <1>0, <2>1 DEF Split, EachFits, FullLast, Complete, Filling, Messages!SumOf
  <2>3. /\ said.motion \in [1 .. 4 -> Motions] /\ told \in [reset : BOOLEAN, haptic : Strengths, trigger : Strengths]
        /\ motion = Messages!InMemory(said.motion) /\ (told.reset <=> said.motion # Messages!Zero)
        /\ haptic = told.haptic /\ trigger = told.trigger
    BY <1>0 DEF PadTold
  <2>4. /\ motion = Messages!Zero <=> said.motion = Messages!Zero
        /\ motion' = Messages!Zero <=> b = Messages!Zero
    BY <2>1, <2>3, MemoryZero
  <2>5. told'.reset \in BOOLEAN /\ (told'.reset <=> b # Messages!Zero)
    BY <2>1, <2>3, <2>4 DEF Messages!MotionNews
  <2>6. told'.haptic = h /\ told'.trigger = t /\ told' \in [reset : BOOLEAN, haptic : Strengths, trigger : Strengths]
    BY <2>1, <2>3, <2>5
  <2>7. /\ said' \in [motion : [1 .. 4 -> Motions], haptic : Strengths, trigger : Strengths]
        /\ said'.motion = b /\ said'.haptic = h /\ said'.trigger = t
    BY <2>1
  <2>8. Messages!InMemory(said.motion)' = Messages!InMemory(b)
    BY <2>7 DEF Messages!InMemory
  <2>9. PadTold'
    BY <2>1, <2>5, <2>6, <2>7, <2>8 DEF PadTold, Messages!Zero
  <2>. QED  BY <2>2, <2>9 DEF MessageInv
<1>4. CASE UNCHANGED talking
  <2>1. UNCHANGED <<mtu, total, left, first, pieces, result, motion, haptic, trigger, said, told>>
    BY <1>4 DEF talking
  <2>. QED  BY <1>0, <2>1 DEF MessageInv, Split, EachFits, FullLast, Complete, Filling,
             Messages!SumOf, PadTold, Messages!InMemory
<1>. QED  BY <1>1, <1>2, <1>3, <1>4 DEF Messages!Next

LEMMA MessageSafe == MessageInv => Messages!TypeOK /\ Messages!MessagesSound
<1> SUFFICES ASSUME MessageInv PROVE Messages!TypeOK /\ Messages!MessagesSound
  OBVIOUS
<1> DEFINE n == Len(pieces)
<1>0. /\ Split /\ EachFits /\ FullLast /\ Complete /\ PadTold
      /\ mtu \in Nat /\ pieces \in Seq(Part) /\ n \in Nat
      /\ HeadRest \in Nat /\ HeadFirst = HeadRest + 1
  BY MessageSizes DEF MessageInv, Split
<1>1. Messages!TypeOK
  <2>1. motion \in [1 .. 4 -> Motions]
    BY <1>0, MemoryZero DEF PadTold
  <2>. QED  BY <1>0, <2>1 DEF Split, Part, PadTold, Messages!TypeOK
<1>2. ASSUME NEW i \in 1 .. n
      PROVE  /\ pieces[i].size > 0
             /\ pieces[i].size + (IF i = 1 THEN HeadFirst ELSE HeadRest) <= mtu
             /\ pieces[i].last => i = n
             /\ i = n /\ result # "none" => \/ pieces[i].last
                                            \/ (i > 1 /\ pieces[i].size + HeadRest = mtu)
  <2>1. pieces[i] \in Part
    BY <1>0
  <2>2. pieces[i].size \in Nat
    BY <2>1 DEF Part
  <2>3. /\ pieces[i].size > 0 /\ pieces[i].size <= Filling(i) /\ (pieces[i].last => i = n)
        /\ i = n /\ result # "none" => pieces[i].last \/ (i > 1 /\ pieces[i].size = Filling(i))
    BY <1>0 DEF EachFits, FullLast
  <2>. QED  BY <1>0, <2>2, <2>3 DEF Filling
<1>3. Messages!PiecesFit
  BY <1>0, <1>2 DEF Messages!PiecesFit, Complete, FullLast
<1>4. Messages!PadAgrees
  BY <1>0 DEF PadTold, Messages!PadAgrees
<1>. QED  BY <1>1, <1>3, <1>4 DEF Messages!MessagesSound

(* The BIG message is split so that every packet fits the path, whatever    *)
(* the path and the message; pad info is told as the console said it.       *)
MessagesRight == part = "messages" => UnitsSound
THEOREM MessagesHold == StreamsSpec => []MessagesRight
<1>1. StreamsInit => MessageInv
  BY MessageStart DEF StreamsInit
<1>2. MessageInv /\ [StreamsNext]_streams => MessageInv'
  <2> SUFFICES ASSUME MessageInv, [StreamsNext]_streams PROVE MessageInv'
    OBVIOUS
  <2>1. [Messages!Next]_talking
    BY DEF StreamsNext, DataOnly, VideoOnly, AudioOnly, MessagesOnly, SendersOnly, CtrlOnly,
           InputOnly, streams
  <2>. QED  BY <2>1, MessageStep
<1>3. MessageInv => MessagesRight
  BY MessageSafe DEF MessagesRight, UnitsSound
<1>. QED  BY <1>1, <1>2, <1>3, PTL DEF StreamsSpec

-----------------------------------------------------------------------------
(* The sources of the controller state.                                     *)

PadType ==
  [keys : SUBSET (Input!Buttons \cup Input!Triggers), hat : BOOLEAN, axes : SUBSET Input!Triggers,
   left : BOOLEAN, right : BOOLEAN, finger : BOOLEAN, touches : SUBSET (1 .. 3), turning : BOOLEAN]
ScreenType ==
  [controls : SUBSET Input!Controls, left : BOOLEAN, right : BOOLEAN,
   fingers : SUBSET Input!Fingers, long : BOOLEAN]
PageType ==
  [gpState : SUBSET {"L1", "L2"}, stickMoving : BOOLEAN,
   releases : [Input!Controls -> 0 .. Waiting], taps : 0 .. Waiting, slots : [1 .. 2 -> 0 .. 3]]
ViewType ==
  [isTriggerWork : BOOLEAN, isRightstickMoving : BOOLEAN, isTouchpadTap : BOOLEAN, touchId : {0, 1}]
StateType ==
  [buttons : SUBSET Input!Buttons, triggers : SUBSET Input!Triggers,
   left : BOOLEAN, right : BOOLEAN, touches : [1 .. 2 -> 0 .. 3]]

(* The settings: a USB controller has neither a hat nor trigger keys.       *)
SettingsFit ==
  /\ settings.uses \subseteq Input!Sources /\ settings.gyroscopeType \in 0 .. 3
  /\ settings.hold_buttons \subseteq {"L1", "L2"}
  /\ settings.swapDpad \in BOOLEAN /\ settings.isShortTrigger \in BOOLEAN
  /\ "usb" \in settings.uses =>
       ~settings.swapDpad /\ ~settings.isShortTrigger /\ "triggers" \notin settings.uses
Typed ==
  /\ pad \in PadType /\ screen \in ScreenType /\ page \in PageType /\ view \in ViewType
  /\ controllerState \in StateType /\ orphaned \subseteq Input!Triggers
  /\ page.gpState \subseteq settings.hold_buttons
  /\ "usb" \in settings.uses => pad.keys \subseteq Input!Buttons

(* What a button, a trigger, a stick and a touch that are shown rest on: of *)
(* a control on the screen its timer, if it is not one that is to be held;  *)
(* of an axis that it still has its say.                                    *)
ButtonsRest ==
  \A b \in controllerState.buttons :
    \/ b \in pad.keys \/ (b = "DPAD" /\ pad.hat /\ ~settings.swapDpad)
    \/ b \in Input!Controls /\ Input!Lingering(b) /\ ~Input!Held(b)
    \/ b \in page.gpState
    \/ b = "TOUCHPAD" /\ (view.isTouchpadTap \/ screen.long \/ page.taps > 0)
TriggersRest ==
  /\ Input!AxesWork => orphaned = {}
  /\ \A t \in controllerState.triggers :
       \/ settings.isShortTrigger /\ t \in pad.keys
       \/ t \in orphaned \/ (Input!AxesWork /\ t \in pad.axes)
       \/ Input!Held(t) \/ (t \in Input!Controls /\ Input!Lingering(t))
SticksRest ==
  /\ controllerState.left =>
       screen.left \/ (IF settings.swapDpad THEN pad.hat ELSE pad.left)
  /\ page.stickMoving => screen.right
  /\ settings.gyroscopeType = 0 \/ (~settings.swapDpad /\ view.isRightstickMoving) =>
       (controllerState.right => screen.right \/ (~settings.swapDpad /\ pad.right))
TouchesRest ==
  controllerState.touches # Input!Nobody =>
    pad.finger \/ pad.touches # {} \/ screen.fingers # {} \/ page.taps > 0
SlotsApart ==
  page.slots[1] # 0 => page.slots[1] # page.slots[2]
InputInv ==
  SettingsFit /\ Typed /\ ButtonsRest /\ TriggersRest /\ SticksRest /\ TouchesRest /\ SlotsApart

LEMMA InputSizes == Waiting \in Nat
BY InputAssumption

LEMMA InputStart == Input!Init => InputInv
<1> SUFFICES ASSUME Input!Init PROVE InputInv
  OBVIOUS
<1> USE DEF Input!Init
<1>1. SettingsFit
  BY DEF SettingsFit, Input!Settings, Input!Allowed, Input!Gamepad
<1>2. Typed
  <2>1. pad \in PadType /\ screen \in ScreenType
    BY DEF PadType, ScreenType, Input!AtRest, Input!Untouched
  <2>2. page \in PageType
    BY InputSizes DEF PageType, Input!NewPage, Input!Nobody, Input!NoTouch
  <2>3. view \in ViewType /\ controllerState \in StateType
    BY DEF ViewType, StateType, Input!NewView, Input!Neutral, Input!Nobody, Input!NoTouch
  <2>4. page.gpState = {} /\ orphaned = {}
    BY DEF Input!NewPage
  <2>5. pad.keys = {}
    BY DEF Input!AtRest
  <2>. QED  BY <2>1, <2>2, <2>3, <2>4, <2>5 DEF Typed
<1>3. ButtonsRest /\ TriggersRest /\ TouchesRest
  BY DEF Input!Neutral, ButtonsRest, TriggersRest, TouchesRest
<1>4. SticksRest
  BY DEF Input!Neutral, Input!NewPage, SticksRest
<1>5. SlotsApart
  BY DEF Input!NewPage, Input!Nobody, Input!NoTouch, SlotsApart
<1>. QED  BY <1>1, <1>2, <1>3, <1>4, <1>5 DEF InputInv

(* Events of a gamepad.                                                     *)
LEMMA KeyKeeps ==
  ASSUME InputInv, NEW k \in Input!Keys, Input!Key(k)
  PROVE  InputInv'
<1> USE DEF InputInv
<1>1. /\ pad.keys \subseteq Input!Buttons \cup Input!Triggers
      /\ pad' = [pad EXCEPT !.keys = Input!Flip(pad.keys, k)]
      /\ controllerState' = [controllerState EXCEPT !.buttons =
            IF k \notin pad.keys THEN controllerState.buttons \cup {k} ELSE controllerState.buttons \ {k}]
      /\ UNCHANGED <<settings, screen, page, view, orphaned>>
  BY DEF Typed, PadType, Input!Key
<1>2. k \in Input!Buttons
  BY DEF Input!Keys, Input!Buttons
<1>3. /\ pad' \in PadType /\ pad'.keys = Input!Flip(pad.keys, k) /\ pad'.hat = pad.hat
      /\ pad'.axes = pad.axes /\ pad'.left = pad.left /\ pad'.right = pad.right
      /\ pad'.finger = pad.finger /\ pad'.touches = pad.touches
  BY <1>1, <1>2 DEF Typed, PadType, Input!Flip
<1>4. /\ controllerState' \in StateType /\ controllerState'.triggers = controllerState.triggers
      /\ controllerState'.left = controllerState.left /\ controllerState'.right = controllerState.right
      /\ controllerState'.touches = controllerState.touches
      /\ controllerState'.buttons =
            IF k \notin pad.keys THEN controllerState.buttons \cup {k} ELSE controllerState.buttons \ {k}
  BY <1>1, <1>2 DEF Typed, StateType
<1>5. SettingsFit' /\ Typed'
  BY <1>1, <1>2, <1>3, <1>4 DEF SettingsFit, Typed, Input!Flip
<1>6. ButtonsRest'
  BY <1>1, <1>3, <1>4 DEF ButtonsRest, Input!Flip, Input!Lingering, Input!Held
<1>7. TriggersRest'
  BY <1>1, <1>3, <1>4 DEF Typed, StateType, TriggersRest, Input!Flip, Input!Lingering, Input!Held,
     Input!AxesWork, Input!Keys, Input!Triggers
<1>8. SticksRest' /\ TouchesRest' /\ SlotsApart'
  BY <1>1, <1>3, <1>4 DEF SticksRest, TouchesRest, SlotsApart
<1>. QED  BY <1>5, <1>6, <1>7, <1>8

LEMMA TriggerKeyKeeps ==
  ASSUME InputInv, NEW t \in Input!Triggers, Input!TriggerKey(t)
  PROVE  InputInv'
<1> USE DEF InputInv
<1>1. /\ pad' = [pad EXCEPT !.keys = Input!Flip(pad.keys, t)]
      /\ UNCHANGED <<settings, screen, page>>
  BY DEF Input!TriggerKey
<1>a. "usb" \notin settings.uses
  BY DEF SettingsFit, Input!TriggerKey, Input!Uses
<1>2. /\ pad' \in PadType /\ pad'.keys = Input!Flip(pad.keys, t) /\ pad'.hat = pad.hat
      /\ pad'.axes = pad.axes /\ pad'.left = pad.left /\ pad'.right = pad.right
      /\ pad'.finger = pad.finger /\ pad'.touches = pad.touches
  BY <1>1 DEF Typed, PadType, Input!Flip
<1>3. CASE settings.isShortTrigger
  <2>1. /\ view' = [view EXCEPT !.isTriggerWork = TRUE]
        /\ controllerState' = [controllerState EXCEPT !.triggers =
             IF t \notin pad.keys THEN controllerState.triggers \cup {t} ELSE controllerState.triggers \ {t}]
        /\ orphaned' = (IF Input!AxesWork THEN pad.axes ELSE orphaned) \ {t}
    BY <1>3 DEF Input!TriggerKey
  <2>2. /\ controllerState' \in StateType /\ controllerState'.buttons = controllerState.buttons
        /\ controllerState'.left = controllerState.left /\ controllerState'.right = controllerState.right
        /\ controllerState'.touches = controllerState.touches
        /\ controllerState'.triggers =
             IF t \notin pad.keys THEN controllerState.triggers \cup {t} ELSE controllerState.triggers \ {t}
    BY <2>1 DEF Typed, StateType
  <2>3. /\ view' \in ViewType /\ view'.isTouchpadTap = view.isTouchpadTap
        /\ view'.isRightstickMoving = view.isRightstickMoving
    BY <2>1 DEF Typed, ViewType
  <2>4. SettingsFit' /\ Typed'
    <3>1. orphaned' \subseteq Input!Triggers
      BY <2>1 DEF Typed, PadType
    <3>. QED  BY <1>1, <1>2, <1>a, <2>2, <2>3, <3>1 DEF SettingsFit, Typed
  <2>5. ButtonsRest'
    <3>1. t \notin Input!Buttons
      BY DEF Input!Triggers, Input!Buttons
    <3>. QED  BY <1>1, <1>2, <2>2, <2>3, <3>1
              DEF Typed, StateType, ButtonsRest, Input!Flip, Input!Lingering, Input!Held
  <2>7. view'.isTriggerWork = TRUE
    BY <2>1 DEF Typed, ViewType
  <2>6. TriggersRest'
    BY <1>1, <1>2, <1>3, <2>1, <2>2, <2>7 DEF TriggersRest, Input!Flip, Input!Lingering, Input!Held, Input!AxesWork
  <2>. QED  BY <1>1, <1>2, <2>2, <2>3, <2>4, <2>5, <2>6 DEF SticksRest, TouchesRest, SlotsApart
<1>4. CASE ~settings.isShortTrigger
  <2>1. UNCHANGED <<view, controllerState, orphaned>>
    BY <1>4 DEF Input!TriggerKey
  <2>2. SettingsFit' /\ Typed'
    BY <1>1, <1>2, <1>a, <2>1 DEF SettingsFit, Typed
  <2>5. ButtonsRest'
    <3>1. t \notin Input!Buttons
      BY DEF Input!Triggers, Input!Buttons
    <3>. QED  BY <1>1, <1>2, <2>1, <3>1
              DEF Typed, StateType, ButtonsRest, Input!Flip, Input!Lingering, Input!Held
  <2>6. TriggersRest'
    BY <1>1, <1>2, <2>1, <1>4 DEF TriggersRest, Input!Flip, Input!Lingering, Input!Held, Input!AxesWork
  <2>. QED  BY <1>1, <1>2, <2>1, <2>2, <2>5, <2>6 DEF SticksRest, TouchesRest, SlotsApart
<1>. QED  BY <1>3, <1>4

LEMMA JoystickKeeps ==
  ASSUME InputInv, NEW now \in Input!Turned, NEW halfSecond \in BOOLEAN,
         Input!Joystick(now, halfSecond)
  PROVE  InputInv'
<1> USE DEF InputInv
<1>1. /\ now \in PadType /\ now.keys = pad.keys
      /\ now.finger = pad.finger /\ now.touches = pad.touches
  <2>1. ASSUME NEW a \in SUBSET Input!Triggers, now = [pad EXCEPT !.axes = a]
        PROVE  <1>1!:
    BY <2>1 DEF Typed, PadType
  <2>2. CASE now = pad
    BY <2>2 DEF Typed, PadType
  <2>3. CASE now = [pad EXCEPT !.hat = ~@]
    BY <2>3 DEF Typed, PadType
  <2>4. CASE now = [pad EXCEPT !.left = ~@]
    BY <2>4 DEF Typed, PadType
  <2>5. CASE now = [pad EXCEPT !.right = ~@]
    BY <2>5 DEF Typed, PadType
  <2>6. \A t \in Input!Triggers : Input!Flip(pad.axes, t) \in SUBSET Input!Triggers
    BY DEF Typed, PadType, Input!Flip
  <2>. QED  BY <2>1, <2>2, <2>3, <2>4, <2>5, <2>6 DEF Input!Turned
<1>2. /\ pad' = now /\ UNCHANGED <<settings, screen, page, orphaned>>
      /\ view' = [view EXCEPT !.isRightstickMoving =
                    now.right \/ (view.isRightstickMoving /\ ~halfSecond)]
  BY DEF Input!Joystick
<1>3. /\ view' \in ViewType /\ view'.isTouchpadTap = view.isTouchpadTap
      /\ view'.isTriggerWork = view.isTriggerWork
  BY <1>1, <1>2 DEF Typed, ViewType, PadType
<1>4. controllerState' = [controllerState EXCEPT
        !.buttons = IF settings.swapDpad THEN controllerState.buttons
                    ELSE (controllerState.buttons \ {"DPAD"}) \cup {b \in {"DPAD"} : now.hat},
        !.triggers = IF Input!AxesWork THEN now.axes ELSE controllerState.triggers,
        !.left = IF settings.swapDpad THEN now.hat ELSE now.left,
        !.right = IF settings.swapDpad THEN controllerState.right ELSE now.right]
  BY DEF Input!Joystick
<1>5. /\ now.hat \in BOOLEAN /\ now.left \in BOOLEAN /\ now.right \in BOOLEAN
      /\ now.axes \subseteq Input!Triggers /\ settings.swapDpad \in BOOLEAN
  BY <1>1 DEF PadType, SettingsFit
<1>6. /\ controllerState' \in StateType /\ controllerState'.touches = controllerState.touches
      /\ controllerState'.buttons = (IF settings.swapDpad THEN controllerState.buttons
              ELSE (controllerState.buttons \ {"DPAD"}) \cup {b \in {"DPAD"} : now.hat})
      /\ controllerState'.triggers = (IF Input!AxesWork THEN now.axes ELSE controllerState.triggers)
      /\ controllerState'.left = (IF settings.swapDpad THEN now.hat ELSE now.left)
      /\ controllerState'.right = (IF settings.swapDpad THEN controllerState.right ELSE now.right)
  BY <1>4, <1>5 DEF Typed, StateType, Input!Buttons
<1>7. SettingsFit' /\ Typed'
  BY <1>1, <1>2, <1>3, <1>6 DEF SettingsFit, Typed
<1>8. ButtonsRest'
  BY <1>1, <1>2, <1>3, <1>6 DEF ButtonsRest, Input!Lingering, Input!Held
<1>9. TriggersRest'
  BY <1>1, <1>2, <1>3, <1>6 DEF TriggersRest, Input!Lingering, Input!Held, Input!AxesWork
<1>10. SticksRest'
  BY <1>1, <1>2, <1>5, <1>6 DEF SticksRest
<1>. QED  BY <1>1, <1>2, <1>6, <1>7, <1>8, <1>9, <1>10 DEF TouchesRest, SlotsApart

(* A tap on a touchpad changes one button and the touches. *)
LEMMA TapFields ==
  ASSUME NEW s \in StateType, NEW isPressed \in BOOLEAN, NEW touches \in [1 .. 2 -> 0 .. 3]
  PROVE  LET u == Input!Tap(s, isPressed, touches) IN
           /\ u \in StateType /\ u.touches = touches /\ u.triggers = s.triggers
           /\ u.left = s.left /\ u.right = s.right
           /\ u.buttons = IF isPressed THEN s.buttons \cup {"TOUCHPAD"} ELSE s.buttons \ {"TOUCHPAD"}
<1> DEFINE v == [s EXCEPT !.buttons = IF isPressed THEN s.buttons \cup {"TOUCHPAD"}
                                      ELSE s.buttons \ {"TOUCHPAD"}]
<1>1. /\ v \in StateType /\ v.triggers = s.triggers /\ v.left = s.left /\ v.right = s.right
      /\ v.buttons = IF isPressed THEN s.buttons \cup {"TOUCHPAD"} ELSE s.buttons \ {"TOUCHPAD"}
  BY DEF StateType, Input!Buttons
<1>2. Input!Tap(s, isPressed, touches) = [v EXCEPT !.touches = touches]
  BY DEF Input!Tap
<1> HIDE DEF v
<1>. QED  BY <1>1, <1>2 DEF StateType

LEMMA TouchTuples ==
  /\ Input!Nobody \in [1 .. 2 -> 0 .. 3]
  /\ \A x \in 0 .. 3, y \in 0 .. 3 : <<x, y>> \in [1 .. 2 -> 0 .. 3]
BY DEF Input!Nobody, Input!NoTouch

LEMMA TouchpadKeeps ==
  ASSUME InputInv, Input!MoveStart \/ Input!Move \/ Input!Press \/ Input!MoveEnd
  PROVE  InputInv'
<1> USE DEF InputInv
<1>0. pad \in PadType /\ view \in ViewType /\ controllerState \in StateType
  BY DEF Typed
<1>1. CASE Input!MoveStart
  <2>1. /\ pad' = [pad EXCEPT !.finger = TRUE]
        /\ UNCHANGED <<settings, screen, page, controllerState, orphaned>>
    BY <1>1 DEF Input!MoveStart
  <2>2. PICK id \in {1, 0} : view' = [view EXCEPT !.touchId = id]
    BY <1>1 DEF Input!MoveStart, Input!NoTouch
  <2>3. /\ pad' \in PadType /\ pad'.keys = pad.keys /\ pad'.hat = pad.hat /\ pad'.axes = pad.axes
        /\ pad'.left = pad.left /\ pad'.right = pad.right /\ pad'.finger = TRUE
        /\ pad'.touches = pad.touches
    BY <1>0, <2>1 DEF PadType
  <2>4. /\ view' \in ViewType /\ view'.isTouchpadTap = view.isTouchpadTap
        /\ view'.isTriggerWork = view.isTriggerWork
        /\ view'.isRightstickMoving = view.isRightstickMoving
    BY <1>0, <2>2 DEF ViewType
  <2>5. SettingsFit' /\ Typed'
    BY <2>1, <2>3, <2>4 DEF SettingsFit, Typed
  <2>6. ButtonsRest' /\ TriggersRest'
    BY <2>1, <2>3, <2>4
    DEF ButtonsRest, TriggersRest, Input!Lingering, Input!Held, Input!AxesWork
  <2>. QED  BY <2>1, <2>3, <2>4, <2>5, <2>6 DEF SticksRest, TouchesRest, SlotsApart
<1>2. CASE Input!Move
  <2>1. /\ pad.finger /\ ~view.isTouchpadTap
        /\ controllerState' = Input!Tap(controllerState, FALSE, <<view.touchId, 0>>)
        /\ UNCHANGED <<settings, pad, screen, page, view, orphaned>>
    BY <1>2 DEF Input!Move, Input!NoTouch
  <2>2. <<view.touchId, 0>> \in [1 .. 2 -> 0 .. 3]
    BY <1>0, TouchTuples DEF ViewType
  <2>3. /\ controllerState' \in StateType /\ controllerState'.triggers = controllerState.triggers
        /\ controllerState'.left = controllerState.left /\ controllerState'.right = controllerState.right
        /\ controllerState'.buttons = controllerState.buttons \ {"TOUCHPAD"}
    BY <1>0, <2>1, <2>2, TapFields
  <2>4. SettingsFit' /\ Typed'
    BY <2>1, <2>3 DEF SettingsFit, Typed
  <2>5. ButtonsRest' /\ TriggersRest'
    BY <2>1, <2>3
    DEF ButtonsRest, TriggersRest, Input!Lingering, Input!Held, Input!AxesWork
  <2>. QED  BY <2>1, <2>3, <2>4, <2>5 DEF SticksRest, TouchesRest, SlotsApart
<1>3. CASE Input!Press
  <2>1. /\ pad.finger
        /\ controllerState' = Input!Tap(controllerState, ~view.isTouchpadTap, <<1, 0>>)
        /\ UNCHANGED <<settings, pad, screen, page, orphaned>>
    BY <1>3 DEF Input!Press, Input!NoTouch
  <2>2. PICK id \in {1, 0} :
          view' = [view EXCEPT !.isTouchpadTap = ~view.isTouchpadTap, !.touchId = id]
    BY <1>3 DEF Input!Press, Input!NoTouch
  <2>3. /\ view.isTouchpadTap \in BOOLEAN /\ <<1, 0>> \in [1 .. 2 -> 0 .. 3]
        /\ (~view.isTouchpadTap) \in BOOLEAN
    BY <1>0, TouchTuples DEF ViewType
  <2>4. /\ controllerState' \in StateType /\ controllerState'.triggers = controllerState.triggers
        /\ controllerState'.left = controllerState.left /\ controllerState'.right = controllerState.right
        /\ controllerState'.buttons =
             IF ~view.isTouchpadTap THEN controllerState.buttons \cup {"TOUCHPAD"}
             ELSE controllerState.buttons \ {"TOUCHPAD"}
    BY ZenonT(30), <1>0, <2>1, <2>3, TapFields
  <2>5. /\ view' \in ViewType /\ view'.isTouchpadTap = ~view.isTouchpadTap
        /\ view'.isTriggerWork = view.isTriggerWork
        /\ view'.isRightstickMoving = view.isRightstickMoving
    BY <1>0, <2>2 DEF ViewType
  <2>6. SettingsFit' /\ Typed'
    BY <2>1, <2>4, <2>5 DEF SettingsFit, Typed
  <2>7. ButtonsRest' /\ TriggersRest'
    BY <2>1, <2>4, <2>5
    DEF ButtonsRest, TriggersRest, Input!Lingering, Input!Held, Input!AxesWork
  <2>. QED  BY <2>1, <2>4, <2>5, <2>6, <2>7 DEF SticksRest, TouchesRest, SlotsApart
<1>4. CASE Input!MoveEnd
  <2>1. /\ pad.finger /\ ~view.isTouchpadTap
        /\ pad' = [pad EXCEPT !.finger = FALSE]
        /\ controllerState' = Input!Tap(controllerState, FALSE, Input!Nobody)
        /\ UNCHANGED <<settings, screen, page, view, orphaned>>
    BY <1>4 DEF Input!MoveEnd, Input!Lifted
  <2>2. /\ pad' \in PadType /\ pad'.keys = pad.keys /\ pad'.hat = pad.hat /\ pad'.axes = pad.axes
        /\ pad'.left = pad.left /\ pad'.right = pad.right /\ pad'.touches = pad.touches
    BY <1>0, <2>1 DEF PadType
  <2>3. /\ controllerState' \in StateType /\ controllerState'.triggers = controllerState.triggers
        /\ controllerState'.left = controllerState.left /\ controllerState'.right = controllerState.right
        /\ controllerState'.buttons = controllerState.buttons \ {"TOUCHPAD"}
        /\ controllerState'.touches = Input!Nobody
    BY <1>0, <2>1, TapFields, TouchTuples
  <2>4. SettingsFit' /\ Typed'
    BY <2>1, <2>2, <2>3 DEF SettingsFit, Typed
  <2>5. ButtonsRest' /\ TriggersRest'
    BY <2>1, <2>2, <2>3
    DEF ButtonsRest, TriggersRest, Input!Lingering, Input!Held, Input!AxesWork
  <2>6. TouchesRest'
    BY <2>3 DEF TouchesRest, Input!Nobody, Input!NoTouch
  <2>. QED  BY <2>1, <2>2, <2>3, <2>4, <2>5, <2>6 DEF SticksRest, SlotsApart
<1>. QED  BY <1>1, <1>2, <1>3, <1>4

(* The slots of the fingers on a controller over USB.                       *)
Seen(active) == {active[i] : i \in 1 .. Len(active)}

LEMMA SlotsRight ==
  ASSUME NEW active \in Input!Reports, NEW prev \in [1 .. 2 -> 0 .. 3],
         prev[1] # 0 => prev[1] # prev[2], NEW s, s = Input!Slots(active, prev)
  PROVE  /\ s \in [1 .. 2 -> 0 .. 3] /\ (s[1] # 0 => s[1] # s[2])
         /\ {s[1], s[2]} \ {0} = Seen(active)
         /\ Len(active) = 1 => s[1] = active[1]
         /\ Len(active) = 2 => \A i \in 1 .. 2 : prev[i] \in {active[1], active[2]} => s[i] = prev[i]
         /\ s = Input!Nobody <=> Len(active) = 0
<1>1. PICK n \in 0 .. 2 : active \in [1 .. n -> 1 .. 3]
  BY DEF Input!Reports
<1>2. Len(active) = n
  BY <1>1
<1>3. prev[1] \in 0 .. 3 /\ prev[2] \in 0 .. 3
  OBVIOUS
<1>4. Input!Nobody = <<0, 0>>
  BY DEF Input!Nobody, Input!NoTouch
<1>5. CASE n = 0
  <2>1. s = <<0, 0>>
    BY <1>2, <1>4, <1>5 DEF Input!Slots
  <2>2. Seen(active) = {}
    BY <1>2, <1>5 DEF Seen
  <2>. QED  BY <1>2, <1>4, <1>5, <2>1, <2>2
<1>6. CASE n = 1
  <2>1. active[1] \in 1 .. 3
    BY <1>1, <1>6
  <2>2. s = <<active[1], 0>>
    BY <1>2, <1>6 DEF Input!Slots, Input!NoTouch
  <2>3. Seen(active) = {active[1]}
    BY <1>2, <1>6 DEF Seen
  <2>. QED  BY <1>2, <1>4, <1>6, <2>1, <2>2, <2>3
<1>7. CASE n = 2
  <2>1. active[1] \in 1 .. 3 /\ active[2] \in 1 .. 3 /\ active[1] # active[2]
    BY <1>1, <1>2, <1>7 DEF Input!Reports
  <2>2. s = IF active[1] = prev[2] \/ active[2] = prev[1] THEN <<active[2], active[1]>> ELSE active
    BY <1>2, <1>7 DEF Input!Slots
  <2>3. active = <<active[1], active[2]>>
    BY <1>1, <1>7
  <2>4. Seen(active) = {active[1], active[2]}
    <3>1. 1 .. Len(active) = {1, 2}
      BY <1>2, <1>7
    <3>. QED  BY <3>1 DEF Seen
  <2>5. CASE active[1] = prev[2] \/ active[2] = prev[1]
    <3>1. s = <<active[2], active[1]>>
      BY <2>2, <2>5
    <3>2. s[1] = active[2] /\ s[2] = active[1] /\ s \in [1 .. 2 -> 0 .. 3] /\ s # <<0, 0>>
      BY <2>1, <3>1
    <3>3. \A i \in 1 .. 2 : prev[i] \in {active[1], active[2]} => s[i] = prev[i]
      BY <1>3, <2>1, <2>5, <3>2
    <3>. QED  BY <1>2, <1>4, <1>7, <2>1, <2>4, <3>2, <3>3
  <2>6. CASE ~(active[1] = prev[2] \/ active[2] = prev[1])
    <3>1. s = <<active[1], active[2]>>
      BY <2>2, <2>3, <2>6
    <3>2. s[1] = active[1] /\ s[2] = active[2] /\ s \in [1 .. 2 -> 0 .. 3] /\ s # <<0, 0>>
      BY <2>1, <3>1
    <3>3. \A i \in 1 .. 2 : prev[i] \in {active[1], active[2]} => s[i] = prev[i]
      BY <1>3, <2>1, <2>6, <3>2
    <3>. QED  BY <1>2, <1>4, <1>7, <2>1, <2>4, <3>2, <3>3
  <2>. QED  BY <2>5, <2>6
<1>8. n = 0 \/ n = 1 \/ n = 2
  OBVIOUS
<1>. QED  BY <1>5, <1>6, <1>7, <1>8, ZenonT(30)

LEMMA ReportKeeps ==
  ASSUME InputInv, NEW now \in Input!Moved, NEW active \in Input!Reports,
         Input!Report(now, active)
  PROVE  InputInv'
<1> USE DEF InputInv
<1>1. /\ now \in PadType /\ now.hat = pad.hat /\ now.left = pad.left /\ now.finger = pad.finger
      /\ now.keys \subseteq Input!Buttons \cup Input!Triggers
  <2>1. ASSUME NEW b \in {"L1", "TOUCHPAD"}, now = [pad EXCEPT !.keys = Input!Flip(@, b)]
        PROVE  <1>1!:
    <3>1. Input!Flip(pad.keys, b) \in SUBSET (Input!Buttons \cup Input!Triggers)
      BY DEF Typed, PadType, Input!Flip, Input!Buttons
    <3>. QED  BY <2>1, <3>1 DEF Typed, PadType
  <2>2. CASE now = [pad EXCEPT !.axes = Input!Flip(@, "L2")]
    <3>1. Input!Flip(pad.axes, "L2") \in SUBSET Input!Triggers
      BY DEF Typed, PadType, Input!Flip, Input!Triggers
    <3>. QED  BY <2>2, <3>1 DEF Typed, PadType
  <2>3. CASE now = [pad EXCEPT !.right = ~@]
    BY <2>3 DEF Typed, PadType
  <2>4. CASE now = pad
    BY <2>4 DEF Typed, PadType
  <2>. QED  BY <2>1, <2>2, <2>3, <2>4 DEF Input!Moved
<1>2. /\ "usb" \in settings.uses /\ pad' = [now EXCEPT !.touches = Seen(active)]
      /\ page' = [page EXCEPT !.slots = Input!Slots(active, page.slots)]
      /\ controllerState' = [buttons |-> now.keys, triggers |-> now.axes, left |-> now.left,
                             right |-> now.right, touches |-> page'.slots]
      /\ UNCHANGED <<settings, screen, view, orphaned>>
  BY DEF Input!Report, Input!Uses, Seen
<1>3. page.slots \in [1 .. 2 -> 0 .. 3] /\ (page.slots[1] # 0 => page.slots[1] # page.slots[2])
  BY DEF Typed, PageType, SlotsApart
<1>4. PICK s : s = Input!Slots(active, page.slots)
  OBVIOUS
<1>5. /\ s \in [1 .. 2 -> 0 .. 3] /\ (s[1] # 0 => s[1] # s[2])
      /\ {s[1], s[2]} \ {0} = Seen(active)
      /\ s = Input!Nobody <=> Len(active) = 0
  BY <1>3, <1>4, SlotsRight
<1>6. Seen(active) \subseteq 1 .. 3 /\ (Seen(active) = {} => Len(active) = 0)
  <2>1. PICK n \in 0 .. 2 : active \in [1 .. n -> 1 .. 3]
    BY DEF Input!Reports
  <2>2. Len(active) = n
    BY <2>1
  <2>3. n # 0 => active[1] \in Seen(active)
    BY <2>2 DEF Seen
  <2>4. Seen(active) \subseteq 1 .. 3
    BY <2>1, <2>2 DEF Seen
  <2>. QED  BY <2>1, <2>2, <2>3, <2>4
<1>7. /\ pad' \in PadType /\ pad'.keys = now.keys /\ pad'.hat = now.hat /\ pad'.axes = now.axes
      /\ pad'.left = now.left /\ pad'.right = now.right /\ pad'.touches = Seen(active)
  BY <1>1, <1>2, <1>6 DEF PadType
<1>8. /\ page' \in PageType /\ page'.slots = s /\ page'.gpState = page.gpState
      /\ page'.stickMoving = page.stickMoving /\ page'.releases = page.releases
      /\ page'.taps = page.taps
  BY <1>2, <1>4, <1>5 DEF Typed, PageType
<1>9. ~settings.swapDpad /\ ~settings.isShortTrigger /\ Input!AxesWork
  BY <1>2 DEF SettingsFit, Input!AxesWork
<1>10. /\ controllerState'.buttons = now.keys /\ controllerState'.triggers = now.axes
       /\ controllerState'.left = now.left /\ controllerState'.right = now.right
       /\ controllerState'.touches = s
  BY <1>2, <1>8
<1>11. now.keys \subseteq Input!Buttons
  <2>1. pad.keys \subseteq Input!Buttons
    BY <1>2 DEF Typed
  <2>2. \A b \in {"L1", "TOUCHPAD"} : Input!Flip(pad.keys, b) \subseteq Input!Buttons
    BY <2>1 DEF Input!Flip, Input!Buttons
  <2>3. CASE \E b \in {"L1", "TOUCHPAD"} : now = [pad EXCEPT !.keys = Input!Flip(@, b)]
    BY <2>2, <2>3 DEF Typed, PadType
  <2>4. CASE now \in {[pad EXCEPT !.axes = Input!Flip(@, "L2")], [pad EXCEPT !.right = ~@], pad}
    BY <2>1, <2>4 DEF Typed, PadType
  <2>. QED  BY <2>3, <2>4 DEF Input!Moved
<1>12. controllerState' \in StateType
  BY <1>1, <1>2, <1>5, <1>8, <1>11 DEF StateType, PadType
<1>13. SettingsFit' /\ Typed'
  BY <1>2, <1>7, <1>8, <1>11, <1>12 DEF SettingsFit, Typed
<1>14. ButtonsRest' /\ TriggersRest'
  <2>1. ButtonsRest'
    BY <1>7, <1>10 DEF ButtonsRest
  <2>2. Input!AxesWork'
    BY <1>2, <1>9 DEF Input!AxesWork
  <2>3. orphaned' = {}
    BY <1>2, <1>9 DEF TriggersRest
  <2>. QED  BY <1>7, <1>10, <2>1, <2>2, <2>3 DEF TriggersRest
<1>15. SticksRest'
  BY <1>1, <1>2, <1>7, <1>8, <1>9, <1>10 DEF SticksRest
<1>16. TouchesRest'
  <2>1. controllerState'.touches # Input!Nobody => pad'.touches # {}
    BY <1>5, <1>6, <1>7, <1>10
  <2>2. UNCHANGED Input!Nobody
    BY DEF Input!Nobody, Input!NoTouch
  <2>. QED  BY <2>1, <2>2 DEF TouchesRest
<1>17. SlotsApart'
  BY <1>5, <1>8 DEF SlotsApart
<1>. QED  BY <1>13, <1>14, <1>15, <1>16, <1>17

(* The controls on the screen.                                              *)
(* What a control that is pressed or released makes of the state.           *)
Shown(u, s, c, buttons, triggers) ==
  /\ u \in StateType /\ u.left = s.left /\ u.right = s.right
  /\ u.buttons = (IF c = "L2" THEN s.buttons ELSE buttons)
  /\ u.triggers = (IF c = "L2" THEN triggers ELSE s.triggers)
  /\ u.touches \in {s.touches, Input!Nobody}

LEMMA PressedFields ==
  ASSUME NEW s \in StateType, NEW c \in Input!Controls
  PROVE  /\ Shown(Input!Pressed(s, c, TRUE), s, c, s.buttons \cup {c}, s.triggers \cup {c})
         /\ Shown(Input!Pressed(s, c, FALSE), s, c, s.buttons \ {c}, s.triggers \ {c})
<1>1. CASE c = "TOUCHPAD"
  <2>1. /\ Input!Pressed(s, c, TRUE) = Input!Tap(s, TRUE, Input!Nobody)
        /\ Input!Pressed(s, c, FALSE) = Input!Tap(s, FALSE, Input!Nobody)
    BY <1>1 DEF Input!Pressed
  <2>2. Input!Nobody \in [1 .. 2 -> 0 .. 3]
    BY TouchTuples
  <2>3. Shown(Input!Tap(s, TRUE, Input!Nobody), s, c, s.buttons \cup {c}, s.triggers \cup {c})
    BY <1>1, <2>2, TapFields DEF Shown
  <2>4. Shown(Input!Tap(s, FALSE, Input!Nobody), s, c, s.buttons \ {c}, s.triggers \ {c})
    BY <1>1, <2>2, TapFields DEF Shown
  <2>. QED  BY <2>1, <2>3, <2>4
<1>2. CASE c = "L1"
  <2>1. /\ Input!Pressed(s, c, TRUE) = [s EXCEPT !.buttons = s.buttons \cup {c}]
        /\ Input!Pressed(s, c, FALSE) = [s EXCEPT !.buttons = s.buttons \ {c}]
    BY <1>2 DEF Input!Pressed
  <2>2. c # "L2" /\ c \in Input!Buttons
    BY <1>2 DEF Input!Buttons
  <2>3. Shown([s EXCEPT !.buttons = s.buttons \cup {c}], s, c, s.buttons \cup {c}, s.triggers \cup {c})
    BY <2>2 DEF Shown, StateType
  <2>4. Shown([s EXCEPT !.buttons = s.buttons \ {c}], s, c, s.buttons \ {c}, s.triggers \ {c})
    BY <2>2 DEF Shown, StateType
  <2>. QED  BY <2>1, <2>3, <2>4
<1>3. CASE c = "L2"
  <2>1. /\ Input!Pressed(s, c, TRUE) = [s EXCEPT !.triggers = s.triggers \cup {c}]
        /\ Input!Pressed(s, c, FALSE) = [s EXCEPT !.triggers = s.triggers \ {c}]
    BY <1>3 DEF Input!Pressed
  <2>2. c \in Input!Triggers
    BY <1>3 DEF Input!Triggers
  <2>3. Shown([s EXCEPT !.triggers = s.triggers \cup {c}], s, c, s.buttons \cup {c}, s.triggers \cup {c})
    BY <1>3, <2>2 DEF Shown, StateType
  <2>4. Shown([s EXCEPT !.triggers = s.triggers \ {c}], s, c, s.buttons \ {c}, s.triggers \ {c})
    BY <1>3, <2>2 DEF Shown, StateType
  <2>. QED  BY <2>1, <2>3, <2>4
<1>. QED  BY <1>1, <1>2, <1>3 DEF Input!Controls

LEMMA PressInKeeps ==
  ASSUME InputInv, NEW c \in Input!Controls, Input!PressIn(c)
  PROVE  InputInv'
<1> USE DEF InputInv
<1>0. screen \in ScreenType /\ page \in PageType /\ controllerState \in StateType
  BY DEF Typed
<1>1. /\ screen' = [screen EXCEPT !.controls = screen.controls \cup {c}]
      /\ orphaned' = orphaned \ {c} /\ UNCHANGED <<settings, pad, view>>
  BY DEF Input!PressIn
<1>2. /\ screen' \in ScreenType /\ screen'.controls = screen.controls \cup {c}
      /\ screen'.left = screen.left /\ screen'.right = screen.right
      /\ screen'.fingers = screen.fingers /\ screen'.long = screen.long
  BY <1>0, <1>1 DEF ScreenType
<1>3. PICK isPressed \in BOOLEAN :
        /\ controllerState' = Input!Pressed(controllerState, c, isPressed)
        /\ Input!Held(c) => /\ isPressed = ((c \in page.gpState) = (c = "L2"))
                            /\ page' = [page EXCEPT !.gpState =
                                 IF c \in page.gpState THEN page.gpState \ {c} ELSE page.gpState \cup {c}]
        /\ ~Input!Held(c) => isPressed = TRUE /\ page' = page
  <2>1. CASE Input!Held(c)
    <3>1. ((c \in page.gpState) = (c = "L2")) \in BOOLEAN
      OBVIOUS
    <3>. QED  BY <2>1, <3>1 DEF Input!PressIn
  <2>2. CASE ~Input!Held(c)
    BY <2>2 DEF Input!PressIn
  <2>. QED  BY <2>1, <2>2
<1>4. /\ controllerState' \in StateType /\ controllerState'.left = controllerState.left
      /\ controllerState'.right = controllerState.right
      /\ controllerState'.buttons = (IF c = "L2" THEN controllerState.buttons
           ELSE IF isPressed THEN controllerState.buttons \cup {c} ELSE controllerState.buttons \ {c})
      /\ controllerState'.triggers = (IF c # "L2" THEN controllerState.triggers
           ELSE IF isPressed THEN controllerState.triggers \cup {c} ELSE controllerState.triggers \ {c})
      /\ controllerState'.touches \in {controllerState.touches, Input!Nobody}
  <2>1. CASE isPressed = TRUE
    <3>1. controllerState' = Input!Pressed(controllerState, c, TRUE)
      BY <1>3, <2>1
    <3>. QED  BY ZenonT(30), <1>0, <2>1, <3>1, PressedFields DEF Shown
  <2>2. CASE isPressed = FALSE
    <3>1. controllerState' = Input!Pressed(controllerState, c, FALSE)
      BY <1>3, <2>2
    <3>. QED  BY ZenonT(30), <1>0, <2>2, <3>1, PressedFields DEF Shown
  <2>. QED  BY <2>1, <2>2
<1>5. c \in {"L1", "TOUCHPAD", "L2"} /\ (Input!Held(c) => c \in {"L1", "L2"})
  BY DEF Input!Controls, SettingsFit, Input!Held
<1>6. /\ page' \in PageType /\ page'.stickMoving = page.stickMoving
      /\ page'.releases = page.releases /\ page'.taps = page.taps /\ page'.slots = page.slots
      /\ page'.gpState = IF ~Input!Held(c) THEN page.gpState
           ELSE IF c \in page.gpState THEN page.gpState \ {c} ELSE page.gpState \cup {c}
  <2>1. CASE Input!Held(c)
    BY <1>0, <1>3, <1>5, <2>1 DEF PageType
  <2>2. CASE ~Input!Held(c)
    BY <1>0, <1>3, <2>2
  <2>. QED  BY <2>1, <2>2
<1>7. SettingsFit' /\ Typed'
  BY <1>1, <1>2, <1>4, <1>6 DEF SettingsFit, Typed, Input!Held
<1>8. \A b \in Input!Controls : Input!Lingering(b)' <=> Input!Lingering(b) \/ b = c
  BY <1>2, <1>6 DEF Input!Lingering
<1>9. \A b : Input!Held(b)' <=> Input!Held(b)
  BY <1>1 DEF Input!Held
<1>10. ButtonsRest'
  <2> SUFFICES ASSUME NEW b \in controllerState'.buttons
               PROVE  \/ b \in pad'.keys \/ (b = "DPAD" /\ pad'.hat /\ ~settings'.swapDpad)
                      \/ b \in Input!Controls /\ Input!Lingering(b)' /\ ~Input!Held(b)'
                      \/ b \in page'.gpState
                      \/ b = "TOUCHPAD" /\ (view'.isTouchpadTap \/ screen'.long \/ page'.taps > 0)
    BY DEF ButtonsRest, Input!Controls
  <2>1. CASE b = c
    <3>1. c # "L2" /\ isPressed
      <4>1. b # "L2"
        BY <1>4 DEF StateType, Input!Buttons
      <4>. QED  BY <1>4, <2>1, <4>1
    <3>2. CASE Input!Held(c)
      <4>1. c \notin page.gpState
        BY <1>3, <3>1, <3>2
      <4>. QED  BY <1>6, <2>1, <3>2, <4>1
    <3>3. CASE ~Input!Held(c)
      BY <1>8, <1>9, <2>1, <3>3
    <3>. QED  BY <3>2, <3>3
  <2>2. CASE b # c
    BY <1>1, <1>2, <1>4, <1>6, <1>8, <1>9, <2>2 DEF ButtonsRest
  <2>. QED  BY <2>1, <2>2
<1>11. TriggersRest'
  <2>0. Input!AxesWork' <=> Input!AxesWork
    BY <1>1 DEF Input!AxesWork
  <2>1. ASSUME NEW t \in controllerState'.triggers
        PROVE  \/ settings'.isShortTrigger /\ t \in pad'.keys
               \/ t \in orphaned' \/ (Input!AxesWork' /\ t \in pad'.axes)
               \/ Input!Held(t)' \/ (t \in Input!Controls /\ Input!Lingering(t)')
    <3>1. CASE t = c
      BY <1>8, <3>1
    <3>2. CASE t # c
      BY <1>1, <1>4, <1>8, <1>9, <2>0, <3>2 DEF TriggersRest
    <3>. QED  BY <3>1, <3>2
  <2>2. Input!AxesWork' => orphaned' = {}
    BY <1>1, <2>0 DEF TriggersRest
  <2>. QED  BY <2>1, <2>2 DEF TriggersRest, Input!Controls
<1>12. SticksRest'
  BY <1>1, <1>2, <1>4, <1>6 DEF SticksRest
<1>13. TouchesRest'
  <2>1. UNCHANGED Input!Nobody
    BY DEF Input!Nobody, Input!NoTouch
  <2>. QED  BY <1>1, <1>2, <1>4, <1>6, <2>1 DEF TouchesRest
<1>. QED  BY <1>6, <1>7, <1>10, <1>11, <1>12, <1>13 DEF SlotsApart

LEMMA PressOutKeeps ==
  ASSUME InputInv, NEW c \in Input!Controls, Input!PressOut(c)
  PROVE  InputInv'
<1> USE DEF InputInv
<1>0. /\ screen \in ScreenType /\ page \in PageType
      /\ page.releases[c] \in Nat /\ page.releases[c] + 1 \in 0 .. Waiting
  BY InputSizes DEF Typed, PageType, Input!PressOut
<1>1. /\ c \in screen.controls /\ screen' = [screen EXCEPT !.controls = screen.controls \ {c}]
      /\ page' = [page EXCEPT !.releases[c] = page.releases[c] + 1]
      /\ UNCHANGED <<settings, pad, view, controllerState, orphaned>>
  BY DEF Input!PressOut
<1>2. /\ screen' \in ScreenType /\ screen'.controls = screen.controls \ {c}
      /\ screen'.left = screen.left /\ screen'.right = screen.right
      /\ screen'.fingers = screen.fingers /\ screen'.long = screen.long
  BY <1>0, <1>1 DEF ScreenType
<1>3. /\ page' \in PageType /\ page'.stickMoving = page.stickMoving
      /\ page'.gpState = page.gpState /\ page'.taps = page.taps /\ page'.slots = page.slots
      /\ page'.releases = [page.releases EXCEPT ![c] = page.releases[c] + 1]
  BY <1>0, <1>1 DEF PageType
<1>4. \A b \in Input!Controls : Input!Lingering(b)' <=> Input!Lingering(b)
  <2>1. page.releases \in [Input!Controls -> 0 .. Waiting]
    BY <1>0 DEF PageType
  <2>2. page'.releases[c] > 0
    BY <1>0, <1>3, <2>1
  <2>3. ASSUME NEW b \in Input!Controls, b # c
        PROVE  page'.releases[b] = page.releases[b]
    BY <1>3, <2>1, <2>3
  <2>. QED  BY <1>1, <1>2, <2>2, <2>3 DEF Input!Lingering
<1>5. SettingsFit' /\ Typed'
  BY <1>1, <1>2, <1>3 DEF SettingsFit, Typed
<1>6. ButtonsRest'
  BY <1>1, <1>2, <1>3, <1>4 DEF ButtonsRest, Input!Held, Input!Controls
<1>7. TriggersRest'
  BY <1>1, <1>4 DEF TriggersRest, Input!Held, Input!AxesWork, Input!Controls
<1>. QED  BY <1>1, <1>2, <1>3, <1>5, <1>6, <1>7
          DEF SticksRest, TouchesRest, SlotsApart, Input!Nobody, Input!NoTouch

LEMMA ReleaseKeeps ==
  ASSUME InputInv, NEW c \in Input!Controls, Input!ReleaseTimer(c)
  PROVE  InputInv'
<1> USE DEF InputInv
<1>0. /\ page \in PageType /\ controllerState \in StateType
      /\ page.releases \in [Input!Controls -> 0 .. Waiting]
      /\ page.releases[c] - 1 \in 0 .. Waiting /\ page.taps \in 0 .. Waiting
      /\ c = "TOUCHPAD" => page.taps + 1 \in 0 .. Waiting
  <2>1. /\ page \in PageType /\ controllerState \in StateType
        /\ page.releases[c] > 0 /\ (c = "TOUCHPAD" => page.taps < Waiting)
    BY DEF Typed, Input!ReleaseTimer
  <2>2. page.releases \in [Input!Controls -> 0 .. Waiting] /\ page.taps \in 0 .. Waiting
    BY <2>1 DEF PageType
  <2>. QED  BY <2>1, <2>2, InputSizes
<1>1. UNCHANGED <<settings, pad, screen, view, orphaned>> /\ Input!Release(c)
  BY DEF Input!ReleaseTimer
<1>2. /\ page' \in PageType /\ page'.stickMoving = page.stickMoving
      /\ page'.gpState = page.gpState /\ page'.slots = page.slots
      /\ page'.releases = [page.releases EXCEPT ![c] = page.releases[c] - 1]
      /\ page'.taps = IF c = "TOUCHPAD" THEN page.taps + 1 ELSE page.taps
  <2>1. CASE c = "TOUCHPAD"
    <3>1. page' = [page EXCEPT !.releases[c] = page.releases[c] - 1, !.taps = page.taps + 1]
      BY <1>1, <2>1 DEF Input!Release
    <3>. QED  BY <1>0, <2>1, <3>1 DEF PageType
  <2>2. CASE c # "TOUCHPAD"
    <3>1. page' = [page EXCEPT !.releases[c] = page.releases[c] - 1]
      BY <1>1, <2>2 DEF Input!Release
    <3>. QED  BY <1>0, <2>2, <3>1 DEF PageType
  <2>. QED  BY <2>1, <2>2
<1>3. \A b \in Input!Controls : b # c => (Input!Lingering(b)' <=> Input!Lingering(b))
  BY <1>0, <1>1, <1>2 DEF Input!Lingering
<1>4. page.taps > 0 => page'.taps > 0
  BY <1>0, <1>2
<1>5. CASE c = "TOUCHPAD"
  <2>1. page'.taps > 0 /\ UNCHANGED controllerState
    BY <1>0, <1>1, <1>2, <1>5 DEF Input!Release
  <2>2. SettingsFit' /\ Typed'
    BY <1>1, <1>2, <2>1 DEF SettingsFit, Typed
  <2>3. ButtonsRest'
    BY <1>1, <1>2, <1>3, <1>5, <2>1 DEF ButtonsRest, Input!Held, Input!Controls
  <2>4. TriggersRest'
    <3>1. c \notin controllerState.triggers
      BY <1>0, <1>5 DEF StateType, Input!Triggers
    <3>. QED  BY <1>1, <1>3, <2>1, <3>1 DEF TriggersRest, Input!Held, Input!AxesWork, Input!Controls
  <2>. QED  BY <1>1, <1>2, <2>1, <2>2, <2>3, <2>4 DEF SticksRest, TouchesRest, SlotsApart
<1>6. CASE c # "TOUCHPAD" /\ Input!Held(c)
  <2>1. UNCHANGED controllerState /\ page'.taps = page.taps
    BY <1>1, <1>2, <1>6 DEF Input!Release
  <2>2. SettingsFit' /\ Typed'
    BY <1>1, <1>2, <2>1 DEF SettingsFit, Typed
  <2>3. ButtonsRest'
    BY <1>1, <1>2, <1>3, <1>6, <2>1 DEF ButtonsRest, Input!Held, Input!Controls
  <2>4. TriggersRest'
    BY <1>1, <1>3, <1>6, <2>1 DEF TriggersRest, Input!Held, Input!AxesWork, Input!Controls
  <2>. QED  BY <1>1, <1>2, <2>1, <2>2, <2>3, <2>4
            DEF SticksRest, TouchesRest, SlotsApart, Input!Nobody, Input!NoTouch
<1>7. CASE c # "TOUCHPAD" /\ ~Input!Held(c)
  <2>1. /\ controllerState' = Input!Pressed(controllerState, c, FALSE) /\ page'.taps = page.taps
    BY <1>1, <1>2, <1>7 DEF Input!Release
  <2>2. Shown(controllerState', controllerState, c, controllerState.buttons \ {c},
              controllerState.triggers \ {c})
    BY <1>0, <2>1, PressedFields
  <2>3. SettingsFit' /\ Typed'
    BY <1>1, <1>2, <2>2 DEF SettingsFit, Typed, Shown
  <2>4. ButtonsRest'
    <3>1. controllerState'.buttons = controllerState.buttons \ {c}
      <4>1. "L2" \notin controllerState.buttons
        BY <1>0 DEF StateType, Input!Buttons
      <4>. QED  BY <2>2, <4>1 DEF Shown
    <3>. QED  BY ZenonT(30), <1>1, <1>2, <1>3, <2>1, <3>1 DEF ButtonsRest, Input!Held, Input!Controls
  <2>5. TriggersRest'
    <3>1. controllerState'.triggers \subseteq controllerState.triggers \ {c}
      <4>1. CASE c = "L2"
        BY <2>2, <4>1 DEF Shown
      <4>2. CASE c # "L2"
        <5>1. c \notin controllerState.triggers
          BY <1>0, <1>7, <4>2 DEF StateType, Input!Triggers, Input!Controls
        <5>. QED  BY <2>2, <4>2, <5>1 DEF Shown
      <4>. QED  BY <4>1, <4>2
    <3>. QED  BY <1>1, <1>3, <3>1 DEF TriggersRest, Input!Held, Input!AxesWork, Input!Controls
  <2>6. TouchesRest'
    <3>1. UNCHANGED Input!Nobody
      BY DEF Input!Nobody, Input!NoTouch
    <3>. QED  BY <1>1, <2>1, <2>2, <3>1 DEF TouchesRest, Shown
  <2>7. SticksRest'
    BY <1>1, <1>2, <2>2 DEF SticksRest, Shown
  <2>. QED  BY <1>2, <2>3, <2>4, <2>5, <2>6, <2>7 DEF SlotsApart
<1>. QED  BY <1>5, <1>6, <1>7

LEMMA TapTimerKeeps ==
  ASSUME InputInv, Input!TapTimer
  PROVE  InputInv'
<1> USE DEF InputInv
<1>0. page \in PageType /\ controllerState \in StateType /\ page.taps - 1 \in 0 .. Waiting
  BY InputSizes DEF Typed, PageType, Input!TapTimer
<1>1. /\ page' = [page EXCEPT !.taps = page.taps - 1]
      /\ controllerState' = Input!Tap(controllerState, FALSE, Input!Nobody)
      /\ UNCHANGED <<settings, pad, screen, view, orphaned>>
  BY DEF Input!TapTimer
<1>2. /\ page' \in PageType /\ page'.stickMoving = page.stickMoving
      /\ page'.gpState = page.gpState /\ page'.slots = page.slots /\ page'.releases = page.releases
  BY <1>0, <1>1 DEF PageType
<1>3. /\ controllerState' \in StateType /\ controllerState'.triggers = controllerState.triggers
      /\ controllerState'.left = controllerState.left /\ controllerState'.right = controllerState.right
      /\ controllerState'.buttons = controllerState.buttons \ {"TOUCHPAD"}
      /\ controllerState'.touches = Input!Nobody
  BY <1>0, <1>1, TapFields, TouchTuples
<1>4. SettingsFit' /\ Typed'
  BY <1>1, <1>2, <1>3 DEF SettingsFit, Typed
<1>5. ButtonsRest' /\ TriggersRest'
  BY <1>1, <1>2, <1>3
  DEF ButtonsRest, TriggersRest, Input!Held, Input!Controls, Input!AxesWork, Input!Lingering
<1>6. TouchesRest'
  BY <1>3 DEF TouchesRest, Input!Nobody, Input!NoTouch
<1>. QED  BY <1>1, <1>2, <1>3, <1>4, <1>5, <1>6 DEF SticksRest, SlotsApart

LEMMA StickKeeps ==
  ASSUME InputInv, NEW l \in BOOLEAN, NEW r \in BOOLEAN, Input!Stick(l, r)
  PROVE  InputInv'
<1> USE DEF InputInv
<1>0. screen \in ScreenType /\ page \in PageType /\ controllerState \in StateType
  BY DEF Typed
<1>1. /\ screen' = [screen EXCEPT !.left = l, !.right = r]
      /\ page' = [page EXCEPT !.stickMoving = r]
      /\ controllerState' = [controllerState EXCEPT
           !.left = IF l = screen.left THEN controllerState.left ELSE l,
           !.right = IF r = screen.right THEN controllerState.right ELSE r]
      /\ UNCHANGED <<settings, pad, view, orphaned>>
  BY DEF Input!Stick
<1>2. /\ screen' \in ScreenType /\ screen'.controls = screen.controls
      /\ screen'.left = l /\ screen'.right = r
      /\ screen'.fingers = screen.fingers /\ screen'.long = screen.long
  BY <1>0, <1>1 DEF ScreenType
<1>3. /\ page' \in PageType /\ page'.stickMoving = r /\ page'.taps = page.taps
      /\ page'.gpState = page.gpState /\ page'.slots = page.slots /\ page'.releases = page.releases
  BY <1>0, <1>1 DEF PageType
<1>4. /\ controllerState' \in StateType /\ controllerState'.triggers = controllerState.triggers
      /\ controllerState'.buttons = controllerState.buttons
      /\ controllerState'.touches = controllerState.touches
      /\ controllerState'.left = (IF l = screen.left THEN controllerState.left ELSE l)
      /\ controllerState'.right = (IF r = screen.right THEN controllerState.right ELSE r)
  BY <1>0, <1>1 DEF StateType
<1>5. SettingsFit' /\ Typed'
  BY <1>1, <1>2, <1>3, <1>4 DEF SettingsFit, Typed
<1>6. ButtonsRest' /\ TriggersRest'
  BY <1>1, <1>2, <1>3, <1>4
  DEF ButtonsRest, TriggersRest, Input!Held, Input!Controls, Input!AxesWork, Input!Lingering
<1>7. SticksRest'
  BY <1>0, <1>1, <1>2, <1>3, <1>4 DEF SticksRest, ScreenType
<1>. QED  BY <1>1, <1>2, <1>3, <1>4, <1>5, <1>6, <1>7
          DEF TouchesRest, SlotsApart, Input!Nobody, Input!NoTouch

(* The touchpad on the screen.                                              *)

LEMMA FingerDownKeeps ==
  ASSUME InputInv, NEW f \in Input!Fingers, Input!FingerDown(f)
  PROVE  InputInv'
<1> USE DEF InputInv
<1>0. screen \in ScreenType
  BY DEF Typed
<1>1. /\ screen' = [screen EXCEPT !.fingers = screen.fingers \cup {f}]
      /\ UNCHANGED <<settings, pad, page, view, controllerState, orphaned>>
  BY DEF Input!FingerDown
<1>2. /\ screen' \in ScreenType /\ screen'.controls = screen.controls
      /\ screen'.left = screen.left /\ screen'.right = screen.right
      /\ screen'.fingers # {} /\ screen'.long = screen.long
  BY <1>0, <1>1 DEF ScreenType
<1>3. SettingsFit' /\ Typed'
  BY <1>1, <1>2 DEF SettingsFit, Typed
<1>4. ButtonsRest' /\ TriggersRest'
  BY <1>1, <1>2
  DEF ButtonsRest, TriggersRest, Input!Held, Input!Controls, Input!AxesWork, Input!Lingering
<1>. QED  BY <1>1, <1>2, <1>3, <1>4 DEF SticksRest, TouchesRest, SlotsApart

LEMMA FingersMoveKeeps ==
  ASSUME InputInv, Input!FingersMove
  PROVE  InputInv'
<1> USE DEF InputInv
<1>0. screen \in ScreenType /\ controllerState \in StateType
  BY DEF Typed
<1>1. PICK touches : touches = [f \in Input!Fingers |-> IF f \in screen.fingers THEN f ELSE Input!NoTouch]
  OBVIOUS
<1>2. /\ screen.fingers # {} /\ controllerState' = Input!Touch(touches)
      /\ UNCHANGED <<settings, pad, screen, page, view, orphaned>>
  BY <1>1 DEF Input!FingersMove
<1>3. touches \in [1 .. 2 -> 0 .. 3]
  <2>1. Input!Fingers = 1 .. 2
    BY DEF Input!Fingers
  <2>. QED  BY <1>1, <2>1 DEF Input!NoTouch
<1>4. /\ controllerState' \in StateType /\ controllerState'.buttons = {}
      /\ controllerState'.triggers = controllerState.triggers
      /\ controllerState'.left = controllerState.left /\ controllerState'.right = controllerState.right
      /\ controllerState'.touches = touches
  BY <1>0, <1>2, <1>3 DEF StateType, Input!Touch
<1>5. SettingsFit' /\ Typed'
  BY <1>2, <1>4 DEF SettingsFit, Typed
<1>6. ButtonsRest' /\ TriggersRest'
  BY <1>2, <1>4
  DEF ButtonsRest, TriggersRest, Input!Held, Input!Controls, Input!AxesWork, Input!Lingering
<1>. QED  BY <1>2, <1>4, <1>5, <1>6 DEF SticksRest, TouchesRest, SlotsApart

LEMMA OneFinger == \A S : Input!Cardinality(S) = 1 => S # {}
<1>1. \A S : Input!Cardinality(S) = Cardinality(S)
  BY DEF Input!Cardinality, Cardinality
<1>. QED  BY <1>1, FS_EmptySet

LEMMA LongPressKeeps ==
  ASSUME InputInv, Input!LongPress
  PROVE  InputInv'
<1> USE DEF InputInv
<1>0. screen \in ScreenType /\ controllerState \in StateType
  BY DEF Typed
<1>1. /\ screen' = [screen EXCEPT !.long = TRUE] /\ screen.fingers # {}
      /\ controllerState' = Input!Tap(controllerState, TRUE, <<1, 0>>)
      /\ UNCHANGED <<settings, pad, page, view, orphaned>>
  BY OneFinger DEF Input!LongPress, Input!NoTouch
<1>2. /\ screen' \in ScreenType /\ screen'.controls = screen.controls
      /\ screen'.left = screen.left /\ screen'.right = screen.right
      /\ screen'.fingers = screen.fingers /\ screen'.long = TRUE
  BY <1>0, <1>1 DEF ScreenType
<1>3. /\ controllerState' \in StateType
      /\ controllerState'.buttons = controllerState.buttons \cup {"TOUCHPAD"}
      /\ controllerState'.triggers = controllerState.triggers
      /\ controllerState'.left = controllerState.left /\ controllerState'.right = controllerState.right
  <2>1. <<1, 0>> \in [1 .. 2 -> 0 .. 3]
    BY TouchTuples
  <2>. QED  BY ZenonT(30), <1>0, <1>1, <2>1, TapFields
<1>4. SettingsFit' /\ Typed'
  BY <1>1, <1>2, <1>3 DEF SettingsFit, Typed
<1>5. ButtonsRest' /\ TriggersRest'
  BY <1>1, <1>2, <1>3
  DEF ButtonsRest, TriggersRest, Input!Held, Input!Controls, Input!AxesWork, Input!Lingering
<1>. QED  BY <1>1, <1>2, <1>3, <1>4, <1>5 DEF SticksRest, TouchesRest, SlotsApart

LEMMA FingerUpKeeps ==
  ASSUME InputInv, NEW f \in Input!Fingers, Input!FingerUp(f)
  PROVE  InputInv'
<1> USE DEF InputInv
<1>0. /\ screen \in ScreenType /\ page \in PageType /\ controllerState \in StateType
      /\ page.taps \in 0 .. Waiting /\ page.taps + 1 \in 0 .. Waiting
      /\ Input!Nobody \in [1 .. 2 -> 0 .. 3] /\ <<1, 0>> \in [1 .. 2 -> 0 .. 3]
  BY InputSizes, TouchTuples DEF Typed, PageType, Input!FingerUp
<1>1. /\ screen' = [screen EXCEPT !.fingers = screen.fingers \ {f}, !.long = FALSE]
      /\ UNCHANGED <<settings, pad, view, orphaned>>
  BY DEF Input!FingerUp
<1>2. /\ screen' \in ScreenType /\ screen'.controls = screen.controls
      /\ screen'.left = screen.left /\ screen'.right = screen.right
      /\ screen'.long = FALSE
  BY <1>0, <1>1 DEF ScreenType
<1> DEFINE lifted == Input!Touch(Input!Nobody)
<1>3. /\ lifted \in StateType /\ lifted.buttons = {}
      /\ lifted.triggers = controllerState.triggers
      /\ lifted.left = controllerState.left /\ lifted.right = controllerState.right
      /\ lifted.touches = Input!Nobody
  BY <1>0 DEF StateType, Input!Touch
<1> DEFINE tapped == [page EXCEPT !.taps = page.taps + 1]
<1>4. \/ screen.long /\ page' = tapped /\ UNCHANGED controllerState
      \/ ~screen.long /\ controllerState' = lifted /\ UNCHANGED page
      \/ ~screen.long /\ controllerState' = lifted /\ page' = tapped
      \/ /\ ~screen.long /\ page' = tapped
         /\ controllerState' = Input!Tap(lifted, TRUE, <<1, 0>>)
  BY DEF Input!FingerUp, Input!NoTouch
<1> HIDE DEF lifted
<1>5. /\ page' \in PageType /\ page'.stickMoving = page.stickMoving /\ page'.releases = page.releases
      /\ page'.gpState = page.gpState /\ page'.slots = page.slots
      /\ page'.taps = page.taps + 1 \/ page'.taps = page.taps
      /\ page' = tapped => page'.taps > 0
  <2>1. CASE page' = tapped
    BY <1>0, <2>1 DEF PageType
  <2>2. CASE page' = page
    <3>1. tapped.taps # page.taps
      BY <1>0 DEF PageType
    <3>. QED  BY <1>0, <2>2, <3>1
  <2>. QED  BY <1>4, <2>1, <2>2
<1>6. \A b \in Input!Controls : Input!Lingering(b)' <=> Input!Lingering(b)
  BY <1>2, <1>5 DEF Input!Lingering
<1>7. \/ page'.taps > 0 /\ UNCHANGED controllerState
      \/ /\ controllerState' = lifted /\ ~screen.long
      \/ /\ page'.taps > 0
         /\ controllerState' \in StateType /\ controllerState'.triggers = controllerState.triggers
         /\ controllerState'.left = controllerState.left
         /\ controllerState'.right = controllerState.right
         /\ controllerState'.buttons = {"TOUCHPAD"}
  <2>1. CASE controllerState' = Input!Tap(lifted, TRUE, <<1, 0>>) /\ page' = tapped
    <3>1. /\ controllerState' \in StateType /\ controllerState'.triggers = lifted.triggers
          /\ controllerState'.left = lifted.left /\ controllerState'.right = lifted.right
          /\ controllerState'.buttons = lifted.buttons \cup {"TOUCHPAD"}
      BY ZenonT(30), <1>0, <1>3, <2>1, TapFields
    <3>. QED  BY <1>3, <1>5, <2>1, <3>1
  <2>. QED  BY <1>4, <1>5, <2>1
<1>8. /\ controllerState' \in StateType /\ controllerState'.triggers = controllerState.triggers
      /\ controllerState'.left = controllerState.left
      /\ controllerState'.right = controllerState.right
      /\ controllerState'.buttons \subseteq controllerState.buttons \cup {"TOUCHPAD"}
      /\ "TOUCHPAD" \in controllerState'.buttons => page'.taps > 0
      /\ controllerState'.touches # Input!Nobody => page'.taps > 0
  <2>1. CASE page'.taps > 0 /\ UNCHANGED controllerState
    BY <1>0, <2>1
  <2>2. CASE controllerState' = lifted
    BY <1>3, <2>2
  <2>3. CASE /\ page'.taps > 0
             /\ controllerState' \in StateType /\ controllerState'.triggers = controllerState.triggers
             /\ controllerState'.left = controllerState.left
             /\ controllerState'.right = controllerState.right
             /\ controllerState'.buttons = {"TOUCHPAD"}
    BY <2>3
  <2>. QED  BY <1>7, <2>1, <2>2, <2>3
<1>9. SettingsFit' /\ Typed'
  BY <1>1, <1>2, <1>5, <1>8 DEF SettingsFit, Typed
<1>10. ButtonsRest'
  BY <1>1, <1>2, <1>5, <1>6, <1>8 DEF ButtonsRest, Input!Held, Input!Controls
<1>11. TriggersRest'
  BY <1>1, <1>6, <1>8 DEF TriggersRest, Input!Held, Input!AxesWork, Input!Controls
<1>12. TouchesRest'
  <2>1. UNCHANGED Input!Nobody
    BY DEF Input!Nobody, Input!NoTouch
  <2>. QED  BY <1>8, <2>1 DEF TouchesRest
<1>. QED  BY <1>1, <1>2, <1>5, <1>8, <1>9, <1>10, <1>11, <1>12 DEF SticksRest, SlotsApart

(* The gyroscope, and the page that is opened again.                        *)
LEMMA SensorKeeps ==
  ASSUME InputInv, NEW turning \in BOOLEAN, Input!Sensor(turning)
  PROVE  InputInv'
<1> USE DEF InputInv
<1>0. pad \in PadType /\ controllerState \in StateType /\ Input!Sensed(turning) \in BOOLEAN
  BY DEF Typed, StateType, Input!Sensed, Input!SensorStick, Input!GyroscopeOn
<1>1. /\ pad' = [pad EXCEPT !.turning = turning]
      /\ controllerState' = [controllerState EXCEPT !.right = Input!Sensed(turning)]
      /\ UNCHANGED <<settings, screen, page, view, orphaned>>
  BY DEF Input!Sensor
<1>2. /\ pad' \in PadType /\ pad'.keys = pad.keys /\ pad'.hat = pad.hat /\ pad'.axes = pad.axes
      /\ pad'.left = pad.left /\ pad'.right = pad.right /\ pad'.finger = pad.finger
      /\ pad'.touches = pad.touches
  BY <1>0, <1>1 DEF PadType
<1>3. /\ controllerState' \in StateType /\ controllerState'.buttons = controllerState.buttons
      /\ controllerState'.triggers = controllerState.triggers
      /\ controllerState'.left = controllerState.left
      /\ controllerState'.right = Input!Sensed(turning)
      /\ controllerState'.touches = controllerState.touches
  BY <1>0, <1>1 DEF StateType
<1>4. SettingsFit' /\ Typed'
  BY <1>1, <1>2, <1>3 DEF SettingsFit, Typed
<1>5. ButtonsRest' /\ TriggersRest'
  BY <1>1, <1>2, <1>3
  DEF ButtonsRest, TriggersRest, Input!Held, Input!Controls, Input!AxesWork, Input!Lingering
<1>6. SticksRest'
  <2>1. settings.gyroscopeType = 0 \/ view.isRightstickMoving =>
          Input!Sensed(turning) = controllerState.right
    BY DEF Input!Sensed
  <2>. QED  BY <1>1, <1>2, <1>3, <2>1 DEF SticksRest
<1>. QED  BY <1>1, <1>2, <1>3, <1>4, <1>5, <1>6
          DEF TouchesRest, SlotsApart, Input!Nobody, Input!NoTouch

LEMMA ReopenKeeps ==
  ASSUME InputInv, Input!Reopen
  PROVE  InputInv'
<1> USE DEF InputInv
<1>0. page.gpState \subseteq {"L1", "L2"}
  BY DEF Typed, PageType
<1>1. /\ page' = Input!NewPage(page.gpState) /\ view' = Input!NewView
      /\ controllerState' = Input!Neutral /\ orphaned' = {}
      /\ UNCHANGED <<settings, pad, screen>>
  BY DEF Input!Reopen
<1>2. /\ page' \in PageType /\ page'.gpState = page.gpState /\ page'.stickMoving = FALSE
      /\ page'.slots = Input!Nobody
  BY <1>0, <1>1, InputSizes, TouchTuples DEF PageType, Input!NewPage
<1>3. view' \in ViewType
  BY <1>1 DEF ViewType, Input!NewView, Input!NoTouch
<1>4. /\ controllerState' \in StateType /\ controllerState'.buttons = {}
      /\ controllerState'.triggers = {} /\ controllerState'.left = FALSE
      /\ controllerState'.right = FALSE /\ controllerState'.touches = Input!Nobody
  BY <1>1, TouchTuples DEF StateType, Input!Neutral
<1>5. SettingsFit' /\ Typed'
  BY <1>1, <1>2, <1>3, <1>4 DEF SettingsFit, Typed
<1>6. UNCHANGED Input!Nobody /\ Input!Nobody[1] = 0
  BY DEF Input!Nobody, Input!NoTouch
<1>. QED  BY <1>1, <1>2, <1>4, <1>5, <1>6
          DEF ButtonsRest, TriggersRest, SticksRest, TouchesRest, SlotsApart

LEMMA InputStep == InputInv /\ [Input!Next]_playing => InputInv'
<1> SUFFICES ASSUME InputInv, [Input!Next]_playing PROVE InputInv'
  OBVIOUS
<1>1. CASE UNCHANGED playing
  BY <1>1 DEF playing, InputInv, SettingsFit, Typed, ButtonsRest, TriggersRest, SticksRest,
     TouchesRest, SlotsApart, Input!Lingering, Input!Held, Input!AxesWork, Input!Controls,
     Input!Nobody, Input!NoTouch
<1>2. CASE \E k \in Input!Keys : Input!Key(k)
  BY <1>2, KeyKeeps
<1>3. CASE \E t \in Input!Triggers : Input!TriggerKey(t)
  BY <1>3, TriggerKeyKeeps
<1>4. CASE \E now \in Input!Turned, halfSecond \in BOOLEAN : Input!Joystick(now, halfSecond)
  BY <1>4, JoystickKeeps
<1>5. CASE Input!MoveStart \/ Input!Move \/ Input!Press \/ Input!MoveEnd
  BY <1>5, TouchpadKeeps
<1>6. CASE \E now \in Input!Moved, active \in Input!Reports : Input!Report(now, active)
  BY <1>6, ReportKeeps
<1>7. CASE \E c \in Input!Controls : Input!PressIn(c) \/ Input!PressOut(c) \/ Input!ReleaseTimer(c)
  BY <1>7, PressInKeeps, PressOutKeeps, ReleaseKeeps
<1>8. CASE Input!TapTimer
  BY <1>8, TapTimerKeeps
<1>9. CASE \E l, r \in BOOLEAN : Input!Stick(l, r)
  BY <1>9, StickKeeps
<1>10. CASE \E f \in Input!Fingers : Input!FingerDown(f) \/ Input!FingerUp(f)
  BY <1>10, FingerDownKeeps, FingerUpKeeps
<1>11. CASE Input!FingersMove \/ Input!LongPress
  BY <1>11, FingersMoveKeeps, LongPressKeeps
<1>12. CASE \E turning \in BOOLEAN : Input!Sensor(turning)
  BY <1>12, SensorKeeps
<1>13. CASE Input!Reopen
  BY <1>13, ReopenKeeps
<1>. QED  BY <1>1, <1>2, <1>3, <1>4, <1>5, <1>6, <1>7, <1>8, <1>9, <1>10, <1>11, <1>12, <1>13
          DEF Input!Next

LEMMA InputSafe == InputInv => Input!TypeOK /\ Input!InputSound
<1> SUFFICES ASSUME InputInv PROVE Input!TypeOK /\ Input!InputSound
  OBVIOUS
<1>1. /\ SettingsFit /\ Typed /\ ButtonsRest /\ TriggersRest /\ SticksRest /\ TouchesRest
      /\ SlotsApart
  BY DEF InputInv
<1>2. pad \in PadType /\ page \in PageType /\ settings.swapDpad \in BOOLEAN
  BY <1>1 DEF Typed, SettingsFit
<1>3. Input!TypeOK
  BY <1>1 DEF Input!TypeOK, SettingsFit, Typed, StateType, PageType
<1>4. Input!ButtonsMeant
  BY <1>1 DEF ButtonsRest, Input!ButtonsMeant
<1>5. Input!TriggersMeant
  BY <1>1 DEF TriggersRest, Input!TriggersMeant
<1>6. Input!SticksMeant
  <2>1. controllerState.left => pad.left \/ pad.hat \/ screen.left
    BY <1>1, <1>2 DEF SticksRest
  <2>2. CASE settings.gyroscopeType = 0 \/ page.stickMoving \/ view.isRightstickMoving
    <3>1. Input!Sensed(pad.turning) = controllerState.right
      BY <2>2 DEF Input!Sensed
    <3>. QED  BY <1>1, <1>2, <2>1, <2>2, <3>1 DEF SticksRest, Input!SticksMeant
  <2>3. CASE ~(settings.gyroscopeType = 0 \/ page.stickMoving \/ view.isRightstickMoving)
    <3>1. Input!Sensed(pad.turning) => pad.turning
      BY <2>3 DEF Input!Sensed, Input!SensorStick
    <3>. QED  BY <2>1, <3>1 DEF Input!SticksMeant
  <2>. QED  BY <2>2, <2>3
<1>7. Input!TouchesMeant
  BY <1>1 DEF TouchesRest, Input!TouchesMeant
<1>8. Input!SlotsKept
  <2> SUFFICES ASSUME NEW active \in Input!Reports
               PROVE  LET slots == Input!Slots(active, page.slots)
                      IN /\ {slots[1], slots[2]} \ {Input!NoTouch} = Seen(active)
                         /\ Len(active) = 1 => slots[1] = active[1]
                         /\ Len(active) = 2 => \A i \in 1 .. 2 :
                              page.slots[i] \in {active[1], active[2]} => slots[i] = page.slots[i]
    BY DEF Input!SlotsKept, Seen
  <2>1. page.slots \in [1 .. 2 -> 0 .. 3] /\ (page.slots[1] # 0 => page.slots[1] # page.slots[2])
    BY <1>1, <1>2 DEF PageType, SlotsApart
  <2>2. PICK prev : prev = page.slots
    OBVIOUS
  <2>3. PICK s : s = Input!Slots(active, prev)
    OBVIOUS
  <2>4. /\ {s[1], s[2]} \ {0} = Seen(active)
        /\ Len(active) = 1 => s[1] = active[1]
        /\ Len(active) = 2 => \A i \in 1 .. 2 : prev[i] \in {active[1], active[2]} => s[i] = prev[i]
    BY <2>1, <2>2, <2>3, SlotsRight
  <2>. QED  BY <2>2, <2>3, <2>4 DEF Input!NoTouch
<1>. QED  BY <1>3, <1>4, <1>5, <1>6, <1>7, <1>8 DEF Input!InputSound

(* The controller state shows nothing the user no longer does, whichever    *)
(* sources, timers and gestures change it, in whichever order               *)
(* (StreamView.java:607, Stream.tsx:221, Touchpad.tsx:180).                 *)
InputRight == part = "input" => UnitsSound
THEOREM InputHolds == StreamsSpec => []InputRight
<1>1. StreamsInit => InputInv
  BY InputStart DEF StreamsInit
<1>2. InputInv /\ [StreamsNext]_streams => InputInv'
  <2> SUFFICES ASSUME InputInv, [StreamsNext]_streams PROVE InputInv'
    OBVIOUS
  <2>1. [Input!Next]_playing
    BY DEF StreamsNext, DataOnly, VideoOnly, AudioOnly, MessagesOnly, SendersOnly, CtrlOnly,
           InputOnly, streams
  <2>. QED  BY <2>1, InputStep
<1>3. InputInv => InputRight
  BY InputSafe DEF InputRight, UnitsSound
<1>. QED  BY <1>1, <1>2, <1>3, PTL DEF StreamsSpec

-----------------------------------------------------------------------------
(* The ctrl connection.                                                     *)

(* A sequence that is cut in two, of which the first goes to the end of     *)
(* another, or is taken off.                                                *)
LEMMA CutInTwo ==
  ASSUME NEW U, NEW q \in Seq(U), NEW k \in 0 .. Len(q)
  PROVE  /\ SubSeq(q, 1, k) \in Seq(U) /\ Len(SubSeq(q, 1, k)) = k
         /\ \A i \in 1 .. k : SubSeq(q, 1, k)[i] = q[i]
         /\ SubSeq(q, k + 1, Len(q)) \in Seq(U)
         /\ SubSeq(q, 1, k) \o SubSeq(q, k + 1, Len(q)) = q
<1> DEFINE x == SubSeq(q, 1, k)
           y == SubSeq(q, k + 1, Len(q))
<1>0. Len(q) \in Nat /\ \A i \in 1 .. Len(q) : q[i] \in U
  OBVIOUS
<1>1. x \in Seq(U) /\ Len(x) = k /\ \A i \in 1 .. k : x[i] = q[i]
  <2>1. \A i \in 1 .. k : q[i] \in U
    BY <1>0
  <2>. QED  BY <1>0, <2>1, SubSeqProperties
<1>2. y \in Seq(U) /\ Len(y) = Len(q) - k /\ \A i \in 1 .. Len(q) - k : y[i] = q[k + i]
  <2>1. \A i \in k + 1 .. Len(q) : q[i] \in U
    BY <1>0
  <2>2. /\ y \in Seq(U) /\ Len(y) = IF k + 1 <= Len(q) THEN Len(q) - (k + 1) + 1 ELSE 0
        /\ \A i \in 1 .. Len(q) - (k + 1) + 1 : y[i] = q[k + 1 + i - 1]
    BY <1>0, <2>1, SubSeqProperties
  <2>3. Len(y) = Len(q) - k
    BY <1>0, <2>2
  <2>4. ASSUME NEW i \in 1 .. Len(q) - k PROVE y[i] = q[k + i]
    <3>1. i \in 1 .. Len(q) - (k + 1) + 1 /\ k + 1 + i - 1 = k + i
      BY <1>0
    <3>. QED  BY <2>2, <3>1
  <2>. QED  BY <2>2, <2>3, <2>4
<1> HIDE DEF x, y
<1>3. x \o y = q
  <2>1. /\ x \o y \in Seq(U) /\ Len(x \o y) = Len(q)
        /\ \A i \in 1 .. Len(q) : (x \o y)[i] = IF i <= k THEN x[i] ELSE y[i - k]
    <3>1. k + (Len(q) - k) = Len(q)
      BY <1>0
    <3>2. x \in Seq(U) /\ y \in Seq(U)
      BY <1>1, <1>2
    <3>3. /\ x \o y \in Seq(U) /\ Len(x \o y) = Len(x) + Len(y)
          /\ \A i \in 1 .. Len(x) + Len(y) :
               (x \o y)[i] = IF i <= Len(x) THEN x[i] ELSE y[i - Len(x)]
      BY <3>2, ConcatProperties
    <3>. QED  BY <1>1, <1>2, <3>1, <3>3
  <2>2. ASSUME NEW i \in 1 .. Len(q) PROVE (x \o y)[i] = q[i]
    <3>1. CASE i <= k
      BY <1>1, <2>1, <3>1
    <3>2. CASE i > k
      <4>1. i - k \in 1 .. Len(q) - k /\ k + (i - k) = i
        BY <1>0, <3>2
      <4>2. (x \o y)[i] = y[i - k]
        BY <2>1, <3>2
      <4>. QED  BY <1>2, <4>1, <4>2
    <3>3. i <= k \/ i > k
      BY <1>0
    <3>. QED  BY <3>1, <3>2, <3>3
  <2>. QED  BY <2>1, <2>2, SeqEqual
<1>. QED  BY <1>1, <1>2, <1>3 DEF x, y

MovedOver(U, b, q, k) ==
  /\ b \o SubSeq(q, 1, k) \in Seq(U) /\ SubSeq(q, k + 1, Len(q)) \in Seq(U)
  /\ Len(b \o SubSeq(q, 1, k)) = Len(b) + k
  /\ (b \o SubSeq(q, 1, k)) \o SubSeq(q, k + 1, Len(q)) = b \o q
  /\ b = <<>> /\ k > 0 => (b \o SubSeq(q, 1, k))[1] = q[1]
LEMMA MoveOver ==
  ASSUME NEW U, NEW b \in Seq(U), NEW q \in Seq(U), NEW k \in 0 .. Len(q)
  PROVE  MovedOver(U, b, q, k)
<1> DEFINE x == SubSeq(q, 1, k)
           y == SubSeq(q, k + 1, Len(q))
<1>1. x \in Seq(U) /\ Len(x) = k /\ (\A i \in 1 .. k : x[i] = q[i]) /\ y \in Seq(U) /\ x \o y = q
  BY CutInTwo
<1> HIDE DEF x, y
<1>2. /\ b \o x \in Seq(U) /\ Len(b \o x) = Len(b) + k
      /\ \A i \in 1 .. Len(b) + k : (b \o x)[i] = IF i <= Len(b) THEN b[i] ELSE x[i - Len(b)]
  BY <1>1, ConcatProperties
<1>3. (b \o x) \o y = b \o q
  <2>1. x \in Seq(U) /\ y \in Seq(U)
    BY <1>1
  <2>2. (b \o x) \o y = b \o (x \o y)
    BY SMTT(30), <2>1, ConcatAssociative
  <2>. QED  BY <1>1, <2>2
<1>4. b = <<>> /\ k > 0 => (b \o x)[1] = q[1]
  <2> SUFFICES ASSUME b = <<>>, k > 0 PROVE (b \o x)[1] = q[1]
    OBVIOUS
  <2>1. Len(b) = 0 /\ 1 \in 1 .. k /\ 1 \in 1 .. Len(b) + k
    OBVIOUS
  <2>. QED  BY <1>1, <1>2, <2>1
<1>. QED  BY <1>1, <1>2, <1>3, <1>4 DEF MovedOver, x, y

TakenOff(b, q, u, v) == b \o q = u \o v => SubSeq(b, Len(u) + 1, Len(b)) \o q = v
LEMMA TakeOff ==
  ASSUME NEW U, NEW b \in Seq(U), NEW q \in Seq(U), NEW u \in Seq(U), NEW v \in Seq(U)
  PROVE  Len(u) <= Len(b) => TakenOff(b, q, u, v)
<1>a. \A x \in Seq(U), y \in Seq(U) : (x \o y) \o q = x \o (y \o q)
  BY SMTT(30), ConcatAssociative
<1> SUFFICES ASSUME Len(u) <= Len(b) PROVE TakenOff(b, q, u, v)
  OBVIOUS
<1>k. PICK k \in 0 .. Len(b) : k = Len(u)
  OBVIOUS
<1> DEFINE x == SubSeq(b, 1, k)
           y == SubSeq(b, k + 1, Len(b))
<1>1. x \in Seq(U) /\ Len(x) = k /\ (\A i \in 1 .. k : x[i] = b[i]) /\ y \in Seq(U) /\ x \o y = b
  BY CutInTwo
<1> HIDE DEF x, y
<1>2. x \o (y \o q) = b \o q
  <2>1. x \in Seq(U) /\ y \in Seq(U)
    BY <1>1
  <2>2. (x \o y) \o q = x \o (y \o q)
    BY <1>a, <2>1
  <2>3. x \o y = b
    BY <1>1
  <2>. QED  BY <2>2, <2>3
<1>3. y \o q \in Seq(U)
  BY <1>1, ConcatProperties
<1>4. ASSUME b \o q = u \o v PROVE y \o q = v
  <2>1. x \o (y \o q) = u \o v
    BY <1>2, <1>4
  <2>2. ASSUME NEW i \in 1 .. k PROVE x[i] = u[i]
    <3>1. (x \o (y \o q))[i] = x[i]
      <4>1. i \in 1 .. Len(x) + Len(y \o q) /\ i <= Len(x)
        BY <1>1, <1>3
      <4>. QED  BY <1>1, <1>3, <4>1, ConcatProperties
    <3>2. (u \o v)[i] = u[i]
      <4>1. i \in 1 .. Len(u) + Len(v) /\ i <= Len(u)
        BY <1>k
      <4>. QED  BY <4>1, ConcatProperties
    <3>. QED  BY <2>1, <3>1, <3>2
  <2>3. x = u
    <3>1. x \in Seq(U) /\ Len(x) = Len(u) /\ \A i \in 1 .. Len(x) : x[i] = u[i]
      BY <1>1, <1>k, <2>2
    <3>. QED  BY <3>1, SeqEqual
  <2>. QED  BY <1>1, <1>3, <2>1, <2>3, ConcatSimplifications
<1>. QED  BY <1>k, <1>4 DEF TakenOff, y

LEMMA CtrlSizes ==
  /\ Room \in Nat /\ Room >= 3 /\ CtrlMax \in Nat /\ Features \in Nat /\ Doubles \in Nat
BY CtrlAssumption

Unit == (1 .. CtrlMax) \X Nat
SenderType == [todo : Seq({0, 1}), at : {"idle", "header", "payload"}, num : Nat]
EchoType == [next : Nat, body : BOOLEAN, lost : BOOLEAN]

KindsTyped == kinds \in [1 .. CtrlMax -> DOMAIN Ctrl!Payload]
ReaderTyped ==
  /\ rudp \in BOOLEAN /\ net \in Seq(Unit) /\ buf \in Seq(Unit) /\ handled \in Seq((1 .. CtrlMax) \X Nat)
  /\ remote \in Nat /\ doubles \in 0 .. Doubles
  /\ pc \in {"response", "loop", "select", "sending", "failed", "crashed"}
SendersTyped ==
  /\ known \in BOOLEAN /\ local \in Nat /\ out \in [Ctrl!Both -> SenderType]
  /\ understood \in EchoType /\ clash \in BOOLEAN
ShowTyped == cantA \in BOOLEAN /\ cantB \in BOOLEAN /\ sink \in BOOLEAN /\ shown \in BOOLEAN

(* The units of the i-th message, and what is laid out behind it.           *)
SizeOf(i) == Ctrl!Payload[kinds[i]]
Laid(g) ==
  /\ g \in [1 .. CtrlMax + 1 -> Seq(Unit)] /\ g[CtrlMax + 1] = <<>>
  /\ \A i \in 1 .. CtrlMax : g[i] = Ctrl!Units(i) \o g[i + 1]

(* recv_buf holds what it can hold; of datagrams it is one.                 *)
RoomKept ==
  /\ Len(buf) <= Room /\ (pc = "response" => buf = <<>>)
  /\ rudp => /\ \A i \in 1 .. CtrlMax : kinds[i] # "long"
             /\ pc \in {"response", "select", "sending"} => buf = <<>>
             /\ pc = "loop" /\ buf # <<>> => Len(buf) = 2 + SizeOf(buf[1][1])

(* Unless a datagram came twice, what is left to be read and to come is     *)
(* what the console sent behind the handled messages.                       *)
InOrder ==
  doubles = 0 =>
    \E n \in 0 .. CtrlMax : \E g :
      /\ Len(handled) = n /\ Laid(g) /\ buf \o net = g[n + 1]
      /\ remote = Ctrl!Counter(n + 1) /\ \A k \in 1 .. n : handled[k] = <<k, Ctrl!Counter(k)>>

LEMMA PayloadSize ==
  /\ DOMAIN Ctrl!Payload = {"beat", "id", "aOn", "aOff", "bOn", "bOff", "long"}
  /\ \A kind \in DOMAIN Ctrl!Payload : /\ Ctrl!Payload[kind] \in Nat
                                       /\ kind # "long" => Ctrl!Payload[kind] <= 1
<1>1. DOMAIN Ctrl!Payload = {"beat", "id", "aOn", "aOff", "bOn", "bOff", "long"}
  BY DEF Ctrl!Payload
<1>2. /\ Ctrl!Payload["beat"] = 0 /\ Ctrl!Payload["id"] = 1 /\ Ctrl!Payload["aOn"] = 1
      /\ Ctrl!Payload["aOff"] = 1 /\ Ctrl!Payload["bOn"] = 1 /\ Ctrl!Payload["bOff"] = 1
      /\ Ctrl!Payload["long"] = Room
  BY DEF Ctrl!Payload
<1>. QED  BY <1>1, <1>2, CtrlSizes

LEMMA SizesRight ==
  ASSUME KindsTyped, NEW i \in 1 .. CtrlMax
  PROVE  /\ SizeOf(i) \in Nat /\ (kinds[i] # "long" => SizeOf(i) <= 1)
         /\ Ctrl!Units(i) \in Seq(Unit) /\ Len(Ctrl!Units(i)) = 2 + SizeOf(i)
         /\ \A k \in 1 .. 2 + SizeOf(i) : Ctrl!Units(i)[k] = <<i, k>>
<1>1. SizeOf(i) \in Nat /\ (kinds[i] # "long" => SizeOf(i) <= 1)
  BY PayloadSize DEF SizeOf, KindsTyped
<1>2. Ctrl!Units(i) = [k \in 1 .. 2 + SizeOf(i) |-> <<i, k>>]
  BY DEF Ctrl!Units, SizeOf
<1>3. PICK n \in Nat : n = 2 + SizeOf(i)
  BY <1>1
<1>4. [k \in 1 .. n |-> <<i, k>>] \in Seq(Unit) /\ Len([k \in 1 .. n |-> <<i, k>>]) = n
  <2>1. \A k \in 1 .. n : <<i, k>> \in Unit
    BY DEF Unit
  <2>. QED  BY <2>1
<1>. QED  BY <1>1, <1>2, <1>3, <1>4

LEMMA UnitsLaid ==
  ASSUME KindsTyped
  PROVE  Laid(Ctrl!UnitsFrom)
<1> DEFINE n == CtrlMax
           V == Seq(Unit)
           turn == [t \in Nat \X V |-> IF t[1] \in 1 .. n THEN Ctrl!Units(n + 1 - t[1]) \o t[2] ELSE <<>>]
           body(f) == [i \in 1 .. n + 1 |-> IF i > n THEN <<>> ELSE Ctrl!Units(i) \o f[i + 1]]
           all == CHOOSE f : f = body(f)
<1>1. n \in Nat /\ <<>> \in V /\ \A i \in 1 .. n : Ctrl!Units(i) \in V
  BY CtrlSizes, SizesRight, EmptySeq
<1>2. Ctrl!UnitsFrom = all
  BY DEF Ctrl!UnitsFrom
<1>3. \A u \in V, v \in V : u \o v \in V
  BY ConcatProperties
<1> HIDE DEF n, V
<1>4. turn \in [Nat \X V -> V]
  <2>1. ASSUME NEW t \in Nat \X V
        PROVE  (IF t[1] \in 1 .. n THEN Ctrl!Units(n + 1 - t[1]) \o t[2] ELSE <<>>) \in V
    <3>1. CASE t[1] \in 1 .. n
      <4>1. n + 1 - t[1] \in 1 .. n /\ t[2] \in V
        BY <1>1, <3>1
      <4>2. Ctrl!Units(n + 1 - t[1]) \in V
        BY <1>1, <4>1
      <4>. QED  BY <1>3, <3>1, <4>1, <4>2
    <3>2. CASE t[1] \notin 1 .. n
      BY <1>1, <3>2
    <3>. QED  BY <3>1, <3>2
  <2>. QED  BY <2>1
<1>5. PICK h : Loops(h, V, <<>>, turn, n)
  <2> HIDE DEF turn
  <2>. QED  BY <1>1, <1>4, LoopFunction
<1>6. ASSUME NEW m \in 1 .. n PROVE h[m] = Ctrl!Units(n + 1 - m) \o h[m - 1]
  <2>1. m \in Nat /\ m - 1 \in 0 .. n
    BY <1>1
  <2>2. h[m - 1] \in V /\ h[m] = turn[<<m, h[m - 1]>>]
    BY <1>5, <2>1 DEF Loops
  <2>. QED  BY <2>1, <2>2
<1> DEFINE g == [i \in 1 .. n + 1 |-> h[n + 1 - i]]
<1>7. g = body(g)
  <2>1. ASSUME NEW i \in 1 .. n + 1
        PROVE  g[i] = IF i > n THEN <<>> ELSE Ctrl!Units(i) \o g[i + 1]
    <3>1. CASE i > n
      <4>1. n + 1 - i = 0
        BY <1>1, <3>1
      <4>. QED  BY <1>5, <3>1, <4>1 DEF Loops
    <3>2. CASE ~(i > n)
      <4>1. /\ n + 1 - i \in 1 .. n /\ n + 1 - (n + 1 - i) = i /\ i + 1 \in 1 .. n + 1
            /\ (n + 1 - i) - 1 = n + 1 - (i + 1)
        BY <1>1, <3>2
      <4>2. h[n + 1 - i] = Ctrl!Units(n + 1 - (n + 1 - i)) \o h[(n + 1 - i) - 1]
        BY <1>6, <4>1
      <4>3. h[n + 1 - i] = Ctrl!Units(i) \o h[n + 1 - (i + 1)]
        BY <4>1, <4>2
      <4>. QED  BY <3>2, <4>1, <4>3
    <3>. QED  BY <3>1, <3>2
  <2>2. g = [i \in 1 .. n + 1 |-> g[i]]
    OBVIOUS
  <2> HIDE DEF g
  <2>. QED  BY <2>1, <2>2
<1>8. all = body(all)
  BY <1>7
<1> HIDE DEF all
<1>9. all[n + 1] = <<>> /\ \A i \in 1 .. n : all[i] = Ctrl!Units(i) \o all[i + 1]
  <2>1. n + 1 \in 1 .. n + 1 /\ n + 1 > n
    BY <1>1
  <2>2. \A i \in 1 .. n : i \in 1 .. n + 1 /\ ~(i > n)
    BY <1>1
  <2>3. all[n + 1] = <<>>
    BY <1>8, <2>1
  <2>4. ASSUME NEW i \in 1 .. n PROVE all[i] = Ctrl!Units(i) \o all[i + 1]
    BY <1>8, <2>2
  <2>. QED  BY <2>3, <2>4
<1>10. \A i \in 1 .. n + 1 : all[i] \in V
  <2> DEFINE T == { m \in Nat : m <= n => all[n + 1 - m] \in V }
  <2>1. 0 \in T
    BY <1>1, <1>9
  <2>2. ASSUME NEW m \in Nat, m \in T PROVE m + 1 \in T
    <3> SUFFICES ASSUME m + 1 <= n PROVE all[n + 1 - (m + 1)] \in V
      OBVIOUS
    <3>1. /\ n + 1 - (m + 1) \in 1 .. n /\ (n + 1 - (m + 1)) + 1 = n + 1 - m /\ m <= n
      BY <1>1
    <3>2. all[n + 1 - m] \in V
      BY <2>2, <3>1
    <3>3. all[n + 1 - (m + 1)] = Ctrl!Units(n + 1 - (m + 1)) \o all[n + 1 - m]
      BY <1>9, <3>1
    <3>4. Ctrl!Units(n + 1 - (m + 1)) \in V
      BY <1>1, <3>1
    <3>. QED  BY <1>3, <3>2, <3>3, <3>4
  <2>3. Nat \subseteq T
    <3> HIDE DEF T
    <3>. QED  BY <2>1, <2>2, SetInduction
  <2>4. ASSUME NEW i \in 1 .. n + 1 PROVE all[i] \in V
    <3>1. n + 1 - i \in Nat /\ n + 1 - i <= n /\ n + 1 - (n + 1 - i) = i
      BY <1>1
    <3>. QED  BY <2>3, <3>1
  <2>. QED  BY <2>4
<1>11. all \in [1 .. n + 1 -> V]
  <2>1. all = [i \in 1 .. n + 1 |-> all[i]]
    BY <1>8
  <2>. QED  BY <1>10, <2>1
<1>. QED  BY <1>2, <1>9, <1>11 DEF Laid, n, V

LEMMA CounterNext ==
  ASSUME KindsTyped
  PROVE  /\ Ctrl!Counter(1) = 0
         /\ \A i \in 1 .. CtrlMax :
              /\ Ctrl!Counter(i) \in Nat
              /\ Ctrl!Counter(i + 1) = IF SizeOf(i) > 0 THEN Ctrl!Counter(i) + 1 ELSE Ctrl!Counter(i)
<1> DEFINE with(i) == {j \in 1 .. i - 1 : SizeOf(j) > 0}
<1>1. \A i : Ctrl!Counter(i) = Cardinality(with(i))
  <2>1. \A S : Ctrl!Cardinality(S) = Cardinality(S)
    BY DEF Ctrl!Cardinality, Cardinality
  <2>2. \A i : Ctrl!Counter(i) = Ctrl!Cardinality(with(i))
    BY DEF Ctrl!Counter, SizeOf
  <2>. QED  BY <2>1, <2>2
<1>2. Ctrl!Counter(1) = 0
  <2>1. with(1) = {}
    OBVIOUS
  <2>. QED  BY <1>1, <2>1, FS_EmptySet
<1>3. ASSUME NEW i \in 1 .. CtrlMax
      PROVE  /\ Ctrl!Counter(i) \in Nat
             /\ Ctrl!Counter(i + 1) = IF SizeOf(i) > 0 THEN Ctrl!Counter(i) + 1 ELSE Ctrl!Counter(i)
  <2>1. IsFiniteSet(with(i)) /\ i \notin with(i)
    <3>1. IsFiniteSet(1 .. i - 1)
      BY CtrlSizes, FS_Interval
    <3>2. with(i) \subseteq 1 .. i - 1 /\ i \notin with(i)
      BY CtrlSizes
    <3>. QED  BY <3>1, <3>2, FS_Subset
  <2>2. with(i + 1) = IF SizeOf(i) > 0 THEN with(i) \cup {i} ELSE with(i)
    <3>1. \A j : j \in 1 .. (i + 1) - 1 <=> j \in 1 .. i - 1 \/ j = i
      BY CtrlSizes
    <3>. QED  BY <3>1
  <2> HIDE DEF with
  <2>3. Cardinality(with(i)) \in Nat /\ Cardinality(with(i) \cup {i}) = Cardinality(with(i)) + 1
    BY <2>1, FS_CardinalityType, FS_AddElement
  <2>. QED  BY <1>1, <2>2, <2>3
<1>. QED  BY <1>2, <1>3

LEMMA KindsKeep ==
  ASSUME kinds' = kinds
  PROVE  /\ \A i : Ctrl!Counter(i)' = Ctrl!Counter(i)
         /\ \A i : SizeOf(i)' = SizeOf(i) /\ Ctrl!Units(i)' = Ctrl!Units(i)
         /\ \A g : Laid(g) => Laid(g)'
<1>1. \A i : Ctrl!Counter(i)' = Ctrl!Counter(i)
  BY DEF Ctrl!Counter, Ctrl!Payload
<1>2. \A i : SizeOf(i)' = SizeOf(i)
  BY DEF SizeOf, Ctrl!Payload
<1>3. \A i : Ctrl!Units(i)' = Ctrl!Units(i)
  BY DEF Ctrl!Units, Ctrl!Payload
<1>4. \A g : Laid(g) => Laid(g)'
  BY <1>3 DEF Laid, Unit
<1>. QED  BY <1>1, <1>2, <1>3, <1>4

ReadInv == KindsTyped /\ ReaderTyped /\ RoomKept /\ InOrder

(* What is first in recv_buf is the first of the message it is of.          *)
LEMMA FirstUnit ==
  ASSUME KindsTyped, ReaderTyped, InOrder, Len(buf) > 0
  PROVE  /\ buf[1][1] \in 1 .. CtrlMax
         /\ doubles = 0 => Len(handled) < CtrlMax /\ buf[1][1] = Len(handled) + 1
<1>1. buf[1] \in Unit /\ Len(handled) \in Nat /\ net \in Seq(Unit) /\ buf \in Seq(Unit)
  BY DEF ReaderTyped
<1>2. buf[1][1] \in 1 .. CtrlMax
  BY <1>1 DEF Unit
<1>3. ASSUME doubles = 0 PROVE Len(handled) < CtrlMax /\ buf[1][1] = Len(handled) + 1
  <2>1. PICK g : Laid(g) /\ buf \o net = g[Len(handled) + 1]
    BY <1>3 DEF InOrder
  <2>2. Len(buf \o net) = Len(buf) + Len(net) /\ (buf \o net)[1] = buf[1]
    BY <1>1
  <2>3. Len(handled) <= CtrlMax
    BY <1>3 DEF InOrder
  <2>4. Len(handled) # CtrlMax
    <3> SUFFICES ASSUME Len(handled) = CtrlMax PROVE FALSE
      OBVIOUS
    <3>1. Len(buf \o net) = 0
      BY <2>1 DEF Laid
    <3>. QED  BY <1>1, <2>2, <3>1
  <2>5. PICK i \in 1 .. CtrlMax : i = Len(handled) + 1
    BY <1>1, <2>3, <2>4, CtrlSizes
  <2>6. /\ Ctrl!Units(i) \in Seq(Unit) /\ g[i + 1] \in Seq(Unit)
        /\ Len(Ctrl!Units(i)) = 2 + SizeOf(i) /\ SizeOf(i) \in Nat /\ Ctrl!Units(i)[1] = <<i, 1>>
    <3>1. i + 1 \in 1 .. CtrlMax + 1
      BY CtrlSizes
    <3>2. SizeOf(i) \in Nat /\ \A k \in 1 .. 2 + SizeOf(i) : Ctrl!Units(i)[k] = <<i, k>>
      BY SizesRight
    <3>3. 1 \in 1 .. 2 + SizeOf(i)
      BY <3>2
    <3>. QED  BY <2>1, <3>1, <3>2, <3>3, SizesRight DEF Laid
  <2>7. (Ctrl!Units(i) \o g[i + 1])[1] = <<i, 1>>
    <3>1. 1 \in 1 .. Len(Ctrl!Units(i)) + Len(g[i + 1]) /\ 1 <= Len(Ctrl!Units(i))
      BY <2>6
    <3>. QED  BY <2>6, <3>1, ConcatProperties
  <2>8. buf[1] = <<i, 1>>
    BY <2>1, <2>2, <2>5, <2>7 DEF Laid
  <2>. QED  BY <1>1, <2>3, <2>4, <2>5, <2>8, CtrlSizes
<1>. QED  BY <1>2, <1>3

LEMMA HandleKeeps ==
  ASSUME ReadInv, pc = "loop", Ctrl!Whole, Ctrl!Takes, pc' \in {"loop", "sending", "crashed"}
  PROVE  ReadInv'
<1> USE DEF ReadInv
<1>1. PICK number : number = Ctrl!Number
  OBVIOUS
<1>2. PICK m : m = 2 + SizeOf(number)
  OBVIOUS
<1>3. /\ number = buf[1][1] /\ Ctrl!MessageSize = m
  BY <1>1, <1>2 DEF Ctrl!MessageSize, Ctrl!Number, SizeOf
<1>4. Len(buf) >= 2 /\ Len(buf) >= m
  BY <1>3 DEF Ctrl!Whole
<1>5. /\ buf \in Seq(Unit) /\ net \in Seq(Unit) /\ Len(buf) \in Nat
      /\ handled \in Seq((1 .. CtrlMax) \X Nat) /\ remote \in Nat
  BY DEF ReaderTyped
<1>6. /\ number \in 1 .. CtrlMax
      /\ doubles = 0 => Len(handled) < CtrlMax /\ number = Len(handled) + 1
  BY <1>3, <1>4, <1>5, FirstUnit
<1>7. SizeOf(number) \in Nat /\ m \in 0 .. Len(buf) /\ m >= 2
  BY <1>2, <1>4, <1>5, <1>6, SizesRight
<1>8. /\ buf' = SubSeq(buf, m + 1, Len(buf)) /\ handled' = Append(handled, <<number, remote>>)
      /\ remote' = (IF SizeOf(number) > 0 THEN remote + 1 ELSE remote)
      /\ UNCHANGED <<rudp, kinds, net, doubles, sink>>
  <2>1. m > 2 <=> SizeOf(number) > 0
    BY <1>2, <1>7
  <2>. QED  BY <1>1, <1>3, <2>1 DEF Ctrl!Takes, Ctrl!wire
<1>9. buf' \in Seq(Unit) /\ Len(buf') = Len(buf) - m
  <2>1. \A i \in m + 1 .. Len(buf) : buf[i] \in Unit
    BY <1>5, <1>7
  <2>2. /\ buf' \in Seq(Unit)
        /\ Len(buf') = IF m + 1 <= Len(buf) THEN Len(buf) - (m + 1) + 1 ELSE 0
    BY <1>5, <1>7, <1>8, <2>1, SubSeqProperties
  <2>. QED  BY <1>5, <1>7, <2>2
<1>10. /\ handled' \in Seq((1 .. CtrlMax) \X Nat) /\ Len(handled') = Len(handled) + 1
       /\ handled'[Len(handled) + 1] = <<number, remote>>
       /\ \A k \in 1 .. Len(handled) : handled'[k] = handled[k]
  <2>1. PICK x \in (1 .. CtrlMax) \X Nat : x = <<number, remote>>
    BY <1>5, <1>6
  <2>2. handled' = Append(handled, x)
    BY <1>8, <2>1
  <2>3. /\ Append(handled, x) \in Seq((1 .. CtrlMax) \X Nat)
        /\ Len(Append(handled, x)) = Len(handled) + 1
        /\ Append(handled, x)[Len(handled) + 1] = x
        /\ \A k \in 1 .. Len(handled) : Append(handled, x)[k] = handled[k]
    BY <1>5
  <2>. QED  BY <2>1, <2>2, <2>3
<1>11. KindsTyped' /\ ReaderTyped'
  <2>1. KindsTyped'
    BY <1>8 DEF KindsTyped, Ctrl!Payload
  <2>2. remote' \in Nat /\ net' \in Seq(Unit) /\ buf' \in Seq(Unit)
    BY <1>5, <1>8, <1>9
  <2>. QED  BY <1>8, <1>10, <2>1, <2>2 DEF ReaderTyped, Unit
<1>12. RoomKept'
  <2>1. Len(buf') <= Room
    BY <1>5, <1>7, <1>9, CtrlSizes DEF RoomKept
  <2>2. ASSUME rudp PROVE buf' = <<>> /\ \A i \in 1 .. CtrlMax : kinds[i] # "long"
    <3>1. buf # <<>>
      BY <1>4, <1>5
    <3>2. Len(buf) = m
      BY <1>2, <1>3, <2>2, <3>1 DEF RoomKept
    <3>. QED  BY <1>5, <1>9, <2>2, <3>2 DEF RoomKept
  <2>. QED  BY <1>8, <2>1, <2>2 DEF RoomKept
<1>13. InOrder'
  <2>1. CASE doubles # 0
    BY <1>8, <2>1 DEF InOrder
  <2>2. CASE doubles = 0
    <3>a. PICK n \in 0 .. CtrlMax :
            \E g : /\ Len(handled) = n /\ Laid(g) /\ buf \o net = g[n + 1]
                  /\ remote = Ctrl!Counter(n + 1)
                  /\ \A k \in 1 .. n : handled[k] = <<k, Ctrl!Counter(k)>>
      BY <2>2 DEF InOrder
    <3>1. PICK g : /\ Len(handled) = n /\ Laid(g) /\ buf \o net = g[n + 1]
                   /\ remote = Ctrl!Counter(n + 1)
                   /\ \A k \in 1 .. n : handled[k] = <<k, Ctrl!Counter(k)>>
      BY <3>a
    <3>2. number + 1 \in 1 .. CtrlMax + 1 /\ number = n + 1 /\ number \in 0 .. CtrlMax
      BY <1>5, <1>6, <2>2, <3>1, CtrlSizes
    <3>3. PICK u \in Seq(Unit) : u = Ctrl!Units(number) /\ Len(u) = m
      BY <1>2, <1>6, SizesRight
    <3>4. PICK v \in Seq(Unit) : v = g[number + 1]
      BY <3>1, <3>2 DEF Laid
    <3>5. buf \o net = u \o v
      BY <1>6, <3>1, <3>2, <3>3, <3>4 DEF Laid
    <3>6. buf' \o net = g[number + 1]
      <4>1. m = Len(u)
        BY <3>3
      <4>3. u \in Seq(Unit) /\ v \in Seq(Unit)
        BY <3>3, <3>4
      <4>2. buf \o net = u \o v => SubSeq(buf, m + 1, Len(buf)) \o net = v
        <5>1. buf \in Seq(Unit) /\ net \in Seq(Unit)
          BY <1>5
        <5>2. Len(u) <= Len(buf)
          BY <1>4, <4>1
        <5>3. TakenOff(buf, net, u, v)
          BY <4>3, <5>1, <5>2, TakeOff
        <5>. QED  BY <4>1, <5>3 DEF TakenOff
      <4>. QED  BY <1>8, <3>4, <3>5, <4>2
    <3>7. Laid(g)' /\ \A i : Ctrl!Counter(i)' = Ctrl!Counter(i)
      BY <1>8, <3>1, KindsKeep
    <3>8. remote' = Ctrl!Counter(number + 1)
      <4>1. Ctrl!Counter(number + 1) =
              IF SizeOf(number) > 0 THEN Ctrl!Counter(number) + 1 ELSE Ctrl!Counter(number)
        BY <1>6, CounterNext
      <4>. QED  BY <1>8, <3>1, <3>2, <4>1
    <3>9. ASSUME NEW k \in 1 .. number PROVE handled'[k] = <<k, Ctrl!Counter(k)'>>
      <4>1. CASE k = number
        BY <1>10, <3>1, <3>2, <3>7, <4>1
      <4>2. CASE k # number
        <5>1. k \in 1 .. n
          BY <3>2, <4>2
        <5>. QED  BY <1>10, <3>1, <3>7, <5>1
      <4>. QED  BY <4>1, <4>2
    <3>10. /\ Len(handled') = number /\ buf' \o net' = g[number + 1]
           /\ remote' = Ctrl!Counter(number + 1)'
      BY <1>8, <1>10, <3>1, <3>2, <3>6, <3>7, <3>8
    <3>. QED  BY <3>2, <3>7, <3>9, <3>10 DEF InOrder
  <2>. QED  BY <2>1, <2>2
<1>. QED  BY <1>11, <1>12, <1>13

LEMMA QuietKeeps ==
  ASSUME ReadInv, UNCHANGED <<rudp, kinds, net, doubles, buf, remote, handled>>,
         pc' = pc \/ (pc = "sending" /\ pc' = "loop")
  PROVE  ReadInv'
<1> USE DEF ReadInv
<1>1. KindsTyped' /\ ReaderTyped'
  BY DEF KindsTyped, ReaderTyped, Ctrl!Payload, Unit
<1>2. RoomKept'
  BY KindsKeep DEF RoomKept
<1>3. InOrder'
  BY KindsKeep DEF InOrder
<1>. QED  BY <1>1, <1>2, <1>3

LEMMA ArriveKeeps ==
  ASSUME ReadInv, NEW i \in DOMAIN kinds, Ctrl!ArrivesAgain(i)
  PROVE  ReadInv'
<1> USE DEF ReadInv
<1>1. /\ pc = "select" /\ doubles < Doubles /\ doubles' = doubles + 1 /\ net' = Ctrl!Units(i) \o net
      /\ UNCHANGED <<rudp, pc, kinds, buf, remote, handled>>
  BY DEF Ctrl!ArrivesAgain, Ctrl!receiver
<1>2. doubles' \in 0 .. Doubles /\ doubles' # 0
  BY <1>1, CtrlSizes DEF ReaderTyped
<1>3. net' \in Seq(Unit)
  <2>1. i \in 1 .. CtrlMax
    BY DEF KindsTyped
  <2>2. Ctrl!Units(i) \in Seq(Unit) /\ net \in Seq(Unit)
    BY <2>1, SizesRight DEF ReaderTyped
  <2>. QED  BY <1>1, <2>2, ConcatProperties
<1>4. KindsTyped' /\ ReaderTyped'
  BY <1>1, <1>2, <1>3 DEF KindsTyped, ReaderTyped, Ctrl!Payload, Unit
<1>5. RoomKept'
  BY <1>1, KindsKeep DEF RoomKept
<1>6. InOrder'
  BY <1>2 DEF InOrder
<1>. QED  BY <1>4, <1>5, <1>6

LEMMA IncompleteKeeps ==
  ASSUME ReadInv, Ctrl!Incomplete
  PROVE  ReadInv'
<1> USE DEF ReadInv
<1>1. /\ pc = "loop" /\ ~Ctrl!Whole /\ pc' \in {"failed", "select"}
      /\ UNCHANGED <<rudp, kinds, net, doubles, buf, remote, handled>>
  BY DEF Ctrl!Incomplete, Ctrl!receiver, Ctrl!wire
<1>2. KindsTyped' /\ ReaderTyped'
  BY <1>1 DEF KindsTyped, ReaderTyped, Ctrl!Payload, Unit
<1>3. rudp => buf = <<>>
  <2> SUFFICES ASSUME rudp, buf # <<>> PROVE FALSE
    OBVIOUS
  <2>1. Len(buf) = 2 + SizeOf(buf[1][1])
    BY <1>1 DEF RoomKept
  <2>2. SizeOf(buf[1][1]) \in Nat
    <3>1. Len(buf) > 0
      BY DEF ReaderTyped
    <3>. QED  BY <3>1, FirstUnit, SizesRight
  <2>3. Ctrl!MessageSize = 2 + SizeOf(buf[1][1])
    BY DEF Ctrl!MessageSize, Ctrl!Number, SizeOf
  <2>. QED  BY <1>1, <2>1, <2>2, <2>3 DEF Ctrl!Whole
<1>4. RoomKept'
  BY <1>1, <1>3 DEF RoomKept
<1>5. InOrder'
  BY <1>1, KindsKeep DEF InOrder
<1>. QED  BY <1>2, <1>4, <1>5

(* Units that are moved to recv_buf stay in order.                          *)
LEMMA MovedInOrder ==
  ASSUME ReadInv, UNCHANGED <<kinds, doubles, remote, handled>>, buf' \o net' = buf \o net
  PROVE  InOrder'
<1>1. CASE doubles # 0
  BY <1>1 DEF InOrder
<1>2. CASE doubles = 0
  <2>1. PICK n \in 0 .. CtrlMax :
          \E g : /\ Len(handled) = n /\ Laid(g) /\ buf \o net = g[n + 1]
                 /\ remote = Ctrl!Counter(n + 1)
                 /\ \A k \in 1 .. n : handled[k] = <<k, Ctrl!Counter(k)>>
    BY <1>2 DEF InOrder, ReadInv
  <2>2. PICK g : /\ Len(handled) = n /\ Laid(g) /\ buf \o net = g[n + 1]
                 /\ remote = Ctrl!Counter(n + 1)
                 /\ \A k \in 1 .. n : handled[k] = <<k, Ctrl!Counter(k)>>
    BY <2>1
  <2>3. Laid(g)' /\ \A i : Ctrl!Counter(i)' = Ctrl!Counter(i)
    BY <2>2, KindsKeep
  <2>4. /\ Len(handled') = n /\ buf' \o net' = g[n + 1] /\ remote' = Ctrl!Counter(n + 1)'
        /\ \A k \in 1 .. n : handled'[k] = <<k, Ctrl!Counter(k)'>>
    BY <2>2, <2>3
  <2>. QED  BY <2>3, <2>4 DEF InOrder
<1>. QED  BY <1>1, <1>2

LEMMA ResponseReads ==
  ASSUME ReadInv, Ctrl!Response
  PROVE  ReadInv'
<1> USE DEF ReadInv
<1>1. /\ pc = "response" /\ pc' \in {"loop", "crashed"}
      /\ UNCHANGED <<rudp, kinds, doubles, remote, handled>>
  BY DEF Ctrl!Response, Ctrl!Tells
<1>2. PICK n \in 0 .. Len(net) :
        /\ n <= Room /\ (rudp => n = 0)
        /\ buf' = SubSeq(net, 1, n) /\ net' = SubSeq(net, n + 1, Len(net))
  BY DEF Ctrl!Response
<1>3. buf = <<>> /\ net \in Seq(Unit)
  BY <1>1 DEF RoomKept, ReaderTyped
<1>4. /\ SubSeq(net, 1, n) \in Seq(Unit) /\ Len(SubSeq(net, 1, n)) = n
      /\ SubSeq(net, n + 1, Len(net)) \in Seq(Unit)
      /\ SubSeq(net, 1, n) \o SubSeq(net, n + 1, Len(net)) = net
  <2>1. net \in Seq(Unit)
    BY <1>3
  <2>. QED  BY <2>1, CutInTwo
<1>5. buf' \in Seq(Unit) /\ Len(buf') = n /\ net' \in Seq(Unit) /\ buf' \o net' = net
  BY <1>2, <1>4, Zenon
<1>6. KindsTyped' /\ ReaderTyped'
  BY <1>1, <1>5 DEF KindsTyped, ReaderTyped, Ctrl!Payload, Unit
<1>7. RoomKept'
  <2>1. rudp => buf' = <<>>
    BY <1>2, <1>5
  <2>. QED  BY <1>1, <1>2, <1>5, <2>1 DEF RoomKept
<1>8. InOrder'
  <2>1. buf \o net = net
    BY <1>3, ConcatEmptySeq
  <2>. QED  BY <1>1, <1>5, <2>1, MovedInOrder
<1>. QED  BY <1>6, <1>7, <1>8

LEMMA ReceivedReads ==
  ASSUME ReadInv, Ctrl!Received
  PROVE  ReadInv'
<1> USE DEF ReadInv
<1>1. /\ pc = "select" /\ pc' = "loop" /\ net # <<>>
      /\ UNCHANGED <<rudp, kinds, doubles, remote, handled>>
  BY DEF Ctrl!Received
<1>2. PICK n \in 1 .. Len(net) :
        /\ IF rudp THEN n = 2 + SizeOf(net[1][1]) ELSE n <= Room - Len(buf)
        /\ buf' = buf \o SubSeq(net, 1, n) /\ net' = SubSeq(net, n + 1, Len(net))
  BY DEF Ctrl!Received, SizeOf
<1>3. buf \in Seq(Unit) /\ net \in Seq(Unit) /\ n \in 0 .. Len(net)
  BY DEF ReaderTyped
<1>4. /\ buf \o SubSeq(net, 1, n) \in Seq(Unit) /\ SubSeq(net, n + 1, Len(net)) \in Seq(Unit)
      /\ Len(buf \o SubSeq(net, 1, n)) = Len(buf) + n
      /\ (buf \o SubSeq(net, 1, n)) \o SubSeq(net, n + 1, Len(net)) = buf \o net
      /\ buf = <<>> /\ n > 0 => (buf \o SubSeq(net, 1, n))[1] = net[1]
  <2>1. MovedOver(Unit, buf, net, n)
    BY <1>3, MoveOver
  <2>. QED  BY <2>1 DEF MovedOver
<1>5. /\ buf' \in Seq(Unit) /\ Len(buf') = Len(buf) + n /\ net' \in Seq(Unit)
      /\ buf' \o net' = buf \o net
      /\ buf = <<>> /\ n > 0 => buf'[1] = net[1]
  BY <1>2, <1>4, Zenon
<1>6. KindsTyped' /\ ReaderTyped'
  BY <1>1, <1>5 DEF KindsTyped, ReaderTyped, Ctrl!Payload, Unit
<1>7. RoomKept'
  <2>1. CASE ~rudp
    BY <1>1, <1>2, <1>3, <1>5, <2>1, CtrlSizes DEF RoomKept
  <2>2. CASE rudp
    <3>1. buf = <<>> /\ Len(buf) = 0
      BY <1>1, <2>2 DEF RoomKept
    <3>2. net[1] \in Unit
      BY <1>3
    <3>3. PICK i \in 1 .. CtrlMax : i = net[1][1]
      BY <3>2 DEF Unit
    <3>4. SizeOf(i) \in Nat /\ SizeOf(i) <= 1
      BY <2>2, SizesRight DEF RoomKept
    <3>5. Len(buf') = n /\ n = 2 + SizeOf(i) /\ buf'[1][1] = i
      BY SMTT(30), <1>2, <1>5, <2>2, <3>1, <3>3
    <3>6. SizeOf(i)' = SizeOf(i)
      BY <1>1, KindsKeep
    <3>. QED  BY <1>1, <2>2, <3>4, <3>5, <3>6, CtrlSizes DEF RoomKept, SizeOf, Ctrl!Payload
  <2>. QED  BY <2>1, <2>2
<1>8. InOrder'
  BY <1>1, <1>5, MovedInOrder
<1>. QED  BY <1>6, <1>7, <1>8

LEMMA ReadStart == Ctrl!Init => ReadInv
<1> SUFFICES ASSUME Ctrl!Init PROVE ReadInv
  OBVIOUS
<1>1. /\ rudp \in BOOLEAN /\ pc = "response" /\ net = Ctrl!UnitsFrom[1] /\ doubles = 0
      /\ buf = <<>> /\ remote = 0 /\ handled = <<>>
      /\ rudp => \A i \in 1 .. CtrlMax : kinds[i] # "long"
  BY DEF Ctrl!Init
<1>2. KindsTyped
  BY DEF Ctrl!Init, KindsTyped
<1>3. Laid(Ctrl!UnitsFrom) /\ Ctrl!Counter(1) = 0
  BY <1>2, UnitsLaid, CounterNext
<1>4. net \in Seq(Unit)
  <2>1. 1 \in 1 .. CtrlMax + 1
    BY CtrlSizes
  <2>. QED  BY <1>1, <1>3, <2>1 DEF Laid
<1>5. buf \in Seq(Unit) /\ Len(buf) = 0 /\ handled \in Seq((1 .. CtrlMax) \X Nat) /\ Len(handled) = 0
  BY <1>1, EmptySeq
<1>6. ReaderTyped
  BY <1>1, <1>4, <1>5, CtrlSizes DEF ReaderTyped
<1>7. RoomKept
  BY <1>1, <1>5, CtrlSizes DEF RoomKept
<1>8. InOrder
  <2>1. buf \o net = net
    BY <1>1, <1>4, ConcatEmptySeq
  <2>2. 0 \in 0 .. CtrlMax /\ 0 + 1 = 1
    BY CtrlSizes
  <2>3. /\ Len(handled) = 0 /\ buf \o net = Ctrl!UnitsFrom[0 + 1] /\ remote = Ctrl!Counter(0 + 1)
        /\ \A k \in 1 .. 0 : handled[k] = <<k, Ctrl!Counter(k)>>
    BY <1>1, <1>3, <1>5, <2>1, <2>2
  <2>. QED  BY <1>3, <2>2, <2>3 DEF InOrder
<1>. QED  BY <1>2, <1>6, <1>7, <1>8 DEF ReadInv

(* A message is handled, and what its handler does.                         *)
Handling == Ctrl!Heartbeat \/ Ctrl!SessionId \/ Ctrl!DisplayA \/ Ctrl!DisplayB
LEMMA HandlingTakes ==
  ASSUME Handling
  PROVE  /\ pc = "loop" /\ Ctrl!Whole /\ Ctrl!Takes /\ pc' \in {"loop", "sending", "crashed"}
<1>1. CASE Ctrl!Heartbeat
  BY <1>1 DEF Ctrl!Heartbeat, Ctrl!Handles
<1>2. CASE Ctrl!SessionId
  BY <1>2 DEF Ctrl!SessionId, Ctrl!Handles
<1>3. CASE Ctrl!DisplayA
  BY <1>3 DEF Ctrl!DisplayA, Ctrl!Handles, Ctrl!Tells
<1>4. CASE Ctrl!DisplayB
  BY <1>4 DEF Ctrl!DisplayB, Ctrl!Handles, Ctrl!Tells
<1>. QED  BY <1>1, <1>2, <1>3, <1>4 DEF Handling

Sending == Ctrl!Replied \/ Ctrl!Fallback \/ \E t \in Ctrl!Both : Ctrl!Sends(t)
LEMMA SendingReads ==
  ASSUME Sending
  PROVE  /\ UNCHANGED <<rudp, kinds, net, doubles, buf, remote, handled, cantA, cantB, shown, sink>>
         /\ pc' = pc \/ (pc = "sending" /\ pc' = "loop")
<1>1. CASE Ctrl!Replied
  BY <1>1 DEF Ctrl!Replied, Ctrl!SendOnly, Ctrl!wire, Ctrl!receiver, Ctrl!display
<1>2. CASE Ctrl!Fallback
  BY <1>2 DEF Ctrl!Fallback, Ctrl!wire, Ctrl!receiver, Ctrl!display
<1>3. ASSUME NEW t \in Ctrl!Both, Ctrl!Sends(t)
      PROVE  /\ UNCHANGED <<rudp, kinds, net, doubles, buf, remote, handled, cantA, cantB, shown, sink>>
             /\ pc' = pc
  BY <1>3 DEF Ctrl!Sends, Ctrl!Enciphers, Ctrl!SendHeader, Ctrl!SendPayload, Ctrl!SendOnly,
     Ctrl!wire, Ctrl!receiver, Ctrl!display
<1>. QED  BY <1>1, <1>2, <1>3 DEF Sending

(* Every step of the ctrl connection is of one of these kinds.              *)
LEMMA CtrlSteps ==
  Ctrl!Next =>
    \/ \E i \in DOMAIN kinds : Ctrl!ArrivesAgain(i)
    \/ Ctrl!Response \/ Ctrl!Received \/ Ctrl!Incomplete \/ Handling \/ Sending
BY DEF Ctrl!Next, Ctrl!Work, Ctrl!Reads, Handling, Sending

LEMMA ReadStep == ReadInv /\ [Ctrl!Next]_steering => ReadInv'
<1> SUFFICES ASSUME ReadInv, [Ctrl!Next]_steering PROVE ReadInv'
  OBVIOUS
<1>1. CASE UNCHANGED steering
  BY <1>1, QuietKeeps DEF steering
<1>2. CASE \E i \in DOMAIN kinds : Ctrl!ArrivesAgain(i)
  BY <1>2, ArriveKeeps
<1>3. CASE Ctrl!Response
  BY <1>3, ResponseReads
<1>4. CASE Ctrl!Received
  BY <1>4, ReceivedReads
<1>5. CASE Ctrl!Incomplete
  BY <1>5, IncompleteKeeps
<1>6. CASE Handling
  BY <1>6, HandlingTakes, HandleKeeps
<1>7. CASE Sending
  BY <1>7, SendingReads, QuietKeeps
<1>. QED  BY <1>1, <1>2, <1>3, <1>4, <1>5, <1>6, <1>7, CtrlSteps

(* A thread that has nothing to send is idle; the ctrl thread sends between *)
(* two messages, the session thread once, for want of a session id.         *)
ReplyPlaces ==
  /\ pc \in {"response", "loop", "select"} => out["ctrl"] = Ctrl!Idle
  /\ ~known => out["session"] = Ctrl!Idle
  /\ \A t \in Ctrl!Both : out[t].at # "idle" => out[t].todo # <<>>

(* As long as never both threads were sending, the console expects the      *)
(* counter that comes next, or the one that was given to the one sender.    *)
NobodySends ==
  /\ \A t \in Ctrl!Both : out[t].at = "idle"
  /\ ~understood.body /\ local = understood.next
OneSends(t) ==
  /\ \A u \in Ctrl!Both \ {t} : out[u].at = "idle"
  /\ out[t].at # "idle" /\ (understood.body <=> out[t].at = "payload")
  /\ IF Head(out[t].todo) = 0 THEN out[t].at = "header" /\ local = understood.next
     ELSE out[t].num = understood.next /\ local = understood.next + 1
ConsoleInv == clash \/ (~understood.lost /\ (NobodySends \/ \E t \in Ctrl!Both : OneSends(t)))

EchoInv == SendersTyped /\ ReplyPlaces /\ ConsoleInv

LEMMA IdleSends == Ctrl!Idle \in SenderType /\ Ctrl!Idle.at = "idle" /\ Ctrl!Idle.todo = <<>>
<1>1. <<>> \in Seq({0, 1})
  BY EmptySeq
<1>. QED  BY <1>1 DEF Ctrl!Idle, SenderType

LEMMA EchoStart == Ctrl!Init => EchoInv
<1> SUFFICES ASSUME Ctrl!Init PROVE EchoInv
  OBVIOUS
<1>1. /\ known = FALSE /\ local = 0 /\ out = [t \in Ctrl!Both |-> Ctrl!Idle] /\ clash = FALSE
      /\ understood = [next |-> 0, body |-> FALSE, lost |-> FALSE]
  BY DEF Ctrl!Init
<1>2. \A t \in Ctrl!Both : out[t] = Ctrl!Idle
  BY <1>1
<1>3. SendersTyped
  BY <1>1, IdleSends DEF SendersTyped, EchoType
<1>4. ReplyPlaces
  BY <1>2, IdleSends DEF ReplyPlaces, Ctrl!Both
<1>5. ConsoleInv
  <2>1. ~understood.lost /\ ~understood.body /\ local = understood.next
    BY <1>1
  <2>. QED  BY <1>2, <2>1, IdleSends DEF ConsoleInv, NobodySends
<1>. QED  BY <1>3, <1>4, <1>5 DEF EchoInv

LEMMA EchoQuiet ==
  ASSUME EchoInv, UNCHANGED <<local, out, understood, clash>>, known' = known,
         pc' \in {"response", "loop", "select"} => pc \in {"response", "loop", "select"}
  PROVE  EchoInv'
<1>1. SendersTyped'
  BY DEF EchoInv, SendersTyped, Ctrl!Both, SenderType, EchoType
<1>2. ReplyPlaces'
  BY DEF EchoInv, ReplyPlaces, Ctrl!Both, Ctrl!Idle
<1>3. ConsoleInv'
  BY DEF EchoInv, ConsoleInv, NobodySends, OneSends, Ctrl!Both
<1>. QED  BY <1>1, <1>2, <1>3 DEF EchoInv

(* A thread is given what it has to send.                                   *)
LEMMA StartsKeeps ==
  ASSUME EchoInv, NEW t \in Ctrl!Both, NEW sizes \in Seq({0, 1}), Ctrl!Starts(t, sizes),
         out[t] = Ctrl!Idle, known' \in BOOLEAN,
         t = "ctrl" => pc' = "sending" /\ known' \in {known, TRUE},
         t = "session" => pc' = pc /\ known' = TRUE
  PROVE  EchoInv'
<1> USE DEF EchoInv
<1>1. PICK s : s = [Ctrl!Idle EXCEPT !.todo = sizes]
  OBVIOUS
<1>2. s \in SenderType /\ s.at = "idle"
  BY <1>1 DEF Ctrl!Idle, SenderType
<1>3. out' = [out EXCEPT ![t] = s] /\ UNCHANGED <<local, understood, clash>>
  BY <1>1 DEF Ctrl!Starts
<1>4. out \in [Ctrl!Both -> SenderType]
  BY DEF SendersTyped
<1>5. /\ out' \in [Ctrl!Both -> SenderType] /\ out'[t] = s
      /\ \A u \in Ctrl!Both \ {t} : out'[u] = out[u]
  BY <1>2, <1>3, <1>4
<1>6. \A u \in Ctrl!Both : out'[u].at = out[u].at
  BY <1>2, <1>5, IdleSends
<1>7. SendersTyped'
  BY <1>3, <1>5 DEF SendersTyped, EchoType, SenderType, Ctrl!Both
<1>8. ReplyPlaces'
  <2>1. \A u \in Ctrl!Both : out'[u].at # "idle" => out'[u].todo # <<>>
    BY <1>2, <1>5 DEF ReplyPlaces
  <2>2. CASE t = "ctrl"
    <3>1. out'["session"] = out["session"]
      BY <1>5, <2>2 DEF Ctrl!Both
    <3>. QED  BY <2>1, <2>2, <3>1 DEF ReplyPlaces, Ctrl!Both, Ctrl!Idle
  <2>3. CASE t = "session"
    <3>1. out'["ctrl"] = out["ctrl"]
      BY <1>5, <2>3 DEF Ctrl!Both
    <3>. QED  BY <2>1, <2>3, <3>1 DEF ReplyPlaces, Ctrl!Both, Ctrl!Idle
  <2>. QED  BY <2>2, <2>3 DEF Ctrl!Both
<1>9. ConsoleInv'
  <2>1. CASE clash
    BY <1>3, <2>1 DEF ConsoleInv
  <2>2. CASE ~clash /\ NobodySends
    <3>1. NobodySends'
      BY <1>3, <1>6, <2>2 DEF NobodySends, Ctrl!Both
    <3>. QED  BY <1>3, <2>2, <3>1 DEF ConsoleInv
  <2>3. ASSUME ~clash, NEW v \in Ctrl!Both, OneSends(v) PROVE ConsoleInv'
    <3>1. v # t
      BY <2>3, IdleSends DEF OneSends
    <3>2. out'[v] = out[v]
      BY <1>5, <3>1
    <3>3. OneSends(v)'
      BY <1>3, <1>6, <2>3, <3>2 DEF OneSends, Ctrl!Both
    <3>. QED  BY <1>3, <2>3, <3>3 DEF ConsoleInv, Ctrl!Both
  <2>. QED  BY <2>1, <2>2, <2>3 DEF ConsoleInv
<1>. QED  BY <1>7, <1>8, <1>9

(* A thread that has something to send goes on with it.                     *)
Goes(t, s) ==
  /\ out'[t] = s /\ out' \in [Ctrl!Both -> SenderType]
  /\ \A u \in Ctrl!Both \ {t} : out'[u] = out[u]
LEMMA SenderGoes ==
  ASSUME EchoInv, NEW t \in Ctrl!Both, NEW s \in SenderType, out[t].todo # <<>>,
         out' = [out EXCEPT ![t] = s], s.at # "idle" => s.todo # <<>>, UNCHANGED <<pc, known>>
  PROVE  Goes(t, s) /\ ReplyPlaces'
<1>1. out \in [Ctrl!Both -> SenderType]
  BY DEF EchoInv, SendersTyped
<1>2. Goes(t, s)
  BY <1>1 DEF Goes
<1>3. \A u \in Ctrl!Both : out'[u].at # "idle" => out'[u].todo # <<>>
  BY <1>2 DEF Goes, EchoInv, ReplyPlaces
<1>4. out[t] # Ctrl!Idle
  BY IdleSends
<1>5. CASE t = "ctrl"
  <2>1. out'["session"] = out["session"]
    BY <1>2, <1>5 DEF Goes, Ctrl!Both
  <2>. QED  BY <1>2, <1>3, <1>4, <1>5, <2>1 DEF EchoInv, ReplyPlaces, Ctrl!Both, Ctrl!Idle
<1>6. CASE t = "session"
  <2>1. out'["ctrl"] = out["ctrl"]
    BY <1>2, <1>6 DEF Goes, Ctrl!Both
  <2>. QED  BY <1>2, <1>3, <1>4, <1>6, <2>1 DEF EchoInv, ReplyPlaces, Ctrl!Both, Ctrl!Idle
<1>. QED  BY <1>2, <1>5, <1>6 DEF Ctrl!Both

LEMMA TodoSizes ==
  ASSUME NEW s \in SenderType, s.todo # <<>>
  PROVE  Head(s.todo) \in {0, 1} /\ Tail(s.todo) \in Seq({0, 1})
<1>1. s.todo \in Seq({0, 1})
  BY DEF SenderType
<1>. QED  BY <1>1, HeadTailProperties

(* The one that is in the middle of a message is the only one, unless both  *)
(* were sending at a time.                                                  *)
LEMMA OnlyOne ==
  ASSUME EchoInv, ~clash, NEW t \in Ctrl!Both, out[t].at # "idle"
  PROVE  ~understood.lost /\ OneSends(t)
BY DEF EchoInv, ConsoleInv, NobodySends, OneSends

LEMMA NowNobody ==
  ASSUME NEW t \in Ctrl!Both, NEW s \in SenderType, Goes(t, s), s.at = "idle",
         \A u \in Ctrl!Both \ {t} : out[u].at = "idle"
  PROVE  \A u \in Ctrl!Both : out'[u].at = "idle"
BY DEF Goes

LEMMA EnciphersKeeps ==
  ASSUME EchoInv, NEW t \in Ctrl!Both, Ctrl!Enciphers(t)
  PROVE  EchoInv'
<1>1. /\ out[t].at = "idle" /\ out[t].todo # <<>> /\ UNCHANGED <<pc, understood, known>>
      /\ clash' = (clash \/ \E u \in Ctrl!Both : Ctrl!Busy(u))
  BY DEF Ctrl!Enciphers, Ctrl!SendOnly
<1>2. PICK n \in {local} \cup Ctrl!Racing :
        /\ out' = [out EXCEPT ![t].at = "header", ![t].num = n]
        /\ local' = IF Head(out[t].todo) = 0 THEN local ELSE n + 1
  BY DEF Ctrl!Enciphers
<1>3. /\ local \in Nat /\ out \in [Ctrl!Both -> SenderType] /\ understood \in EchoType
      /\ clash \in BOOLEAN /\ known \in BOOLEAN
  BY DEF EchoInv, SendersTyped
<1>4. n \in Nat
  <2>1. \A u \in Ctrl!Both : out[u].num \in Nat
    BY <1>3 DEF SenderType
  <2>. QED  BY <1>3, <2>1 DEF Ctrl!Racing
<1>5. PICK s \in SenderType : s = [todo |-> out[t].todo, at |-> "header", num |-> n]
  BY <1>3, <1>4 DEF SenderType
<1>6. s.at = "header" /\ s.num = n /\ s.todo = out[t].todo
  BY <1>5
<1>7. out' = [out EXCEPT ![t] = s]
  <2>1. out[t] \in SenderType
    BY <1>3
  <2>2. [out[t] EXCEPT !.at = "header", !.num = n] = s
    <3>1. PICK r \in SenderType : r = out[t]
      BY <2>1
    <3>2. PICK one \in SenderType : one = [r EXCEPT !.at = "header"]
      BY DEF SenderType
    <3>3. one.todo = r.todo /\ one.at = "header"
      BY <3>2 DEF SenderType
    <3>4. [one EXCEPT !.num = n] = [todo |-> one.todo, at |-> one.at, num |-> n]
      BY DEF SenderType
    <3>5. [r EXCEPT !.at = "header", !.num = n] = [one EXCEPT !.num = n]
      BY <3>2
    <3>. QED  BY <1>5, <3>1, <3>3, <3>4, <3>5
  <2>3. PICK half : half = [out EXCEPT ![t].at = "header"]
    OBVIOUS
  <2>4. half = [out EXCEPT ![t] = [out[t] EXCEPT !.at = "header"]]
    BY <2>3
  <2>5. out' = [half EXCEPT ![t] = [half[t] EXCEPT !.num = n]]
    BY <1>2, <2>3
  <2>6. half[t] = [out[t] EXCEPT !.at = "header"] /\ DOMAIN half = DOMAIN out
    BY <1>3, <2>4
  <2>7. [half[t] EXCEPT !.num = n] = s
    BY <2>2, <2>6
  <2>. QED  BY <1>3, <2>4, <2>5, <2>7
<1>8. Goes(t, s) /\ ReplyPlaces'
  BY <1>1, <1>6, <1>7, SenderGoes
<1>9. Head(s.todo) \in {0, 1}
  BY <1>1, <1>6, TodoSizes
<1>10. SendersTyped'
  <2>1. clash' \in BOOLEAN
    BY <1>1, <1>3
  <2>2. local' \in Nat
    BY <1>2, <1>3, <1>4
  <2>. QED  BY <1>1, <1>3, <1>8, <2>1, <2>2 DEF Goes, SendersTyped, EchoType, SenderType, Ctrl!Both
<1>11. ConsoleInv'
  <2> SUFFICES ASSUME ~clash' PROVE ConsoleInv'
    BY DEF ConsoleInv
  <2>1. ~clash /\ \A u \in Ctrl!Both : out[u].at = "idle"
    BY <1>1 DEF Ctrl!Busy
  <2>2. n = local
    BY <2>1 DEF Ctrl!Racing
  <2>3. ~understood.lost /\ ~understood.body /\ local = understood.next
    BY <2>1 DEF EchoInv, ConsoleInv, NobodySends, OneSends
  <2>4. out'[t] = s /\ \A u \in Ctrl!Both \ {t} : out'[u].at = "idle"
    BY <1>8, <2>1 DEF Goes
  <2>5. OneSends(t)'
    <3>1. /\ \A u \in Ctrl!Both \ {t} : out'[u].at = "idle"
          /\ out'[t].at # "idle" /\ (understood'.body <=> out'[t].at = "payload")
      BY <1>1, <1>6, <2>3, <2>4
    <3>2. IF Head(out'[t].todo) = 0 THEN out'[t].at = "header" /\ local' = understood'.next
          ELSE out'[t].num = understood'.next /\ local' = understood'.next + 1
      BY <1>1, <1>2, <1>6, <2>2, <2>3, <2>4
    <3>. QED  BY <3>1, <3>2 DEF OneSends, Ctrl!Both
  <2>. QED  BY <1>1, <2>3, <2>5 DEF ConsoleInv, Ctrl!Both
<1>. QED  BY <1>8, <1>10, <1>11 DEF EchoInv

(* A message is out, and the console has read it.                           *)
LEMMA DoneKeeps ==
  ASSUME EchoInv, NEW t \in Ctrl!Both, out[t].at # "idle", Ctrl!Done(t), understood' \in EchoType,
         UNCHANGED <<pc, known, local, clash>>,
         ~clash => ~understood'.lost /\ ~understood'.body /\ local = understood'.next
  PROVE  EchoInv'
<1>1. /\ out \in [Ctrl!Both -> SenderType] /\ known \in BOOLEAN /\ local \in Nat /\ clash \in BOOLEAN
  BY DEF EchoInv, SendersTyped
<1>2. out[t].todo # <<>>
  BY DEF EchoInv, ReplyPlaces
<1>3. PICK s : s = [Ctrl!Idle EXCEPT !.todo = Tail(out[t].todo)]
  OBVIOUS
<1>4. s \in SenderType /\ s.at = "idle"
  <2>1. Tail(out[t].todo) \in Seq({0, 1})
    BY <1>1, <1>2, TodoSizes
  <2>. QED  BY <1>3, <2>1 DEF Ctrl!Idle, SenderType
<1>5. out' = [out EXCEPT ![t] = s]
  BY <1>3 DEF Ctrl!Done
<1>6. Goes(t, s) /\ ReplyPlaces'
  BY <1>2, <1>4, <1>5, SenderGoes
<1>7. SendersTyped'
  BY <1>1, <1>6 DEF Goes, SendersTyped, SenderType, Ctrl!Both, EchoType
<1>8. ConsoleInv'
  <2> SUFFICES ASSUME ~clash PROVE ConsoleInv'
    BY DEF ConsoleInv
  <2>1. \A u \in Ctrl!Both \ {t} : out[u].at = "idle"
    BY OnlyOne DEF OneSends
  <2>2. \A u \in Ctrl!Both : out'[u].at = "idle"
    BY <1>4, <1>6, <2>1, NowNobody
  <2>. QED  BY <2>2 DEF ConsoleInv, NobodySends, Ctrl!Both
<1>. QED  BY <1>6, <1>7, <1>8 DEF EchoInv

LEMMA SendHeaderKeeps ==
  ASSUME EchoInv, NEW t \in Ctrl!Both, Ctrl!SendHeader(t)
  PROVE  EchoInv'
<1>1. out[t].at = "header" /\ UNCHANGED <<pc, known, local, clash>>
  BY DEF Ctrl!SendHeader, Ctrl!SendOnly
<1>2. /\ out \in [Ctrl!Both -> SenderType] /\ understood \in EchoType
      /\ known \in BOOLEAN /\ local \in Nat /\ clash \in BOOLEAN
  BY DEF EchoInv, SendersTyped
<1>3. out[t].todo # <<>> /\ Head(out[t].todo) \in {0, 1}
  BY <1>1, <1>2, TodoSizes DEF EchoInv, ReplyPlaces
<1>4. ~clash => /\ ~understood.lost /\ ~understood.body /\ \A u \in Ctrl!Both \ {t} : out[u].at = "idle"
                /\ IF Head(out[t].todo) = 0 THEN local = understood.next
                   ELSE out[t].num = understood.next /\ local = understood.next + 1
  BY <1>1, OnlyOne DEF OneSends
<1>5. CASE Head(out[t].todo) = 0 /\ understood' = [understood EXCEPT !.lost = @ \/ understood.body] /\ Ctrl!Done(t)
  <2>1. /\ understood' \in EchoType /\ understood'.body = understood.body
        /\ understood'.next = understood.next
        /\ (~understood.lost /\ ~understood.body => ~understood'.lost)
    BY <1>2, <1>5 DEF EchoType
  <2>. QED  BY <1>1, <1>4, <1>5, <2>1, DoneKeeps
<1>6. CASE Head(out[t].todo) > 0 /\ understood' = Ctrl!Deciphered(t, TRUE) /\ Ctrl!Done(t)
  <2>1. /\ understood' \in EchoType /\ ~understood'.body /\ understood'.next = understood.next + 1
        /\ (~understood.lost /\ out[t].num = understood.next => ~understood'.lost)
    BY <1>2, <1>6 DEF EchoType, Ctrl!Deciphered
  <2>2. ~clash => ~understood.lost /\ out[t].num = understood.next /\ local = understood.next + 1
    <3>1. Head(out[t].todo) # 0
      BY <1>6
    <3>. QED  BY <1>4, <3>1
  <2>3. ~clash => ~understood'.lost /\ ~understood'.body /\ local = understood'.next
    BY <2>1, <2>2
  <2>. QED  BY <1>1, <1>6, <2>1, <2>3, DoneKeeps
<1>7. CASE /\ Head(out[t].todo) > 0 /\ out' = [out EXCEPT ![t].at = "payload"]
           /\ understood' = [understood EXCEPT !.lost = @ \/ understood.body, !.body = TRUE]
  <2>1. /\ understood' \in EchoType /\ understood'.body /\ understood'.next = understood.next
        /\ (~understood.lost /\ ~understood.body => ~understood'.lost)
    BY <1>2, <1>7 DEF EchoType
  <2>2. PICK s \in SenderType : s = [todo |-> out[t].todo, at |-> "payload", num |-> out[t].num]
    BY <1>2 DEF SenderType
  <2>3. s.at = "payload" /\ s.num = out[t].num /\ s.todo = out[t].todo
    BY <2>2
  <2>4. out' = [out EXCEPT ![t] = s]
    <3>1. out[t] \in SenderType
      BY <1>2
    <3>2. [out[t] EXCEPT !.at = "payload"] = s
      BY <2>2, <3>1 DEF SenderType
    <3>. QED  BY <1>2, <1>7, <3>2
  <2>5. Goes(t, s) /\ ReplyPlaces'
    BY <1>1, <1>3, <2>3, <2>4, SenderGoes
  <2>6. SendersTyped'
    BY <1>1, <1>2, <2>1, <2>5 DEF Goes, SendersTyped, SenderType, Ctrl!Both, EchoType
  <2>7. ConsoleInv'
    <3> SUFFICES ASSUME ~clash PROVE ConsoleInv'
      BY <1>1 DEF ConsoleInv
    <3>1. out'[t] = s /\ \A u \in Ctrl!Both \ {t} : out'[u].at = "idle"
      BY <1>4, <2>5 DEF Goes
    <3>2. /\ out'[t].at # "idle" /\ (understood'.body <=> out'[t].at = "payload")
          /\ Head(out'[t].todo) # 0 /\ out'[t].num = understood'.next
          /\ local' = understood'.next + 1
      BY <1>1, <1>4, <1>7, <2>1, <2>3, <3>1
    <3>3. OneSends(t)'
      BY <3>1, <3>2 DEF OneSends, Ctrl!Both
    <3>. QED  BY <1>4, <2>1, <3>3 DEF ConsoleInv, Ctrl!Both
  <2>. QED  BY <2>5, <2>6, <2>7 DEF EchoInv
<1>. QED  BY <1>5, <1>6, <1>7 DEF Ctrl!SendHeader

LEMMA SendPayloadKeeps ==
  ASSUME EchoInv, NEW t \in Ctrl!Both, Ctrl!SendPayload(t)
  PROVE  EchoInv'
<1>1. /\ out[t].at = "payload" /\ UNCHANGED <<pc, known, local, clash>> /\ Ctrl!Done(t)
      /\ understood' = Ctrl!Deciphered(t, understood.body)
  BY DEF Ctrl!SendPayload, Ctrl!SendOnly
<1>2. understood \in EchoType
  BY DEF EchoInv, SendersTyped
<1>3. ~clash => /\ ~understood.lost /\ understood.body
                /\ out[t].num = understood.next /\ local = understood.next + 1
  BY <1>1, OnlyOne DEF OneSends
<1>4. /\ understood' \in EchoType /\ ~understood'.body /\ understood'.next = understood.next + 1
      /\ (~understood.lost /\ understood.body /\ out[t].num = understood.next => ~understood'.lost)
  BY <1>1, <1>2 DEF EchoType, Ctrl!Deciphered
<1>. QED  BY <1>1, <1>3, <1>4, DoneKeeps

LEMMA FeaturesTyped == Ctrl!EnableFeatures \in Seq({0, 1}) /\ <<0>> \in Seq({0, 1})
<1>1. Ctrl!EnableFeatures = [i \in 1 .. Features |-> 1]
  BY DEF Ctrl!EnableFeatures
<1>2. [i \in 1 .. Features |-> 1] \in Seq({0, 1})
  BY CtrlSizes
<1>. QED  BY <1>1, <1>2

LEMMA EchoStep == EchoInv /\ [Ctrl!Next]_steering => EchoInv'
<1> SUFFICES ASSUME EchoInv, [Ctrl!Next]_steering PROVE EchoInv'
  OBVIOUS
<1>1. CASE UNCHANGED steering
  BY <1>1, EchoQuiet DEF steering
<1>2. ASSUME NEW i \in DOMAIN kinds, Ctrl!ArrivesAgain(i) PROVE EchoInv'
  BY <1>2, EchoQuiet DEF Ctrl!ArrivesAgain, Ctrl!senders
<1>3. CASE Ctrl!Response
  BY <1>3, EchoQuiet DEF Ctrl!Response, Ctrl!senders
<1>4. CASE Ctrl!Received
  BY <1>4, EchoQuiet DEF Ctrl!Received, Ctrl!senders
<1>5. CASE Ctrl!Incomplete
  BY <1>5, EchoQuiet DEF Ctrl!Incomplete, Ctrl!senders
<1>6. CASE Ctrl!DisplayA
  BY <1>6, EchoQuiet DEF Ctrl!DisplayA, Ctrl!senders, Ctrl!Handles
<1>7. CASE Ctrl!DisplayB
  BY <1>7, EchoQuiet DEF Ctrl!DisplayB, Ctrl!senders, Ctrl!Handles
<1>8. CASE Ctrl!Heartbeat
  <2>1. pc = "loop" /\ Ctrl!Starts("ctrl", <<0>>) /\ pc' = "sending" /\ known' = known
    BY <1>8 DEF Ctrl!Heartbeat, Ctrl!Handles
  <2>2. out["ctrl"] = Ctrl!Idle /\ "ctrl" \in Ctrl!Both /\ known' \in BOOLEAN
    BY <2>1 DEF EchoInv, ReplyPlaces, SendersTyped, Ctrl!Both
  <2>. QED  BY <2>1, <2>2, FeaturesTyped, StartsKeeps
<1>9. CASE Ctrl!SessionId
  <2>1. pc = "loop" /\ Ctrl!Starts("ctrl", Ctrl!EnableFeatures) /\ pc' = "sending" /\ known' = TRUE
    BY <1>9 DEF Ctrl!SessionId, Ctrl!Handles
  <2>2. out["ctrl"] = Ctrl!Idle /\ "ctrl" \in Ctrl!Both /\ known' \in BOOLEAN
    BY <2>1 DEF EchoInv, ReplyPlaces, Ctrl!Both
  <2>. QED  BY <2>1, <2>2, FeaturesTyped, StartsKeeps
<1>10. CASE Ctrl!Fallback
  <2>1. ~known /\ Ctrl!Starts("session", Ctrl!EnableFeatures) /\ pc' = pc /\ known' = TRUE
    BY <1>10 DEF Ctrl!Fallback
  <2>2. out["session"] = Ctrl!Idle /\ "session" \in Ctrl!Both /\ known' \in BOOLEAN
    BY <2>1 DEF EchoInv, ReplyPlaces, Ctrl!Both
  <2>. QED  BY <2>1, <2>2, FeaturesTyped, StartsKeeps
<1>11. CASE Ctrl!Replied
  <2>1. /\ pc = "sending" /\ out["ctrl"] = Ctrl!Idle /\ pc' = "loop"
        /\ UNCHANGED <<local, out, understood, clash, known>>
    BY <1>11 DEF Ctrl!Replied, Ctrl!senders, Ctrl!SendOnly
  <2>2. SendersTyped'
    BY <2>1 DEF EchoInv, SendersTyped, Ctrl!Both, SenderType, EchoType
  <2>3. ReplyPlaces'
    BY <2>1 DEF EchoInv, ReplyPlaces, Ctrl!Both, Ctrl!Idle
  <2>4. ConsoleInv'
    BY <2>1 DEF EchoInv, ConsoleInv, NobodySends, OneSends, Ctrl!Both
  <2>. QED  BY <2>2, <2>3, <2>4 DEF EchoInv
<1>12. ASSUME NEW t \in Ctrl!Both, Ctrl!Sends(t) PROVE EchoInv'
  BY <1>12, EnciphersKeeps, SendHeaderKeeps, SendPayloadKeeps DEF Ctrl!Sends
<1>. QED  BY <1>1, <1>2, <1>3, <1>4, <1>5, <1>6, <1>7, <1>8, <1>9, <1>10, <1>11, <1>12
          DEF Ctrl!Next, Ctrl!Work, Ctrl!Reads

(* The second message stands: none took it back since.                      *)
SecondStands ==
  \E j \in 1 .. Len(handled) :
    Ctrl!Kind(j) = "bOn" /\ \A i \in j + 1 .. Len(handled) : Ctrl!Kind(i) # "bOff"
(* Shown although the first was taken back, and nothing came since: the     *)
(* second stood by then.                                                    *)
ShownFor ==
  \A k \in 1 .. Len(handled) :
    /\ Ctrl!Kind(k) = "aOff" /\ shown
    /\ \A i \in k + 1 .. Len(handled) : Ctrl!Kind(i) \notin {"aOn", "aOff", "bOn"}
    => \E j \in 1 .. k - 1 : Ctrl!Kind(j) = "bOn" /\ \A i \in j + 1 .. k - 1 : Ctrl!Kind(i) # "bOff"
DisplayInv ==
  /\ ShowTyped /\ (pc = "response" => handled = <<>> /\ ~cantA /\ ~cantB)
  /\ (cantB => cantA /\ SecondStands /\ (sink => shown)) /\ (sink => ShownFor)

LEMMA ShowStart == Ctrl!Init => DisplayInv
<1> SUFFICES ASSUME Ctrl!Init PROVE DisplayInv
  OBVIOUS
<1>1. /\ pc = "response" /\ handled = <<>> /\ cantA = FALSE /\ cantB = FALSE /\ sink \in BOOLEAN
      /\ shown = FALSE
  BY DEF Ctrl!Init
<1>2. ShownFor
  BY <1>1 DEF ShownFor
<1>. QED  BY <1>1, <1>2 DEF DisplayInv, ShowTyped

LEMMA ShowQuiet ==
  ASSUME DisplayInv, UNCHANGED <<kinds, handled, cantA, cantB, shown, sink>>,
         pc' = "response" => pc = "response"
  PROVE  DisplayInv'
<1>1. \A k : Ctrl!Kind(k)' = Ctrl!Kind(k)
  BY DEF Ctrl!Kind
<1>2. SecondStands => SecondStands'
  BY <1>1 DEF SecondStands
<1>3. ShownFor => ShownFor'
  BY <1>1 DEF ShownFor
<1>. QED  BY <1>2, <1>3 DEF DisplayInv, ShowTyped

(* One message more is handled, of that kind.                               *)
OneMore(h, kind) ==
  /\ h \in Nat /\ Len(handled) = h /\ Len(handled') = h + 1
  /\ \A k \in 1 .. h : Ctrl!Kind(k)' = Ctrl!Kind(k)
  /\ \A k : k = h + 1 => Ctrl!Kind(k)' = kind
LEMMA TakesMore ==
  ASSUME ReaderTyped, NEW kind, Ctrl!Handles(kind)
  PROVE  (\E h : OneMore(h, kind)) /\ sink' = sink /\ pc = "loop"
<1>1. /\ handled \in Seq((1 .. CtrlMax) \X Nat)
      /\ handled' = Append(handled, <<Ctrl!Number, remote>>) /\ kinds' = kinds /\ sink' = sink
      /\ kinds[Ctrl!Number] = kind /\ pc = "loop"
  BY DEF ReaderTyped, Ctrl!Handles, Ctrl!Takes, Ctrl!wire
<1>2. PICK x : x = <<Ctrl!Number, remote>>
  OBVIOUS
<1>h. PICK h \in Nat : h = Len(handled)
  BY <1>1
<1>3. Len(handled') = h + 1 /\ handled'[h + 1] = x /\ \A k \in 1 .. h : handled'[k] = handled[k]
  BY <1>1, <1>2, <1>h
<1>4. \A k \in 1 .. h : Ctrl!Kind(k)' = Ctrl!Kind(k)
  BY <1>1, <1>3 DEF Ctrl!Kind
<1>5. ASSUME NEW k, k = h + 1 PROVE Ctrl!Kind(k)' = kind
  <2>1. handled'[k][1] = Ctrl!Number
    BY <1>2, <1>3, <1>5
  <2>. QED  BY <1>1, <2>1 DEF Ctrl!Kind
<1>. QED  BY <1>1, <1>h, <1>3, <1>4, <1>5 DEF OneMore

LEMMA StandsOn ==
  ASSUME NEW h, NEW kind, OneMore(h, kind), kind # "bOff", SecondStands
  PROVE  SecondStands'
<1>1. PICK j \in 1 .. h : Ctrl!Kind(j) = "bOn" /\ \A i \in j + 1 .. h : Ctrl!Kind(i) # "bOff"
  BY DEF OneMore, SecondStands
<1>2. j \in 1 .. h + 1 /\ Ctrl!Kind(j)' = "bOn"
  BY <1>1 DEF OneMore
<1>3. ASSUME NEW i \in j + 1 .. h + 1 PROVE Ctrl!Kind(i)' # "bOff"
  <2>1. CASE i = h + 1
    BY <2>1 DEF OneMore
  <2>2. CASE i # h + 1
    <3>1. i \in j + 1 .. h /\ i \in 1 .. h
      BY <2>2 DEF OneMore
    <3>. QED  BY <1>1, <3>1 DEF OneMore
  <2>. QED  BY <2>1, <2>2
<1>. QED  BY <1>2, <1>3 DEF OneMore, SecondStands

LEMMA StandsNow ==
  ASSUME NEW h, NEW kind, OneMore(h, kind), kind = "bOn"
  PROVE  SecondStands'
<1>1. PICK j : j = h + 1
  OBVIOUS
<1>2. j \in 1 .. Len(handled') /\ Ctrl!Kind(j)' = "bOn" /\ j + 1 .. Len(handled') = {}
  BY <1>1 DEF OneMore
<1>. QED  BY <1>2 DEF SecondStands

(* What was shown stays explained by what is handled next.                  *)
LEMMA ShownOn ==
  ASSUME NEW h, NEW kind, OneMore(h, kind), ShownFor, shown' \in BOOLEAN, shown \in BOOLEAN,
         kind \in {"aOn", "aOff", "bOn"} \/ shown' = shown,
         kind = "aOff" => ~shown' \/ SecondStands
  PROVE  ShownFor'
<1>1. h \in Nat /\ Len(handled) = h /\ Len(handled') = h + 1
  BY DEF OneMore
<1>2. ASSUME NEW k \in 1 .. h + 1, Ctrl!Kind(k)' = "aOff", shown',
             \A i \in k + 1 .. h + 1 : Ctrl!Kind(i)' \notin {"aOn", "aOff", "bOn"}
      PROVE  \E j \in 1 .. k - 1 :
               Ctrl!Kind(j)' = "bOn" /\ \A i \in j + 1 .. k - 1 : Ctrl!Kind(i)' # "bOff"
  <2>1. CASE k = h + 1
    <3>1. kind = "aOff"
      BY <1>2, <2>1 DEF OneMore
    <3>2. PICK j \in 1 .. h : Ctrl!Kind(j) = "bOn" /\ \A i \in j + 1 .. h : Ctrl!Kind(i) # "bOff"
      BY <1>1, <1>2, <3>1 DEF SecondStands
    <3>3. k - 1 = h /\ Ctrl!Kind(j)' = "bOn"
      BY <1>1, <2>1, <3>2 DEF OneMore
    <3>4. \A i \in j + 1 .. h : Ctrl!Kind(i)' # "bOff"
      <4>1. \A i \in j + 1 .. h : i \in 1 .. h
        BY <1>1
      <4>. QED  BY <3>2, <4>1 DEF OneMore
    <3>. QED  BY <3>3, <3>4
  <2>2. CASE k # h + 1
    <3>1. k \in 1 .. h /\ h + 1 \in k + 1 .. h + 1
      BY <1>1, <2>2
    <3>2. kind \notin {"aOn", "aOff", "bOn"}
      BY <1>2, <3>1 DEF OneMore
    <3>3. Ctrl!Kind(k) = "aOff" /\ shown
      BY <1>2, <3>1, <3>2 DEF OneMore
    <3>4. \A i \in k + 1 .. h : Ctrl!Kind(i) \notin {"aOn", "aOff", "bOn"}
      <4>1. \A i \in k + 1 .. h : i \in 1 .. h /\ i \in k + 1 .. h + 1
        BY <1>1, <3>1
      <4>. QED  BY <1>2, <4>1 DEF OneMore
    <3>5. PICK j \in 1 .. k - 1 :
            Ctrl!Kind(j) = "bOn" /\ \A i \in j + 1 .. k - 1 : Ctrl!Kind(i) # "bOff"
      BY <1>1, <3>1, <3>3, <3>4 DEF ShownFor
    <3>6. \A i \in 1 .. k - 1 : i \in 1 .. h
      BY <1>1, <3>1
    <3>7. Ctrl!Kind(j)' = "bOn"
      BY <3>5, <3>6 DEF OneMore
    <3>8. \A i \in j + 1 .. k - 1 : Ctrl!Kind(i)' # "bOff"
      <4>1. \A i \in j + 1 .. k - 1 : i \in 1 .. k - 1
        BY <3>1
      <4>. QED  BY <3>5, <3>6, <4>1 DEF OneMore
    <3>. QED  BY <3>7, <3>8
  <2>. QED  BY <2>1, <2>2
<1>. QED  BY <1>1, <1>2 DEF ShownFor

LEMMA ShowHandled ==
  ASSUME ReaderTyped, DisplayInv, Handling
  PROVE  DisplayInv'
<1> USE DEF DisplayInv
<1>0. ShowTyped
  OBVIOUS
<1>1. ASSUME NEW kind \in {"beat", "id"}, Ctrl!Handles(kind), UNCHANGED <<cantA, cantB, shown>>,
             pc' # "response"
      PROVE  DisplayInv'
  <2>1. PICK h : OneMore(h, kind)
    BY <1>1, TakesMore
  <2>2. sink' = sink
    BY <1>1, TakesMore
  <2>3. SecondStands => SecondStands'
    BY <1>1, <2>1, StandsOn
  <2>4. ShownFor => ShownFor'
    BY <1>0, <1>1, <2>1, ShownOn DEF ShowTyped
  <2>. QED  BY <1>1, <2>2, <2>3, <2>4 DEF ShowTyped
<1>2. CASE Ctrl!Heartbeat
  BY <1>1, <1>2 DEF Ctrl!Heartbeat, Ctrl!display
<1>3. CASE Ctrl!SessionId
  BY <1>1, <1>3 DEF Ctrl!SessionId, Ctrl!display
<1>4. CASE Ctrl!DisplayA
  <2>0. cantB' = cantB
    BY <1>4 DEF Ctrl!DisplayA
  <2>1. CASE Ctrl!Handles("aOn") /\ cantA' = TRUE /\ pc' = "loop" /\ UNCHANGED shown
    <3>1. PICK h : OneMore(h, "aOn")
      BY <2>1, TakesMore
    <3>2. sink' = sink
      BY <2>1, TakesMore
    <3>3. SecondStands => SecondStands'
      BY <3>1, StandsOn
    <3>4. ShownFor => ShownFor'
      BY <1>0, <2>1, <3>1, ShownOn DEF ShowTyped
    <3>. QED  BY <2>0, <2>1, <3>2, <3>3, <3>4 DEF ShowTyped
  <2>2. CASE Ctrl!Handles("aOff") /\ cantB /\ pc' = "loop" /\ UNCHANGED <<cantA, shown>>
    <3>1. PICK h : OneMore(h, "aOff")
      BY <2>2, TakesMore
    <3>2. sink' = sink
      BY <2>2, TakesMore
    <3>3. SecondStands => SecondStands'
      BY <3>1, StandsOn
    <3>4. ShownFor => ShownFor'
      BY <1>0, <2>2, <3>1, ShownOn DEF ShowTyped
    <3>. QED  BY <2>0, <2>2, <3>2, <3>3, <3>4 DEF ShowTyped
  <2>3. CASE Ctrl!Handles("aOff") /\ ~cantB /\ cantA' = FALSE /\ Ctrl!Tells(FALSE)
    <3>1. PICK h : OneMore(h, "aOff")
      BY <2>3, TakesMore
    <3>2. sink' = sink
      BY <2>3, TakesMore
    <3>3. shown' \in BOOLEAN /\ (sink => ~shown') /\ pc' # "response"
      BY <2>3 DEF Ctrl!Tells, ShowTyped
    <3>4. sink /\ ShownFor => ShownFor'
      BY <1>0, <3>1, <3>3, ShownOn DEF ShowTyped
    <3>. QED  BY <2>0, <2>3, <3>2, <3>3, <3>4 DEF ShowTyped
  <2>. QED  BY <1>4, <2>1, <2>2, <2>3 DEF Ctrl!DisplayA
<1>5. CASE Ctrl!DisplayB
  <2>0. cantA' = cantA
    BY <1>5 DEF Ctrl!DisplayB
  <2>1. CASE Ctrl!Handles("bOn") /\ cantA /\ ~cantB /\ cantB' = TRUE /\ Ctrl!Tells(TRUE)
    <3>1. PICK h : OneMore(h, "bOn")
      BY <2>1, TakesMore
    <3>2. sink' = sink
      BY <2>1, TakesMore
    <3>3. SecondStands'
      BY <3>1, StandsNow
    <3>4. shown' \in BOOLEAN /\ (sink => shown') /\ pc' # "response"
      BY <2>1 DEF Ctrl!Tells, ShowTyped
    <3>5. ShownFor => ShownFor'
      BY <1>0, <3>1, <3>4, ShownOn DEF ShowTyped
    <3>. QED  BY <2>0, <2>1, <3>2, <3>3, <3>4, <3>5 DEF ShowTyped
  <2>2. CASE Ctrl!Handles("bOn") /\ pc' = "loop" /\ UNCHANGED <<cantB, shown>>
    <3>1. PICK h : OneMore(h, "bOn")
      BY <2>2, TakesMore
    <3>2. sink' = sink
      BY <2>2, TakesMore
    <3>3. SecondStands => SecondStands'
      BY <3>1, StandsOn
    <3>4. ShownFor => ShownFor'
      BY <1>0, <2>2, <3>1, ShownOn DEF ShowTyped
    <3>. QED  BY <2>0, <2>2, <3>2, <3>3, <3>4 DEF ShowTyped
  <2>3. CASE Ctrl!Handles("bOff") /\ cantB' = FALSE /\ pc' = "loop" /\ UNCHANGED shown
    <3>1. PICK h : OneMore(h, "bOff")
      BY <2>3, TakesMore
    <3>2. sink' = sink
      BY <2>3, TakesMore
    <3>3. ShownFor => ShownFor'
      BY <1>0, <2>3, <3>1, ShownOn DEF ShowTyped
    <3>. QED  BY <2>0, <2>3, <3>2, <3>3 DEF ShowTyped
  <2>. QED  BY <1>5, <2>1, <2>2, <2>3 DEF Ctrl!DisplayB
<1>. QED  BY <1>2, <1>3, <1>4, <1>5 DEF Handling

LEMMA ShowResponse ==
  ASSUME DisplayInv, Ctrl!Response
  PROVE  DisplayInv'
<1>1. /\ pc = "response" /\ pc' \in {"loop", "crashed"} /\ UNCHANGED <<handled, cantA, cantB, sink>>
      /\ shown' \in {shown, TRUE}
  BY DEF Ctrl!Response, Ctrl!Tells
<1>2. handled = <<>> /\ ~cantA /\ ~cantB
  BY <1>1 DEF DisplayInv
<1>3. ShownFor'
  BY <1>1, <1>2 DEF ShownFor
<1>. QED  BY <1>1, <1>2, <1>3 DEF DisplayInv, ShowTyped

CtrlInv == ReadInv /\ EchoInv /\ DisplayInv

LEMMA CtrlStep == CtrlInv /\ [Ctrl!Next]_steering => CtrlInv'
<1> SUFFICES ASSUME CtrlInv, [Ctrl!Next]_steering PROVE CtrlInv'
  OBVIOUS
<1> USE DEF CtrlInv
<1>0. ReadInv' /\ EchoInv'
  BY ReadStep, EchoStep
<1>1. CASE UNCHANGED steering
  BY <1>0, <1>1, ShowQuiet DEF steering
<1>2. ASSUME NEW i \in DOMAIN kinds, Ctrl!ArrivesAgain(i) PROVE DisplayInv'
  BY <1>2, ShowQuiet DEF Ctrl!ArrivesAgain, Ctrl!receiver, Ctrl!display
<1>3. CASE Ctrl!Response
  BY <1>0, <1>3, ShowResponse
<1>4. CASE Ctrl!Received
  BY <1>0, <1>4, ShowQuiet DEF Ctrl!Received, Ctrl!display
<1>5. CASE Ctrl!Incomplete
  BY <1>0, <1>5, ShowQuiet DEF Ctrl!Incomplete, Ctrl!receiver, Ctrl!wire, Ctrl!display
<1>6. CASE Handling
  BY <1>0, <1>6, ShowHandled DEF ReadInv
<1>7. CASE Sending
  <2>1. pc' = "response" => pc = "response"
    BY <1>7, SendingReads
  <2>. QED  BY <1>0, <1>7, <2>1, SendingReads, ShowQuiet
<1>. QED  BY <1>0, <1>1, <1>2, <1>3, <1>4, <1>5, <1>6, <1>7, CtrlSteps

LEMMA CtrlSafe == CtrlInv => Ctrl!TypeOK /\ Ctrl!CtrlMessagesSound
<1> SUFFICES ASSUME CtrlInv PROVE Ctrl!TypeOK /\ Ctrl!CtrlMessagesSound
  OBVIOUS
<1>1. /\ KindsTyped /\ ReaderTyped /\ RoomKept /\ InOrder /\ SendersTyped /\ ConsoleInv
      /\ ShowTyped /\ (cantB => cantA /\ SecondStands /\ (sink => shown)) /\ (sink => ShownFor)
  BY DEF CtrlInv, ReadInv, EchoInv, DisplayInv
<1>2. Ctrl!TypeOK
  <2>1. {rudp, known, clash, cantA, cantB, sink, shown} \subseteq BOOLEAN
    BY <1>1 DEF ReaderTyped, SendersTyped, ShowTyped
  <2>2. \A i \in DOMAIN kinds : kinds[i] \in DOMAIN Ctrl!Payload
    BY <1>1 DEF KindsTyped
  <2>3. {remote, local, understood.next} \subseteq Nat
    BY <1>1 DEF ReaderTyped, SendersTyped, EchoType
  <2>4. \A t \in Ctrl!Both : out[t].at \in {"idle", "header", "payload"}
    BY <1>1 DEF SendersTyped, SenderType
  <2>5. Len(buf) <= Room /\ doubles \in 0 .. Doubles
    BY <1>1 DEF RoomKept, ReaderTyped
  <2>6. pc \in {"response", "loop", "select", "sending", "failed", "crashed"}
    BY <1>1 DEF ReaderTyped
  <2>. QED  BY <2>1, <2>2, <2>3, <2>4, <2>5, <2>6 DEF Ctrl!TypeOK
<1>3. DOMAIN handled = 1 .. Len(handled) /\ Len(handled) \in Nat
  BY SMTT(30), <1>1 DEF ReaderTyped
<1>4. Ctrl!Decipherable
  BY ZenonT(30), <1>1, <1>3 DEF InOrder, Ctrl!Decipherable
<1>5. Ctrl!ConsoleFollows
  BY <1>1 DEF ConsoleInv, Ctrl!ConsoleFollows
<1>6. sink => Ctrl!DisplayTrue
  <2> SUFFICES ASSUME sink PROVE Ctrl!DisplayTrue
    OBVIOUS
  <2>1. cantB => cantA /\ shown
    BY <1>1
  <2>2. ASSUME NEW k \in DOMAIN handled, Ctrl!Kind(k) = "aOff", shown,
               ~Ctrl!Among({"aOn", "aOff", "bOn"}, k + 1, Len(handled))
        PROVE  \E j \in 1 .. k - 1 : Ctrl!Kind(j) = "bOn" /\ ~Ctrl!Among({"bOff"}, j + 1, k - 1)
    <3>1. \A i \in k + 1 .. Len(handled) : Ctrl!Kind(i) \notin {"aOn", "aOff", "bOn"}
      BY <2>2 DEF Ctrl!Among
    <3>2. PICK j \in 1 .. k - 1 :
            Ctrl!Kind(j) = "bOn" /\ \A i \in j + 1 .. k - 1 : Ctrl!Kind(i) # "bOff"
      BY <1>1, <1>3, <2>2, <3>1 DEF ShownFor
    <3>3. ~Ctrl!Among({"bOff"}, j + 1, k - 1)
      BY <3>2 DEF Ctrl!Among
    <3>. QED  BY <3>2, <3>3
  <2>. QED  BY <2>1, <2>2 DEF Ctrl!DisplayTrue
<1>. QED  BY <1>2, <1>4, <1>5, <1>6 DEF Ctrl!CtrlMessagesSound

(* Both directions of the ctrl connection and what it shows, for every      *)
(* sequence of messages and whatever pieces they come in (ctrl.c:557, 688). *)
CtrlRight == part = "ctrl" => UnitsSound
THEOREM CtrlHolds == StreamsSpec => []CtrlRight
<1>1. StreamsInit => CtrlInv
  BY ReadStart, EchoStart, ShowStart DEF StreamsInit, CtrlInv
<1>2. CtrlInv /\ [StreamsNext]_streams => CtrlInv'
  <2> SUFFICES ASSUME CtrlInv, [StreamsNext]_streams PROVE CtrlInv'
    OBVIOUS
  <2>1. [Ctrl!Next]_steering
    BY DEF StreamsNext, DataOnly, VideoOnly, AudioOnly, MessagesOnly, SendersOnly, CtrlOnly,
           InputOnly, streams
  <2>. QED  BY <2>1, CtrlStep
<1>3. CtrlInv => CtrlRight
  BY CtrlSafe DEF CtrlRight, UnitsSound
<1>. QED  BY <1>1, <1>2, <1>3, PTL DEF StreamsSpec

-----------------------------------------------------------------------------
(* All of UnitsSound, for every value of the constants: sound, messages,    *)
(* the senders' key stream, ctrl messages and the controller state.         *)
THEOREM UnitsHold == StreamsSpec => []UnitsSound
<1>1. StreamsSpec => []AudioRight
  BY AudioHolds
<1>2. StreamsSpec => []MessagesRight
  BY MessagesHold
<1>3. StreamsSpec => [](Senders!TypeOK /\ Senders!SendSound)
  BY StreamsSenders, SendCorrect
<1>4. StreamsSpec => []CtrlRight
  BY CtrlHolds
<1>5. StreamsSpec => []InputRight
  BY InputHolds
<1>6. AudioRight /\ MessagesRight /\ (Senders!TypeOK /\ Senders!SendSound) /\ CtrlRight /\ InputRight
        => UnitsSound
  BY DEF AudioRight, MessagesRight, CtrlRight, InputRight, UnitsSound
<1>. QED  BY <1>1, <1>2, <1>3, <1>4, <1>5, <1>6, PTL
=============================================================================
