---------------------------- MODULE MediaProofs -----------------------------
(***************************************************************************)
(* Proofs about Media and what it is made of.                              *)
(***************************************************************************)
EXTENDS Media, FiniteSetTheorems, SequenceTheorems, TLAPS

-----------------------------------------------------------------------------
(* A non-empty set of naturals has a least element, and what follows from   *)
(* it: induction, and the functions that loops compute.                     *)
LEMMA LeastNat ==
  ASSUME NEW T, T \subseteq Nat, T # {}
  PROVE  \E x \in T : \A y \in T : x <= y
<1> DEFINE R == {ss \in Nat \X Nat : ss[1] < ss[2]}
<1>1. IsWellFoundedOn(R, Nat)
  BY NatLessThanWellFounded DEF OpToRel
<1> HIDE DEF R
<1>2. PICK x \in T : \A y \in T : <<y, x>> \notin R
  BY <1>1, WFMin
<1>3. \A y \in T : y < x => <<y, x>> \in R
  BY DEF R
<1>4. ASSUME NEW y \in T PROVE x <= y
  <2>1. ~(y < x)
    BY <1>2, <1>3
  <2>. QED  BY <2>1
<1>. QED  BY <1>4

(* Induction on a set: the library's theorem takes the formula as an        *)
(* operator, which the provers cannot instantiate.                          *)
LEMMA SetInduction ==
  ASSUME NEW S, 0 \in S, \A n \in Nat : n \in S => n + 1 \in S
  PROVE  Nat \subseteq S
<1> SUFFICES ASSUME NEW m \in Nat, m \notin S PROVE FALSE
  OBVIOUS
<1> DEFINE T == Nat \ S
<1>1. PICK x \in T : \A y \in T : x <= y
  <2>1. T \subseteq Nat /\ T # {}
    OBVIOUS
  <2> HIDE DEF T
  <2>. QED  BY <2>1, LeastNat
<1>2. x # 0 /\ x \in Nat
  OBVIOUS
<1>3. x - 1 \in Nat /\ x - 1 \notin T
  BY <1>1, <1>2
<1>4. x - 1 \in S
  BY <1>3
<1>. QED  BY <1>2, <1>3, <1>4

(* The function that a loop of n turns computes from its first value c: the *)
(* recursive definition has a solution.                                     *)
Loops(g, V, c, turn, n) ==
  g \in [0 .. n -> V] /\ g[0] = c /\ \A i \in 1 .. n : g[i] = turn[<<i, g[i - 1]>>]
LEMMA LoopFunction ==
  ASSUME NEW V, NEW c \in V, NEW turn \in [Nat \X V -> V], NEW n \in Nat
  PROVE  \E g : Loops(g, V, c, turn, n)
<1> DEFINE Solves(g, m) ==
             g \in [0 .. m -> V] /\ g[0] = c /\ \A i \in 1 .. m : g[i] = turn[<<i, g[i - 1]>>]
           S == { m \in Nat : \E g : Solves(g, m) }
<1>1. 0 \in S
  <2>1. Solves([i \in 0 .. 0 |-> c], 0)
    OBVIOUS
  <2>. QED  BY <2>1
<1>2. ASSUME NEW m \in Nat, m \in S PROVE m + 1 \in S
  <2>1. PICK g : Solves(g, m)
    BY <1>2
  <2> DEFINE x == turn[<<m + 1, g[m]>>]
             h == [i \in 0 .. m + 1 |-> IF i = m + 1 THEN x ELSE g[i]]
  <2>2. g[m] \in V /\ x \in V
    BY <2>1
  <2> HIDE DEF x
  <2>3. h \in [0 .. m + 1 -> V] /\ h[0] = c /\ h[m + 1] = x /\ \A i \in 0 .. m : h[i] = g[i]
    BY <2>1, <2>2
  <2> HIDE DEF h
  <2>4. ASSUME NEW i \in 1 .. m + 1 PROVE h[i] = turn[<<i, h[i - 1]>>]
    <3>1. CASE i = m + 1
      <4>1. i - 1 = m /\ h[m] = g[m]
        BY <2>3, <3>1
      <4>. QED  BY <2>3, <3>1, <4>1 DEF x
    <3>2. CASE i # m + 1
      <4>1. i \in 1 .. m /\ i \in 0 .. m /\ i - 1 \in 0 .. m
        BY <3>2
      <4>2. g[i] = turn[<<i, g[i - 1]>>]
        BY <2>1, <4>1
      <4>. QED  BY <2>3, <4>1, <4>2
    <3>. QED  BY <3>1, <3>2
  <2>. QED  BY <2>3, <2>4
<1>3. n \in S
  <2> HIDE DEF S
  <2>. QED  BY <1>1, <1>2, SetInduction
<1>. QED  BY <1>3 DEF Loops

-----------------------------------------------------------------------------
(* The data channel.                                                        *)

(* An acknowledgement names what the receiver has, and the console's        *)
(* messages do not pass through our send buffer.                            *)
AcksTrue == acks \subseteq 1 .. awaited - 1
ConsoleOnly == way = "in" => going = {} /\ pushing = {}
LEMMA SameCount == \A S : Delivery!Cardinality(S) = Cardinality(S)
  BY DEF Delivery!Cardinality, Cardinality

(* The parts of its type invariant.                                         *)
NumberTypes == way \in {"in", "out"} /\ deserted \in BOOLEAN /\ drawn \in 0 .. Last /\ awaited \in 1 .. drawn + 1
PacketTypes == going \cup pushing \cup air \cup queued \cup dropped \subseteq 1 .. drawn
KeptTypes == Delivery!Kept \subseteq 1 .. drawn /\ \A n \in Delivery!Kept : kept[n] \in 0 .. ResendTries
RoomTypes == way = "out" => Cardinality(Delivery!Kept) <= Room
WindowTypes == way = "in" => \A n \in queued : n < awaited + Window

DeliveryInv ==
  /\ NumberTypes /\ PacketTypes /\ KeptTypes /\ RoomTypes /\ WindowTypes
  /\ Delivery!Carried /\ AcksTrue /\ ConsoleOnly

LEMMA DeliverySound == DeliveryInv => Delivery!TypeOK /\ Delivery!Carried
  BY SameCount
     DEF DeliveryInv, Delivery!TypeOK, NumberTypes, PacketTypes, KeptTypes, RoomTypes, WindowTypes

LEMMA DeliveryInit == Delivery!Init => DeliveryInv
<1> SUFFICES ASSUME Delivery!Init PROVE DeliveryInv OBVIOUS
<1>1. Delivery!Kept = {} BY DEF Delivery!Init, Delivery!Kept
<1>2. Cardinality(Delivery!Kept) = 0 BY <1>1, FS_EmptySet
<1>3. NumberTypes /\ PacketTypes /\ KeptTypes /\ RoomTypes /\ WindowTypes
  <2>1. deserted \in BOOLEAN BY DEF Delivery!Init
  <2>2. /\ way \in {"in", "out"} /\ drawn \in 0 .. Last /\ awaited \in 1 .. drawn + 1
        /\ PacketTypes /\ KeptTypes /\ RoomTypes /\ WindowTypes
    BY <1>1, <1>2, DeliveryAssumption
       DEF Delivery!Init, PacketTypes, KeptTypes, RoomTypes, WindowTypes
  <2> QED BY <2>1, <2>2 DEF NumberTypes
<1>4. Delivery!Carried BY DeliveryAssumption DEF Delivery!Carried, Delivery!Init
<1> QED BY <1>3, <1>4 DEF DeliveryInv, AcksTrue, ConsoleOnly, Delivery!Init

(* What is kept stays few when some of it is forgotten.                     *)
LEMMA ForgetFew ==
  ASSUME NumberTypes, KeptTypes, RoomTypes, NEW S, Delivery!Forget(S), drawn' = drawn, way' = way
  PROVE  /\ Delivery!Kept' = Delivery!Kept \ S
         /\ KeptTypes' /\ RoomTypes'
<1>1. Delivery!Kept' = Delivery!Kept \ S BY DEF Delivery!Forget, Delivery!Kept, Delivery!Restrict
<1>2. \A n \in Delivery!Kept' : kept'[n] = kept[n]
  BY DEF Delivery!Forget, Delivery!Kept, Delivery!Restrict
<1>3. IsFiniteSet(Delivery!Kept)
  <2>1. IsFiniteSet(1 .. drawn) BY FS_Interval DEF NumberTypes
  <2> QED BY <2>1, FS_Subset DEF KeptTypes
<1>4. Cardinality(Delivery!Kept') <= Cardinality(Delivery!Kept)
  <2>1. Delivery!Kept' \in SUBSET Delivery!Kept BY <1>1
  <2> QED BY <2>1, <1>3, FS_Subset
<1>5. Cardinality(Delivery!Kept) \in Nat /\ Cardinality(Delivery!Kept') \in Nat
  <2>1. IsFiniteSet(Delivery!Kept') BY <1>1, <1>3, FS_Subset
  <2> QED BY <2>1, <1>3, FS_CardinalityType
<1>6. KeptTypes' BY <1>1, <1>2 DEF KeptTypes
<1>7. RoomTypes' BY <1>4, <1>5, DeliveryAssumption DEF RoomTypes
<1> QED BY <1>1, <1>6, <1>7

(* ... and when there is room for one more.                                 *)
LEMMA KeepOne ==
  ASSUME NumberTypes, KeptTypes, NEW n \in 1 .. drawn', Delivery!Keep(n), drawn <= drawn',
         drawn' \in Nat
  PROVE  /\ Delivery!Kept' = Delivery!Kept \cup {n}
         /\ KeptTypes'
         /\ Cardinality(Delivery!Kept) < Room => Cardinality(Delivery!Kept') <= Room
<1>1. Delivery!Kept' = Delivery!Kept \cup {n} BY DEF Delivery!Keep, Delivery!Kept
<1>2. \A m \in Delivery!Kept' : kept'[m] = IF m = n THEN 0 ELSE kept[m]
  BY DEF Delivery!Keep, Delivery!Kept
<1>3. IsFiniteSet(Delivery!Kept)
  <2>1. IsFiniteSet(1 .. drawn) BY FS_Interval DEF NumberTypes
  <2> QED BY <2>1, FS_Subset DEF KeptTypes
<1>4. /\ Cardinality(Delivery!Kept) \in Nat
      /\ Cardinality(Delivery!Kept') <= Cardinality(Delivery!Kept) + 1
      /\ Cardinality(Delivery!Kept') \in Nat
  <2>1. Cardinality(Delivery!Kept) \in Nat BY <1>3, FS_CardinalityType
  <2>2. Cardinality(Delivery!Kept \cup {n}) \in {Cardinality(Delivery!Kept),
                                                 Cardinality(Delivery!Kept) + 1}
    BY <1>3, FS_AddElement
  <2> QED BY <2>1, <2>2, <1>1
<1>5. KeptTypes'
  <2>1. Delivery!Kept' \subseteq 1 .. drawn' BY <1>1 DEF KeptTypes, NumberTypes
  <2>2. \A m \in Delivery!Kept' : kept'[m] \in 0 .. ResendTries
    BY <1>1, <1>2, DeliveryAssumption DEF KeptTypes
  <2> QED BY <2>1, <2>2 DEF KeptTypes
<1>6. Cardinality(Delivery!Kept) < Room => Cardinality(Delivery!Kept') <= Room
  BY <1>4, DeliveryAssumption
<1> QED BY <1>1, <1>5, <1>6

(* What pull waits for after the flush: the first number that is not there. *)
LEMMA PulledIs ==
  ASSUME NumberTypes, NEW in, in \subseteq 1 .. drawn
  PROVE  LET upto == Delivery!Pulled(in)
         IN  upto \in awaited .. drawn + 1 /\ upto \notin in /\ awaited .. upto - 1 \subseteq in
<1> DEFINE T == { m \in awaited .. Last + 1 : m \notin in }
<1>0. drawn \in Nat /\ awaited \in Nat /\ Last \in Nat /\ drawn <= Last /\ awaited <= drawn + 1
  BY DeliveryAssumption DEF NumberTypes
<1>1. drawn + 1 \in T BY <1>0
<1>2. PICK x \in T : \A y \in T : x <= y
  <2>1. T \subseteq Nat /\ T # {} BY <1>0, <1>1
  <2> HIDE DEF T
  <2> QED BY <2>1, LeastNat
<1>3. x \in awaited .. Last + 1 /\ x \notin in BY <1>2
<1>4. awaited .. x - 1 \subseteq in
  <2> SUFFICES ASSUME NEW m \in awaited .. x - 1, m \notin in PROVE FALSE OBVIOUS
  <2>1. m \in T BY <1>0, <1>3
  <2> QED BY <2>1, <1>0, <1>2, <1>3
<1> DEFINE upto == Delivery!Pulled(in)
<1>5. upto \in awaited .. Last + 1 /\ awaited .. upto - 1 \subseteq in /\ upto \notin in
  BY <1>3, <1>4 DEF Delivery!Pulled
<1>6. upto <= drawn + 1
  <2> HIDE DEF upto
  <2> SUFFICES ASSUME upto > drawn + 1 PROVE FALSE BY <1>0, <1>5
  <2>1. drawn + 1 \in awaited .. upto - 1 BY <1>0, <1>5
  <2> QED BY <2>1, <1>0, <1>5
<1> QED BY <1>0, <1>5, <1>6

LEMMA ArriveInv ==
  ASSUME DeliveryInv, NEW n \in 1 .. Last, Delivery!Arrive(n)
  PROVE  DeliveryInv'
<1>0. NumberTypes /\ PacketTypes /\ KeptTypes /\ RoomTypes /\ WindowTypes
  BY DEF DeliveryInv
<1> DEFINE taken == IF way = "in" /\ n \notin awaited .. awaited + Window - 1
                    THEN queued ELSE queued \cup ({n} \ 1 .. awaited - 1)
           upto == Delivery!Pulled(taken)
<1>1. /\ n \in air /\ air' = air \ {n}
      /\ awaited' = upto /\ queued' = {m \in taken : m > upto} /\ Delivery!Acknowledged(n, upto)
      /\ UNCHANGED <<way, deserted, drawn, going, pushing, kept, dropped, unheard>>
  BY DEF Delivery!Arrive, Delivery!sender, Delivery!route
<1>2. taken \subseteq 1 .. drawn BY <1>0, <1>1 DEF PacketTypes
<1>3. upto \in awaited .. drawn + 1 BY <1>0, <1>2, PulledIs
<1>4. way = "in" => \A m \in taken : m < awaited + Window
  <2>1. awaited \in Nat /\ Window \in Nat BY <1>0, DeliveryAssumption DEF NumberTypes
  <2> QED BY <2>1, <1>0 DEF WindowTypes
<1> HIDE DEF taken, upto
<1>5. drawn \in Nat /\ awaited \in Nat \ {0} /\ upto \in Nat /\ awaited <= upto
  BY <1>0, <1>3 DEF NumberTypes
<1>6. NumberTypes' BY <1>0, <1>1, <1>3, <1>5 DEF NumberTypes
<1>7. PacketTypes' BY <1>0, <1>1, <1>2 DEF PacketTypes
<1>8. KeptTypes' /\ RoomTypes' BY <1>0, <1>1 DEF KeptTypes, RoomTypes, Delivery!Kept
<1>9. WindowTypes'
  <2> SUFFICES ASSUME way = "in", NEW m \in taken PROVE m < upto + Window
    BY <1>1 DEF WindowTypes
  <2>1. m < awaited + Window /\ m \in Nat BY <1>2, <1>4, <1>5
  <2> QED BY <2>1, <1>5, DeliveryAssumption
<1>10. Delivery!Carried' BY <1>1, <1>5 DEF DeliveryInv, Delivery!Carried, Delivery!Kept
<1>11. AcksTrue'
  <2>1. acks' \subseteq acks \cup ({upto - 1} \ {0}) BY <1>1 DEF Delivery!Acknowledged
  <2>2. acks \subseteq 1 .. upto - 1 BY <1>5 DEF DeliveryInv, AcksTrue
  <2> QED BY <2>1, <2>2, <1>1, <1>5 DEF AcksTrue
<1>12. ConsoleOnly' BY <1>1 DEF DeliveryInv, ConsoleOnly
<1> QED BY <1>6, <1>7, <1>8, <1>9, <1>10, <1>11, <1>12 DEF DeliveryInv

LEMMA DeliveryNext == DeliveryInv /\ [Delivery!Next]_(Delivery!vars) => DeliveryInv'
<1> SUFFICES ASSUME DeliveryInv, [Delivery!Next]_(Delivery!vars) PROVE DeliveryInv' OBVIOUS
<1>0. /\ NumberTypes /\ PacketTypes /\ KeptTypes /\ RoomTypes /\ WindowTypes
      /\ Delivery!Carried /\ AcksTrue /\ ConsoleOnly
  BY DEF DeliveryInv
<1>a. drawn \in Nat /\ awaited \in Nat \ {0} BY <1>0 DEF NumberTypes
<1> USE DEF Delivery!route, Delivery!sender, Delivery!receiver
\* Steps that leave the buffer and the receiver alone.
<1>b. ASSUME deserted' \in BOOLEAN, UNCHANGED <<way, kept, awaited, queued>>,
             drawn' \in 0 .. Last, drawn <= drawn', acks' \subseteq acks, PacketTypes', Delivery!Carried', ConsoleOnly'
      PROVE  DeliveryInv'
  <2>1. NumberTypes'
    <3>1. way' = way /\ awaited' = awaited /\ drawn' \in 0 .. Last /\ drawn <= drawn'
      BY <1>b
    <3>2. way \in {"in", "out"} /\ awaited \in 1 .. drawn + 1
      BY <1>0 DEF NumberTypes
    <3>a. /\ awaited \in Nat /\ 1 <= awaited /\ awaited <= drawn + 1
          /\ drawn' \in Int /\ drawn <= drawn'
      BY <1>a, <3>1, <3>2, DeliveryAssumption
    <3>b. awaited' = awaited BY <3>1
    <3>c. \A a, d, e \in Int : 1 <= a /\ a <= d + 1 /\ d <= e => a \in 1 .. e + 1
      OBVIOUS
    <3>d. drawn \in Int /\ awaited \in Int BY <1>a
    <3>e. awaited \in 1 .. drawn' + 1 BY <3>a, <3>c, <3>d, Zenon
    <3>3. awaited' \in 1 .. drawn' + 1 BY <3>b, <3>e, Zenon
    <3>4. way' \in {"in", "out"} /\ drawn' \in 0 .. Last BY <3>1, <3>2
    <3>5. deserted' \in BOOLEAN BY <1>b
    <3> QED BY <3>3, <3>4, <3>5, Zenon DEF NumberTypes
  <2>2. KeptTypes' /\ RoomTypes' /\ WindowTypes'
    BY <1>0, <1>a, <1>b DEF KeptTypes, RoomTypes, WindowTypes, Delivery!Kept
  <2>3. AcksTrue' BY <1>0, <1>b DEF AcksTrue
  <2> QED BY <1>b, <2>1, <2>2, <2>3 DEF DeliveryInv
<1>1. CASE Delivery!Draw
  <2>0. UNCHANGED <<way, deserted, kept, awaited, queued, acks>> /\ deserted \in BOOLEAN
    BY <1>0, <1>1 DEF Delivery!Draw, NumberTypes
  <2>1. drawn' = drawn + 1 /\ drawn' \in 0 .. Last
    BY <1>1, <1>a, DeliveryAssumption DEF Delivery!Draw
  <2>2. PacketTypes' BY <1>0, <1>1, <1>a, <2>1 DEF Delivery!Draw, PacketTypes
  <2>3. Delivery!Carried' BY <1>0, <1>1, <1>a, <2>1 DEF Delivery!Draw, Delivery!Carried, Delivery!Kept
  <2>4. ConsoleOnly' BY <1>0, <1>1 DEF Delivery!Draw, ConsoleOnly
  <2>5. drawn <= drawn' BY <1>a, <2>1
  <2> QED BY <1>b, <2>0, <2>1, <2>2, <2>3, <2>4, <2>5
<1>2. CASE Delivery!ConsoleSends
  <2>1. drawn' = drawn + 1 /\ drawn' \in 0 .. Last /\ way = "in" /\ UNCHANGED <<way, deserted>>
    BY <1>2, <1>a, DeliveryAssumption DEF Delivery!ConsoleSends
  <2>2. Delivery!Keep(drawn + 1) /\ air' = air \cup {drawn + 1}
        /\ UNCHANGED <<going, pushing, dropped, awaited, queued, acks>>
    BY <1>2 DEF Delivery!ConsoleSends
  <2>3. drawn + 1 \in 1 .. drawn' /\ drawn <= drawn' /\ drawn' \in Nat BY <2>1, <1>a
  <2>4. Delivery!Kept' = Delivery!Kept \cup {drawn + 1} /\ KeptTypes'
    BY <1>0, <2>2, <2>3, KeepOne
  <2>5. NumberTypes' BY <1>0, <1>a, <2>1, <2>2 DEF NumberTypes
  <2>6. PacketTypes' BY <1>0, <1>a, <2>1, <2>2 DEF PacketTypes
  <2>7. RoomTypes' /\ WindowTypes' BY <1>0, <2>1, <2>2 DEF RoomTypes, WindowTypes
  <2>8. Delivery!Carried' BY <1>0, <1>a, <2>1, <2>2, <2>4 DEF Delivery!Carried
  <2>9. AcksTrue' /\ ConsoleOnly' BY <1>0, <2>1, <2>2 DEF AcksTrue, ConsoleOnly
  <2> QED BY <2>4, <2>5, <2>6, <2>7, <2>8, <2>9 DEF DeliveryInv
<1>3. ASSUME NEW n \in 1 .. Last, Delivery!Send(n) PROVE DeliveryInv'
  <2>1. PacketTypes' BY <1>0, <1>3 DEF Delivery!Send, PacketTypes
  <2>2. Delivery!Carried' BY <1>0, <1>3 DEF Delivery!Send, Delivery!Carried, Delivery!Kept, ConsoleOnly
  <2>3. ConsoleOnly' BY <1>0, <1>3 DEF Delivery!Send, ConsoleOnly
  <2> QED BY <1>0, <1>3, <1>a, <1>b, <2>1, <2>2, <2>3 DEF Delivery!Send, NumberTypes
<1>4. ASSUME NEW n \in 1 .. Last, Delivery!Push(n) PROVE DeliveryInv'
  <2>1. /\ n \in pushing /\ pushing' = pushing \ {n}
        /\ UNCHANGED <<way, deserted, drawn, going, air, awaited, queued, acks>>
    BY <1>4 DEF Delivery!Push
  <2>2. n \in 1 .. drawn /\ way = "out" BY <1>0, <2>1 DEF PacketTypes, ConsoleOnly, NumberTypes
  <2>3. NumberTypes' /\ WindowTypes' /\ AcksTrue' /\ ConsoleOnly'
    BY <1>0, <2>1, <2>2 DEF NumberTypes, WindowTypes, AcksTrue, ConsoleOnly
  <2>4. CASE Cardinality(Delivery!Kept) < Room
    <3>1. Delivery!Keep(n) /\ dropped' = dropped BY <1>4, <2>4, SameCount DEF Delivery!Push
    <3>2. n \in 1 .. drawn' /\ drawn <= drawn' /\ drawn' \in Nat BY <1>a, <2>1, <2>2
    <3>3. /\ Delivery!Kept' = Delivery!Kept \cup {n} /\ KeptTypes'
          /\ Cardinality(Delivery!Kept') <= Room
      BY <1>0, <2>4, <3>1, <3>2, KeepOne
    <3>4. RoomTypes' BY <3>3 DEF RoomTypes
    <3>5. PacketTypes' BY <1>0, <2>1, <3>1 DEF PacketTypes
    <3>6. Delivery!Carried' BY <1>0, <2>1, <3>1, <3>3 DEF Delivery!Carried
    <3> QED BY <2>3, <3>3, <3>4, <3>5, <3>6 DEF DeliveryInv
  <2>5. CASE ~(Cardinality(Delivery!Kept) < Room)
    <3>1. dropped' = dropped \cup {n} /\ kept' = kept BY <1>4, <2>5, SameCount DEF Delivery!Push
    <3>2. PacketTypes' BY <1>0, <2>1, <2>2, <3>1 DEF PacketTypes
    <3>3. Delivery!Carried' BY <1>0, <2>1, <2>2, <3>1 DEF Delivery!Carried, Delivery!Kept
    <3>4. drawn' \in 0 .. Last /\ drawn <= drawn' BY <1>0, <1>a, <2>1 DEF NumberTypes
    <3>5. UNCHANGED <<way, kept, awaited, queued>> /\ acks' \subseteq acks BY <2>1, <3>1
    <3> QED BY <1>b, <2>3, <3>2, <3>3, <3>4, <3>5 DEF NumberTypes
  <2> QED BY <2>4, <2>5
<1>5. ASSUME NEW n \in 1 .. Last, Delivery!Resend(n) PROVE DeliveryInv'
  <2>1. /\ way = "out" /\ n \in Delivery!Kept /\ kept[n] < ResendTries
        /\ kept' = [kept EXCEPT ![n] = @ + 1] /\ air' = air \cup {n}
        /\ UNCHANGED <<way, deserted, drawn, going, pushing, dropped, awaited, queued, acks>>
    BY <1>5 DEF Delivery!Resend
  <2>2. Delivery!Kept' = Delivery!Kept BY <2>1 DEF Delivery!Kept
  <2>3. \A m \in Delivery!Kept : kept'[m] = IF m = n THEN kept[n] + 1 ELSE kept[m]
    BY <2>1 DEF Delivery!Kept
  <2>4. KeptTypes'
    BY <1>0, <2>1, <2>2, <2>3, DeliveryAssumption DEF KeptTypes
  <2>5. RoomTypes' BY <1>0, <2>1, <2>2 DEF RoomTypes
  <2>6. PacketTypes' BY <1>0, <2>1 DEF PacketTypes, KeptTypes
  <2>7. Delivery!Carried' BY <1>0, <2>1, <2>2 DEF Delivery!Carried
  <2>8. NumberTypes' /\ WindowTypes' /\ AcksTrue' /\ ConsoleOnly'
    BY <1>0, <2>1 DEF NumberTypes, WindowTypes, AcksTrue, ConsoleOnly
  <2> QED BY <2>4, <2>5, <2>6, <2>7, <2>8 DEF DeliveryInv
<1>6. ASSUME NEW n \in 1 .. Last, Delivery!GiveUp(n) PROVE DeliveryInv'
  <2>1. PICK last \in Delivery!Kept :
          LET covered == {m \in Delivery!Kept : m <= last}
          IN  Delivery!Forget(covered) /\ dropped' = dropped \cup covered
    BY <1>6 DEF Delivery!GiveUp
  <2> DEFINE covered == {m \in Delivery!Kept : m <= last}
  <2>2. /\ way = "out" /\ Delivery!Forget(covered) /\ dropped' = dropped \cup covered
        /\ UNCHANGED <<way, deserted, drawn, going, pushing, air, awaited, queued, acks>>
    BY <1>6, <2>1 DEF Delivery!GiveUp
  <2>3. covered \subseteq Delivery!Kept OBVIOUS
  <2> HIDE DEF covered
  <2>4. Delivery!Kept' = Delivery!Kept \ covered /\ KeptTypes' /\ RoomTypes'
    BY <1>0, <2>2, ForgetFew
  <2>5. PacketTypes' BY <1>0, <2>2, <2>3 DEF PacketTypes, KeptTypes
  <2>6. Delivery!Carried' BY <1>0, <2>2, <2>3, <2>4 DEF Delivery!Carried
  <2>7. NumberTypes' /\ WindowTypes' /\ AcksTrue' /\ ConsoleOnly'
    BY <1>0, <2>2 DEF NumberTypes, WindowTypes, AcksTrue, ConsoleOnly
  <2> QED BY <2>4, <2>5, <2>6, <2>7 DEF DeliveryInv
<1>7. ASSUME NEW n \in 1 .. Last, Delivery!ConsoleResends(n) \/ Delivery!Lose(n) \/ Delivery!LoseAck(n)
      PROVE  DeliveryInv'
  <2>1. PacketTypes'
    BY <1>0, <1>7 DEF Delivery!ConsoleResends, Delivery!Lose, Delivery!LoseAck, PacketTypes, KeptTypes
  <2>2. UNCHANGED <<way, deserted, drawn, going, pushing, kept, dropped, awaited, queued>> /\ acks' \subseteq acks
    BY <1>7 DEF Delivery!ConsoleResends, Delivery!Lose, Delivery!LoseAck
  <2>3. Delivery!Carried' /\ ConsoleOnly'
    BY <1>0, <2>2 DEF Delivery!Carried, Delivery!Kept, ConsoleOnly
  <2> QED BY <1>0, <1>a, <1>b, <2>1, <2>2, <2>3 DEF NumberTypes
<1>8. ASSUME NEW n \in 1 .. Last, Delivery!Arrive(n) PROVE DeliveryInv' BY <1>8, ArriveInv
<1>9. ASSUME NEW n \in 1 .. Last, Delivery!AckArrives(n) PROVE DeliveryInv'
  <2>1. /\ n \in acks /\ acks' = acks \ {n} /\ Delivery!Forget(1 .. n)
        /\ UNCHANGED <<way, deserted, drawn, going, pushing, dropped, air, awaited, queued>>
    BY <1>9 DEF Delivery!AckArrives
  <2>2. Delivery!Kept' = Delivery!Kept \ 1 .. n /\ KeptTypes' /\ RoomTypes'
    BY <1>0, <2>1, ForgetFew
  <2>3. n < awaited BY <1>0, <1>a, <2>1 DEF AcksTrue
  <2>4. Delivery!Carried' BY <1>0, <1>a, <2>1, <2>2, <2>3 DEF Delivery!Carried
  <2>5. NumberTypes' /\ PacketTypes' /\ WindowTypes' /\ AcksTrue' /\ ConsoleOnly'
    BY <1>0, <2>1 DEF NumberTypes, PacketTypes, WindowTypes, AcksTrue, ConsoleOnly
  <2> QED BY <2>2, <2>4, <2>5 DEF DeliveryInv
<1>10. CASE UNCHANGED Delivery!vars
  BY <1>0, <1>10
     DEF Delivery!vars, DeliveryInv, NumberTypes, PacketTypes, KeptTypes, RoomTypes, WindowTypes,
         Delivery!Kept, Delivery!Carried, AcksTrue, ConsoleOnly
<1>11. CASE Delivery!Desert
  <2>1. PacketTypes' /\ Delivery!Carried' /\ ConsoleOnly'
    BY <1>0, <1>11 DEF Delivery!Desert, PacketTypes, Delivery!Carried, Delivery!Kept, ConsoleOnly
  <2> QED BY <1>0, <1>11, <1>a, <1>b, <2>1 DEF Delivery!Desert, NumberTypes
<1> QED BY <1>1, <1>2, <1>3, <1>4, <1>5, <1>6, <1>7, <1>8, <1>9, <1>10, <1>11
        DEF Delivery!Next, Delivery!Ours, Delivery!Carries
-----------------------------------------------------------------------------
(* The thread that receives.                                                *)

Packet == [id : 0 .. MaxAV - 1, ok : BOOLEAN]
OutSet(s) == { s[i] : i \in 1 .. Len(s) }
Rising(s) == \A i, j \in 1 .. Len(s) : i < j => s[i] < s[j]
RisingIds(packets) == \A i, j \in 1 .. Len(packets) : i < j => packets[i].id < packets[j].id

(* What the loop over the first i packets has handed on is s.               *)
AcceptedUpTo(packets, i) == { packets[j].id : j \in { k \in 1 .. i : packets[k].ok } }
HandedUpTo(packets, i, s) ==
  s \in Seq(0 .. MaxAV - 1) /\ Rising(s) /\ OutSet(s) = AcceptedUpTo(packets, i)

LEMMA HandsOne ==
  ASSUME NEW packets \in Seq(Packet), RisingIds(packets), NEW i \in 1 .. Len(packets),
         NEW s, HandedUpTo(packets, i - 1, s)
  PROVE  HandedUpTo(packets, i, IF packets[i].ok THEN Append(s, packets[i].id) ELSE s)
<1>0. packets[i] \in Packet /\ Len(packets) \in Nat OBVIOUS
<1>1. packets[i].id \in 0 .. MaxAV - 1 /\ Len(packets) \in Nat BY <1>0 DEF Packet
<1>2. s \in Seq(0 .. MaxAV - 1) /\ Rising(s) /\ OutSet(s) = AcceptedUpTo(packets, i - 1)
  BY DEF HandedUpTo
<1>3. CASE ~packets[i].ok
  <2>1. { k \in 1 .. i : packets[k].ok } = { k \in 1 .. i - 1 : packets[k].ok } BY <1>1, <1>3
  <2>2. AcceptedUpTo(packets, i) = AcceptedUpTo(packets, i - 1) BY <2>1 DEF AcceptedUpTo
  <2> QED BY <1>2, <1>3, <2>2 DEF HandedUpTo
<1>4. CASE packets[i].ok
  <2> DEFINE t == Append(s, packets[i].id)
  <2>1. /\ t \in Seq(0 .. MaxAV - 1) /\ Len(t) = Len(s) + 1 /\ Len(s) \in Nat
        /\ \A j \in 1 .. Len(s) : t[j] = s[j]
        /\ t[Len(s) + 1] = packets[i].id
    BY <1>1, <1>2, AppendProperties
  <2> HIDE DEF t
  <2>2. AcceptedUpTo(packets, i) = AcceptedUpTo(packets, i - 1) \cup {packets[i].id}
    <3>1. { k \in 1 .. i : packets[k].ok } = { k \in 1 .. i - 1 : packets[k].ok } \cup {i}
      BY <1>1, <1>4
    <3> QED BY <3>1 DEF AcceptedUpTo
  <2>3. OutSet(t) = OutSet(s) \cup {packets[i].id}
    <3>1. 1 .. Len(t) = (1 .. Len(s)) \cup {Len(s) + 1} BY <2>1
    <3> QED BY <2>1, <3>1 DEF OutSet
  <2>4. \A j \in 1 .. Len(s) : s[j] < packets[i].id
    <3> SUFFICES ASSUME NEW j \in 1 .. Len(s) PROVE s[j] < packets[i].id OBVIOUS
    <3>1. s[j] \in AcceptedUpTo(packets, i - 1) BY <1>2 DEF OutSet
    <3>2. PICK k \in 1 .. i - 1 : s[j] = packets[k].id BY <3>1 DEF AcceptedUpTo
    <3>3. k \in 1 .. Len(packets) /\ k < i BY <1>1
    <3> QED BY <3>2, <3>3 DEF RisingIds
  <2>5. Rising(t)
    <3> SUFFICES ASSUME NEW a \in 1 .. Len(t), NEW b \in 1 .. Len(t), a < b PROVE t[a] < t[b]
      BY DEF Rising
    <3>1. a \in 1 .. Len(s) /\ (b \in 1 .. Len(s) \/ b = Len(s) + 1) BY <2>1
    <3>2. CASE b \in 1 .. Len(s) BY <1>2, <2>1, <3>1, <3>2 DEF Rising
    <3>3. CASE b = Len(s) + 1 BY <2>1, <2>4, <3>1, <3>3
    <3> QED BY <3>1, <3>2, <3>3
  <2> QED BY <1>2, <1>4, <2>1, <2>2, <2>3, <2>5 DEF HandedUpTo, t
<1> QED BY <1>3, <1>4

LEMMA HandedOnIs ==
  ASSUME NEW packets \in Seq(Packet), RisingIds(packets)
  PROVE  HandedUpTo(packets, Len(packets), HandedOn(packets))
<1> DEFINE n == Len(packets)
           V == Seq(0 .. MaxAV - 1)
           turn == [t \in Nat \X V |-> IF t[1] \in 1 .. n /\ packets[t[1]].ok
                                       THEN Append(t[2], packets[t[1]].id) ELSE t[2]]
           body(f) == [i \in 0 .. n |-> IF i = 0 THEN <<>>
                                        ELSE IF packets[i].ok THEN Append(f[i - 1], packets[i].id)
                                        ELSE f[i - 1]]
           upto == CHOOSE f : f = body(f)
<1>1. n \in Nat /\ <<>> \in V /\ \A i \in 1 .. n : packets[i].id \in 0 .. MaxAV - 1
  <2>1. \A p \in Packet : p.id \in 0 .. MaxAV - 1 BY DEF Packet
  <2>2. \A i \in 1 .. n : packets[i] \in Packet OBVIOUS
  <2> QED BY <2>1, <2>2, EmptySeq
<1>2. HandedOn(packets) = upto[n] BY DEF HandedOn
<1>3. turn \in [Nat \X V -> V]
  <2>1. ASSUME NEW t \in Nat \X V, t[1] \in 1 .. n
        PROVE  Append(t[2], packets[t[1]].id) \in V
    BY <1>1, <2>1, AppendProperties
  <2> HIDE DEF n, V
  <2> QED BY <2>1
<1>4. PICK g : Loops(g, V, <<>>, turn, n)
  <2> HIDE DEF turn, V, n
  <2> QED BY <1>1, <1>3, LoopFunction
<1> HIDE DEF n
<1>5. ASSUME NEW i \in 1 .. n
      PROVE  g[i] = IF packets[i].ok THEN Append(g[i - 1], packets[i].id) ELSE g[i - 1]
  <2>1. i \in Nat /\ i - 1 \in 0 .. n BY <1>1
  <2>2. g[i - 1] \in V /\ g[i] = turn[<<i, g[i - 1]>>] BY <1>4, <2>1 DEF Loops
  <2> HIDE DEF V
  <2> QED BY <2>1, <2>2
<1>6. g = body(g)
  <2>1. g \in [0 .. n -> V] /\ g[0] = <<>> BY <1>4 DEF Loops
  <2>2. \A i \in 0 .. n : i = 0 \/ i \in 1 .. n BY <1>1
  <2> HIDE DEF V
  <2> QED BY <1>5, <2>1, <2>2
<1>7. upto = body(upto) BY <1>6
<1> HIDE DEF upto
<1>8. upto[0] = <<>> BY <1>1, <1>7
<1>9. \A i \in 1 .. n :
        upto[i] = IF packets[i].ok THEN Append(upto[i - 1], packets[i].id) ELSE upto[i - 1]
  <2>1. \A i \in 1 .. n : i \in 0 .. n /\ i # 0 BY <1>1
  <2> QED BY <1>7, <2>1
<1> DEFINE T == { k \in Nat : k <= n => HandedUpTo(packets, k, upto[k]) }
<1>10. 0 \in T
  <2>1. OutSet(<<>>) = {} /\ AcceptedUpTo(packets, 0) = {} /\ Rising(<<>>)
    BY EmptySeq DEF OutSet, AcceptedUpTo, Rising
  <2> QED BY <1>1, <1>8, <2>1 DEF HandedUpTo
<1>11. ASSUME NEW k \in Nat, k \in T PROVE k + 1 \in T
  <2> SUFFICES ASSUME k + 1 <= n PROVE HandedUpTo(packets, k + 1, upto[k + 1]) OBVIOUS
  <2>1. k + 1 \in 1 .. n /\ (k + 1) - 1 = k /\ k <= n BY <1>1
  <2>2. HandedUpTo(packets, (k + 1) - 1, upto[(k + 1) - 1]) BY <1>11, <2>1
  <2>3. upto[k + 1] = IF packets[k + 1].ok THEN Append(upto[(k + 1) - 1], packets[k + 1].id)
                      ELSE upto[(k + 1) - 1]
    BY <1>9, <2>1
  <2>4. k + 1 \in 1 .. Len(packets) BY <2>1 DEF n
  <2> QED BY <2>2, <2>3, <2>4, HandsOne
<1>12. n \in T
  <2> HIDE DEF T
  <2> QED BY <1>1, <1>10, <1>11, SetInduction
<1> QED BY <1>1, <1>2, <1>12 DEF n
-----------------------------------------------------------------------------
(* The parts of the thread's type invariant, with what bounds the data      *)
(* numbers, and what it relies on: packets are postponed only while there   *)
(* is no encryption although there is to be, and none is handed on then.    *)
PlaceTypes ==
  /\ pc \in {"initAck", "cookieAck", "cookieAckAgain", "loop", "recv", "fini",
             "disconnect", "done", "crashed"}
  /\ stopReq \in BOOLEAN /\ crypt \in BOOLEAN /\ cryptAvail \in BOOLEAN
QueueTypes ==
  /\ next \in 0 .. MaxData /\ held \subseteq next + 1 .. next + QueueSize - 1
  /\ held \subseteq 0 .. MaxData - 1
AVTypes ==
  /\ postponed \in Seq(Packet) /\ Len(postponed) <= PostponeMax
  /\ arrived \in 0 .. MaxAV /\ avOut \in Seq(0 .. MaxAV - 1)
AVOrder ==
  /\ Rising(avOut) /\ RisingIds(postponed)
  /\ postponed # << >> => avOut = << >> /\ EnableCrypt
  /\ EnableCrypt /\ ~crypt => avOut = << >>
NoneWaits == pc = "recv" /\ crypt => postponed = << >>
Accounted ==
  /\ IdSet(postponed) \cup refused \cup lost \cup OutSet(avOut) = 0 .. arrived - 1
Counted == live = Cardinality(held) + Len(postponed) + Cardinality(lost)
EventsFit ==
  /\ pc \in {"initAck", "cookieAck", "cookieAckAgain"} => events = << >>
  /\ pc \in {"loop", "recv", "fini", "crashed"} => events = <<"connected">>
  /\ pc = "disconnect" => events \in {<< >>, <<"connected">>}
  /\ pc = "done" => events \in {<<"connected", "disconnect">>, <<"disconnect">>}
ReceiveInv ==
  /\ PlaceTypes /\ QueueTypes /\ AVTypes /\ AVOrder /\ NoneWaits /\ Accounted /\ Counted
  /\ EventsFit

LEMMA FiniteHeld == QueueTypes => IsFiniteSet(held) /\ Cardinality(held) \in Nat
<1> SUFFICES ASSUME QueueTypes PROVE IsFiniteSet(held) /\ Cardinality(held) \in Nat OBVIOUS
<1>1. IsFiniteSet(0 .. MaxData - 1) BY EnvAssumption, FS_Interval
<1>2. IsFiniteSet(held) BY <1>1, FS_Subset DEF QueueTypes
<1> QED BY <1>2, FS_CardinalityType

LEMMA FiniteLost ==
  AVTypes /\ Accounted => IsFiniteSet(lost) /\ Cardinality(lost) \in Nat /\ arrived \notin lost
<1> SUFFICES ASSUME AVTypes, Accounted
             PROVE  IsFiniteSet(lost) /\ Cardinality(lost) \in Nat /\ arrived \notin lost
  OBVIOUS
<1>1. arrived \in Nat BY DEF AVTypes
<1>2. lost \subseteq 0 .. arrived - 1 BY DEF Accounted
<1>3. IsFiniteSet(0 .. arrived - 1) BY <1>1, FS_Interval
<1>4. IsFiniteSet(lost) BY <1>2, <1>3, FS_Subset
<1> QED BY <1>1, <1>2, <1>4, FS_CardinalityType

LEMMA ReceiveSound == ReceiveInv => TypeOK /\ CallbackOrder /\ NothingForgotten /\ BuffersOwned
<1> SUFFICES ASSUME ReceiveInv
             PROVE  TypeOK /\ CallbackOrder /\ NothingForgotten /\ BuffersOwned
  OBVIOUS
<1>1. PlaceTypes /\ QueueTypes /\ AVTypes /\ AVOrder /\ NoneWaits /\ Accounted /\ Counted /\ EventsFit
  BY DEF ReceiveInv
<1>2. refused \cup lost \subseteq 0 .. MaxAV - 1
  <2>1. 0 .. arrived - 1 \subseteq 0 .. MaxAV - 1 BY <1>1, EnvAssumption DEF AVTypes
  <2> QED BY <1>1, <2>1 DEF Accounted
<1>3. live \in Nat
  <2>1. Len(postponed) \in Nat BY <1>1 DEF AVTypes
  <2> QED BY <1>1, <2>1, FiniteHeld, FiniteLost DEF Counted
<1>4. events \in {<< >>, <<"connected">>, <<"connected", "disconnect">>, <<"disconnect">>}
  BY <1>1 DEF PlaceTypes, EventsFit
<1>5. TypeOK
  <2>1. events \in Seq({"connected", "disconnect"})
    <3> DEFINE E == {"connected", "disconnect"}
    <3>1. "connected" \in E /\ "disconnect" \in E OBVIOUS
    <3> HIDE DEF E
    <3>2. << >> \in Seq(E) /\ <<"connected">> \in Seq(E) /\ <<"disconnect">> \in Seq(E)
      BY <3>1
    <3>3. <<"connected", "disconnect">> \in Seq(E) BY <3>1
    <3>4. events \in Seq(E) BY <1>4, <3>2, <3>3
    <3> QED BY <3>4 DEF E
  <2> QED BY <1>1, <1>2, <1>3, <2>1 DEF TypeOK, PlaceTypes, QueueTypes, AVTypes, Packet
<1>6. EventOrder
  <2>1. CASE pc = "done"
    <3>1. events # << >> /\ events[Len(events)] = "disconnect" BY <1>1, <2>1 DEF EventsFit
    <3> QED BY <1>4, <2>1, <3>1 DEF EventOrder
  <2>2. CASE pc # "done"
    <3>1. events \in {<< >>, <<"connected">>} BY <1>1, <2>2 DEF PlaceTypes, EventsFit
    <3>2. ~(events # << >> /\ events[Len(events)] = "disconnect") BY <3>1
    <3>3. pc \in {"loop", "recv", "fini"} => events = <<"connected">> BY <1>1 DEF EventsFit
    <3> QED BY <1>4, <2>2, <3>2, <3>3 DEF EventOrder
  <2> QED BY <2>1, <2>2
<1>7. AVInOrder BY <1>1 DEF AVOrder, Rising, AVInOrder
<1>8. NothingForgotten BY <1>1 DEF NothingForgotten, NoneWaits, Accounted, OutSet
<1> QED BY <1>1, <1>5, <1>6, <1>7, <1>8 DEF CallbackOrder, BuffersOwned, Counted

LEMMA ReceiveInit == Init => ReceiveInv
<1> SUFFICES ASSUME Init PROVE ReceiveInv OBVIOUS
<1>1. PlaceTypes /\ EventsFit /\ NoneWaits BY DEF Init, PlaceTypes, EventsFit, NoneWaits
<1>2. QueueTypes BY EnvAssumption DEF Init, QueueTypes
<1>3. AVTypes BY EnvAssumption, EmptySeq DEF Init, AVTypes
<1>4. AVOrder BY EmptySeq DEF Init, AVOrder, Rising, RisingIds
<1>5. Accounted BY EmptySeq DEF Init, Accounted, IdSet, OutSet
<1>6. Counted BY EmptySeq, FS_EmptySet DEF Init, Counted
<1> QED BY <1>1, <1>2, <1>3, <1>4, <1>5, <1>6 DEF ReceiveInv

-----------------------------------------------------------------------------
(* A data packet: what is in order leaves the queue and is freed.           *)

LEMMA RunIs ==
  ASSUME NEW from \in 0 .. MaxData, NEW in, in \subseteq 0 .. MaxData - 1
  PROVE  LET m == Run(from, in)
         IN  m \in from .. MaxData /\ from .. m - 1 \subseteq in /\ m \notin in
<1> DEFINE T == { m \in from .. MaxData : m \notin in }
<1>0. from \in Nat /\ MaxData \in Nat BY EnvAssumption
<1>1. PICK x \in T : \A y \in T : x <= y
  <2>1. T \subseteq Nat /\ MaxData \in T BY <1>0
  <2> HIDE DEF T
  <2> QED BY <2>1, LeastNat
<1>2. x \in from .. MaxData /\ x \notin in BY <1>1
<1>3. \A k \in from .. x - 1 : k \in in
  <2> SUFFICES ASSUME NEW k \in from .. x - 1, k \notin in PROVE FALSE OBVIOUS
  <2>1. k \in T /\ k < x BY <1>0, <1>2
  <2> QED BY <1>0, <1>1, <1>2, <2>1
<1>4. LET m == Run(from, in)
      IN  m \in from .. MaxData /\ (\A k \in from .. m - 1 : k \in in) /\ m \notin in
  BY <1>2, <1>3 DEF Run
<1> QED BY <1>4

LEMMA CountRun ==
  ASSUME NEW in, NEW a \in Nat, NEW b \in Nat, a <= b, IsFiniteSet(in), in \subseteq Nat,
         a .. b - 1 \subseteq in, b \notin in, \A k \in in : k >= a
  PROVE  LET rest == { k \in in : k > b }
         IN  IsFiniteSet(rest) /\ Cardinality(rest) = Cardinality(in) - (b - a)
<1> DEFINE rest == { k \in in : k > b }
<1>1. IsFiniteSet(rest) /\ IsFiniteSet(a .. b - 1) /\ Cardinality(a .. b - 1) = b - a
  <2>1. IsFiniteSet(rest) BY FS_Subset
  <2>2. IsFiniteSet(a .. b - 1) /\ Cardinality(a .. b - 1) = IF a > b - 1 THEN 0 ELSE (b - 1) - a + 1
    BY FS_Interval
  <2>3. Cardinality(a .. b - 1) = b - a BY <2>2
  <2> QED BY <2>1, <2>2, <2>3
<1>2. in = rest \cup a .. b - 1
  <2>1. \A k \in in : k \in Nat /\ k >= a /\ k # b OBVIOUS
  <2>2. \A k \in in : k > b \/ k \in a .. b - 1 BY <2>1
  <2> QED BY <2>2
<1>3. rest \cap a .. b - 1 = {}
  <2>1. \A k \in a .. b - 1 : ~(k > b) OBVIOUS
  <2> QED BY <2>1
<1> HIDE DEF rest
<1>4. Cardinality(in) = Cardinality(rest) + (b - a) - 0
  <2>1. Cardinality(rest \cap a .. b - 1) = 0 BY <1>3, FS_EmptySet
  <2>2. Cardinality(rest \cup a .. b - 1)
          = Cardinality(rest) + Cardinality(a .. b - 1) - Cardinality(rest \cap a .. b - 1)
    BY <1>1, FS_Union
  <2> QED BY <1>1, <1>2, <2>1, <2>2
<1>5. Cardinality(rest) \in Nat BY <1>1, FS_CardinalityType
<1> QED BY <1>1, <1>4, <1>5 DEF rest

LEMMA RecvDataInv ==
  ASSUME ReceiveInv, NEW n \in 0 .. MaxData - 1, RecvData(n)
  PROVE  ReceiveInv'
<1>0. PlaceTypes /\ QueueTypes /\ AVTypes /\ AVOrder /\ NoneWaits /\ Accounted /\ Counted /\ EventsFit
  BY DEF ReceiveInv
<1>1. /\ pc = "recv" /\ pc' = "loop" /\ stopReq' = stopReq /\ cryptAvail' = cryptAvail
      /\ postponed' = postponed /\ arrived' = arrived /\ avOut' = avOut
      /\ refused' = refused /\ lost' = lost /\ events' = events
  BY DEF RecvData, Readable, av
<1>2. AVTypes' /\ Accounted' /\ NoneWaits' /\ EventsFit'
  BY <1>0, <1>1 DEF AVTypes, Accounted, NoneWaits, EventsFit, IdSet, OutSet
<1> DEFINE in == held \cup {n}
           upto == Run(next, in)
<1>3. CASE (crypt /\ ~Sealed(n)) \/ n \notin next .. next + QueueSize - 1 \/ n \in held
  <2>1. next' = next /\ held' = held /\ crypt' = crypt /\ live' = live
    BY <1>3 DEF RecvData, queue
  <2> QED BY <1>0, <1>1, <1>2, <2>1
          DEF ReceiveInv, PlaceTypes, QueueTypes, AVOrder, Counted
<1>4. CASE ~((crypt /\ ~Sealed(n)) \/ n \notin next .. next + QueueSize - 1 \/ n \in held)
  <2>1. /\ next' = upto /\ held' = { k \in in : k > upto }
        /\ live' = live + 1 - (upto - next)
        /\ crypt' = (crypt \/ Bang \in next .. upto - 1)
    BY <1>4 DEF RecvData
  <2>2. next \in Nat /\ MaxData \in Nat /\ QueueSize \in Nat /\ next \in 0 .. MaxData
    BY <1>0, EnvAssumption DEF QueueTypes
  <2>3. n \in next .. next + QueueSize - 1 /\ n \notin held /\ n \in Nat BY <1>4, <2>2
  <2>4. in \subseteq 0 .. MaxData - 1 BY <1>0 DEF QueueTypes
  <2>5. in \subseteq next .. next + QueueSize - 1 BY <1>0, <2>2, <2>3 DEF QueueTypes
  <2>6. upto \in next .. MaxData /\ next .. upto - 1 \subseteq in /\ upto \notin in
    BY <2>2, <2>4, RunIs
  <2>7. IsFiniteSet(in) /\ Cardinality(in) = Cardinality(held) + 1
    BY <1>0, <2>3, FiniteHeld, FS_AddElement
  <2> HIDE DEF in, upto
  <2>8. Cardinality(held') = Cardinality(held) + 1 - (upto - next)
    <3>1. upto \in Nat /\ next <= upto /\ in \subseteq Nat /\ \A k \in in : k >= next
      BY <2>2, <2>4, <2>5, <2>6
    <3>2. Cardinality({ k \in in : k > upto }) = Cardinality(in) - (upto - next)
      BY <2>2, <2>6, <2>7, <3>1, CountRun
    <3>3. held' = { k \in in : k > upto } BY <2>1
    <3>4. Cardinality(held) \in Nat BY <1>0, FiniteHeld
    <3>5. Cardinality(held') = (Cardinality(held) + 1) - (upto - next) BY <2>7, <3>2, <3>3
    <3> QED BY <2>2, <3>1, <3>4, <3>5
  <2>9. PlaceTypes' BY <1>0, <1>1, <2>1 DEF PlaceTypes
  <2>10. QueueTypes'
    <3>1. next' \in 0 .. MaxData BY <2>1, <2>2, <2>6
    <3>2. held' \subseteq 0 .. MaxData - 1 BY <2>1, <2>4
    <3>3. ASSUME NEW k \in in, k > upto PROVE k \in upto + 1 .. upto + QueueSize - 1
      BY <2>2, <2>5, <2>6, <3>3
    <3> QED BY <2>1, <3>1, <3>2, <3>3 DEF QueueTypes
  <2>11. AVOrder' BY <1>0, <1>1, <2>1 DEF AVOrder, PlaceTypes
  <2>12. Counted'
    <3>1. Len(postponed) \in Nat /\ Cardinality(held) \in Nat /\ Cardinality(lost) \in Nat
      BY <1>0, FiniteHeld, FiniteLost DEF AVTypes
    <3>2. upto \in Int BY <2>2, <2>6
    <3> QED BY <1>0, <1>1, <2>1, <2>2, <2>8, <3>1, <3>2 DEF Counted
  <2> QED BY <1>2, <2>9, <2>10, <2>11, <2>12 DEF ReceiveInv
<1> QED BY <1>3, <1>4

(* The top of the loop: the postponed packets go all at once, and none was  *)
(* handed on before them.                                                   *)
LEMMA LoopTopInv == ReceiveInv /\ LoopTop => ReceiveInv'
<1> SUFFICES ASSUME ReceiveInv, LoopTop PROVE ReceiveInv' OBVIOUS
<1>0. PlaceTypes /\ QueueTypes /\ AVTypes /\ AVOrder /\ NoneWaits /\ Accounted /\ Counted /\ EventsFit
  BY DEF ReceiveInv
<1>1. /\ pc = "loop" /\ pc' = "recv" /\ cryptAvail' = (cryptAvail \/ Recheck)
      /\ stopReq' = stopReq /\ crypt' = crypt /\ next' = next /\ held' = held
      /\ arrived' = arrived /\ lost' = lost /\ events' = events
  BY DEF LoopTop, queue
<1>2. PlaceTypes' /\ QueueTypes' /\ EventsFit'
  BY <1>0, <1>1, EnvAssumption DEF PlaceTypes, QueueTypes, EventsFit, Recheck
<1>3. CASE ~crypt
  <2>1. avOut' = avOut /\ refused' = refused /\ postponed' = postponed /\ live' = live
    BY <1>3 DEF LoopTop
  <2>2. NoneWaits' BY <1>1, <1>3 DEF NoneWaits
  <2> QED BY <1>0, <1>1, <1>2, <2>1, <2>2
          DEF ReceiveInv, AVTypes, AVOrder, Accounted, Counted, IdSet, OutSet
<1>4. CASE crypt
  <2> DEFINE out == HandedOn(postponed)
  <2>1. /\ avOut' = avOut \o out /\ refused' = refused \cup Rejected(postponed)
        /\ postponed' = << >> /\ live' = live - Len(postponed)
    BY <1>4 DEF LoopTop
  <2>2. HandedUpTo(postponed, Len(postponed), out) BY <1>0, HandedOnIs DEF AVTypes, AVOrder
  <2> HIDE DEF out
  <2>3. out \in Seq(0 .. MaxAV - 1) /\ Rising(out) /\ OutSet(out) = AcceptedUpTo(postponed, Len(postponed))
    BY <2>2 DEF HandedUpTo
  <2>4. avOut \in Seq(0 .. MaxAV - 1) /\ Rising(avOut) /\ Len(postponed) \in Nat
    BY <1>0 DEF AVTypes, AVOrder
  <2>5. avOut' = avOut \/ (avOut = << >> /\ avOut' = out)
    <3>1. CASE postponed = << >>
      <4>1. AcceptedUpTo(postponed, Len(postponed)) = {} BY <3>1, EmptySeq DEF AcceptedUpTo
      <4>2. out = << >>
        <5>1. \A i \in 1 .. Len(out) : out[i] \in OutSet(out) BY DEF OutSet
        <5>2. Len(out) = 0 BY <2>3, <4>1, <5>1
        <5> QED BY <2>3, <5>2
      <4> QED BY <2>1, <2>4, <4>2
    <3>2. CASE postponed # << >>
      <4>1. avOut = << >> BY <1>0, <3>2 DEF AVOrder
      <4> QED BY <2>1, <2>3, <4>1
    <3> QED BY <3>1, <3>2
  <2>6. avOut' \in Seq(0 .. MaxAV - 1) /\ Rising(avOut') BY <2>3, <2>4, <2>5
  <2>7. AVTypes' /\ AVOrder' /\ NoneWaits'
    <3>1. postponed' \in Seq(Packet) /\ Len(postponed') = 0 /\ RisingIds(postponed')
      BY <2>1, EmptySeq DEF RisingIds
    <3>2. AVTypes' BY <1>0, <1>1, <2>6, <3>1, EnvAssumption DEF AVTypes
    <3>3. AVOrder' BY <1>1, <1>4, <2>1, <2>6, <3>1 DEF AVOrder
    <3> QED BY <2>1, <3>2, <3>3 DEF NoneWaits
  <2>8. OutSet(avOut') = OutSet(avOut) \cup OutSet(out)
    <3>1. CASE postponed = << >>
      <4>1. OutSet(out) = {} BY <2>3, <3>1, EmptySeq DEF AcceptedUpTo
      <4>2. out = << >>
        <5>1. \A i \in 1 .. Len(out) : out[i] \in OutSet(out) BY DEF OutSet
        <5>2. Len(out) = 0 BY <2>3, <4>1, <5>1
        <5> QED BY <2>3, <5>2
      <4>3. avOut' = avOut BY <2>1, <2>4, <4>2
      <4> QED BY <4>1, <4>3
    <3>2. CASE postponed # << >>
      <4>1. avOut = << >> BY <1>0, <3>2 DEF AVOrder
      <4>2. avOut' = out BY <2>1, <2>3, <4>1
      <4>3. OutSet(avOut) = {} BY <4>1, EmptySeq DEF OutSet
      <4> QED BY <4>2, <4>3
    <3> QED BY <3>1, <3>2
  <2>9. IdSet(postponed) = AcceptedUpTo(postponed, Len(postponed)) \cup Rejected(postponed)
    <3>1. \A i \in 1 .. Len(postponed) :
            i \in { k \in 1 .. Len(postponed) : postponed[k].ok }
              \/ i \in { j \in 1 .. Len(postponed) : ~postponed[j].ok }
      OBVIOUS
    <3> QED BY <3>1 DEF IdSet, AcceptedUpTo, Rejected
  <2>10. Accounted'
    <3>1. IdSet(postponed') = {} BY <2>1, EmptySeq DEF IdSet
    <3>2. IdSet(postponed) = OutSet(out) \cup Rejected(postponed) BY <2>3, <2>9
    <3>3. IdSet(postponed) \cup refused \cup lost \cup OutSet(avOut) = 0 .. arrived - 1
      BY <1>0 DEF Accounted
    <3>4. IdSet(postponed') \cup refused' \cup lost' \cup OutSet(avOut') = 0 .. arrived' - 1
      BY <1>1, <2>1, <2>8, <3>1, <3>2, <3>3
    <3>5. IdSet(postponed)' = IdSet(postponed') /\ OutSet(avOut)' = OutSet(avOut') OBVIOUS
    <3> QED BY <3>4 DEF Accounted
  <2>11. Counted'
    <3>1. Cardinality(held) \in Nat /\ Cardinality(lost) \in Nat BY <1>0, FiniteHeld, FiniteLost
    <3>2. Len(postponed') = 0 BY <2>1
    <3> QED BY <1>0, <1>1, <2>1, <2>4, <3>1, <3>2 DEF Counted
  <2> QED BY <1>2, <2>7, <2>10, <2>11 DEF ReceiveInv
<1> QED BY <1>3, <1>4

(* One packet more at the end of a sequence in rising order.                *)
LEMMA RisesOn ==
  ASSUME NEW s \in Seq(Nat), Rising(s), NEW x \in Nat, \A i \in 1 .. Len(s) : s[i] < x
  PROVE  Rising(Append(s, x)) /\ OutSet(Append(s, x)) = OutSet(s) \cup {x}
<1> DEFINE t == Append(s, x)
<1>1. /\ Len(t) = Len(s) + 1 /\ Len(s) \in Nat /\ t[Len(s) + 1] = x
      /\ \A j \in 1 .. Len(s) : t[j] = s[j] /\ s[j] \in Nat
  BY AppendProperties
<1> HIDE DEF t
<1>2. 1 .. Len(t) = (1 .. Len(s)) \cup {Len(s) + 1} BY <1>1
<1>3. OutSet(t) = OutSet(s) \cup {x} BY <1>1, <1>2 DEF OutSet
<1>4. Rising(t)
  <2> SUFFICES ASSUME NEW a \in 1 .. Len(t), NEW b \in 1 .. Len(t), a < b PROVE t[a] < t[b]
    BY DEF Rising
  <2>0. Len(t) = Len(s) + 1 /\ Len(s) \in Nat BY <1>1
  <2>1. a \in 1 .. Len(s) /\ (b \in 1 .. Len(s) \/ b = Len(s) + 1) BY <2>0
  <2>2. CASE b \in 1 .. Len(s) BY <1>1, <2>1, <2>2 DEF Rising
  <2>3. CASE b = Len(s) + 1 BY <1>1, <2>1, <2>3
  <2> QED BY <2>1, <2>2, <2>3
<1> QED BY <1>3, <1>4 DEF t

LEMMA RecvAVInv ==
  ASSUME ReceiveInv, NEW ok \in BOOLEAN, RecvAV(ok)
  PROVE  ReceiveInv'
<1>0. PlaceTypes /\ QueueTypes /\ AVTypes /\ AVOrder /\ NoneWaits /\ Accounted /\ Counted /\ EventsFit
  BY DEF ReceiveInv
<1>1. /\ pc = "recv" /\ pc' = "loop" /\ cryptAvail' = cryptAvail /\ arrived < MaxAV
      /\ stopReq' = stopReq /\ crypt' = crypt /\ next' = next /\ held' = held
      /\ arrived' = arrived + 1 /\ events' = events
  BY DEF RecvAV, queue, Readable
<1>2. PlaceTypes' /\ QueueTypes' /\ EventsFit' /\ NoneWaits'
  BY <1>0, <1>1 DEF PlaceTypes, QueueTypes, EventsFit, NoneWaits
<1>3. arrived \in Nat /\ MaxAV \in Nat /\ arrived \in 0 .. MaxAV - 1 /\ arrived' \in 0 .. MaxAV
  BY <1>0, <1>1, EnvAssumption DEF AVTypes
<1>4. 0 .. arrived' - 1 = (0 .. arrived - 1) \cup {arrived} BY <1>1, <1>3
<1>5. /\ postponed \in Seq(Packet) /\ Len(postponed) \in Nat /\ Len(postponed) <= PostponeMax
      /\ avOut \in Seq(0 .. MaxAV - 1) /\ avOut \in Seq(Nat)
  <2>1. avOut \in Seq(0 .. MaxAV - 1) BY <1>0 DEF AVTypes
  <2>2. avOut \in Seq(Nat)
    <3>1. \A i \in 1 .. Len(avOut) : avOut[i] \in 0 .. MaxAV - 1 BY <2>1, ElementOfSeq
    <3>2. \A i \in 1 .. Len(avOut) : avOut[i] \in Nat BY <3>1, <1>3
    <3>3. Len(avOut) \in Nat /\ avOut = [i \in 1 .. Len(avOut) |-> avOut[i]] BY <2>1
    <3> QED BY <3>2, <3>3, IsASeq
  <2> QED BY <1>0, <2>1, <2>2 DEF AVTypes
<1>6. /\ \A i \in 1 .. Len(avOut) : avOut[i] < arrived
      /\ \A i \in 1 .. Len(postponed) : postponed[i].id < arrived
  <2>1. \A i \in 1 .. Len(avOut) : avOut[i] \in 0 .. arrived - 1 BY <1>0 DEF Accounted, OutSet
  <2>2. \A i \in 1 .. Len(postponed) : postponed[i].id \in 0 .. arrived - 1
    BY <1>0 DEF Accounted, IdSet
  <2> QED BY <1>3, <2>1, <2>2
<1>7. Cardinality(held) \in Nat /\ IsFiniteSet(lost) /\ Cardinality(lost) \in Nat /\ arrived \notin lost
  BY <1>0, FiniteHeld, FiniteLost
<1>8. CASE /\ EnableCrypt /\ ~crypt /\ Len(postponed) < PostponeMax
           /\ postponed' = Append(postponed, [id |-> arrived, ok |-> ok])
           /\ live' = live + 1
           /\ UNCHANGED <<avOut, refused, lost>>
  <2> DEFINE p == [id |-> arrived, ok |-> ok]
  <2>1. p \in Packet /\ p.id = arrived BY <1>3 DEF Packet
  <2> HIDE DEF p
  <2>2. postponed' = Append(postponed, p) BY <1>8 DEF p
  <2>3. /\ postponed' \in Seq(Packet) /\ Len(postponed') = Len(postponed) + 1
        /\ postponed'[Len(postponed) + 1] = p
        /\ \A j \in 1 .. Len(postponed) : postponed'[j] = postponed[j]
    BY <1>5, <2>1, <2>2, AppendProperties
  <2>4. RisingIds(postponed')
    <3> SUFFICES ASSUME NEW a \in 1 .. Len(postponed'), NEW b \in 1 .. Len(postponed'), a < b
                 PROVE  postponed'[a].id < postponed'[b].id
      BY DEF RisingIds
    <3>1. a \in 1 .. Len(postponed) /\ (b \in 1 .. Len(postponed) \/ b = Len(postponed) + 1)
      BY <1>5, <2>3
    <3>2. CASE b \in 1 .. Len(postponed)
      BY <1>0, <2>3, <3>1, <3>2 DEF AVOrder, RisingIds
    <3>3. CASE b = Len(postponed) + 1 BY <1>6, <2>1, <2>3, <3>1, <3>3
    <3> QED BY <3>1, <3>2, <3>3
  <2>5. IdSet(postponed') = IdSet(postponed) \cup {arrived}
    <3>1. 1 .. Len(postponed') = (1 .. Len(postponed)) \cup {Len(postponed) + 1} BY <1>5, <2>3
    <3> QED BY <2>1, <2>3, <3>1 DEF IdSet
  <2>6. AVTypes' BY <1>3, <1>5, <1>8, <2>3, EnvAssumption DEF AVTypes
  <2>7. AVOrder' BY <1>0, <1>1, <1>8, <2>4 DEF AVOrder
  <2>8. Accounted' BY <1>0, <1>4, <1>8, <2>5 DEF Accounted
  <2>9. Counted' BY <1>0, <1>1, <1>5, <1>7, <1>8, <2>3 DEF Counted
  <2> QED BY <1>2, <2>6, <2>7, <2>8, <2>9 DEF ReceiveInv
<1>9. CASE /\ lost' = lost \cup {arrived} /\ live' = live + 1
           /\ UNCHANGED <<postponed, avOut, refused>>
  <2>1. AVTypes' BY <1>3, <1>5, <1>9 DEF AVTypes
  <2>2. AVOrder' BY <1>0, <1>1, <1>9 DEF AVOrder
  <2>3. Accounted' BY <1>0, <1>4, <1>9 DEF Accounted
  <2>4. Cardinality(lost') = Cardinality(lost) + 1 BY <1>7, <1>9, FS_AddElement
  <2>5. Counted' BY <1>0, <1>1, <1>5, <1>7, <1>9, <2>4 DEF Counted
  <2> QED BY <1>2, <2>1, <2>2, <2>3, <2>5 DEF ReceiveInv
<1>10. CASE /\ crypt \/ ~EnableCrypt
            /\ IF crypt /\ ~ok
               THEN refused' = refused \cup {arrived} /\ avOut' = avOut
               ELSE avOut' = Append(avOut, arrived) /\ refused' = refused
            /\ UNCHANGED <<postponed, lost, live>>
  <2>1. postponed = << >> BY <1>0, <1>1, <1>10 DEF NoneWaits, AVOrder
  <2>2. Counted' BY <1>0, <1>1, <1>10 DEF Counted
  <2>3. CASE crypt /\ ~ok
    <3>1. refused' = refused \cup {arrived} /\ avOut' = avOut BY <1>10, <2>3
    <3>2. AVTypes' BY <1>3, <1>5, <1>10, <3>1 DEF AVTypes
    <3>3. AVOrder' BY <1>0, <1>1, <1>10, <3>1 DEF AVOrder
    <3>4. Accounted' BY <1>0, <1>4, <1>10, <3>1 DEF Accounted
    <3> QED BY <1>2, <2>2, <3>2, <3>3, <3>4 DEF ReceiveInv
  <2>4. CASE ~(crypt /\ ~ok)
    <3>1. refused' = refused /\ avOut' = Append(avOut, arrived) BY <1>10, <2>4
    <3>2. avOut' \in Seq(0 .. MaxAV - 1) BY <1>3, <1>5, <3>1, AppendProperties
    <3>3. Rising(avOut') /\ OutSet(avOut') = OutSet(avOut) \cup {arrived}
      BY <1>0, <1>3, <1>5, <1>6, <3>1, RisesOn DEF AVOrder
    <3>4. AVTypes' BY <1>3, <1>5, <1>10, <3>2 DEF AVTypes
    <3>5. AVOrder'
      <4>1. postponed' = << >> /\ ~(EnableCrypt /\ ~crypt') BY <1>1, <1>10, <2>1
      <4>2. RisingIds(postponed') BY <4>1, EmptySeq DEF RisingIds
      <4> QED BY <3>3, <4>1, <4>2 DEF AVOrder
    <3>6. Accounted' BY <1>0, <1>4, <1>10, <3>1, <3>3 DEF Accounted
    <3> QED BY <1>2, <2>2, <3>4, <3>5, <3>6 DEF ReceiveInv
  <2> QED BY <2>3, <2>4
<1> QED BY <1>8, <1>9, <1>10 DEF RecvAV

LEMMA AppendToOne ==
  ASSUME NEW a, NEW b
  PROVE  Append(<<a>>, b) = <<a, b>>
<1> DEFINE S == {a, b}
           t == Append(<<a>>, b)
           u == <<a, b>>
<1>0. a \in S /\ b \in S OBVIOUS
<1> HIDE DEF S
<1>1. <<a>> \in Seq(S) /\ Len(<<a>>) = 1 BY <1>0
<1>2. t \in Seq(S) /\ Len(t) = 2 /\ t[1] = a /\ t[2] = b BY <1>0, <1>1, AppendProperties
<1>3. u \in Seq(S) /\ Len(u) = 2 /\ u[1] = a /\ u[2] = b BY <1>0
<1> HIDE DEF t, u
<1>4. \A i \in 1 .. Len(t) : t[i] = u[i] BY <1>2, <1>3
<1>5. t = u BY <1>2, <1>3, <1>4, SeqEqual
<1> QED BY <1>5 DEF t, u

LEMMA ReceiveNext == ReceiveInv /\ [Next]_vars => ReceiveInv'
<1> SUFFICES ASSUME ReceiveInv, [Next]_vars PROVE ReceiveInv' OBVIOUS
<1>0. PlaceTypes /\ QueueTypes /\ AVTypes /\ AVOrder /\ NoneWaits /\ Accounted /\ Counted /\ EventsFit
  BY DEF ReceiveInv
\* Steps that only move the thread, or ask it to stop.
<1>a. ASSUME UNCHANGED <<crypt, cryptAvail, queue, av, live>>, PlaceTypes', EventsFit',
             pc' = "recv" => pc = "recv"
      PROVE  ReceiveInv'
  <2>1. UNCHANGED <<next, held, postponed, arrived, avOut, refused, lost>> BY <1>a DEF queue, av
  <2>2. QueueTypes' /\ AVTypes' BY <1>0, <2>1 DEF QueueTypes, AVTypes
  <2>3. AVOrder' /\ NoneWaits' BY <1>0, <1>a, <2>1 DEF AVOrder, NoneWaits
  <2>4. Accounted' /\ Counted' BY <1>0, <1>a, <2>1 DEF Accounted, Counted, IdSet, OutSet
  <2> QED BY <1>a, <2>2, <2>3, <2>4 DEF ReceiveInv
<1>1. CASE Canceled \/ RecvFails
  BY <1>0, <1>1, <1>a DEF Canceled, RecvFails, Waiting, AfterFailure, PlaceTypes, EventsFit
<1>2. CASE InitAck \/ Unexpected
  BY <1>0, <1>2, <1>a DEF InitAck, Unexpected, Readable, PlaceTypes, EventsFit
<1>3. CASE CookieAck
  <2>1. events = << >> /\ pc' = "loop" /\ events' = Append(events, "connected")
    BY <1>0, <1>3 DEF CookieAck, Connected, Readable, EventsFit
  <2>2. events' = <<"connected">> BY <2>1
  <2> QED BY <1>0, <1>3, <1>a, <2>1, <2>2 DEF CookieAck, Connected, PlaceTypes, EventsFit
<1>4. CASE RecheckCrash
  BY <1>0, <1>4, <1>a DEF RecheckCrash, PlaceTypes, EventsFit
<1>5. CASE LoopTop BY <1>5, LoopTopInv
<1>6. CASE Recv BY <1>6, RecvDataInv, RecvAVInv DEF Recv
<1>7. CASE Fini
  <2>1. /\ pc = "fini" /\ pc' = "disconnect" /\ held' = {} /\ live' = live - Cardinality(held)
        /\ UNCHANGED <<stopReq, crypt, cryptAvail, next, events>>
        /\ UNCHANGED <<postponed, arrived, avOut, refused, lost>>
    BY <1>7 DEF Fini, av
  <2>2. PlaceTypes' /\ EventsFit' BY <1>0, <2>1 DEF PlaceTypes, EventsFit
  <2>3. QueueTypes' /\ AVTypes' BY <1>0, <2>1 DEF QueueTypes, AVTypes
  <2>4. AVOrder' /\ NoneWaits' BY <1>0, <2>1 DEF AVOrder, NoneWaits
  <2>5. Accounted' BY <1>0, <2>1 DEF Accounted, IdSet, OutSet
  <2>6. Counted'
    <3>1. Cardinality(held) \in Nat /\ Cardinality(lost) \in Nat /\ Len(postponed) \in Nat
      BY <1>0, FiniteHeld, FiniteLost DEF AVTypes
    <3>2. Cardinality(held') = 0 BY <2>1, FS_EmptySet
    <3> QED BY <1>0, <2>1, <3>1, <3>2 DEF Counted
  <2> QED BY <2>2, <2>3, <2>4, <2>5, <2>6 DEF ReceiveInv
<1>8. CASE Disconnect
  <2>1. /\ pc = "disconnect" /\ pc' = "done" /\ events' = Append(events, "disconnect")
        /\ events \in {<< >>, <<"connected">>}
    BY <1>0, <1>8 DEF Disconnect, EventsFit
  <2>2. events' = <<"connected", "disconnect">> \/ events' = <<"disconnect">>
    <3>1. CASE events = << >> BY <2>1, <3>1
    <3>2. CASE events = <<"connected">>
      <4>1. events' = Append(<<"connected">>, "disconnect") BY <2>1, <3>2
      <4>2. Append(<<"connected">>, "disconnect") = <<"connected", "disconnect">>
        BY AppendToOne
      <4> QED BY <4>1, <4>2
    <3> QED BY <2>1, <3>1, <3>2
  <2> QED BY <1>0, <1>8, <1>a, <2>1, <2>2 DEF Disconnect, PlaceTypes, EventsFit
<1>9. CASE Close
  BY <1>0, <1>9, <1>a DEF Close, PlaceTypes, EventsFit
<1>10. CASE UNCHANGED vars
  BY <1>0, <1>10, <1>a DEF vars, PlaceTypes, EventsFit
<1> QED BY <1>1, <1>2, <1>3, <1>4, <1>5, <1>6, <1>7, <1>8, <1>9, <1>10 DEF Next, Thread
-----------------------------------------------------------------------------
(* Sequences of frames and samples.                                         *)

LEMMA TailOf ==
  ASSUME NEW S, NEW s \in Seq(S), s # << >>
  PROVE  /\ Head(s) \in S /\ Tail(s) \in Seq(S) /\ Len(Tail(s)) = Len(s) - 1
         /\ Len(s) \in Nat \ {0} /\ Head(s) = s[1]
         /\ \A i \in 1 .. Len(Tail(s)) : Tail(s)[i] = s[i + 1]
         /\ OutSet(s) = {Head(s)} \cup OutSet(Tail(s))
<1> DEFINE t == Tail(s)
<1>1. /\ Head(s) \in S /\ Head(s) = s[1] /\ Len(s) \in Nat \ {0}
      /\ t \in Seq(S) /\ Len(t) = Len(s) - 1
      /\ \A i \in 1 .. Len(t) : t[i] = s[i + 1]
  <2>1. Len(s) \in Nat \ {0} /\ Head(s) = s[1] /\ 1 \in 1 .. Len(s) BY EmptySeq
  <2>2. Head(s) \in S BY <2>1, ElementOfSeq
  <2> QED BY <2>1, <2>2, HeadTailProperties
<1> HIDE DEF t
<1>2. OutSet(s) = {Head(s)} \cup OutSet(t)
  <2>1. ASSUME NEW i \in 1 .. Len(s) PROVE s[i] \in {Head(s)} \cup OutSet(t)
    <3>1. CASE i = 1 BY <1>1, <3>1
    <3>2. CASE i # 1
      <4>1. i - 1 \in 1 .. Len(t) /\ (i - 1) + 1 = i BY <1>1, <3>2
      <4>2. t[i - 1] = s[i] BY <1>1, <4>1
      <4> QED BY <4>1, <4>2 DEF OutSet
    <3> QED BY <3>1, <3>2
  <2>2. ASSUME NEW i \in 1 .. Len(t) PROVE t[i] \in OutSet(s)
    <3>1. i + 1 \in 1 .. Len(s) /\ t[i] = s[i + 1] BY <1>1
    <3> QED BY <3>1 DEF OutSet
  <2>3. Head(s) \in OutSet(s)
    <3>1. 1 \in 1 .. Len(s) BY <1>1
    <3> QED BY <1>1, <3>1 DEF OutSet
  <2> QED BY <2>1, <2>2, <2>3 DEF OutSet
<1> QED BY <1>1, <1>2 DEF t

LEMMA RisingTail ==
  ASSUME NEW S, NEW s \in Seq(S), s # << >>, Rising(s)
  PROVE  Rising(Tail(s)) /\ \A x \in OutSet(Tail(s)) : Head(s) < x
<1> DEFINE t == Tail(s)
<1>1. /\ Head(s) = s[1] /\ Len(t) = Len(s) - 1 /\ Len(s) \in Nat \ {0}
      /\ \A i \in 1 .. Len(t) : t[i] = s[i + 1]
  BY TailOf
<1> HIDE DEF t
<1>2. \A i \in 1 .. Len(t) : i + 1 \in 1 .. Len(s) /\ 1 < i + 1 BY <1>1
<1>3. \A i \in 1 .. Len(t) : s[1] < t[i]
  <2>1. 1 \in 1 .. Len(s) BY <1>1
  <2> QED BY <1>1, <1>2, <2>1 DEF Rising
<1>4. Rising(t)
  <2> SUFFICES ASSUME NEW i \in 1 .. Len(t), NEW j \in 1 .. Len(t), i < j PROVE t[i] < t[j]
    BY DEF Rising
  <2>1. i + 1 < j + 1 BY <1>1
  <2> QED BY <1>1, <1>2, <2>1 DEF Rising
<1> QED BY <1>1, <1>3, <1>4 DEF OutSet, t

LEMMA AppendOf ==
  ASSUME NEW S, NEW s \in Seq(S), NEW x \in S
  PROVE  /\ Append(s, x) \in Seq(S) /\ Len(Append(s, x)) = Len(s) + 1 /\ Len(s) \in Nat
         /\ OutSet(Append(s, x)) = OutSet(s) \cup {x}
<1> DEFINE t == Append(s, x)
<1>1. /\ t \in Seq(S) /\ Len(t) = Len(s) + 1 /\ Len(s) \in Nat /\ t[Len(s) + 1] = x
      /\ \A j \in 1 .. Len(s) : t[j] = s[j]
  BY AppendProperties
<1> HIDE DEF t
<1>2. 1 .. Len(t) = (1 .. Len(s)) \cup {Len(s) + 1} BY <1>1
<1>3. OutSet(t) = OutSet(s) \cup {x} BY <1>1, <1>2 DEF OutSet
<1> QED BY <1>1, <1>3 DEF t

LEMMA NoneOut == OutSet(<< >>) = {} /\ Rising(<< >>)
  BY EmptySeq DEF OutSet, Rising

\* What stays of a sequence keeps its order.
LEMMA RisesByOne ==
  ASSUME NEW S, S \subseteq Nat, NEW s \in Seq(S), Rising(s), NEW x \in S,
         \A y \in OutSet(s) : y < x
  PROVE  Rising(Append(s, x))
<1>1. s \in Seq(Nat) BY SeqMonotonic
<1>2. \A i \in 1 .. Len(s) : s[i] < x BY DEF OutSet
<1>3. x \in Nat OBVIOUS
<1> QED BY <1>1, <1>2, <1>3, RisesOn

Once(s) == \A i, j \in 1 .. Len(s) : s[i] = s[j] => i = j
LEMMA OnceBoth ==
  ASSUME NEW S, NEW s \in Seq(S), NEW t \in Seq(S), Once(s), Once(t),
         OutSet(s) \cap OutSet(t) = {}
  PROVE  s \o t \in Seq(S) /\ Once(s \o t) /\ OutSet(s \o t) = OutSet(s) \cup OutSet(t)
<1> DEFINE u == s \o t
           m == Len(s)
           n == Len(t)
<1>1. /\ u \in Seq(S) /\ Len(u) = m + n /\ m \in Nat /\ n \in Nat
      /\ \A i \in 1 .. m + n : u[i] = IF i <= m THEN s[i] ELSE t[i - m]
  BY ConcatProperties
<1> HIDE DEF u, m, n
<1>2. ASSUME NEW i \in 1 .. m + n
      PROVE  (i \in 1 .. m /\ u[i] = s[i]) \/ (i - m \in 1 .. n /\ u[i] = t[i - m])
  <2>1. CASE i <= m BY <1>1, <2>1
  <2>2. CASE ~(i <= m) BY <1>1, <2>2
  <2> QED BY <2>1, <2>2
<1>3. Once(u)
  <2> SUFFICES ASSUME NEW i \in 1 .. m + n, NEW j \in 1 .. m + n, u[i] = u[j] PROVE i = j
    BY <1>1 DEF Once
  <2>1. ASSUME NEW a \in 1 .. m, NEW b \in 1 .. n PROVE s[a] # t[b] BY DEF OutSet, m, n
  <2>2. CASE i \in 1 .. m /\ u[i] = s[i] /\ j \in 1 .. m /\ u[j] = s[j]
    BY <2>2 DEF Once, m
  <2>3. CASE i - m \in 1 .. n /\ u[i] = t[i - m] /\ j - m \in 1 .. n /\ u[j] = t[j - m]
    <3>1. i - m = j - m BY <2>3 DEF Once, n
    <3> QED BY <1>1, <3>1
  <2>4. CASE i \in 1 .. m /\ u[i] = s[i] /\ j - m \in 1 .. n /\ u[j] = t[j - m] BY <2>1, <2>4
  <2>5. CASE i - m \in 1 .. n /\ u[i] = t[i - m] /\ j \in 1 .. m /\ u[j] = s[j] BY <2>1, <2>5
  <2> QED BY <1>2, <2>2, <2>3, <2>4, <2>5
<1>4. OutSet(u) = OutSet(s) \cup OutSet(t)
  <2>1. \A i \in 1 .. m + n : u[i] \in OutSet(s) \cup OutSet(t) BY <1>2 DEF OutSet, m, n
  <2>2. ASSUME NEW i \in 1 .. m PROVE s[i] \in OutSet(u)
    <3>1. i \in 1 .. m + n /\ i <= m BY <1>1
    <3>2. u[i] = s[i] BY <1>1, <3>1
    <3> QED BY <1>1, <3>1, <3>2 DEF OutSet
  <2>3. ASSUME NEW i \in 1 .. n PROVE t[i] \in OutSet(u)
    <3>1. i + m \in 1 .. m + n /\ ~(i + m <= m) /\ (i + m) - m = i BY <1>1
    <3>2. u[i + m] = t[i] BY <1>1, <3>1
    <3> QED BY <1>1, <3>1, <3>2 DEF OutSet
  <2>4. OutSet(u) \subseteq OutSet(s) \cup OutSet(t) BY <1>1, <2>1 DEF OutSet
  <2>5. OutSet(s) \subseteq OutSet(u)
    <3>1. OutSet(s) = { s[i] : i \in 1 .. m } BY DEF OutSet, m
    <3> QED BY <2>2, <3>1
  <2>6. OutSet(t) \subseteq OutSet(u)
    <3>1. OutSet(t) = { t[i] : i \in 1 .. n } BY DEF OutSet, n
    <3> QED BY <2>3, <3>1
  <2> QED BY <2>4, <2>5, <2>6
<1> QED BY <1>1, <1>3, <1>4 DEF u

LEMMA RisingOnce ==
  ASSUME NEW S, S \subseteq Nat, NEW s \in Seq(S), Rising(s)
  PROVE  Once(s)
<1> SUFFICES ASSUME NEW i \in 1 .. Len(s), NEW j \in 1 .. Len(s), s[i] = s[j], i # j PROVE FALSE
  BY DEF Once
<1>1. s[i] \in Nat /\ s[j] \in Nat BY ElementOfSeq
<1>2. i < j \/ j < i OBVIOUS
<1> QED BY <1>1, <1>2 DEF Rising
-----------------------------------------------------------------------------
(* The decoder.  Where the frames are: in the codec before and after it is  *)
(* decoded, queued for the vsync, in the hands of a thread, or waiting for  *)
(* an input buffer.                                                         *)
Going == OutSet(inside)
Ready == OutSet(ready)
Queued == OutSet(decoded)
Handed == Decoder!Holds(hand)
Picked == Decoder!Holds(chand)
Awaiting == IF spc = "wait" THEN {fed} ELSE {}
Everywhere == Going \cup Ready \cup Queued \cup Handed \cup Picked

FlagTypes ==
  /\ codec \in BOOLEAN /\ dropPending \in BOOLEAN /\ shutOut \in BOOLEAN /\ shutChor \in BOOLEAN
  /\ outStarted \in BOOLEAN /\ chorStarted \in BOOLEAN /\ request \in BOOLEAN /\ paced \in BOOLEAN
  /\ fini \in BOOLEAN /\ switched \in BOOLEAN /\ late \in BOOLEAN
  /\ pacing \in {"balanced", "direct"} /\ use \in {"balanced", "direct"}
CounterTypes ==
  /\ opc \in {"off", "top", "clear", "drop", "dequeue", "push", "pace", "drain", "render",
              "exit", "done"}
  /\ kpc \in {"off", "check", "post", "poll", "show", "again", "done"}
  /\ spc \in {"idle", "wait", "over"} /\ apc \in {"idle", "joinChor", "joinOut", "end", "gone"}
  /\ calls \in 0 .. Calls /\ posts \in Nat
FrameTypes ==
  /\ decoded \in Seq(1 .. Frames) /\ Len(decoded) <= Limit
  /\ inside \in Seq(1 .. Frames) /\ ready \in Seq(1 .. Frames) /\ released \subseteq 1 .. Frames
  /\ fed \in 0 .. Frames /\ hand \in 0 .. Frames /\ chand \in 0 .. Frames /\ shown \in 0 .. Frames

(* The threads live as long as the codec, and hold a frame only where the   *)
(* code gives it back.                                                      *)
Working == {"clear", "drop", "dequeue", "push", "pace", "drain", "render"}
ThreadsFit ==
  /\ ~codec => /\ opc = "off" /\ kpc = "off" /\ spc # "wait" /\ apc \in {"idle", "gone"}
               /\ ~shutOut /\ ~outStarted /\ ~chorStarted
               /\ inside = << >> /\ ready = << >>
  /\ opc \in {"off", "done"} => decoded = << >>
  /\ hand # 0 <=> opc \in {"push", "drain", "render"}
  /\ chand # 0 <=> kpc = "show"
  /\ apc \in {"joinChor", "joinOut", "end"} => codec /\ shutOut /\ shutChor /\ ~outStarted /\ ~chorStarted
  /\ apc \in {"joinOut", "end"} => kpc = "off"
  /\ apc = "end" => opc = "off"
  /\ codec /\ apc \in {"idle", "gone"} => ~shutOut /\ ~shutChor /\ (chorStarted \/ kpc = "off")

(* What the output thread does with a frame follows the pacing it has read, *)
(* and without a choreographer it shows what is queued itself.              *)
PacingFits ==
  /\ opc \in Working /\ ~paced => kpc = "off"
  /\ opc = "drain" => use = "direct"
  /\ opc = "push" => use = "balanced"
  /\ opc \in {"pace", "render"} /\ use = "balanced" => ~paced
  /\ opc = "pace" => use = "balanced"
  /\ ~switched => /\ opc \in Working => use = pacing
                  /\ pacing = "direct" => decoded = << >> /\ chand = 0
StaleFits ==
  /\ Decoder!StaleGone
  /\ opc \in Working /\ use = "balanced" /\ pacing = "direct" => dropPending

(* Every request for a vsync comes from one call of set_surface.            *)
VsyncFits ==
  /\ Decoder!VsyncAsked
  /\ posts + (IF request THEN 1 ELSE 0) + (IF kpc \in {"post", "show", "again"} THEN 1 ELSE 0) <= calls

FramesOnce ==
  /\ (Everywhere \cup Awaiting) \cap released = {}
  /\ Everywhere \cup Awaiting \cup released = 1 .. fed

(* The frames are in order along the way.  This is also why none is in two  *)
(* places.                                                                  *)
Before(A, B) == \A a \in A, b \in B : a < b
FrameOrder ==
  /\ Rising(decoded) /\ Rising(ready) /\ Rising(inside)
  /\ Before(Picked, Handed) /\ Before(Picked, Queued) /\ Before(Picked, Ready)
  /\ Before(Picked, Going)
  /\ Before(Queued, Ready) /\ Before(Queued, Going) /\ Before(Handed, Ready)
  /\ Before(Handed, Going) /\ Before(Ready, Going)
  /\ Before(Everywhere, Awaiting)
  /\ opc \in {"push", "drain"} => Before(Queued, Handed)
  /\ opc = "render" => IF use = "balanced" THEN Before(Handed, Queued) ELSE Before(Queued, Handed)
ShownOrder ==
  /\ shown \in released \cup {0}
  /\ ~switched => ~late /\ Before({shown}, Everywhere \cup Awaiting)

FramesInv == FrameTypes /\ FramesOnce /\ FrameOrder /\ ShownOrder
ControlFits == FlagTypes /\ CounterTypes /\ ThreadsFit /\ PacingFits /\ StaleFits /\ VsyncFits
DecoderInv == FramesInv /\ ControlFits

LEMMA DecoderRange ==
  ASSUME NEW S, NEW s \in Seq(S)
  PROVE  Decoder!Range(s) = OutSet(s) /\ DOMAIN s = 1 .. Len(s)
<1>1. DOMAIN s = 1 .. Len(s) OBVIOUS
<1> QED BY <1>1 DEF Decoder!Range, OutSet

LEMMA HeldIs ==
  ASSUME NEW f \in 0 .. Frames
  PROVE  /\ Decoder!Held(f) \in Seq(1 .. Frames) /\ Once(Decoder!Held(f))
         /\ OutSet(Decoder!Held(f)) = Decoder!Holds(f)
<1>1. CASE f = 0
  <2>1. Decoder!Held(f) = << >> /\ Decoder!Holds(f) = {} BY <1>1 DEF Decoder!Held, Decoder!Holds
  <2>2. << >> \in Seq(1 .. Frames) /\ Once(<< >>) BY EmptySeq DEF Once
  <2> QED BY <2>1, <2>2, NoneOut
<1>2. CASE f # 0
  <2>1. Decoder!Held(f) = <<f>> /\ Decoder!Holds(f) = {f} BY <1>2 DEF Decoder!Held, Decoder!Holds
  <2>2. f \in 1 .. Frames BY <1>2, DecoderAssumption
  <2>3. <<f>> \in Seq(1 .. Frames) /\ Len(<<f>>) = 1 /\ <<f>>[1] = f BY <2>2
  <2>4. 1 .. Len(<<f>>) = {1} BY <2>3
  <2>5. Once(<<f>>) /\ OutSet(<<f>>) = {f} BY <2>3, <2>4 DEF Once, OutSet
  <2> QED BY <2>1, <2>3, <2>5
<1> QED BY <1>1, <1>2

LEMMA DecoderIs == DecoderInv => Decoder!TypeOK /\ Decoder!DecoderSound
<1> SUFFICES ASSUME DecoderInv PROVE Decoder!TypeOK /\ Decoder!DecoderSound OBVIOUS
<1>0. FramesInv /\ FlagTypes /\ CounterTypes /\ ThreadsFit /\ PacingFits /\ StaleFits /\ VsyncFits
      /\ FrameTypes /\ FramesOnce /\ FrameOrder /\ ShownOrder
  BY DEF DecoderInv, ControlFits, FramesInv
<1>1. posts \in 0 .. Calls
  BY <1>0, DecoderAssumption DEF CounterTypes, VsyncFits
<1>2. Decoder!TypeOK
  BY <1>0, <1>1 DEF Decoder!TypeOK, FlagTypes, CounterTypes, FrameTypes
<1>3. Decoder!NoOrphans
  <2> SUFFICES ASSUME ~codec PROVE opc = "off" /\ kpc = "off" /\ Decoder!Decoded = {}
    BY DEF Decoder!NoOrphans
  <2>1. opc = "off" /\ kpc = "off" /\ ready = << >> /\ decoded = << >> /\ hand = 0 /\ chand = 0
    BY <1>0 DEF ThreadsFit
  <2>2. Decoder!Range(<< >>) = {} BY EmptySeq DEF Decoder!Range
  <2> QED BY <2>1, <2>2 DEF Decoder!Decoded, Decoder!Holds
<1>4. Decoder!EachOnce
  <2> DEFINE S == 1 .. Frames
             h == Decoder!Held(hand)
             c == Decoder!Held(chand)
             a == inside \o ready
             b == a \o decoded
             d == b \o h
             all == d \o c
  <2>1. S \subseteq Nat /\ inside \in Seq(S) /\ ready \in Seq(S) /\ decoded \in Seq(S)
    BY <1>0 DEF FrameTypes
  <2>2. /\ h \in Seq(S) /\ Once(h) /\ OutSet(h) = Handed
        /\ c \in Seq(S) /\ Once(c) /\ OutSet(c) = Picked
    BY <1>0, HeldIs DEF FrameTypes, Handed, Picked
  <2>3. Once(inside) /\ Once(ready) /\ Once(decoded)
    <3> HIDE DEF S
    <3> QED BY <1>0, <2>1, RisingOnce DEF FrameOrder
  <2>4. Everywhere \subseteq Nat BY <1>0 DEF FramesOnce, FrameTypes
  <2>5. \A A, B : A \subseteq Nat /\ B \subseteq Nat /\ Before(A, B) => A \cap B = {} BY DEF Before
  <2>6. Queued \cap Handed = {}
    <3>1. CASE hand = 0 BY <3>1 DEF Handed, Decoder!Holds
    <3>2. CASE hand # 0
      <4>1. opc \in {"push", "drain", "render"} BY <1>0, <3>2 DEF ThreadsFit
      <4>2. Before(Queued, Handed) \/ Before(Handed, Queued) BY <1>0, <4>1 DEF FrameOrder
      <4> QED BY <2>4, <2>5, <4>2 DEF Everywhere
    <3> QED BY <3>1, <3>2
  <2>7. /\ Going \cap Ready = {} /\ Going \cap Queued = {} /\ Going \cap Handed = {}
        /\ Going \cap Picked = {} /\ Ready \cap Queued = {} /\ Ready \cap Handed = {}
        /\ Ready \cap Picked = {} /\ Queued \cap Picked = {} /\ Handed \cap Picked = {}
    BY <1>0, <2>4, <2>5 DEF FrameOrder, Everywhere
  <2> HIDE DEF S, h, c
  <2>8. a \in Seq(S) /\ Once(a) /\ OutSet(a) = Going \cup Ready
    BY <2>1, <2>3, <2>7, OnceBoth DEF Going, Ready
  <2> HIDE DEF a
  <2>9. b \in Seq(S) /\ Once(b) /\ OutSet(b) = Going \cup Ready \cup Queued
    <3>1. OutSet(decoded) = Queued /\ OutSet(a) \cap OutSet(decoded) = {}
      BY <2>7, <2>8 DEF Queued
    <3> QED BY <2>1, <2>3, <2>8, <3>1, OnceBoth
  <2> HIDE DEF b
  <2>10. d \in Seq(S) /\ Once(d) /\ OutSet(d) = Going \cup Ready \cup Queued \cup Handed
    <3>1. OutSet(b) \cap OutSet(h) = {} BY <2>2, <2>6, <2>7, <2>9
    <3> QED BY <2>2, <2>9, <3>1, OnceBoth
  <2> HIDE DEF d
  <2>11. all \in Seq(S) /\ Once(all) /\ OutSet(all) = Everywhere
    <3>1. OutSet(d) \cap OutSet(c) = {} BY <2>2, <2>7, <2>10
    <3> QED BY <2>2, <2>10, <3>1, OnceBoth DEF Everywhere
  <2>12. Decoder!Range(all) = Everywhere /\ Decoder!IsInjective(all)
    <3> HIDE DEF all
    <3>1. DOMAIN all = 1 .. Len(all) BY <2>11
    <3> QED BY <2>11, <3>1, DecoderRange DEF Once, Decoder!IsInjective
  <2> QED BY <1>0, <2>12 DEF Decoder!EachOnce, FramesOnce, Awaiting, a, b, d, h, c
<1>5. Decoder!InOrder BY <1>0 DEF Decoder!InOrder, ShownOrder
<1> QED BY <1>0, <1>2, <1>3, <1>4, <1>5 DEF Decoder!DecoderSound, StaleFits, VsyncFits

LEMMA DecoderInit == Decoder!Init => DecoderInv
<1> SUFFICES ASSUME Decoder!Init PROVE DecoderInv OBVIOUS
<1>1. FlagTypes /\ ThreadsFit /\ PacingFits /\ StaleFits
  BY DEF Decoder!Init, FlagTypes, ThreadsFit, PacingFits, StaleFits, Decoder!StaleGone, Working
<1>2. CounterTypes /\ VsyncFits
  BY DecoderAssumption DEF Decoder!Init, CounterTypes, VsyncFits, Decoder!VsyncAsked
<1>3. FrameTypes BY DecoderAssumption, EmptySeq DEF Decoder!Init, FrameTypes
<1>4. /\ Going = {} /\ Ready = {} /\ Queued = {} /\ Handed = {} /\ Picked = {} /\ Awaiting = {}
      /\ Everywhere = {} /\ Rising(decoded) /\ Rising(ready) /\ Rising(inside)
  BY NoneOut
     DEF Decoder!Init, Going, Ready, Queued, Handed, Picked, Awaiting, Everywhere, Decoder!Holds
<1>5. FramesOnce BY <1>4 DEF Decoder!Init, FramesOnce
<1>6. FrameOrder BY <1>4 DEF Decoder!Init, FrameOrder, Before
<1>7. ShownOrder BY <1>4 DEF Decoder!Init, ShownOrder, Before
<1> QED BY <1>1, <1>2, <1>3, <1>5, <1>6, <1>7 DEF DecoderInv, FramesInv, ControlFits

LEMMA ControlNext == DecoderInv /\ [Decoder!Next]_(Decoder!vars) => ControlFits'
<1> SUFFICES ASSUME DecoderInv, [Decoder!Next]_(Decoder!vars) PROVE ControlFits' OBVIOUS
<1>0. /\ FlagTypes /\ CounterTypes /\ ThreadsFit /\ PacingFits /\ StaleFits /\ VsyncFits
      /\ FrameTypes
  BY DEF DecoderInv, ControlFits, FramesInv
<1>a. ready # << >> => Head(ready) # 0
  <2>1. ready # << >> => Head(ready) \in 1 .. Frames BY <1>0, TailOf DEF FrameTypes
  <2> QED BY <2>1
<1>b. decoded # << >> => Head(decoded) # 0
  <2>1. decoded # << >> => Head(decoded) \in 1 .. Frames BY <1>0, TailOf DEF FrameTypes
  <2> QED BY <2>1
<1> USE DecoderAssumption
        DEF ControlFits, FlagTypes, CounterTypes, ThreadsFit, PacingFits, StaleFits, VsyncFits, Working,
            Decoder!StaleGone, Decoder!VsyncAsked, Decoder!MutexFree, Decoder!decoder, Decoder!output,
            Decoder!vsync, Decoder!feed, Decoder!app, Decoder!buffers, Decoder!screen
<1>1. CASE Decoder!SetSurface
  <2>1. FlagTypes'
    <3>1. FlagTypes BY <1>0
    <3>2. codec' \in BOOLEAN /\ outStarted' \in BOOLEAN /\ chorStarted' \in BOOLEAN /\ shutChor' \in BOOLEAN
      BY <1>1, <3>1 DEF Decoder!SetSurface, Decoder!Created
    <3>3. /\ pacing' \in {"balanced", "direct"} /\ switched' \in BOOLEAN /\ request' \in BOOLEAN
          /\ dropPending' \in BOOLEAN
      BY <1>1, <3>1 DEF Decoder!SetSurface, Decoder!Surface
    <3>4. UNCHANGED <<shutOut, use, paced, fini, late>> BY <1>1 DEF Decoder!SetSurface
    <3> QED BY <3>1, <3>2, <3>3, <3>4
  <2>2. CounterTypes' BY <1>0, <1>1 DEF Decoder!SetSurface, Decoder!Surface, Decoder!Created
  <2>3. ThreadsFit' BY <1>0, <1>1 DEF Decoder!SetSurface, Decoder!Surface, Decoder!Created
  <2>4. PacingFits' BY <1>0, <1>1 DEF Decoder!SetSurface, Decoder!Surface, Decoder!Created
  <2>5. StaleFits' BY <1>0, <1>1 DEF Decoder!SetSurface, Decoder!Surface, Decoder!Created
  <2>6. VsyncFits' BY <1>0, <1>1 DEF Decoder!SetSurface, Decoder!Surface, Decoder!Created
  <2> QED BY <2>1, <2>2, <2>3, <2>4, <2>5, <2>6
<1>2. CASE Decoder!KillBegin
  <2>1. FlagTypes'
    <3>1. FlagTypes BY <1>0
    <3>2. /\ shutOut' \in BOOLEAN /\ shutChor' \in BOOLEAN /\ request' \in BOOLEAN /\ dropPending' \in BOOLEAN
          /\ outStarted' \in BOOLEAN /\ chorStarted' \in BOOLEAN
      BY <1>2, <3>1 DEF Decoder!KillBegin
    <3>3. fini' \in BOOLEAN BY <1>2 DEF Decoder!KillBegin
    <3>4. UNCHANGED <<codec, pacing, use, paced, switched, late>> BY <1>2 DEF Decoder!KillBegin
    <3> QED BY <3>1, <3>2, <3>3, <3>4
  <2>2. CounterTypes' BY <1>0, <1>2 DEF Decoder!KillBegin
  <2>3. ThreadsFit' BY <1>0, <1>2 DEF Decoder!KillBegin
  <2>4. PacingFits' BY <1>0, <1>2 DEF Decoder!KillBegin
  <2>5. StaleFits' BY <1>0, <1>2 DEF Decoder!KillBegin
  <2>6. VsyncFits' BY <1>0, <1>2 DEF Decoder!KillBegin
  <2> QED BY <2>1, <2>2, <2>3, <2>4, <2>5, <2>6
<1>3. CASE Decoder!JoinChor
  BY <1>0, <1>3 DEF Decoder!JoinChor
<1>4. CASE Decoder!JoinOut
  BY <1>0, <1>4 DEF Decoder!JoinOut
<1>5. CASE Decoder!KillEnd
  <2>1. FlagTypes' BY <1>0, <1>5 DEF Decoder!KillEnd
  <2>2. CounterTypes' BY <1>0, <1>5 DEF Decoder!KillEnd
  <2>3. ThreadsFit' BY <1>0, <1>5 DEF Decoder!KillEnd
  <2>4. PacingFits' BY <1>0, <1>5 DEF Decoder!KillEnd
  <2>5. StaleFits' BY <1>0, <1>5 DEF Decoder!KillEnd
  <2>6. VsyncFits' BY <1>0, <1>5 DEF Decoder!KillEnd
  <2> QED BY <2>1, <2>2, <2>3, <2>4, <2>5, <2>6
<1>6. CASE Decoder!Sample
  BY <1>0, <1>6 DEF Decoder!Sample
<1>7. CASE Decoder!SampleQueued
  BY <1>0, <1>7 DEF Decoder!SampleQueued
<1>8. CASE Decoder!SampleRefused
  BY <1>0, <1>8 DEF Decoder!SampleRefused
<1>9. CASE Decoder!StreamEnds
  BY <1>0, <1>9 DEF Decoder!StreamEnds
<1>10. CASE Decoder!Decode
  BY <1>0, <1>10 DEF Decoder!Decode
<1>11. CASE Decoder!OTop
  <2>1. FlagTypes' BY <1>0, <1>11 DEF Decoder!OTop
  <2>2. CounterTypes' BY <1>0, <1>11 DEF Decoder!OTop
  <2>3. ThreadsFit' BY <1>0, <1>11 DEF Decoder!OTop
  <2>4. PacingFits' BY <1>0, <1>11 DEF Decoder!OTop
  <2>5. StaleFits' BY <1>0, <1>11 DEF Decoder!OTop
  <2>6. VsyncFits' BY <1>0, <1>11 DEF Decoder!OTop
  <2> QED BY <2>1, <2>2, <2>3, <2>4, <2>5, <2>6
<1>12. CASE Decoder!OClear
  BY <1>0, <1>12 DEF Decoder!OClear
<1>13. CASE Decoder!ODrop
  BY <1>0, <1>13 DEF Decoder!ODrop
<1>14. CASE Decoder!ODequeue
  BY <1>0, <1>a, <1>14 DEF Decoder!ODequeue
<1>15. CASE Decoder!ONothing
  BY <1>0, <1>15 DEF Decoder!ONothing
<1>16. CASE Decoder!OError
  BY <1>0, <1>16 DEF Decoder!OError
<1>17. CASE Decoder!OPush
  BY <1>0, <1>17 DEF Decoder!OPush, Decoder!Pushed
<1>18. CASE Decoder!ODue
  BY <1>0, <1>b, <1>18 DEF Decoder!ODue
<1>19. CASE Decoder!OEarly
  BY <1>0, <1>19 DEF Decoder!OEarly
<1>20. CASE Decoder!ODrain
  BY <1>0, <1>a, <1>20 DEF Decoder!ODrain
<1>21. CASE Decoder!ORender
  BY <1>0, <1>21 DEF Decoder!ORender, Decoder!Show
<1>22. CASE Decoder!KCheck
  <2>1. FlagTypes'
    <3>1. FlagTypes BY <1>0
    <3>2. request' \in BOOLEAN BY <1>22, <3>1 DEF Decoder!KCheck
    <3>3. UNCHANGED <<codec, dropPending, shutOut, shutChor, outStarted, chorStarted, paced, fini,
                      switched, late, pacing, use>>
      BY <1>22 DEF Decoder!KCheck
    <3> QED BY <3>1, <3>2, <3>3
  <2>2. CounterTypes' BY <1>0, <1>22 DEF Decoder!KCheck
  <2>3. ThreadsFit' BY <1>0, <1>22 DEF Decoder!KCheck
  <2>4. PacingFits' BY <1>0, <1>22 DEF Decoder!KCheck
  <2>5. StaleFits' BY <1>0, <1>22 DEF Decoder!KCheck
  <2>6. VsyncFits' BY <1>0, <1>22 DEF Decoder!KCheck
  <2> QED BY <2>1, <2>2, <2>3, <2>4, <2>5, <2>6
<1>23. CASE Decoder!KPost
  BY <1>0, <1>23 DEF Decoder!KPost
<1>24. CASE Decoder!KPoll
  BY <1>0, <1>24 DEF Decoder!KPoll
<1>25. CASE Decoder!KFrame
  BY <1>0, <1>b, <1>25 DEF Decoder!KFrame
<1>26. CASE Decoder!KShow
  BY <1>0, <1>26 DEF Decoder!KShow, Decoder!Show
<1>27. CASE UNCHANGED Decoder!vars BY <1>0, <1>27 DEF Decoder!vars
<1> QED BY <1>1, <1>2, <1>3, <1>4, <1>5, <1>6, <1>7, <1>8, <1>9, <1>10, <1>11, <1>12, <1>13, <1>14, <1>15, <1>16, <1>17, <1>18, <1>19, <1>20, <1>21, <1>22, <1>23, <1>24, <1>25, <1>26, <1>27
        DEF Decoder!Next, Decoder!Kill, Decoder!Feeding, Decoder!OutputThread, Decoder!ChoreographerThread

(* Steps that move no frame.                                                *)
LEMMA FramesKept ==
  ASSUME FramesInv,
         UNCHANGED <<decoded, inside, ready, released, fed, hand, chand, shown, late, Awaiting>>,
         switched => switched',
         opc' \in {"push", "drain"} => opc = opc',
         opc' = "render" => opc = "render" /\ use' = use
  PROVE  FramesInv'
<1>0. FrameTypes /\ FramesOnce /\ FrameOrder /\ ShownOrder BY DEF FramesInv
<1>1. UNCHANGED <<Going, Ready, Queued, Handed, Picked, Everywhere>>
  BY DEF Going, Ready, Queued, Handed, Picked, Everywhere, Decoder!Holds, OutSet
<1>2. FrameTypes' /\ FramesOnce' BY <1>0, <1>1 DEF FrameTypes, FramesOnce
<1>3. FrameOrder' BY <1>0, <1>1 DEF FrameOrder, Rising
<1>4. ShownOrder' BY <1>0, <1>1 DEF ShownOrder
<1> QED BY <1>2, <1>3, <1>4 DEF FramesInv

(* A decoded frame that the output thread has shown, or the choreographer.  *)
LEMMA ShowsNext ==
  ASSUME FramesInv, NEW f \in 1 .. Frames, Decoder!Show(f), switched' = switched,
         ~switched => f \in Everywhere,
         f \notin (Everywhere \cup Awaiting)',
         (Everywhere \cup Awaiting)' \subseteq Everywhere \cup Awaiting,
         ~switched => Before({f}, (Everywhere \cup Awaiting)')
  PROVE  ShownOrder'
<1>0. FrameTypes /\ FramesOnce /\ FrameOrder /\ ShownOrder BY DEF FramesInv
<1>1. shown' = f /\ late' = (late \/ f < shown) /\ released' = released \cup {f}
  BY DEF Decoder!Show
<1>2. ASSUME ~switched PROVE ~late'
  <2>1. shown < f BY <1>0, <1>2 DEF ShownOrder, Before
  <2>2. shown \in 0 .. Frames BY <1>0 DEF FrameTypes
  <2>3. ~(f < shown) BY <2>1, <2>2, DecoderAssumption
  <2>4. ~late BY <1>0, <1>2 DEF ShownOrder
  <2> QED BY <1>1, <2>3, <2>4
<1> QED BY <1>1, <1>2 DEF ShownOrder

LEMMA FramesNext == DecoderInv /\ [Decoder!Next]_(Decoder!vars) => FramesInv'
<1> SUFFICES ASSUME DecoderInv, [Decoder!Next]_(Decoder!vars) PROVE FramesInv' OBVIOUS
<1>0. /\ FramesInv /\ ControlFits /\ FrameTypes /\ FramesOnce /\ FrameOrder /\ ShownOrder
      /\ ThreadsFit /\ PacingFits /\ CounterTypes /\ FlagTypes
  BY DEF DecoderInv, ControlFits, FramesInv
<1> DEFINE S == 1 .. Frames
<1>a. /\ decoded \in Seq(S) /\ inside \in Seq(S) /\ ready \in Seq(S) /\ released \subseteq S
      /\ fed \in 0 .. Frames /\ hand \in 0 .. Frames /\ chand \in 0 .. Frames /\ shown \in 0 .. Frames
      /\ Frames \in Nat /\ S \subseteq Nat /\ fed \in Nat /\ Len(decoded) <= Limit
  BY <1>0, DecoderAssumption DEF FrameTypes
<1>b. /\ Everywhere \cup Awaiting \subseteq 1 .. fed /\ Everywhere \cup Awaiting \subseteq Nat
      /\ Everywhere = Going \cup Ready \cup Queued \cup Handed \cup Picked
  BY <1>0, <1>a DEF FramesOnce, Everywhere
<1>c. 1 .. fed \subseteq S /\ Everywhere \subseteq S
  <2>1. 1 .. fed \subseteq S BY <1>a
  <2> QED BY <1>b, <2>1
<1>d. \A A, B : A \subseteq Nat /\ B \subseteq Nat /\ Before(A, B) => A \cap B = {} BY DEF Before
<1>e. /\ Ready \cap (Going \cup Queued \cup Handed \cup Picked) = {}
      /\ Everywhere \cap Awaiting = {}
  BY <1>0, <1>b, <1>d DEF FrameOrder
<1> HIDE DEF S
<1> USE DEF Decoder!decoder, Decoder!output, Decoder!vsync, Decoder!feed, Decoder!app,
            Decoder!buffers, Decoder!screen
<1>1. CASE \/ Decoder!SetSurface \/ Decoder!KillBegin \/ Decoder!JoinChor \/ Decoder!JoinOut
           \/ Decoder!StreamEnds \/ Decoder!OTop \/ Decoder!ONothing \/ Decoder!OError
           \/ Decoder!OEarly \/ Decoder!KCheck \/ Decoder!KPost \/ Decoder!KPoll
           \/ UNCHANGED Decoder!vars
  <2>1. UNCHANGED <<decoded, inside, ready, released, fed, hand, chand, shown, late>>
    BY <1>1 DEF Decoder!SetSurface, Decoder!KillBegin, Decoder!JoinChor, Decoder!JoinOut,
                Decoder!StreamEnds, Decoder!OTop, Decoder!ONothing, Decoder!OError,
                Decoder!OEarly, Decoder!KCheck, Decoder!KPost, Decoder!KPoll, Decoder!vars
  <2>2. spc' = spc \/ (spc = "idle" /\ spc' = "over")
    BY <1>1 DEF Decoder!SetSurface, Decoder!KillBegin, Decoder!JoinChor, Decoder!JoinOut,
                Decoder!StreamEnds, Decoder!OTop, Decoder!ONothing, Decoder!OError,
                Decoder!OEarly, Decoder!KCheck, Decoder!KPost, Decoder!KPoll, Decoder!vars
  <2>3. UNCHANGED Awaiting BY <2>1, <2>2 DEF Awaiting
  <2>4. switched => switched'
    BY <1>1 DEF Decoder!SetSurface, Decoder!KillBegin, Decoder!JoinChor, Decoder!JoinOut,
                Decoder!StreamEnds, Decoder!OTop, Decoder!ONothing, Decoder!OError,
                Decoder!OEarly, Decoder!KCheck, Decoder!KPost, Decoder!KPoll, Decoder!vars
  <2>5. (opc' = opc /\ use' = use) \/ opc' \notin {"push", "drain", "render"}
    BY <1>1 DEF Decoder!SetSurface, Decoder!Created, Decoder!KillBegin, Decoder!JoinChor,
                Decoder!JoinOut, Decoder!StreamEnds, Decoder!OTop, Decoder!ONothing,
                Decoder!OError, Decoder!OEarly, Decoder!KCheck, Decoder!KPost, Decoder!KPoll,
                Decoder!vars
  <2> QED BY <1>0, <2>1, <2>3, <2>4, <2>5, FramesKept
<1>2. CASE Decoder!KillEnd
  <2>1. /\ opc = "off" /\ opc' = "off" /\ kpc = "off" /\ hand = 0 /\ chand = 0 /\ hand' = 0 /\ chand' = 0
        /\ spc # "wait" /\ spc' = spc
        /\ decoded' = << >> /\ inside' = << >> /\ ready' = << >>
        /\ fed' = fed /\ shown' = shown /\ late' = late /\ switched' = switched
    BY <1>0, <1>2 DEF Decoder!KillEnd, Decoder!MutexFree, ThreadsFit
  <2>2. released' = released \cup Queued \cup Going \cup Ready
    BY <1>2, <1>a, DecoderRange DEF Decoder!KillEnd, Queued, Going, Ready
  <2>3. /\ Going' = {} /\ Ready' = {} /\ Queued' = {} /\ Handed = {} /\ Picked = {}
        /\ Handed' = {} /\ Picked' = {} /\ Awaiting = {} /\ Awaiting' = {} /\ Everywhere' = {}
    BY <2>1, NoneOut
       DEF Going, Ready, Queued, Handed, Picked, Awaiting, Everywhere, Decoder!Holds
  <2>4. released' \subseteq S /\ released' = 1 .. fed'
    BY <1>0, <1>a, <1>b, <2>1, <2>2, <2>3 DEF FramesOnce, S
  <2>5. FrameTypes' BY <1>0, <1>a, <2>1, <2>4, EmptySeq, DecoderAssumption DEF FrameTypes, S
  <2>6. FramesOnce' BY <2>3, <2>4 DEF FramesOnce
  <2>7. FrameOrder' BY <2>1, <2>3, NoneOut DEF FrameOrder, Before
  <2>8. ShownOrder' BY <1>0, <2>1, <2>2, <2>3 DEF ShownOrder, Before
  <2> QED BY <2>5, <2>6, <2>7, <2>8 DEF FramesInv
<1>3. CASE Decoder!Sample
  <2>1. /\ spc = "idle" /\ fed < Frames /\ fed' = fed + 1
        /\ \/ spc' = "wait" /\ released' = released
           \/ spc' = "idle" /\ released' = released \cup {fed + 1}
        /\ UNCHANGED <<decoded, inside, ready, hand, chand, shown, late, switched, opc, use>>
    BY <1>3 DEF Decoder!Sample
  <2>2. /\ UNCHANGED <<Going, Ready, Queued, Handed, Picked, Everywhere>> /\ Awaiting = {}
        /\ Awaiting' = IF spc' = "wait" THEN {fed + 1} ELSE {}
    BY <2>1 DEF Going, Ready, Queued, Handed, Picked, Everywhere, Awaiting, Decoder!Holds, OutSet
  <2>3. fed + 1 \in S /\ fed' \in 0 .. Frames BY <1>a, <2>1 DEF S
  <2>4. 1 .. fed' = (1 .. fed) \cup {fed + 1} /\ fed + 1 \notin 1 .. fed BY <1>a, <2>1
  <2>5. FrameTypes' BY <1>0, <1>a, <2>1, <2>3 DEF FrameTypes, S
  <2>6. FramesOnce' BY <1>0, <2>1, <2>2, <2>4 DEF FramesOnce
  <2>7. Before(Everywhere, {fed + 1}) BY <1>a, <1>b DEF Before
  <2>8. FrameOrder'
    <3>1. Before(Everywhere, Awaiting') BY <2>2, <2>7 DEF Before
    <3> QED BY <1>0, <2>1, <2>2, <3>1 DEF FrameOrder, Rising
  <2>9. ShownOrder'
    <3>1. shown < fed + 1 BY <1>0, <1>a DEF ShownOrder, FramesOnce
    <3> QED BY <1>0, <2>1, <2>2, <3>1 DEF ShownOrder, Before
  <2> QED BY <2>5, <2>6, <2>8, <2>9 DEF FramesInv
<1>4. CASE Decoder!SampleQueued
  <2>1. /\ spc = "wait" /\ inside' = Append(inside, fed) /\ spc' = "idle"
        /\ UNCHANGED <<decoded, ready, released, fed, hand, chand, shown, late, switched, opc, use>>
    BY <1>4 DEF Decoder!SampleQueued
  <2>2. /\ UNCHANGED <<Ready, Queued, Handed, Picked>> /\ Awaiting = {fed} /\ Awaiting' = {}
    BY <2>1 DEF Ready, Queued, Handed, Picked, Awaiting, Decoder!Holds, OutSet
  <2>3. fed \in S
    <3>1. fed \in 1 .. fed BY <1>b, <2>2
    <3> QED BY <1>c, <3>1
  <2>4. inside' \in Seq(S) /\ Going' = Going \cup {fed}
    BY <1>a, <2>1, <2>3, AppendOf DEF Going
  <2>5. Before(Everywhere, {fed}) BY <1>0, <2>2 DEF FrameOrder
  <2>6. Rising(inside') BY <1>0, <1>a, <1>b, <2>1, <2>3, <2>5, RisesByOne DEF FrameOrder, Going, Before
  <2>7. Everywhere' = Everywhere \cup {fed} BY <1>b, <2>2, <2>4 DEF Everywhere
  <2>8. FrameTypes' BY <1>0, <1>a, <2>1, <2>4 DEF FrameTypes, S
  <2>9. FramesOnce' BY <1>0, <2>1, <2>2, <2>7 DEF FramesOnce
  <2>10. FrameOrder'
    <3>1. /\ Rising(decoded') /\ Rising(ready') /\ Before(Everywhere', Awaiting')
          /\ opc' \in {"push", "drain"} => Before(Queued', Handed')
          /\ opc' = "render" => IF use' = "balanced" THEN Before(Handed', Queued')
                                ELSE Before(Queued', Handed')
      BY <1>0, <2>1, <2>2 DEF FrameOrder, Before
    <3>2. /\ Before(Picked', Going') /\ Before(Queued', Going') /\ Before(Handed', Going')
          /\ Before(Ready', Going')
      BY <1>0, <1>b, <2>2, <2>4, <2>5 DEF FrameOrder, Before
    <3> QED BY <1>0, <2>2, <2>6, <3>1, <3>2 DEF FrameOrder
  <2>11. ShownOrder' BY <1>0, <2>1, <2>2, <2>7 DEF ShownOrder
  <2> QED BY <2>8, <2>9, <2>10, <2>11 DEF FramesInv
<1>5. CASE Decoder!SampleRefused
  <2>1. /\ spc = "wait" /\ released' = released \cup {fed} /\ spc' = "idle"
        /\ UNCHANGED <<decoded, inside, ready, fed, hand, chand, shown, late, switched, opc, use>>
    BY <1>5 DEF Decoder!SampleRefused
  <2>2. /\ UNCHANGED <<Going, Ready, Queued, Handed, Picked, Everywhere>>
        /\ Awaiting = {fed} /\ Awaiting' = {}
    BY <2>1 DEF Going, Ready, Queued, Handed, Picked, Everywhere, Awaiting, Decoder!Holds, OutSet
  <2>3. fed \in S
    <3>1. fed \in 1 .. fed BY <1>b, <2>2
    <3> QED BY <1>c, <3>1
  <2>4. FrameTypes' BY <1>0, <1>a, <2>1, <2>3 DEF FrameTypes, S
  <2>5. fed \notin Everywhere BY <1>0, <1>b, <2>2 DEF FrameOrder, Before
  <2>6. FramesOnce' BY <1>0, <2>1, <2>2, <2>5 DEF FramesOnce
  <2>7. FrameOrder' BY <1>0, <2>1, <2>2 DEF FrameOrder, Before, Rising
  <2>8. ShownOrder' BY <1>0, <2>1, <2>2 DEF ShownOrder, Before
  <2> QED BY <2>4, <2>6, <2>7, <2>8 DEF FramesInv
<1>6. CASE Decoder!Decode
  <2>1. /\ inside # << >> /\ ready' = Append(ready, Head(inside)) /\ inside' = Tail(inside)
        /\ UNCHANGED <<decoded, released, fed, spc, hand, chand, shown, late, switched, opc, use>>
    BY <1>6 DEF Decoder!Decode
  <2> DEFINE f == Head(inside)
  <2>2. UNCHANGED <<Queued, Handed, Picked, Awaiting>>
    BY <2>1 DEF Queued, Handed, Picked, Awaiting, Decoder!Holds, OutSet
  <2>3. f \in S /\ inside' \in Seq(S) /\ Going = {f} \cup Going'
    BY <1>a, <2>1, TailOf DEF Going
  <2>4. Rising(inside') /\ Before({f}, Going')
    BY <1>0, <1>a, <2>1, RisingTail DEF FrameOrder, Going, Before
  <2> HIDE DEF f
  <2>5. ready' = Append(ready, f) BY <2>1 DEF f
  <2>6. ready' \in Seq(S) /\ Ready' = Ready \cup {f} BY <1>a, <2>3, <2>5, AppendOf DEF Ready
  <2>7. Before(Ready, {f}) BY <1>0, <2>3 DEF FrameOrder, Before
  <2>8. Rising(ready') BY <1>0, <1>a, <2>3, <2>5, <2>7, RisesByOne DEF FrameOrder, Ready, Before
  <2>9. Everywhere' = Everywhere BY <1>b, <2>2, <2>3, <2>6 DEF Everywhere
  <2>10. FrameTypes' BY <1>0, <1>a, <2>1, <2>3, <2>6 DEF FrameTypes, S
  <2>11. FramesOnce' BY <1>0, <2>1, <2>2, <2>9 DEF FramesOnce
  <2>12. FrameOrder'
    <3>1. /\ Rising(decoded') /\ Before(Everywhere', Awaiting')
          /\ opc' \in {"push", "drain"} => Before(Queued', Handed')
          /\ opc' = "render" => IF use' = "balanced" THEN Before(Handed', Queued')
                                ELSE Before(Queued', Handed')
      BY <1>0, <2>1, <2>2, <2>9 DEF FrameOrder
    <3>2. /\ Before(Picked', Ready') /\ Before(Queued', Ready') /\ Before(Handed', Ready')
          /\ Before(Picked', Going') /\ Before(Queued', Going') /\ Before(Handed', Going')
          /\ Before(Ready', Going')
      BY <1>0, <2>2, <2>3, <2>4, <2>6 DEF FrameOrder, Before
    <3> QED BY <1>0, <2>2, <2>4, <2>8, <3>1, <3>2 DEF FrameOrder
  <2>13. ShownOrder' BY <1>0, <2>1, <2>2, <2>9 DEF ShownOrder
  <2> QED BY <2>10, <2>11, <2>12, <2>13 DEF FramesInv
<1>7. CASE Decoder!OClear
  <2>1. /\ decoded' = << >> /\ opc' \in {"drop", "done"} /\ opc \in {"clear", "exit"}
        /\ UNCHANGED <<inside, ready, fed, spc, hand, chand, shown, late, switched, use>>
    BY <1>7 DEF Decoder!OClear
  <2>2. released' = released \cup Queued BY <1>7, <1>a, DecoderRange DEF Decoder!OClear, Queued
  <2>3. UNCHANGED <<Going, Ready, Handed, Picked, Awaiting>> /\ Queued' = {}
    BY <2>1, NoneOut DEF Going, Ready, Queued, Handed, Picked, Awaiting, Decoder!Holds, OutSet
  <2>4. Everywhere' = Going \cup Ready \cup Handed \cup Picked BY <2>3 DEF Everywhere
  <2>5. released' \subseteq S BY <1>a, <1>b, <1>c, <2>2
  <2>6. FrameTypes' BY <1>0, <1>a, <2>1, <2>5, EmptySeq, DecoderAssumption DEF FrameTypes, S
  <2>7. \A f \in Queued : f \notin Everywhere' \cup Awaiting
    <3>1. Handed = {} BY <1>0, <2>1 DEF ThreadsFit, Handed, Decoder!Holds
    <3> QED BY <1>0, <1>b, <2>4, <3>1 DEF FrameOrder, Before
  <2>8. FramesOnce' BY <1>0, <1>b, <2>1, <2>2, <2>3, <2>4, <2>7 DEF FramesOnce
  <2>9. FrameOrder'
    <3>1. Rising(decoded') BY <2>1, NoneOut
    <3> QED BY <1>0, <1>b, <2>1, <2>3, <2>4, <3>1 DEF FrameOrder, Before, Rising
  <2>10. ShownOrder' BY <1>0, <1>b, <2>1, <2>2, <2>3, <2>4 DEF ShownOrder, Before
  <2> QED BY <2>6, <2>8, <2>9, <2>10 DEF FramesInv
<1>8. CASE Decoder!ODrop /\ ready # << >>
  <2>1. /\ opc = "drop" /\ opc' = opc /\ ready' = Tail(ready)
        /\ released' = released \cup {Head(ready)}
        /\ UNCHANGED <<decoded, inside, fed, spc, hand, chand, shown, late, switched, use>>
    BY <1>8 DEF Decoder!ODrop
  <2> DEFINE f == Head(ready)
  <2>2. f \in S /\ ready' \in Seq(S) /\ Ready = {f} \cup Ready'
    BY <1>a, <1>8, <2>1, TailOf DEF Ready
  <2>3. Rising(ready') /\ Before({f}, Ready')
    BY <1>0, <1>a, <1>8, <2>1, RisingTail DEF FrameOrder, Ready, Before
  <2> HIDE DEF f
  <2>4. released' = released \cup {f} BY <2>1 DEF f
  <2>5. UNCHANGED <<Going, Queued, Handed, Picked, Awaiting>>
    BY <2>1 DEF Going, Queued, Handed, Picked, Awaiting, Decoder!Holds, OutSet
  <2>6. Everywhere = Everywhere' \cup {f} BY <1>b, <2>2, <2>5 DEF Everywhere
  <2>7. FrameTypes' BY <1>0, <1>a, <2>1, <2>2, <2>4 DEF FrameTypes, S
  <2>8. f \notin Everywhere' \cup Awaiting
    <3>1. f \notin Going \cup Queued \cup Handed \cup Picked BY <1>e, <2>2
    <3>2. f \notin Ready' BY <1>b, <2>2, <2>3 DEF Before
    <3>3. f \notin Awaiting BY <1>0, <1>b, <2>6 DEF FrameOrder, Before
    <3> QED BY <2>5, <3>1, <3>2, <3>3 DEF Everywhere
  <2>9. FramesOnce' BY <1>0, <2>1, <2>4, <2>5, <2>6, <2>8 DEF FramesOnce
  <2>10. FrameOrder' BY <1>0, <2>1, <2>2, <2>3, <2>5, <2>6 DEF FrameOrder, Before, Rising
  <2>11. ShownOrder' BY <1>0, <2>1, <2>4, <2>5, <2>6 DEF ShownOrder, Before
  <2> QED BY <2>7, <2>9, <2>10, <2>11 DEF FramesInv
<1>9. CASE Decoder!ODrop /\ ready = << >>
  <2>1. /\ UNCHANGED <<decoded, inside, ready, released, fed, spc, hand, chand, shown, late, switched>>
        /\ opc' = "dequeue"
    BY <1>9 DEF Decoder!ODrop
  <2>2. UNCHANGED Awaiting BY <2>1 DEF Awaiting
  <2> QED BY <1>0, <2>1, <2>2, FramesKept
<1>10. CASE Decoder!ODequeue
  <2>1. /\ opc = "dequeue" /\ ready # << >> /\ hand' = Head(ready) /\ ready' = Tail(ready)
        /\ opc' \in {"push", "drain"}
        /\ UNCHANGED <<decoded, inside, released, fed, spc, chand, shown, late, switched, use>>
    BY <1>10 DEF Decoder!ODequeue
  <2> DEFINE f == Head(ready)
  <2>2. f \in S /\ ready' \in Seq(S) /\ Ready = {f} \cup Ready'
    BY <1>a, <2>1, TailOf DEF Ready
  <2>3. Rising(ready') /\ Before({f}, Ready')
    BY <1>0, <1>a, <2>1, RisingTail DEF FrameOrder, Ready, Before
  <2> HIDE DEF f
  <2>4. hand' = f /\ f \in 0 .. Frames /\ f # 0 BY <1>a, <2>1, <2>2 DEF f, S
  <2>5. /\ UNCHANGED <<Going, Queued, Picked, Awaiting>> /\ Handed' = {f} /\ Handed = {}
    BY <1>0, <2>1, <2>4 DEF Going, Queued, Handed, Picked, Awaiting, Decoder!Holds, OutSet, ThreadsFit
  <2>6. Everywhere' = Everywhere BY <1>b, <2>2, <2>5 DEF Everywhere
  <2>7. FrameTypes' BY <1>0, <1>a, <2>1, <2>2, <2>4 DEF FrameTypes, S
  <2>8. FramesOnce' BY <1>0, <2>1, <2>5, <2>6 DEF FramesOnce
  <2>9. FrameOrder' BY <1>0, <2>1, <2>2, <2>3, <2>5, <2>6 DEF FrameOrder, Before, Rising
  <2>10. ShownOrder' BY <1>0, <2>1, <2>5, <2>6 DEF ShownOrder
  <2> QED BY <2>7, <2>8, <2>9, <2>10 DEF FramesInv
<1>11. CASE Decoder!OPush
  <2>1. /\ opc = "push" /\ hand' = 0 /\ Decoder!Pushed /\ opc' \in {"top", "pace"}
        /\ UNCHANGED <<inside, ready, fed, spc, chand, shown, late, switched, use>>
    BY <1>11 DEF Decoder!OPush
  <2>2. hand # 0 /\ hand \in S BY <1>0, <1>a, <2>1 DEF ThreadsFit, S
  <2>3. UNCHANGED <<Going, Ready, Picked, Awaiting>> /\ Handed' = {} /\ Handed = {hand}
    BY <2>1, <2>2 DEF Going, Ready, Handed, Picked, Awaiting, Decoder!Holds, OutSet
  <2>4. Before(Queued, {hand}) BY <1>0, <2>1, <2>3 DEF FrameOrder
  <2>5. CASE Len(decoded) = Limit
    <3> DEFINE f == Head(decoded)
               t == Tail(decoded)
    <3>1. decoded # << >> BY <2>5, DecoderAssumption
    <3>2. /\ f \in S /\ t \in Seq(S) /\ Len(t) = Len(decoded) - 1 /\ Queued = {f} \cup OutSet(t)
          /\ Len(decoded) \in Nat
      BY <1>a, <3>1, TailOf DEF Queued
    <3>3. Rising(t) /\ Before({f}, OutSet(t)) BY <1>0, <1>a, <3>1, RisingTail DEF FrameOrder, Before
    <3>4. decoded' = Append(t, hand) /\ released' = released \cup {f}
      BY <2>1, <2>5 DEF Decoder!Pushed
    <3> HIDE DEF f, t
    <3>5. /\ decoded' \in Seq(S) /\ Len(decoded') = Len(t) + 1 /\ Queued' = OutSet(t) \cup {hand}
      BY <2>2, <3>2, <3>4, AppendOf DEF Queued
    <3>6. Rising(decoded') BY <1>a, <2>2, <2>4, <3>2, <3>3, <3>4, RisesByOne DEF Before
    <3>7. Everywhere = Everywhere' \cup {f} BY <1>b, <2>3, <3>2, <3>5 DEF Everywhere
    <3>8. FrameTypes' BY <1>0, <1>a, <2>1, <3>2, <3>4, <3>5 DEF FrameTypes, S
    <3>9. f \notin Everywhere' \cup Awaiting
      <4>1. f \in Queued /\ ~(f < f) BY <1>a, <3>2
      <4>2. f \notin Picked BY <1>0, <4>1 DEF FrameOrder, Before
      <4>3. f \notin Ready /\ f \notin Going BY <1>0, <4>1 DEF FrameOrder, Before
      <4>4. f # hand BY <2>4, <4>1 DEF Before
      <4>5. f \notin OutSet(t) BY <3>3, <4>1 DEF Before
      <4>6. f \notin Going \cup Ready \cup Picked \cup {hand} \cup OutSet(t)
        BY <4>2, <4>3, <4>4, <4>5
      <4>7. f \notin Awaiting BY <1>0, <1>b, <3>7 DEF FrameOrder, Before
      <4> QED BY <2>3, <3>5, <4>6, <4>7 DEF Everywhere
    <3>10. FramesOnce' BY <1>0, <2>1, <2>3, <3>4, <3>7, <3>9 DEF FramesOnce
    <3>11. FrameOrder'
      BY <1>0, <2>1, <2>3, <2>4, <3>2, <3>5, <3>6, <3>7 DEF FrameOrder, Before, Rising
    <3>12. ShownOrder' BY <1>0, <2>1, <2>3, <3>4, <3>7 DEF ShownOrder, Before
    <3> QED BY <3>8, <3>10, <3>11, <3>12 DEF FramesInv
  <2>6. CASE Len(decoded) # Limit
    <3>1. decoded' = Append(decoded, hand) /\ released' = released BY <2>1, <2>6 DEF Decoder!Pushed
    <3>2. /\ decoded' \in Seq(S) /\ Len(decoded') = Len(decoded) + 1 /\ Len(decoded) \in Nat
          /\ Queued' = Queued \cup {hand}
      BY <1>a, <2>2, <3>1, AppendOf DEF Queued
    <3>3. Rising(decoded')
      BY <1>0, <1>a, <2>2, <2>4, <3>1, RisesByOne DEF FrameOrder, Before, Queued
    <3>4. Everywhere' = Everywhere BY <1>b, <2>3, <3>2 DEF Everywhere
    <3>5. Len(decoded') <= Limit BY <1>a, <2>6, <3>2, DecoderAssumption
    <3>6. FrameTypes' BY <1>0, <1>a, <2>1, <3>1, <3>2, <3>5 DEF FrameTypes, S
    <3>7. FramesOnce' BY <1>0, <2>1, <2>3, <3>1, <3>4 DEF FramesOnce
    <3>8. FrameOrder' BY <1>0, <2>1, <2>3, <2>4, <3>2, <3>3, <3>4 DEF FrameOrder, Before, Rising
    <3>9. ShownOrder' BY <1>0, <2>1, <2>3, <3>1, <3>4 DEF ShownOrder
    <3> QED BY <3>6, <3>7, <3>8, <3>9 DEF FramesInv
  <2> QED BY <2>5, <2>6
\* The first of the queue goes to the thread that shows it.
<1>f. ASSUME decoded # << >>, decoded' = Tail(decoded)
      PROVE  /\ Head(decoded) \in S /\ Head(decoded) \in 0 .. Frames /\ Head(decoded) # 0
             /\ decoded' \in Seq(S) /\ Len(decoded') <= Limit
             /\ Queued = {Head(decoded)} \cup Queued'
             /\ Rising(decoded') /\ Before({Head(decoded)}, Queued')
  <2>1. /\ Head(decoded) \in S /\ decoded' \in Seq(S) /\ Len(decoded') = Len(decoded) - 1
        /\ Len(decoded) \in Nat /\ Queued = {Head(decoded)} \cup Queued'
    BY <1>a, <1>f, TailOf DEF Queued
  <2>2. Rising(decoded') /\ Before({Head(decoded)}, Queued')
    BY <1>0, <1>a, <1>f, RisingTail DEF FrameOrder, Queued, Before
  <2> QED BY <1>a, <2>1, <2>2, DecoderAssumption DEF S
<1>12. CASE Decoder!ODue
  <2>1. /\ opc = "pace" /\ decoded # << >> /\ hand' = Head(decoded) /\ decoded' = Tail(decoded)
        /\ opc' = "render"
        /\ UNCHANGED <<inside, ready, released, fed, spc, chand, shown, late, switched, use>>
    BY <1>12 DEF Decoder!ODue
  <2> DEFINE f == Head(decoded)
  <2>2. /\ f \in S /\ f \in 0 .. Frames /\ f # 0 /\ decoded' \in Seq(S) /\ Len(decoded') <= Limit
        /\ Queued = {f} \cup Queued' /\ Rising(decoded') /\ Before({f}, Queued') /\ hand' = f
    BY <1>f, <2>1
  <2> HIDE DEF f
  <2>3. UNCHANGED <<Going, Ready, Picked, Awaiting>> /\ Handed' = {f} /\ Handed = {}
    BY <1>0, <2>1, <2>2 DEF Going, Ready, Handed, Picked, Awaiting, Decoder!Holds, OutSet, ThreadsFit
  <2>4. Everywhere' = Everywhere BY <1>b, <2>2, <2>3 DEF Everywhere
  <2>5. FrameTypes' BY <1>0, <1>a, <2>1, <2>2 DEF FrameTypes, S
  <2>6. FramesOnce' BY <1>0, <2>1, <2>3, <2>4 DEF FramesOnce
  <2>7. use' = "balanced" BY <1>0, <2>1 DEF PacingFits
  <2>8. FrameOrder' BY <1>0, <2>1, <2>2, <2>3, <2>4, <2>7 DEF FrameOrder, Before, Rising
  <2>9. ShownOrder' BY <1>0, <2>1, <2>3, <2>4 DEF ShownOrder
  <2> QED BY <2>5, <2>6, <2>8, <2>9 DEF FramesInv
<1>13. CASE Decoder!ODrain /\ ready # << >>
  <2>1. /\ opc = "drain" /\ opc' = opc /\ released' = released \cup {hand}
        /\ hand' = Head(ready) /\ ready' = Tail(ready)
        /\ UNCHANGED <<decoded, inside, fed, spc, chand, shown, late, switched, use>>
    BY <1>13 DEF Decoder!ODrain
  <2> DEFINE f == Head(ready)
  <2>2. f \in S /\ ready' \in Seq(S) /\ Ready = {f} \cup Ready'
    BY <1>a, <1>13, <2>1, TailOf DEF Ready
  <2>3. Rising(ready') /\ Before({f}, Ready')
    BY <1>0, <1>a, <1>13, <2>1, RisingTail DEF FrameOrder, Ready, Before
  <2> HIDE DEF f
  <2>4. hand' = f /\ f \in 0 .. Frames /\ f # 0 BY <1>a, <2>1, <2>2 DEF f, S
  <2>5. hand # 0 /\ hand \in S BY <1>0, <1>a, <2>1 DEF ThreadsFit, S
  <2>6. UNCHANGED <<Going, Queued, Picked, Awaiting>> /\ Handed = {hand} /\ Handed' = {f}
    BY <2>1, <2>4, <2>5 DEF Going, Queued, Handed, Picked, Awaiting, Decoder!Holds, OutSet
  <2>7. Everywhere = Everywhere' \cup {hand} BY <1>b, <2>2, <2>6 DEF Everywhere
  <2>8. FrameTypes' BY <1>0, <1>a, <2>1, <2>2, <2>4, <2>5 DEF FrameTypes, S
  <2>9. hand \notin Everywhere' \cup Awaiting
    <3>1. hand \notin Going \cup Queued \cup Picked \cup Ready
      BY <1>0, <1>b, <2>1, <2>6 DEF FrameOrder, Before
    <3>2. hand \notin Awaiting BY <1>0, <1>b, <2>7 DEF FrameOrder, Before
    <3> QED BY <2>2, <2>6, <3>1, <3>2 DEF Everywhere
  <2>10. FramesOnce' BY <1>0, <2>1, <2>6, <2>7, <2>9 DEF FramesOnce
  <2>11. FrameOrder' BY <1>0, <2>1, <2>2, <2>3, <2>6, <2>7 DEF FrameOrder, Before, Rising
  <2>12. ShownOrder' BY <1>0, <2>1, <2>6, <2>7 DEF ShownOrder, Before
  <2> QED BY <2>8, <2>10, <2>11, <2>12 DEF FramesInv
<1>14. CASE Decoder!ODrain /\ ready = << >>
  <2>1. /\ opc = "drain" /\ opc' = "render"
        /\ UNCHANGED <<decoded, inside, ready, released, fed, spc, hand, chand, shown, late, switched, use>>
    BY <1>14 DEF Decoder!ODrain
  <2>2. UNCHANGED <<Going, Ready, Queued, Handed, Picked, Awaiting, Everywhere>>
    BY <2>1 DEF Going, Ready, Queued, Handed, Picked, Awaiting, Everywhere, Decoder!Holds, OutSet
  <2>3. use' = "direct" /\ Before(Queued', Handed') BY <1>0, <2>1, <2>2 DEF PacingFits, FrameOrder
  <2>4. FrameTypes' /\ FramesOnce' /\ ShownOrder'
    BY <1>0, <2>1, <2>2 DEF FrameTypes, FramesOnce, ShownOrder
  <2>5. FrameOrder' BY <1>0, <2>1, <2>2, <2>3 DEF FrameOrder, Rising
  <2> QED BY <2>4, <2>5 DEF FramesInv
<1>15. CASE Decoder!ORender
  <2>1. /\ opc = "render" /\ Decoder!Show(hand) /\ released' = released \cup {hand}
        /\ hand' = 0 /\ opc' = "top" /\ shown' = hand
        /\ UNCHANGED <<decoded, inside, ready, fed, spc, chand, switched, use>>
    BY <1>15 DEF Decoder!ORender, Decoder!Show
  <2>2. hand # 0 /\ hand \in S BY <1>0, <1>a, <2>1 DEF ThreadsFit, S
  <2>3. UNCHANGED <<Going, Ready, Queued, Picked, Awaiting>> /\ Handed = {hand} /\ Handed' = {}
    BY <2>1, <2>2 DEF Going, Ready, Queued, Handed, Picked, Awaiting, Decoder!Holds, OutSet
  <2>4. Everywhere = Everywhere' \cup {hand} /\ Everywhere' = Going \cup Ready \cup Queued \cup Picked
    BY <1>b, <2>3 DEF Everywhere
  <2>5. FrameTypes' BY <1>0, <1>a, <2>1, <2>2 DEF FrameTypes, S
  <2>6. hand \notin Everywhere' \cup Awaiting
    <3>1. hand \notin Going \cup Queued \cup Picked \cup Ready
      BY <1>0, <1>b, <2>1, <2>3 DEF FrameOrder, Before
    <3>2. hand \notin Awaiting BY <1>0, <1>b, <2>4 DEF FrameOrder, Before
    <3> QED BY <2>3, <2>4, <3>1, <3>2
  <2>7. FramesOnce' BY <1>0, <2>1, <2>3, <2>4, <2>6 DEF FramesOnce
  <2>8. FrameOrder' BY <1>0, <2>1, <2>3, <2>4 DEF FrameOrder, Before, Rising
  <2>9. ASSUME ~switched PROVE Before({hand}, Everywhere' \cup Awaiting)
    <3>1. Picked = {} /\ (Queued = {} \/ Before({hand}, Queued))
      <4>1. CASE use = "balanced"
        <5>1. kpc = "off" /\ chand = 0
          BY <1>0, <2>1, <4>1 DEF PacingFits, ThreadsFit, Working
        <5> QED BY <1>0, <2>1, <2>3, <4>1, <5>1 DEF FrameOrder, Picked, Decoder!Holds
      <4>2. CASE use # "balanced"
        <5>1. pacing = "direct" /\ decoded = << >> /\ chand = 0
          BY <1>0, <2>1, <2>9, <4>2 DEF PacingFits, FlagTypes, Working
        <5> QED BY <5>1, NoneOut DEF Picked, Queued, Decoder!Holds
      <4> QED BY <4>1, <4>2
    <3>2. Before({hand}, Going) /\ Before({hand}, Ready) BY <1>0, <2>3 DEF FrameOrder
    <3>3. Before({hand}, Awaiting) BY <1>0, <2>4 DEF FrameOrder, Before
    <3> QED BY <2>4, <3>1, <3>2, <3>3 DEF Before
  <2>10. ShownOrder'
    <3>1. /\ hand \in 1 .. Frames /\ switched' = switched /\ hand \in Everywhere
          /\ (Everywhere \cup Awaiting)' = Everywhere' \cup Awaiting
      BY <2>1, <2>2, <2>3, <2>4 DEF S
    <3> QED BY <1>0, <2>1, <2>4, <2>6, <2>9, <3>1, ShowsNext
  <2> QED BY <2>5, <2>7, <2>8, <2>10 DEF FramesInv
<1>16. CASE Decoder!KFrame
  <2>1. /\ kpc = "poll"
        /\ UNCHANGED <<inside, ready, released, fed, spc, hand, shown, late, switched, opc, use>>
        /\ \/ UNCHANGED <<decoded, chand>>
           \/ decoded # << >> /\ decoded' = Tail(decoded) /\ chand' = Head(decoded)
    BY <1>16 DEF Decoder!KFrame
  <2>2. CASE UNCHANGED <<decoded, chand>>
    <3>1. UNCHANGED Awaiting BY <2>1 DEF Awaiting
    <3> QED BY <1>0, <2>1, <2>2, <3>1, FramesKept
  <2>3. CASE decoded # << >> /\ decoded' = Tail(decoded) /\ chand' = Head(decoded)
    <3> DEFINE f == Head(decoded)
    <3>2. /\ f \in S /\ f \in 0 .. Frames /\ f # 0 /\ decoded' \in Seq(S) /\ Len(decoded') <= Limit
          /\ Queued = {f} \cup Queued' /\ Rising(decoded') /\ Before({f}, Queued') /\ chand' = f
      BY <1>f, <2>3
    <3> HIDE DEF f
    <3>3. UNCHANGED <<Going, Ready, Handed, Awaiting>> /\ Picked' = {f} /\ Picked = {}
      BY <1>0, <2>1, <3>2 DEF Going, Ready, Handed, Picked, Awaiting, Decoder!Holds, OutSet, ThreadsFit
    <3>4. Everywhere' = Everywhere BY <1>b, <3>2, <3>3 DEF Everywhere
    <3>5. FrameTypes' BY <1>0, <1>a, <2>1, <3>2 DEF FrameTypes, S
    <3>6. FramesOnce' BY <1>0, <2>1, <3>3, <3>4 DEF FramesOnce
    <3>7. Before({f}, Handed)
      <4>1. CASE opc \in {"push", "drain"} BY <1>0, <3>2, <4>1 DEF FrameOrder, Before
      <4>2. CASE opc = "render"
        <5>1. use # "balanced" BY <1>0, <2>1, <4>2 DEF PacingFits, Working
        <5> QED BY <1>0, <3>2, <4>2, <5>1 DEF FrameOrder, Before
      <4>3. CASE opc \notin {"push", "drain", "render"}
        <5>1. Handed = {} BY <1>0, <4>3 DEF ThreadsFit, Handed, Decoder!Holds
        <5> QED BY <5>1 DEF Before
      <4> QED BY <4>1, <4>2, <4>3
    <3>8. FrameOrder' BY <1>0, <2>1, <3>2, <3>3, <3>4, <3>7 DEF FrameOrder, Before, Rising
    <3>9. ShownOrder' BY <1>0, <2>1, <3>3, <3>4 DEF ShownOrder
    <3> QED BY <3>5, <3>6, <3>8, <3>9 DEF FramesInv
  <2> QED BY <2>1, <2>2, <2>3
<1>17. CASE Decoder!KShow
  <2>1. /\ kpc = "show" /\ Decoder!Show(chand) /\ released' = released \cup {chand}
        /\ chand' = 0 /\ shown' = chand
        /\ UNCHANGED <<decoded, inside, ready, fed, spc, hand, switched, opc, use>>
    BY <1>17 DEF Decoder!KShow, Decoder!Show
  <2>2. chand # 0 /\ chand \in S BY <1>0, <1>a, <2>1 DEF ThreadsFit, S
  <2>3. UNCHANGED <<Going, Ready, Queued, Handed, Awaiting>> /\ Picked = {chand} /\ Picked' = {}
    BY <2>1, <2>2 DEF Going, Ready, Queued, Handed, Picked, Awaiting, Decoder!Holds, OutSet
  <2>4. Everywhere = Everywhere' \cup {chand} /\ Everywhere' = Going \cup Ready \cup Queued \cup Handed
    BY <1>b, <2>3 DEF Everywhere
  <2>5. FrameTypes' BY <1>0, <1>a, <2>1, <2>2 DEF FrameTypes, S
  <2>6. Before({chand}, Everywhere' \cup Awaiting)
    BY <1>0, <2>3, <2>4 DEF FrameOrder, Before
  <2>7. chand \notin Everywhere' \cup Awaiting BY <1>b, <2>4, <2>6 DEF Before
  <2>8. FramesOnce' BY <1>0, <2>1, <2>3, <2>4, <2>7 DEF FramesOnce
  <2>9. FrameOrder' BY <1>0, <2>1, <2>3, <2>4 DEF FrameOrder, Before, Rising
  <2>10. ShownOrder'
    <3>1. /\ chand \in 1 .. Frames /\ switched' = switched /\ chand \in Everywhere
          /\ (Everywhere \cup Awaiting)' = Everywhere' \cup Awaiting
      BY <2>1, <2>2, <2>3, <2>4 DEF S
    <3> QED BY <1>0, <2>1, <2>4, <2>6, <2>7, <3>1, ShowsNext
  <2> QED BY <2>5, <2>8, <2>9, <2>10 DEF FramesInv
<1> QED BY <1>1, <1>2, <1>3, <1>4, <1>5, <1>6, <1>7, <1>8, <1>9, <1>10, <1>11, <1>12, <1>13, <1>14,
           <1>15, <1>16, <1>17
        DEF Decoder!Next, Decoder!Kill, Decoder!Feeding, Decoder!OutputThread,
            Decoder!ChoreographerThread

LEMMA DecoderNext == DecoderInv /\ [Decoder!Next]_(Decoder!vars) => DecoderInv'
  BY ControlNext, FramesNext DEF DecoderInv
-----------------------------------------------------------------------------
(* The stream page and its surfaces.                                        *)

Kinds == {"attach", "external", "phone", "enable", "disable", "removed"}
Block == [kind : Kinds, of : 0 .. Pages]
PageTypes ==
  /\ pages \in 0 .. Pages /\ page \in [Page!All -> {"none", "open", "left"}]
  /\ outputs \in [Page!All -> BOOLEAN] /\ timers \subseteq Page!All
  /\ resumes \subseteq Page!All /\ stops \subseteq Page!All
  /\ display \in BOOLEAN /\ presentation \in {"none", "shown", "ready"}
  /\ changes \in 0 .. Changes /\ activeSession \in 0 .. Pages
  /\ news \in Seq([to : 0 .. Pages, active : BOOLEAN])
ViewTypes ==
  /\ native \in [Page!All -> {"none", "running", "quit"}]
  /\ surface \in [Page!All -> {"none", "phone"}]
  /\ external \in [Page!All -> BOOLEAN]
  /\ where \in [Page!All -> {"none", "phone", "external"}]
  /\ astray \subseteq Page!All
BlockTypes == blocks \in Seq(Block)

(* A page that is not open has no session, unless its stop is still on its  *)
(* way, or came before the session was started.                             *)
PagesFit ==
  /\ \A s \in Page!All : page[s] = "none" <=> s > pages
  /\ \A s \in Page!All : page[s] = "none" => native[s] = "none" /\ ~external[s]
  /\ resumes \subseteq 1 .. pages /\ stops \subseteq 1 .. pages /\ timers \subseteq 1 .. pages
  /\ activeSession \in 0 .. pages
  /\ \A s \in Page!All : page[s] = "left" /\ s \notin stops =>
       s # activeSession /\ (native[s] = "none" \/ s \in astray)
  /\ Page!Watched

(* What the decoder renders to follows the session at every step.           *)
ViewFits ==
  \A s \in Page!All :
    /\ native[s] = "none" => where[s] = "none"
    /\ native[s] # "none" /\ s \notin astray =>
         where[s] = IF external[s] THEN "external" ELSE surface[s]

(* The blocks: those that touch a view are of a page, and the first surface *)
(* of a page comes before anything else.                                    *)
BlocksFit(q, n, ext) ==
  \A i \in 1 .. Len(q) :
    /\ q[i].of \in 0 .. n
    /\ q[i].kind \in {"attach", "external", "phone"} => q[i].of # 0
    /\ q[i].kind = "attach" => i = 1 /\ ~ext[q[i].of]

(* Once the blocks are through, the session a does not render to the        *)
(* external display: the last block that switches it goes to the phone.     *)
EndsOnPhone(q, ext, a) ==
  a # 0 => \E i \in 0 .. Len(q) :
    /\ i = 0 => ~ext[a]
    /\ i # 0 => q[i] = Page!Post("phone", a)
    /\ \A j \in i + 1 .. Len(q) : q[j] # Page!Post("external", a)

PageInv ==
  /\ PageTypes /\ ViewTypes /\ BlockTypes /\ PagesFit /\ ViewFits
  /\ BlocksFit(blocks, pages, external)
  /\ presentation # "ready" => EndsOnPhone(blocks, external, activeSession)

LEMMA PageIs == PageInv => Page!TypeOK /\ Page!PlayerSound
<1> SUFFICES ASSUME PageInv PROVE Page!TypeOK /\ Page!PlayerSound OBVIOUS
<1>0. PageTypes /\ ViewTypes /\ BlockTypes /\ PagesFit /\ ViewFits BY DEF PageInv
<1>1. Page!TypeOK
  BY <1>0 DEF Page!TypeOK, PageTypes, ViewTypes, BlockTypes, Block, Kinds
<1>2. Page!RendersRight BY <1>0 DEF Page!RendersRight, ViewFits
<1>3. Page!NeverToGone
  <2> SUFFICES ASSUME NEW s \in Page!All, Page!Settled, where[s] = "external", s \notin astray
               PROVE  presentation = "ready"
    BY DEF Page!NeverToGone
  <2>1. native[s] # "none" /\ s = activeSession
    BY <1>0 DEF ViewFits, PagesFit, Page!Watched
  <2>2. external[s]
    <3>1. surface[s] \in {"none", "phone"} BY <1>0 DEF ViewTypes
    <3> QED BY <1>0, <2>1, <3>1 DEF ViewFits
  <2>3. s # 0 BY DEF Page!All
  <2> SUFFICES ASSUME presentation # "ready" PROVE FALSE OBVIOUS
  <2>4. PICK i \in 0 .. Len(blocks) :
          (i = 0 => ~external[s]) /\ (i # 0 => blocks[i] = Page!Post("phone", s))
    BY <2>1, <2>3 DEF PageInv, EndsOnPhone
  <2>5. i \in 1 .. Len(blocks) /\ blocks[i].kind = "phone"
    BY <2>2, <2>4 DEF Page!Post
  <2> QED BY <2>5 DEF Page!Settled
<1> QED BY <1>0, <1>1, <1>2, <1>3 DEF Page!PlayerSound, PagesFit

LEMMA PageInit == Page!Init => PageInv
<1> SUFFICES ASSUME Page!Init PROVE PageInv OBVIOUS
<1>1. PageTypes BY PageAssumption, EmptySeq DEF Page!Init, PageTypes
<1>2. ViewTypes BY DEF Page!Init, ViewTypes
<1>3. BlockTypes BY EmptySeq DEF Page!Init, BlockTypes
<1>4. PagesFit /\ ViewFits
  BY PageAssumption DEF Page!Init, PagesFit, ViewFits, Page!Watched, Page!All
<1>5. BlocksFit(blocks, pages, external) BY EmptySeq DEF Page!Init, BlocksFit
<1>6. EndsOnPhone(blocks, external, activeSession) BY DEF Page!Init, EndsOnPhone
<1> QED BY <1>1, <1>2, <1>3, <1>4, <1>5, <1>6 DEF PageInv

-----------------------------------------------------------------------------
(* One block less, and one more.                                            *)
LEMMA BlockDone ==
  ASSUME NEW q \in Seq(Block), q # << >>, NEW n \in Nat, NEW ext, BlocksFit(q, n, ext),
         NEW ext2, NEW a, EndsOnPhone(q, ext, a),
         a # 0 => ext2[a] = IF Head(q) = Page!Post("external", a) THEN TRUE
                            ELSE IF Head(q) = Page!Post("phone", a) THEN FALSE ELSE ext[a]
  PROVE  EndsOnPhone(Tail(q), ext2, a)
<1> DEFINE t == Tail(q)
<1>1. /\ Len(t) = Len(q) - 1 /\ Len(q) \in Nat \ {0} /\ Head(q) = q[1]
      /\ \A i \in 1 .. Len(t) : t[i] = q[i + 1]
  BY TailOf
<1> HIDE DEF t
<1> SUFFICES ASSUME a # 0
             PROVE  \E i \in 0 .. Len(t) :
                      /\ i = 0 => ~ext2[a]
                      /\ i # 0 => t[i] = Page!Post("phone", a)
                      /\ \A j \in i + 1 .. Len(t) : t[j] # Page!Post("external", a)
  BY DEF EndsOnPhone, t
<1>2. PICK i \in 0 .. Len(q) :
        /\ i = 0 => ~ext[a]
        /\ i # 0 => q[i] = Page!Post("phone", a)
        /\ \A j \in i + 1 .. Len(q) : q[j] # Page!Post("external", a)
  BY DEF EndsOnPhone
<1>3. Page!Post("phone", a) # Page!Post("external", a) BY DEF Page!Post
<1>4. CASE i > 1
  <2>1. i - 1 \in 0 .. Len(t) /\ i - 1 # 0 /\ i - 1 \in 1 .. Len(t) /\ (i - 1) + 1 = i
    BY <1>1, <1>4
  <2>2. t[i - 1] = Page!Post("phone", a) BY <1>1, <1>2, <2>1
  <2>3. ASSUME NEW j \in (i - 1) + 1 .. Len(t) PROVE t[j] # Page!Post("external", a)
    <3>1. j \in 1 .. Len(t) /\ j + 1 \in i + 1 .. Len(q) BY <1>1, <2>1
    <3> QED BY <1>1, <1>2, <3>1
  <2> QED BY <2>1, <2>2, <2>3
<1>5. CASE i = 1 \/ i = 0
  <2>1. q[1] # Page!Post("external", a)
    <3>1. CASE i = 1 BY <1>2, <1>3, <3>1
    <3>2. CASE i = 0
      <4>1. 1 \in i + 1 .. Len(q) BY <1>1, <3>2
      <4> QED BY <1>2, <4>1
    <3> QED BY <1>5, <3>1, <3>2
  <2>2. ~ext2[a] BY <1>1, <1>2, <1>5, <2>1
  <2>3. ASSUME NEW j \in 0 + 1 .. Len(t) PROVE t[j] # Page!Post("external", a)
    <3>1. j \in 1 .. Len(t) /\ j + 1 \in i + 1 .. Len(q) BY <1>1, <1>5
    <3> QED BY <1>1, <1>2, <3>1
  <2>4. 0 \in 0 .. Len(t) BY <1>1
  <2> QED BY <2>2, <2>3, <2>4
<1> QED BY <1>1, <1>4, <1>5

LEMMA BlockPosted ==
  ASSUME NEW q \in Seq(Block), NEW x \in Block, NEW ext, NEW a,
         x # Page!Post("external", a), EndsOnPhone(q, ext, a)
  PROVE  EndsOnPhone(Append(q, x), ext, a)
<1> DEFINE t == Append(q, x)
<1>1. /\ Len(t) = Len(q) + 1 /\ Len(q) \in Nat /\ t[Len(q) + 1] = x
      /\ \A i \in 1 .. Len(q) : t[i] = q[i]
  BY AppendProperties
<1> HIDE DEF t
<1> SUFFICES ASSUME a # 0
             PROVE  \E i \in 0 .. Len(t) :
                      /\ i = 0 => ~ext[a]
                      /\ i # 0 => t[i] = Page!Post("phone", a)
                      /\ \A j \in i + 1 .. Len(t) : t[j] # Page!Post("external", a)
  BY DEF EndsOnPhone, t
<1>2. PICK i \in 0 .. Len(q) :
        /\ i = 0 => ~ext[a]
        /\ i # 0 => q[i] = Page!Post("phone", a)
        /\ \A j \in i + 1 .. Len(q) : q[j] # Page!Post("external", a)
  BY DEF EndsOnPhone
<1>3. i \in 0 .. Len(t) /\ (i # 0 => t[i] = Page!Post("phone", a)) BY <1>1, <1>2
<1>4. ASSUME NEW j \in i + 1 .. Len(t) PROVE t[j] # Page!Post("external", a)
  <2>1. j \in i + 1 .. Len(q) \/ j = Len(q) + 1 BY <1>1
  <2>2. CASE j \in i + 1 .. Len(q)
    <3>1. j \in 1 .. Len(q) BY <1>1, <2>2
    <3> QED BY <1>1, <1>2, <2>2, <3>1
  <2>3. CASE j = Len(q) + 1 BY <1>1, <2>3
  <2> QED BY <2>1, <2>2, <2>3
<1> QED BY <1>2, <1>3, <1>4

LEMMA PhonePosted ==
  ASSUME NEW q \in Seq(Block), NEW ext, NEW a, Page!Post("phone", a) \in Block
  PROVE  EndsOnPhone(Append(q, Page!Post("phone", a)), ext, a)
<1> DEFINE x == Page!Post("phone", a)
           t == Append(q, x)
<1>1. Len(t) = Len(q) + 1 /\ Len(q) \in Nat /\ t[Len(q) + 1] = x BY AppendProperties
<1> HIDE DEF t
<1>2. Len(t) \in 0 .. Len(t) /\ Len(t) # 0 /\ t[Len(t)] = x BY <1>1
<1>3. \A j \in Len(t) + 1 .. Len(t) : FALSE BY <1>1
<1> QED BY <1>2, <1>3 DEF EndsOnPhone, t

LEMMA BlocksFitLess ==
  ASSUME NEW q \in Seq(Block), q # << >>, NEW n \in Nat, NEW ext, NEW ext2, BlocksFit(q, n, ext)
  PROVE  BlocksFit(Tail(q), n, ext2) /\ Tail(q) \in Seq(Block) /\ Head(q) \in Block
         /\ Head(q).of \in 0 .. n
         /\ (Head(q).kind \in {"attach", "external", "phone"} => Head(q).of # 0)
         /\ (Head(q).kind = "attach" => ~ext[Head(q).of])
<1> DEFINE t == Tail(q)
<1>1. /\ Len(t) = Len(q) - 1 /\ Len(q) \in Nat \ {0} /\ Head(q) = q[1] /\ t \in Seq(Block)
      /\ Head(q) \in Block /\ \A i \in 1 .. Len(t) : t[i] = q[i + 1]
  BY TailOf
<1> HIDE DEF t
<1>2. \A i \in 1 .. Len(t) : i + 1 \in 1 .. Len(q) /\ i + 1 # 1 BY <1>1
<1>3. BlocksFit(t, n, ext2) BY <1>1, <1>2 DEF BlocksFit
<1>4. 1 \in 1 .. Len(q) BY <1>1
<1> QED BY <1>1, <1>3, <1>4 DEF BlocksFit, t

LEMMA BlocksFitMore ==
  ASSUME NEW q \in Seq(Block), NEW x \in Block, NEW n \in Nat, NEW ext, BlocksFit(q, n, ext),
         x.of \in 0 .. n, x.kind \in {"external", "phone"} => x.of # 0, x.kind # "attach"
  PROVE  BlocksFit(Append(q, x), n, ext) /\ Append(q, x) \in Seq(Block)
<1> DEFINE t == Append(q, x)
<1>1. /\ Len(t) = Len(q) + 1 /\ Len(q) \in Nat /\ t[Len(q) + 1] = x /\ t \in Seq(Block)
      /\ \A i \in 1 .. Len(q) : t[i] = q[i]
  BY AppendProperties
<1> HIDE DEF t
<1>2. \A i \in 1 .. Len(t) : i \in 1 .. Len(q) \/ i = Len(q) + 1 BY <1>1
<1>3. BlocksFit(t, n, ext) BY <1>1, <1>2 DEF BlocksFit
<1> QED BY <1>1, <1>3 DEF t

\* The picture goes back to the phone.
LEMMA ToPhoneEnds ==
  ASSUME PageTypes, NEW q \in Seq(Block), NEW n \in 0 .. Pages, activeSession \in 0 .. n,
         NEW ext, BlocksFit(q, n, ext)
  PROVE  /\ q \o Page!ToPhone \in Seq(Block) /\ BlocksFit(q \o Page!ToPhone, n, ext)
         /\ EndsOnPhone(q \o Page!ToPhone, ext, activeSession)
<1>1. CASE activeSession = 0
  <2>1. Page!ToPhone = << >> BY <1>1 DEF Page!ToPhone
  <2>2. q \o Page!ToPhone = q BY <2>1, ConcatEmptySeq
  <2> QED BY <1>1, <2>2 DEF EndsOnPhone
<1>2. CASE activeSession # 0
  <2> DEFINE x == Page!Post("phone", activeSession)
  <2>1. Page!ToPhone = <<x>> BY <1>2 DEF Page!ToPhone
  <2>2. x \in Block /\ x.of = activeSession /\ x.kind = "phone"
    BY DEF PageTypes, Block, Kinds, Page!Post
  <2>3. q \o <<x>> = Append(q, x)
    <3> HIDE DEF x
    <3> QED BY <2>2, AppendIsConcat
  <2>4. EndsOnPhone(Append(q, x), ext, activeSession) BY <2>2, PhonePosted
  <2>5. BlocksFit(Append(q, x), n, ext) /\ Append(q, x) \in Seq(Block)
    <3> HIDE DEF x
    <3>1. n \in Nat BY PageAssumption
    <3> QED BY <1>2, <2>2, <3>1, BlocksFitMore
  <2> QED BY <2>1, <2>3, <2>4, <2>5
<1> QED BY <1>1, <1>2

LEMMA PageNext == PageInv /\ [Page!Next]_(Page!vars) => PageInv'
<1> SUFFICES ASSUME PageInv, [Page!Next]_(Page!vars) PROVE PageInv' OBVIOUS
<1>0. /\ PageTypes /\ ViewTypes /\ BlockTypes /\ PagesFit /\ ViewFits
      /\ BlocksFit(blocks, pages, external)
      /\ presentation # "ready" => EndsOnPhone(blocks, external, activeSession)
  BY DEF PageInv
<1>a. /\ Pages \in Nat /\ Changes \in Nat /\ pages \in Nat /\ pages <= Pages /\ pages \in 0 .. Pages
      /\ 1 .. pages \subseteq Page!All /\ activeSession \in 0 .. pages /\ activeSession \in 0 .. Pages
      /\ blocks \in Seq(Block) /\ \A s \in Page!All : s # 0 /\ s \in Nat
  BY <1>0, PageAssumption DEF PageTypes, PagesFit, BlockTypes, Page!All
<1> USE DEF Page!js, Page!session, Page!screen
\* Steps that do not touch the sessions.
<1>b. ASSUME UNCHANGED <<native, surface, external, where, astray>>,
             PageTypes', PagesFit', blocks' \in Seq(Block), BlocksFit(blocks', pages', external),
             presentation' # "ready" => EndsOnPhone(blocks', external, activeSession')
      PROVE  PageInv'
  <2>1. ViewTypes' /\ ViewFits' BY <1>0, <1>b DEF ViewTypes, ViewFits
  <2> QED BY <1>b, <2>1 DEF PageInv, BlockTypes
\* ... and post a block, or none.
<1>c. ASSUME NEW kind \in {"enable", "disable", "removed"}, NEW s \in 0 .. pages,
             blocks' = Append(blocks, Page!Post(kind, s))
      PROVE  /\ blocks' \in Seq(Block) /\ BlocksFit(blocks', pages, external)
             /\ presentation # "ready" => EndsOnPhone(blocks', external, activeSession)
  <2> DEFINE x == Page!Post(kind, s)
  <2>1. /\ x \in Block /\ x.of = s /\ x.kind = kind
        /\ x # Page!Post("external", activeSession)
    BY <1>a DEF Block, Kinds, Page!Post
  <2> HIDE DEF x
  <2>2. blocks' = Append(blocks, x) BY <1>c DEF x
  <2>3. blocks' \in Seq(Block) /\ BlocksFit(blocks', pages, external)
    BY <1>0, <1>a, <2>1, <2>2, BlocksFitMore
  <2>4. presentation # "ready" => EndsOnPhone(blocks', external, activeSession)
    BY <1>0, <1>a, <2>1, <2>2, BlockPosted
  <2> QED BY <2>3, <2>4
\* The block at the head runs, and moves nothing.
<1>d. ASSUME blocks # << >>
      PROVE  /\ Tail(blocks) \in Seq(Block) /\ Head(blocks) \in Block
             /\ \A ext2 : BlocksFit(Tail(blocks), pages, ext2)
             /\ Head(blocks).of \in 0 .. pages /\ Head(blocks).of \in 0 .. Pages
             /\ Head(blocks).kind \in {"attach", "external", "phone"} =>
                  Head(blocks).of \in Page!All /\ Head(blocks).of \in 1 .. pages
             /\ Head(blocks).kind = "attach" => ~external[Head(blocks).of]
             /\ presentation # "ready" /\ Head(blocks).kind \notin {"external", "phone"} =>
                  EndsOnPhone(Tail(blocks), external, activeSession)
  <2>1. /\ Tail(blocks) \in Seq(Block) /\ Head(blocks) \in Block
        /\ \A ext2 : BlocksFit(Tail(blocks), pages, ext2)
        /\ Head(blocks).of \in 0 .. pages
        /\ Head(blocks).kind \in {"attach", "external", "phone"} => Head(blocks).of # 0
        /\ Head(blocks).kind = "attach" => ~external[Head(blocks).of]
    BY <1>0, <1>a, <1>d, BlocksFitLess
  <2>2. Head(blocks).of # 0 => Head(blocks).of \in 1 .. pages BY <1>a, <2>1
  <2>3. ASSUME presentation # "ready", Head(blocks).kind \notin {"external", "phone"}
        PROVE  EndsOnPhone(Tail(blocks), external, activeSession)
    <3>1. /\ Head(blocks) # Page!Post("external", activeSession)
          /\ Head(blocks) # Page!Post("phone", activeSession)
      BY <2>3 DEF Page!Post
    <3> QED BY <1>0, <1>a, <1>d, <2>3, <3>1, BlockDone
  <2> QED BY <1>a, <2>1, <2>2, <2>3
<1>1. CASE Page!Open
  <2>1. /\ pages < Pages /\ \A s \in Page!All : page[s] # "open"
        /\ stops = {} /\ blocks = << >> /\ pages' = pages + 1
        /\ page' = [page EXCEPT ![pages + 1] = "open"] /\ activeSession' = pages + 1
        /\ blocks' = Append(blocks, Page!Post("attach", pages + 1))
        /\ resumes' = resumes \cup {pages + 1}
        /\ UNCHANGED <<native, surface, external, where, astray, outputs, timers, stops, display,
                       presentation, news, changes>>
    BY <1>1 DEF Page!Open
  <2> DEFINE n == pages + 1
             x == Page!Post("attach", n)
  <2>2. n \in Page!All /\ n \in 0 .. Pages /\ n \in Nat /\ 0 .. n \subseteq 0 .. Pages /\ n # 0
    BY <1>a, <2>1 DEF Page!All
  <2>3. ~external[n] /\ page[n] = "none" BY <1>0, <1>a, <2>2 DEF PagesFit
  <2>4. x \in Block /\ x.of = n /\ x.kind = "attach" /\ x # Page!Post("external", n)
    BY <2>2 DEF Block, Kinds, Page!Post
  <2> HIDE DEF n, x
  <2>5. blocks' = Append(blocks, x) /\ blocks' = Append(<< >>, x) BY <2>1 DEF n, x
  <2>6. blocks' \in Seq(Block) /\ Len(blocks') = 1 /\ blocks'[1] = x
    BY <1>a, <2>1, <2>4, <2>5, AppendProperties, EmptySeq
  <2>7. BlocksFit(blocks', n, external)
    <3>1. \A i \in 1 .. Len(blocks') : i = 1 BY <2>6
    <3> QED BY <2>2, <2>3, <2>4, <2>6, <3>1 DEF BlocksFit
  <2>8. EndsOnPhone(blocks', external, n)
    <3>1. EndsOnPhone(blocks, external, n)
      <4>1. 0 \in 0 .. Len(blocks) /\ \A j \in 0 + 1 .. Len(blocks) : FALSE BY <2>1, EmptySeq
      <4> QED BY <2>3, <4>1 DEF EndsOnPhone
    <3> QED BY <1>a, <2>4, <2>5, <3>1, BlockPosted
  <2>9. /\ pages' = n /\ activeSession' = n /\ resumes' = resumes \cup {n}
        /\ page' = [page EXCEPT ![n] = "open"] /\ n = pages + 1
    BY <2>1 DEF n
  <2>10. PageTypes' BY <1>0, <2>1, <2>2, <2>9 DEF PageTypes
  <2>11. PagesFit'
    <3>1. \A s \in Page!All : page'[s] = IF s = n THEN "open" ELSE page[s]
      BY <1>0, <2>9 DEF PageTypes
    <3>2. \A s \in Page!All : page'[s] = "none" <=> s > n
      BY <1>0, <1>a, <2>3, <2>9, <3>1 DEF PagesFit
    <3>3. \A s \in Page!All : native[s] # "none" => s \in astray
      <4> SUFFICES ASSUME NEW s \in Page!All, native[s] # "none" PROVE s \in astray OBVIOUS
      <4>1. page[s] = "left" BY <1>0, <2>1 DEF PagesFit, PageTypes
      <4> QED BY <1>0, <2>1, <4>1 DEF PagesFit
    <3>4. 1 .. n = (1 .. pages) \cup {n} /\ n \in 0 .. n BY <1>a, <2>9
    <3> QED BY <1>0, <2>1, <2>2, <2>9, <3>1, <3>2, <3>3, <3>4 DEF PagesFit, Page!Watched
  <2> QED BY <1>b, <2>1, <2>6, <2>7, <2>8, <2>9, <2>10, <2>11
<1>2. ASSUME NEW s \in Page!All, Page!Exit(s) \/ Page!Confirm(s) \/ Page!Background(s)
      PROVE  PageInv'
  <2>1. /\ page[s] = "open" /\ page' = [page EXCEPT ![s] = "left"] /\ stops' = stops \cup {s}
        /\ UNCHANGED <<pages, timers, native, surface, external, where, activeSession, resumes,
                       display, presentation, news, changes, astray>>
    BY <1>2 DEF Page!Exit, Page!Confirm, Page!Background, Page!Leave
  <2>2. outputs' \in [Page!All -> BOOLEAN]
    BY <1>0, <1>2 DEF Page!Exit, Page!Confirm, Page!Background, PageTypes
  <2>3. s \in 1 .. pages /\ s \in 0 .. pages BY <1>0, <1>a, <2>1 DEF PagesFit
  <2>4. blocks' = blocks \/ blocks' = Append(blocks, Page!Post("disable", s))
    BY <1>2 DEF Page!Exit, Page!Confirm, Page!Background
  <2>5. /\ blocks' \in Seq(Block) /\ BlocksFit(blocks', pages, external)
        /\ presentation # "ready" => EndsOnPhone(blocks', external, activeSession)
    BY <1>0, <1>a, <1>c, <2>3, <2>4
  <2>6. PageTypes' BY <1>0, <2>1, <2>2 DEF PageTypes
  <2>7. PagesFit'
    <3>1. \A r \in Page!All : page'[r] = IF r = s THEN "left" ELSE page[r]
      BY <1>0, <2>1 DEF PageTypes
    <3> QED BY <1>0, <2>1, <2>3, <3>1 DEF PagesFit, Page!Watched
  <2> QED BY <1>b, <2>1, <2>5, <2>6, <2>7
\* Steps that leave the pages alone.
<1>e. ASSUME UNCHANGED <<pages, page, resumes, stops, activeSession, native, external, astray>>,
             timers' \subseteq timers \cup { s \in Page!All : page[s] = "open" }
      PROVE  PagesFit'
  <2>1. { s \in Page!All : page[s] = "open" } \subseteq 1 .. pages BY <1>0, <1>a DEF PagesFit
  <2> QED BY <1>0, <1>e, <2>1 DEF PagesFit, Page!Watched
<1>3. ASSUME NEW s \in Page!All, Page!Connected(s) \/ Page!EnableOutput(s) \/ Page!DisableOutput(s)
      PROVE  PageInv'
  <2>1. /\ UNCHANGED <<pages, page, outputs, native, surface, external, where, activeSession, resumes,
                       stops, display, presentation, news, astray>>
        /\ changes' \in 0 .. Changes /\ timers' \subseteq Page!All
    BY <1>0, <1>3, <1>a DEF Page!Connected, Page!EnableOutput, Page!DisableOutput, PageTypes
  <2>2. PageTypes' BY <1>0, <2>1 DEF PageTypes
  <2>6. timers' \subseteq timers \cup { r \in Page!All : page[r] = "open" }
    BY <1>3 DEF Page!Connected, Page!EnableOutput, Page!DisableOutput
  <2>7. PagesFit' BY <1>e, <2>1, <2>6
  <2>3. \/ blocks' = blocks
        \/ blocks' = Append(blocks, Page!Post("enable", s)) /\ s \in timers
        \/ blocks' = Append(blocks, Page!Post("disable", s)) /\ page[s] = "open"
    BY <1>3 DEF Page!Connected, Page!EnableOutput, Page!DisableOutput
  <2>4. CASE blocks' = blocks BY <1>0, <1>a, <1>b, <2>1, <2>2, <2>4, <2>7
  <2>5. CASE blocks' # blocks
    <3>1. s \in 0 .. pages BY <1>0, <1>a, <2>3, <2>5 DEF PagesFit
    <3>2. /\ blocks' \in Seq(Block) /\ BlocksFit(blocks', pages, external)
          /\ presentation # "ready" => EndsOnPhone(blocks', external, activeSession)
      BY <1>c, <2>3, <2>5, <3>1
    <3> QED BY <1>b, <2>1, <2>2, <2>7, <3>2
  <2> QED BY <2>4, <2>5
<1>4. CASE Page!Hear
  <2>1. /\ news # << >> /\ news' = Tail(news) /\ outputs' \in [Page!All -> BOOLEAN]
        /\ UNCHANGED <<pages, page, timers, native, surface, external, where, activeSession, resumes,
                       stops, display, presentation, blocks, changes, astray>>
    <3> DEFINE N == [to : 0 .. Pages, active : BOOLEAN]
    <3>1. news # << >> /\ news \in Seq(N) BY <1>0, <1>4 DEF Page!Hear, PageTypes
    <3>2. Head(news) \in N
      <4> HIDE DEF N
      <4> QED BY <3>1, TailOf
    <3>3. Head(news).active \in BOOLEAN BY <3>2
    <3>4. \A s \in Page!All : outputs[s] \in BOOLEAN BY <1>0 DEF PageTypes
    <3> QED BY <1>4, <3>3, <3>4 DEF Page!Hear
  <2>2. news' \in Seq([to : 0 .. Pages, active : BOOLEAN])
    <3>1. news \in Seq([to : 0 .. Pages, active : BOOLEAN]) BY <1>0 DEF PageTypes
    <3> QED BY <2>1, <3>1, TailOf
  <2>3. PageTypes' BY <1>0, <2>1, <2>2 DEF PageTypes
  <2>4. PagesFit' BY <1>e, <2>1
  <2> QED BY <1>0, <1>a, <1>b, <2>1, <2>3, <2>4
<1>5. ASSUME NEW s \in Page!All, Page!Resume(s) PROVE PageInv'
  <2>1. /\ s \in resumes /\ resumes' = resumes \ {s}
        /\ UNCHANGED <<pages, page, outputs, timers, surface, external, activeSession, stops,
                       display, presentation, blocks, news, changes>>
        /\ \/ /\ native' = [native EXCEPT ![s] = "running"]
              /\ where' = [where EXCEPT ![s] = surface[s]]
              /\ astray' = IF activeSession # s \/ external[s] THEN astray \cup {s} ELSE astray
           \/ UNCHANGED <<native, where, astray>>
    BY <1>5 DEF Page!Resume
  <2>2. PageTypes' BY <1>0, <2>1 DEF PageTypes
  <2>3. s \in 1 .. pages /\ page[s] # "none" BY <1>0, <1>a, <2>1 DEF PagesFit
  <2>4. surface[s] \in {"none", "phone"} BY <1>0 DEF ViewTypes
  <2>5. CASE UNCHANGED <<native, where, astray>>
    <3>1. ViewTypes' /\ ViewFits' BY <1>0, <2>1, <2>5 DEF ViewTypes, ViewFits
    <3>2. PagesFit' BY <1>0, <2>1, <2>5 DEF PagesFit, Page!Watched
    <3> QED BY <1>0, <2>1, <2>2, <3>1, <3>2 DEF PageInv, BlockTypes
  <2>6. CASE /\ native' = [native EXCEPT ![s] = "running"]
             /\ where' = [where EXCEPT ![s] = surface[s]]
             /\ astray' = IF activeSession # s \/ external[s] THEN astray \cup {s} ELSE astray
    <3>1. /\ \A r \in Page!All : native'[r] = IF r = s THEN "running" ELSE native[r]
          /\ \A r \in Page!All : where'[r] = IF r = s THEN surface[s] ELSE where[r]
      BY <1>0, <2>6 DEF ViewTypes
    <3>2. ViewTypes' BY <1>0, <2>1, <2>4, <2>6 DEF ViewTypes
    <3>3. s \notin astray' => activeSession = s /\ ~external[s] BY <2>6
    <3>4. astray \subseteq astray' BY <2>6
    <3>5. ViewFits' BY <1>0, <2>1, <3>1, <3>3, <3>4 DEF ViewFits
    <3>6. PagesFit' BY <1>0, <2>1, <2>3, <3>1, <3>3, <3>4 DEF PagesFit, Page!Watched
    <3> QED BY <1>0, <2>1, <2>2, <3>2, <3>5, <3>6 DEF PageInv, BlockTypes
  <2> QED BY <2>1, <2>5, <2>6
<1>6. ASSUME NEW s \in Page!All, Page!Quit(s) PROVE PageInv'
  <2>1. /\ native[s] = "running" /\ native' = [native EXCEPT ![s] = "quit"]
        /\ UNCHANGED <<pages, page, outputs, timers, surface, external, where, activeSession, resumes,
                       stops, display, presentation, blocks, news, changes, astray>>
    BY <1>6 DEF Page!Quit
  <2>2. \A r \in Page!All : native'[r] = IF r = s THEN "quit" ELSE native[r]
    BY <1>0, <2>1 DEF ViewTypes
  <2>3. PageTypes' BY <1>0, <2>1 DEF PageTypes
  <2>4. ViewTypes' BY <1>0, <2>1 DEF ViewTypes
  <2>5. ViewFits' BY <1>0, <2>1, <2>2 DEF ViewFits
  <2>6. PagesFit' BY <1>0, <2>1, <2>2 DEF PagesFit, Page!Watched
  <2> QED BY <1>0, <2>1, <2>3, <2>4, <2>5, <2>6 DEF PageInv, BlockTypes
<1>7. ASSUME NEW s \in Page!All, Page!Stop(s) PROVE PageInv'
  <2>1. /\ s \in stops /\ stops' = stops \ {s}
        /\ external' = [external EXCEPT ![s] = FALSE]
        /\ native' = [native EXCEPT ![s] = "none"] /\ where' = [where EXCEPT ![s] = "none"]
        /\ activeSession' = IF activeSession = s THEN 0 ELSE activeSession
        /\ UNCHANGED <<pages, page, outputs, timers, surface, resumes, display, presentation, blocks,
                       news, changes, astray>>
    BY <1>7 DEF Page!Stop, Page!Shutdown
  <2>2. \A r \in Page!All : /\ native'[r] = IF r = s THEN "none" ELSE native[r]
                            /\ where'[r] = IF r = s THEN "none" ELSE where[r]
                            /\ external'[r] = IF r = s THEN FALSE ELSE external[r]
    BY <1>0, <2>1 DEF ViewTypes
  <2>3. PageTypes' BY <1>0, <1>a, <2>1 DEF PageTypes
  <2>4. ViewTypes' BY <1>0, <2>1 DEF ViewTypes
  <2>5. ViewFits'
    <3>1. ASSUME NEW r \in Page!All
          PROVE  /\ native'[r] = "none" => where'[r] = "none"
                 /\ native'[r] # "none" /\ r \notin astray
                      => where'[r] = IF external'[r] THEN "external" ELSE surface[r]
      <4>1. CASE r = s BY <2>2, <4>1
      <4>2. CASE r # s BY <1>0, <2>2, <4>2 DEF ViewFits
      <4> QED BY <4>1, <4>2
    <3> QED BY <2>1, <3>1 DEF ViewFits
  <2>6. PagesFit'
    <3>1. ASSUME NEW r \in Page!All
          PROVE  /\ page[r] = "none" => native'[r] = "none" /\ ~external'[r]
                 /\ page[r] = "left" /\ r \notin stops'
                      => r # activeSession' /\ (native'[r] = "none" \/ r \in astray)
                 /\ native'[r] # "none" => r = activeSession' \/ r \in astray
      <4>1. CASE r = s BY <1>0, <1>a, <2>1, <2>2, <4>1
      <4>2. CASE r # s
        <5>1. r \in stops' <=> r \in stops BY <2>1, <4>2
        <5>2. activeSession' = r <=> activeSession = r BY <1>a, <2>1, <4>2
        <5> QED BY <1>0, <2>2, <4>2, <5>1, <5>2 DEF PagesFit, Page!Watched
      <4> QED BY <4>1, <4>2
    <3>2. stops' \subseteq 1 .. pages /\ activeSession' \in 0 .. pages
      BY <1>0, <1>a, <2>1 DEF PagesFit
    <3> QED BY <1>0, <2>1, <3>1, <3>2 DEF PagesFit, Page!Watched
  <2>7. BlocksFit(blocks, pages, external')
    <3>1. ASSUME NEW i \in 1 .. Len(blocks), blocks[i].kind = "attach"
          PROVE  i = 1 /\ ~external'[blocks[i].of]
      <4>1. i = 1 /\ ~external[blocks[i].of] /\ blocks[i].of \in 0 .. pages /\ blocks[i].of # 0
        BY <1>0, <3>1 DEF BlocksFit
      <4>2. blocks[i].of \in Page!All BY <1>a, <4>1
      <4> QED BY <2>2, <4>1, <4>2
    <3> QED BY <1>0, <3>1 DEF BlocksFit
  <2>8. ASSUME presentation # "ready" PROVE EndsOnPhone(blocks, external', activeSession')
    <3>1. CASE activeSession' = 0 BY <3>1 DEF EndsOnPhone
    <3>2. CASE activeSession' # 0
      <4>1. activeSession' = activeSession /\ activeSession \in Page!All /\ activeSession # s
        BY <1>a, <2>1, <3>2
      <4>2. external'[activeSession] = external[activeSession] BY <2>2, <4>1
      <4> QED BY <1>0, <2>8, <4>1, <4>2 DEF EndsOnPhone
    <3> QED BY <3>1, <3>2
  <2> QED BY <1>0, <2>1, <2>3, <2>4, <2>5, <2>6, <2>7, <2>8 DEF PageInv, BlockTypes
<1>8. ASSUME NEW s \in Page!All, Page!PhoneSurface(s) PROVE PageInv'
  <2>1. /\ surface' = [surface EXCEPT ![s] = IF surface[s] = "none" THEN "phone" ELSE "none"]
        /\ where' = IF external[s] \/ native[s] = "none" THEN where
                    ELSE [where EXCEPT ![s] = surface'[s]]
        /\ changes' \in 0 .. Changes
        /\ UNCHANGED <<pages, page, outputs, timers, native, external, activeSession, resumes, stops,
                       display, presentation, blocks, news, astray>>
    BY <1>0, <1>8, <1>a DEF Page!PhoneSurface, Page!Follow, Page!SetSurface, PageTypes
  <2>2. \A r \in Page!All : r # s => surface'[r] = surface[r] BY <1>0, <2>1 DEF ViewTypes
  <2>3. surface' \in [Page!All -> {"none", "phone"}] BY <1>0, <2>1 DEF ViewTypes
  <2>4. surface'[s] \in {"none", "phone"} BY <2>3
  <2>5. \A r \in Page!All : where'[r] = IF r = s /\ ~external[s] /\ native[s] # "none"
                                        THEN surface'[s] ELSE where[r]
    BY <1>0, <2>1 DEF ViewTypes
  <2>6. PageTypes' BY <1>0, <2>1 DEF PageTypes
  <2>7. ViewTypes' BY <1>0, <2>1, <2>3, <2>4 DEF ViewTypes
  <2>8. ViewFits' BY <1>0, <2>1, <2>2, <2>5 DEF ViewFits
  <2>9. PagesFit' BY <1>e, <2>1
  <2> QED BY <1>0, <2>1, <2>6, <2>7, <2>8, <2>9 DEF PageInv, BlockTypes
<1>9. CASE Page!Attach
  <2> DEFINE s == Head(blocks).of
  <2>1. /\ blocks # << >> /\ Head(blocks).kind = "attach" /\ blocks' = Tail(blocks)
        /\ \/ /\ surface' = [surface EXCEPT ![s] = "phone"]
              /\ where' = IF native[s] = "none" THEN where ELSE [where EXCEPT ![s] = "phone"]
           \/ UNCHANGED <<surface, where>>
        /\ UNCHANGED <<pages, page, outputs, timers, native, external, activeSession, resumes, stops,
                       display, presentation, news, changes, astray>>
    BY <1>9 DEF Page!Attach, Page!Running, Page!SetSurface
  <2>2. /\ s \in Page!All /\ ~external[s] /\ blocks' \in Seq(Block)
        /\ BlocksFit(blocks', pages, external)
        /\ presentation # "ready" => EndsOnPhone(blocks', external, activeSession)
    BY <1>d, <2>1
  <2> HIDE DEF s
  <2>3. PageTypes' BY <1>0, <2>1 DEF PageTypes
  <2>4. PagesFit' BY <1>e, <2>1
  <2>5. CASE UNCHANGED <<surface, where>> BY <1>b, <2>1, <2>2, <2>3, <2>4, <2>5
  <2>6. CASE /\ surface' = [surface EXCEPT ![s] = "phone"]
             /\ where' = IF native[s] = "none" THEN where ELSE [where EXCEPT ![s] = "phone"]
    <3>1. \A r \in Page!All : surface'[r] = IF r = s THEN "phone" ELSE surface[r]
      BY <1>0, <2>6 DEF ViewTypes
    <3>2. \A r \in Page!All : where'[r] = IF r = s /\ native[s] # "none" THEN "phone" ELSE where[r]
      BY <1>0, <2>6 DEF ViewTypes
    <3>3. ViewTypes' BY <1>0, <2>1, <2>6 DEF ViewTypes
    <3>4. ViewFits' BY <1>0, <2>1, <2>2, <3>1, <3>2 DEF ViewFits
    <3> QED BY <2>1, <2>2, <2>3, <2>4, <3>3, <3>4 DEF PageInv, BlockTypes
  <2> QED BY <2>1, <2>5, <2>6
<1>10. CASE Page!Switch
  <2> DEFINE s == Head(blocks).of
             to == Head(blocks).kind
             seen == IF to = "external" THEN to ELSE surface[s]
  <2>1. /\ blocks # << >> /\ to \in {"external", "phone"} /\ blocks' = Tail(blocks)
        /\ external' = [external EXCEPT ![s] = (to = "external")]
        /\ where' = IF native[s] = "none" THEN where ELSE [where EXCEPT ![s] = seen]
        /\ UNCHANGED <<pages, page, outputs, timers, native, surface, activeSession, resumes, stops,
                       display, presentation, news, changes, astray>>
    BY <1>10 DEF Page!Switch, Page!SetSurface
  <2>2. /\ s \in Page!All /\ s \in 1 .. pages /\ blocks' \in Seq(Block)
        /\ BlocksFit(blocks', pages, external') /\ Head(blocks) \in Block
    BY <1>d, <2>1
  <2>3. Head(blocks) = Page!Post(to, s) BY <2>2 DEF Block, Page!Post
  <2>4. seen \in {"none", "phone", "external"}
    <3>1. surface[s] \in {"none", "phone"} BY <1>0, <2>2 DEF ViewTypes
    <3> QED BY <3>1
  <2> HIDE DEF s, to
  <2>5. \A r \in Page!All : external'[r] = IF r = s THEN (to = "external") ELSE external[r]
    BY <1>0, <2>1 DEF ViewTypes
  <2>6. \A r \in Page!All : where'[r] = IF r = s /\ native[s] # "none" THEN seen ELSE where[r]
    <3> HIDE DEF seen
    <3>1. where \in [Page!All -> {"none", "phone", "external"}] BY <1>0 DEF ViewTypes
    <3>2. where' = IF native[s] = "none" THEN where ELSE [where EXCEPT ![s] = seen] BY <2>1
    <3> QED BY <3>1, <3>2
  <2>7. PageTypes' BY <1>0, <2>1 DEF PageTypes
  <2>8. ViewTypes'
    <3> HIDE DEF seen
    <3>1. where' \in [Page!All -> {"none", "phone", "external"}] BY <1>0, <2>1, <2>4 DEF ViewTypes
    <3>2. external' \in [Page!All -> BOOLEAN] BY <1>0, <2>1 DEF ViewTypes
    <3> QED BY <1>0, <2>1, <3>1, <3>2 DEF ViewTypes
  <2>9. ViewFits'
    <3>1. ViewFits /\ UNCHANGED <<native, surface, astray>> BY <1>0, <2>1
    <3>2. to = "external" => seen = to BY DEF to
    <3>3. to # "external" => seen = surface[s] OBVIOUS
    <3> HIDE DEF seen
    <3> QED BY <2>2, <2>5, <2>6, <3>1, <3>2, <3>3 DEF ViewFits
  <2>10. PagesFit' BY <1>0, <1>a, <2>1, <2>2, <2>5 DEF PagesFit, Page!Watched
  <2>11. ASSUME presentation # "ready" PROVE EndsOnPhone(blocks', external', activeSession)
    <3>1. ASSUME activeSession # 0
          PROVE  external'[activeSession] =
                   IF Head(blocks) = Page!Post("external", activeSession) THEN TRUE
                   ELSE IF Head(blocks) = Page!Post("phone", activeSession) THEN FALSE
                   ELSE external[activeSession]
      <4>1. activeSession \in Page!All BY <1>a, <3>1
      <4>2. /\ Head(blocks) = Page!Post("external", activeSession) <=> s = activeSession /\ to = "external"
            /\ Head(blocks) = Page!Post("phone", activeSession) <=> s = activeSession /\ to = "phone"
        BY <2>3 DEF Page!Post
      <4> QED BY <2>1, <2>5, <4>1, <4>2
    <3>2. EndsOnPhone(Tail(blocks), external', activeSession)
      BY <1>0, <1>a, <2>1, <2>11, <3>1, BlockDone
    <3> QED BY <2>1, <3>2
  <2> QED BY <2>1, <2>2, <2>7, <2>8, <2>9, <2>10, <2>11 DEF PageInv, BlockTypes
\* What JavaScript hears of it.
<1>g. ASSUME NEW s \in 0 .. Pages, NEW b \in BOOLEAN
      PROVE  /\ Append(news, Page!News(s, b)) \in Seq([to : 0 .. Pages, active : BOOLEAN])
             /\ news \o <<Page!News(Page!Everyone, b), Page!News(s, b)>>
                  \in Seq([to : 0 .. Pages, active : BOOLEAN])
  <2> DEFINE N == [to : 0 .. Pages, active : BOOLEAN]
  <2>1. Page!News(s, b) \in N /\ Page!News(Page!Everyone, b) \in N /\ news \in Seq(N)
    BY <1>0, <1>a DEF Page!News, Page!Everyone, PageTypes
  <2> HIDE DEF N
  <2>2. <<Page!News(Page!Everyone, b), Page!News(s, b)>> \in Seq(N) BY <2>1
  <2>3. Append(news, Page!News(s, b)) \in Seq(N) BY <2>1, AppendProperties
  <2>4. news \o <<Page!News(Page!Everyone, b), Page!News(s, b)>> \in Seq(N)
    BY <2>1, <2>2, ConcatProperties
  <2> QED BY <2>3, <2>4 DEF N
<1>11. CASE Page!Enable
  <2> DEFINE s == Head(blocks).of
  <2>1. /\ blocks # << >> /\ Head(blocks).kind = "enable" /\ blocks' = Tail(blocks)
        /\ UNCHANGED <<pages, page, outputs, timers, native, surface, external, where, activeSession,
                       resumes, stops, display, changes, astray>>
    BY <1>11 DEF Page!Enable, Page!Running
  <2>2. /\ s \in 0 .. Pages /\ blocks' \in Seq(Block) /\ BlocksFit(blocks', pages, external)
        /\ presentation # "ready" => EndsOnPhone(blocks', external, activeSession)
    BY <1>d, <2>1
  <2>3. \/ UNCHANGED <<presentation, news>>
        \/ news' = Append(news, Page!News(s, TRUE)) /\ UNCHANGED presentation
        \/ /\ presentation = "none" /\ presentation' = "shown"
           /\ news' = news \o <<Page!News(Page!Everyone, TRUE), Page!News(s, TRUE)>>
    BY <1>11 DEF Page!Enable
  <2> HIDE DEF s
  <2>4. news' \in Seq([to : 0 .. Pages, active : BOOLEAN])
    <3>1. news \in Seq([to : 0 .. Pages, active : BOOLEAN]) BY <1>0 DEF PageTypes
    <3> QED BY <1>g, <2>2, <2>3, <3>1
  <2>5. /\ presentation' \in {"none", "shown", "ready"}
        /\ presentation' # "ready" => presentation # "ready"
    BY <1>0, <2>3 DEF PageTypes
  <2>6. PageTypes' BY <1>0, <2>1, <2>4, <2>5 DEF PageTypes
  <2>7. PagesFit' BY <1>e, <2>1
  <2> QED BY <1>b, <2>1, <2>2, <2>5, <2>6, <2>7
<1>12. CASE Page!Disable
  <2> DEFINE s == Head(blocks).of
  <2>1. /\ blocks # << >> /\ presentation' = "none" /\ blocks' = Tail(blocks) \o Page!ToPhone
        /\ news' = news \o <<Page!News(Page!Everyone, FALSE), Page!News(s, FALSE)>>
        /\ UNCHANGED <<pages, page, outputs, timers, native, surface, external, where, activeSession,
                       resumes, stops, display, changes, astray>>
    BY <1>12 DEF Page!Disable, Page!Running
  <2>2. s \in 0 .. Pages /\ Tail(blocks) \in Seq(Block) /\ BlocksFit(Tail(blocks), pages, external)
    BY <1>d, <2>1
  <2> HIDE DEF s
  <2>3. /\ blocks' \in Seq(Block) /\ BlocksFit(blocks', pages, external)
        /\ EndsOnPhone(blocks', external, activeSession)
    BY <1>0, <1>a, <2>1, <2>2, ToPhoneEnds
  <2>4. news' \in Seq([to : 0 .. Pages, active : BOOLEAN]) BY <1>g, <2>1, <2>2
  <2>5. PageTypes' BY <1>0, <2>1, <2>4 DEF PageTypes
  <2>6. PagesFit' BY <1>e, <2>1
  <2> QED BY <1>b, <2>1, <2>3, <2>5, <2>6
<1>13. CASE Page!Unplug
  <2>1. /\ changes' \in 0 .. Changes /\ display' = FALSE
        /\ blocks' = Append(blocks, Page!Post("removed", 0))
        /\ UNCHANGED <<pages, page, outputs, timers, native, surface, external, where, activeSession,
                       resumes, stops, presentation, news, astray>>
    BY <1>0, <1>13, <1>a DEF Page!Unplug, PageTypes
  <2>2. 0 \in 0 .. pages BY <1>a
  <2>3. /\ blocks' \in Seq(Block) /\ BlocksFit(blocks', pages, external)
        /\ presentation # "ready" => EndsOnPhone(blocks', external, activeSession)
    BY <1>c, <2>1, <2>2
  <2>4. PageTypes' BY <1>0, <2>1 DEF PageTypes
  <2>5. PagesFit' BY <1>e, <2>1
  <2> QED BY <1>b, <2>1, <2>3, <2>4, <2>5
<1>14. CASE Page!Removed \/ Page!Dismiss
  <2>1. PICK rest : /\ Page!Torn(rest)
                    /\ \/ rest = blocks /\ presentation # "none"
                       \/ rest = Tail(blocks) /\ blocks # << >> /\ Head(blocks).kind = "removed"
    BY <1>14 DEF Page!Removed, Page!Dismiss, Page!Running
  <2>2. /\ changes' \in 0 .. Changes
        /\ UNCHANGED <<pages, page, outputs, timers, native, surface, external, where, activeSession,
                       resumes, stops, display, astray>>
    BY <1>0, <1>14, <1>a DEF Page!Removed, Page!Dismiss, PageTypes
  <2>3. /\ rest \in Seq(Block) /\ BlocksFit(rest, pages, external)
        /\ presentation = "none" => EndsOnPhone(rest, external, activeSession)
    BY <1>0, <1>a, <1>d, <2>1
  <2>4. /\ blocks' \in Seq(Block) /\ BlocksFit(blocks', pages, external)
        /\ EndsOnPhone(blocks', external, activeSession)
        /\ presentation' = "none"
    BY <1>0, <1>a, <2>1, <2>3, ToPhoneEnds DEF Page!Torn
  <2>5. news' \in Seq([to : 0 .. Pages, active : BOOLEAN])
    <3>1. news \in Seq([to : 0 .. Pages, active : BOOLEAN]) BY <1>0 DEF PageTypes
    <3>2. news' = news \/ news' = Append(news, Page!News(Page!Everyone, FALSE))
      BY <2>1 DEF Page!Torn
    <3>3. Page!Everyone \in 0 .. Pages BY <1>a DEF Page!Everyone
    <3> QED BY <1>g, <3>1, <3>2, <3>3
  <2>6. PageTypes' BY <1>0, <2>2, <2>4, <2>5 DEF PageTypes
  <2>7. PagesFit' BY <1>e, <2>2
  <2> QED BY <1>b, <2>2, <2>4, <2>6, <2>7
<1>15. CASE Page!Ready
  <2>1. /\ presentation' = "ready"
        /\ \/ blocks' = blocks
           \/ activeSession # 0 /\ blocks' = Append(blocks, Page!Post("external", activeSession))
        /\ UNCHANGED <<pages, page, outputs, timers, native, surface, external, where, activeSession,
                       resumes, stops, display, news, changes, astray>>
    BY <1>15 DEF Page!Ready
  <2>2. blocks' \in Seq(Block) /\ BlocksFit(blocks', pages, external)
    <3>1. CASE blocks' = blocks BY <1>0, <1>a, <3>1
    <3>2. CASE activeSession # 0 /\ blocks' = Append(blocks, Page!Post("external", activeSession))
      <4> DEFINE x == Page!Post("external", activeSession)
      <4>1. x \in Block /\ x.of = activeSession /\ x.kind = "external"
        BY <1>a DEF Block, Kinds, Page!Post
      <4> HIDE DEF x
      <4>2. blocks' = Append(blocks, x) BY <3>2 DEF x
      <4> QED BY <1>0, <1>a, <3>2, <4>1, <4>2, BlocksFitMore
    <3> QED BY <2>1, <3>1, <3>2
  <2>3. PageTypes' BY <1>0, <2>1 DEF PageTypes
  <2>4. PagesFit' BY <1>e, <2>1
  <2> QED BY <1>b, <2>1, <2>2, <2>3, <2>4
<1>16. CASE UNCHANGED Page!vars
  <2>1. UNCHANGED <<pages, page, outputs, timers, native, surface, external, where, activeSession,
                    resumes, stops, display, presentation, blocks, news, changes, astray>>
    BY <1>16 DEF Page!vars
  <2>2. PageTypes' BY <1>0, <2>1 DEF PageTypes
  <2>3. PagesFit' BY <1>e, <2>1
  <2> QED BY <1>0, <1>a, <1>b, <2>1, <2>2, <2>3
<1> QED BY <1>1, <1>2, <1>3, <1>4, <1>5, <1>6, <1>7, <1>8, <1>9, <1>10, <1>11, <1>12, <1>13, <1>14,
           <1>15, <1>16
        DEF Page!Next, Page!Block
-----------------------------------------------------------------------------
(* The queues of the audio buffer: rings of one slot more than chunks.      *)
Ring(q) == q \in [head : 0 .. Chunks, tail : 0 .. Chunks, item : [0 .. Chunks -> 0 .. Chunks]]

LEMMA QuotientRemainder ==
  ASSUME NEW a \in Int, NEW b \in Nat \ {0}
  PROVE  a \div b \in Int /\ a % b \in 0 .. b - 1 /\ a = (a \div b) * b + (a % b)
OBVIOUS

\* The remainder of what has gone round at most once.
LEMMA Turned ==
  ASSUME NEW x \in Nat, x <= Chunks + Chunks + 1
  PROVE  x % (Chunks + 1) = IF x <= Chunks THEN x ELSE x - (Chunks + 1)
<1> DEFINE K == Chunks + 1
           q == x \div K
           r == x % K
<1>1. K \in Nat \ {0} /\ K = Chunks + 1 /\ Chunks \in Nat BY AudioAssumption
<1> HIDE DEF K
<1>2. q \in Int /\ r \in 0 .. K - 1 /\ x = q * K + r
  <2>1. x \in Int OBVIOUS
  <2> QED BY <1>1, <2>1, QuotientRemainder
<1> HIDE DEF q, r
<1>3. CASE q = 0 BY <1>1, <1>2, <1>3 DEF r, K
<1>4. CASE q = 1 BY <1>1, <1>2, <1>4 DEF r, K
<1>5. ~(q < 0)
  <2> SUFFICES ASSUME q < 0 PROVE FALSE OBVIOUS
  <2>1. PICK d \in Nat : q = 0 - 1 - d
    <3>1. 0 - 1 - q \in Nat BY <1>2
    <3> QED BY <1>2, <3>1
  <2>2. q * K = 0 - K - d * K BY <1>1, <2>1
  <2>3. d * K >= 0 BY <1>1, <2>1
  <2> QED BY <1>1, <1>2, <2>2, <2>3
<1>6. ~(q > 1)
  <2> SUFFICES ASSUME q > 1 PROVE FALSE OBVIOUS
  <2>1. PICK d \in Nat : q = 2 + d
    <3>1. q - 2 \in Nat BY <1>2
    <3> QED BY <1>2, <3>1
  <2>2. q * K = K + K + d * K BY <1>1, <2>1
  <2>3. d * K >= 0 BY <1>1, <2>1
  <2> QED BY <1>1, <1>2, <2>2, <2>3
<1> QED BY <1>2, <1>3, <1>4, <1>5, <1>6

\* How much a ring holds, and where.
Filled(q) == IF q.head <= q.tail THEN q.tail - q.head ELSE q.tail + Chunks + 1 - q.head
Slot(q, i) == IF q.head + i - 1 <= Chunks THEN q.head + i - 1 ELSE q.head + i - 1 - (Chunks + 1)
LEMMA RingContent ==
  ASSUME NEW q, Ring(q)
  PROVE  /\ Filled(q) \in 0 .. Chunks /\ Chunks \in Nat
         /\ \A i \in 1 .. Filled(q) : Slot(q, i) \in 0 .. Chunks
         /\ Sound!Content(q) = [i \in 1 .. Filled(q) |-> q.item[Slot(q, i)]]
         /\ Sound!Content(q) \in Seq(0 .. Chunks)
         /\ Len(Sound!Content(q)) = Filled(q)
         /\ Sound!Empty(q) <=> Sound!Content(q) = << >>
         /\ Sound!Fits(q) <=> Filled(q) < Chunks
<1> DEFINE h == q.head
           t == q.tail
           n == Filled(q)
<1>1. /\ Chunks \in Nat /\ h \in 0 .. Chunks /\ t \in 0 .. Chunks
      /\ q.item \in [0 .. Chunks -> 0 .. Chunks]
  BY AudioAssumption DEF Ring
<1>2. n = IF h <= t THEN t - h ELSE t + Chunks + 1 - h BY DEF Filled
<1>3. \A i : Slot(q, i) = IF h + i - 1 <= Chunks THEN h + i - 1 ELSE h + i - 1 - (Chunks + 1)
  BY DEF Slot
<1>4. (t + Chunks + 1 - h) % (Chunks + 1) = n
  <2>1. PICK x \in Nat : x = t + Chunks + 1 - h
    <3>1. t + Chunks + 1 - h \in Nat
      <4> HIDE DEF h, t, n
      <4> QED BY <1>1
    <3> QED BY <3>1
  <2>2. x <= Chunks + Chunks + 1 BY <1>1, <2>1
  <2>3. x % (Chunks + 1) = IF x <= Chunks THEN x ELSE x - (Chunks + 1) BY <2>2, Turned
  <2>4. x % (Chunks + 1) = n
    <3> HIDE DEF h, t, n
    <3> QED BY <1>1, <1>2, <2>1, <2>3
  <2> QED BY <2>1, <2>4
<1>5. n \in 0 .. Chunks
  <2> HIDE DEF h, t, n
  <2> QED BY <1>1, <1>2
<1>6. ASSUME NEW i \in 1 .. n
      PROVE  /\ (h + i - 1) % (Chunks + 1) = Slot(q, i) /\ Slot(q, i) \in 0 .. Chunks
  <2> HIDE DEF h, t, n
  <2>1. PICK x \in Nat : x = h + i - 1
    <3>1. h + i - 1 \in Nat BY <1>1, <1>5
    <3> QED BY <3>1
  <2>2. x <= Chunks + Chunks + 1 /\ i \in Nat BY <1>1, <1>5, <2>1
  <2>3. x % (Chunks + 1) = IF x <= Chunks THEN x ELSE x - (Chunks + 1) BY <2>2, Turned
  <2>4. Slot(q, i) = IF x <= Chunks THEN x ELSE x - (Chunks + 1)
    <3>1. Slot(q, i) = IF h + i - 1 <= Chunks THEN h + i - 1 ELSE h + i - 1 - (Chunks + 1) BY <1>3
    <3> QED BY <1>1, <2>1, <3>1
  <2> QED BY <1>1, <2>1, <2>2, <2>3, <2>4
<1>7. Sound!Content(q) = [i \in 1 .. n |-> q.item[Slot(q, i)]]
  BY <1>4, <1>6 DEF Sound!Content
<1> DEFINE c == Sound!Content(q)
<1>8. c \in Seq(0 .. Chunks) /\ Len(c) = n
  <2> HIDE DEF c, n, h, t
  <2>1. \A i \in 1 .. n : q.item[Slot(q, i)] \in 0 .. Chunks BY <1>1, <1>6
  <2>2. n \in Nat BY <1>5
  <2>3. c \in [1 .. n -> 0 .. Chunks] BY <1>7, <2>1 DEF c
  <2>4. c \in Seq(0 .. Chunks) BY <2>2, <2>3, SeqDef
  <2>5. Len(c) = n BY <1>7, <2>2, <2>4 DEF c
  <2> QED BY <2>4, <2>5
<1>9. Sound!Empty(q) <=> c = << >>
  <2>1. Sound!Empty(q) <=> h = t BY DEF Sound!Empty
  <2> HIDE DEF c, n, h, t
  <2>2. h = t <=> n = 0 BY <1>1, <1>2
  <2>3. n = 0 <=> c = << >> BY <1>8, EmptySeq
  <2> QED BY <2>1, <2>2, <2>3
<1>10. Sound!Fits(q) <=> n < Chunks
  <2>1. (t + 1) % (Chunks + 1) = IF t + 1 <= Chunks THEN t + 1 ELSE 0
    <3> HIDE DEF h, t, n
    <3>1. PICK x \in Nat : x = t + 1 BY <1>1
    <3>2. x <= Chunks + Chunks + 1 BY <1>1, <3>1
    <3>3. x % (Chunks + 1) = IF x <= Chunks THEN x ELSE x - (Chunks + 1) BY <3>2, Turned
    <3> QED BY <1>1, <3>1, <3>3
  <2>2. Sound!Fits(q) <=> (IF t + 1 <= Chunks THEN t + 1 ELSE 0) # h
    BY <2>1 DEF Sound!Fits, Sound!Increment
  <2> HIDE DEF h, t, n
  <2> QED BY <1>1, <1>2, <2>2
<1> QED BY <1>1, <1>5, <1>6, <1>7, <1>8, <1>9, <1>10 DEF n, c

LEMMA RingIs ==
  ASSUME NEW h \in 0 .. Chunks, NEW t \in 0 .. Chunks, NEW m \in [0 .. Chunks -> 0 .. Chunks],
         NEW r, r = [head |-> h, tail |-> t, item |-> m]
  PROVE  Ring(r) /\ r.head = h /\ r.tail = t /\ r.item = m
BY DEF Ring

\* An item written beyond the end is not yet there.
LEMMA RingPut ==
  ASSUME NEW q, Ring(q), NEW c \in 0 .. Chunks, NEW r, r = Sound!Put(q, c)
  PROVE  /\ Ring(r) /\ r.head = q.head /\ r.tail = q.tail /\ r.item[q.tail] = c
         /\ Sound!Content(r) = Sound!Content(q)
<1> DEFINE h == q.head
           t == q.tail
           n == Filled(q)
<1>1. /\ Chunks \in Nat /\ h \in 0 .. Chunks /\ t \in 0 .. Chunks
      /\ q.item \in [0 .. Chunks -> 0 .. Chunks]
      /\ q = [head |-> h, tail |-> t, item |-> q.item]
  BY AudioAssumption DEF Ring
<1>2. r = [head |-> h, tail |-> t, item |-> [q.item EXCEPT ![t] = c]]
  BY <1>1 DEF Sound!Put
<1>3. /\ r.head = h /\ r.tail = t /\ r.item[t] = c /\ Ring(r)
      /\ \A j \in 0 .. Chunks : j # t => r.item[j] = q.item[j]
  <2> DEFINE m == [q.item EXCEPT ![t] = c]
  <2>1. /\ m \in [0 .. Chunks -> 0 .. Chunks] /\ m[t] = c
        /\ \A j \in 0 .. Chunks : j # t => m[j] = q.item[j]
    BY <1>1
  <2>2. r = [head |-> h, tail |-> t, item |-> m] BY <1>2
  <2> HIDE DEF m, h, t
  <2>3. Ring(r) /\ r.head = h /\ r.tail = t /\ r.item = m BY <1>1, <2>1, <2>2, RingIs
  <2> QED BY <2>1, <2>3
<1>4. Filled(r) = n /\ \A i : Slot(r, i) = Slot(q, i) BY <1>3 DEF Filled, Slot
<1>5. \A i \in 1 .. n : Slot(q, i) \in 0 .. Chunks /\ n \in 0 .. Chunks BY RingContent
<1>6. ASSUME NEW i \in 1 .. n PROVE Slot(q, i) # t
  <2>1. n = IF h <= t THEN t - h ELSE t + Chunks + 1 - h BY DEF Filled
  <2>2. Slot(q, i) = IF h + i - 1 <= Chunks THEN h + i - 1 ELSE h + i - 1 - (Chunks + 1)
    BY DEF Slot
  <2> HIDE DEF h, t, n
  <2> QED BY <1>1, <1>5, <2>1, <2>2
<1>7. \A i \in 1 .. n : r.item[Slot(r, i)] = q.item[Slot(q, i)] BY <1>3, <1>4, <1>5, <1>6
<1>8. Sound!Content(q) = [i \in 1 .. n |-> q.item[Slot(q, i)]] BY RingContent
<1>9. Sound!Content(r) = [i \in 1 .. n |-> r.item[Slot(r, i)]] BY <1>3, <1>4, RingContent
<1>10. Sound!Content(r) = Sound!Content(q)
  <2> HIDE DEF n
  <2> QED BY <1>7, <1>8, <1>9
<1> QED BY <1>3, <1>10

\* Showing it appends it.
LEMMA RingShown ==
  ASSUME NEW q, Ring(q), Len(Sound!Content(q)) < Chunks, NEW r, r = Sound!Shown(q)
  PROVE  /\ Ring(r) /\ r.head = q.head /\ r.item = q.item
         /\ q.item[q.tail] \in 0 .. Chunks
         /\ Sound!Content(r) = Append(Sound!Content(q), q.item[q.tail])
<1> DEFINE h == q.head
           t == q.tail
           n == Filled(q)
           u == IF t + 1 <= Chunks THEN t + 1 ELSE 0
           e == q.item[t]
           c == Sound!Content(q)
           d == Append(c, e)
<1>1. /\ Chunks \in Nat /\ h \in 0 .. Chunks /\ t \in 0 .. Chunks
      /\ q.item \in [0 .. Chunks -> 0 .. Chunks]
      /\ q = [head |-> h, tail |-> t, item |-> q.item]
  BY AudioAssumption DEF Ring
<1>2. u \in 0 .. Chunks /\ Sound!Increment(t) = u
  <2> HIDE DEF t
  <2>1. PICK x \in Nat : x = t + 1 BY <1>1
  <2>2. x <= Chunks + Chunks + 1 BY <1>1, <2>1
  <2>3. x % (Chunks + 1) = IF x <= Chunks THEN x ELSE x - (Chunks + 1) BY <2>2, Turned
  <2> QED BY <1>1, <2>1, <2>3 DEF Sound!Increment
<1>3. r = [head |-> h, tail |-> u, item |-> q.item]
  <2> HIDE DEF u
  <2> QED BY <1>1, <1>2 DEF Sound!Shown
<1>4. r.head = h /\ r.tail = u /\ r.item = q.item /\ Ring(r)
  <2> HIDE DEF u
  <2> QED BY <1>1, <1>2, <1>3, RingIs
<1>5. /\ n \in 0 .. Chunks /\ n < Chunks /\ Len(c) = n /\ c \in Seq(0 .. Chunks)
      /\ c = [i \in 1 .. n |-> q.item[Slot(q, i)]]
  BY RingContent
<1>6. Filled(r) = n + 1
  <2>1. n = IF h <= t THEN t - h ELSE t + Chunks + 1 - h BY DEF Filled
  <2>2. Filled(r) = IF h <= u THEN u - h ELSE u + Chunks + 1 - h BY <1>4 DEF Filled
  <2>3. u = IF t + 1 <= Chunks THEN t + 1 ELSE 0 OBVIOUS
  <2> HIDE DEF h, t, n, u
  <2>4. CASE u = 0 BY <1>1, <1>5, <2>1, <2>2, <2>3, <2>4
  <2>5. CASE u # 0 BY <1>1, <1>5, <2>1, <2>2, <2>3, <2>5
  <2> QED BY <2>4, <2>5
<1>7. Slot(q, n + 1) = t
  <2>1. n = IF h <= t THEN t - h ELSE t + Chunks + 1 - h BY DEF Filled
  <2>2. Slot(q, n + 1) = IF h + (n + 1) - 1 <= Chunks THEN h + (n + 1) - 1
                         ELSE h + (n + 1) - 1 - (Chunks + 1)
    BY DEF Slot
  <2> HIDE DEF h, t, n
  <2> QED BY <1>1, <1>5, <2>1, <2>2
<1>8. \A i : Slot(r, i) = Slot(q, i) BY <1>4 DEF Slot
<1>9. Sound!Content(r) = [i \in 1 .. n + 1 |-> q.item[Slot(q, i)]]
  <2>1. Sound!Content(r) = [i \in 1 .. Filled(r) |-> r.item[Slot(r, i)]] BY <1>4, RingContent
  <2> HIDE DEF n
  <2> QED BY <1>4, <1>6, <1>8, <2>1
<1>10. e \in 0 .. Chunks BY <1>1
<1>11. /\ d \in Seq(0 .. Chunks) /\ Len(d) = n + 1 /\ d[n + 1] = e
       /\ \A i \in 1 .. n : d[i] = c[i]
  <2> HIDE DEF c, e, n
  <2> QED BY <1>5, <1>10, AppendProperties
<1>12. /\ Sound!Content(r) \in Seq(0 .. Chunks) /\ Len(Sound!Content(r)) = n + 1
  BY <1>4, <1>6, RingContent
<1>13. ASSUME NEW i \in 1 .. n + 1 PROVE Sound!Content(r)[i] = d[i]
  <2>1. Sound!Content(r)[i] = q.item[Slot(q, i)]
    <3> HIDE DEF n
    <3> QED BY <1>9
  <2>2. CASE i = n + 1 BY <1>7, <1>11, <2>1, <2>2
  <2>3. CASE i # n + 1
    <3>1. i \in 1 .. n
      <4> HIDE DEF n
      <4> QED BY <1>5, <2>3
    <3>2. c[i] = q.item[Slot(q, i)]
      <4> HIDE DEF n, c
      <4> QED BY <1>5, <3>1
    <3> QED BY <1>11, <2>1, <3>1, <3>2
  <2> QED BY <2>2, <2>3
<1>14. Sound!Content(r) = d
  <2> HIDE DEF d, n
  <2> QED BY <1>11, <1>12, <1>13, SeqEqual
<1> QED BY <1>4, <1>10, <1>14

\* Taking is from the head.
LEMMA RingTaken ==
  ASSUME NEW q, Ring(q), ~Sound!Empty(q), NEW r, r = Sound!Taken(q)
  PROVE  /\ Ring(r) /\ r.tail = q.tail /\ r.item = q.item
         /\ Sound!Content(q) # << >> /\ Head(Sound!Content(q)) = q.item[q.head]
         /\ Sound!Content(r) = Tail(Sound!Content(q))
<1> DEFINE h == q.head
           t == q.tail
           n == Filled(q)
           u == IF h + 1 <= Chunks THEN h + 1 ELSE 0
           c == Sound!Content(q)
           d == Tail(c)
<1>1. /\ Chunks \in Nat /\ h \in 0 .. Chunks /\ t \in 0 .. Chunks
      /\ q.item \in [0 .. Chunks -> 0 .. Chunks]
      /\ q = [head |-> h, tail |-> t, item |-> q.item]
  BY AudioAssumption DEF Ring
<1>2. u \in 0 .. Chunks /\ Sound!Increment(h) = u
  <2> HIDE DEF h
  <2>1. PICK x \in Nat : x = h + 1 BY <1>1
  <2>2. x <= Chunks + Chunks + 1 BY <1>1, <2>1
  <2>3. x % (Chunks + 1) = IF x <= Chunks THEN x ELSE x - (Chunks + 1) BY <2>2, Turned
  <2> QED BY <1>1, <2>1, <2>3 DEF Sound!Increment
<1>3. r = [head |-> u, tail |-> t, item |-> q.item]
  <2> HIDE DEF u
  <2> QED BY <1>1, <1>2 DEF Sound!Taken
<1>4. r.head = u /\ r.tail = t /\ r.item = q.item /\ Ring(r)
  <2> HIDE DEF u
  <2> QED BY <1>1, <1>2, <1>3, RingIs
<1>5. /\ n \in 0 .. Chunks /\ Len(c) = n /\ c \in Seq(0 .. Chunks) /\ c # << >>
      /\ c = [i \in 1 .. n |-> q.item[Slot(q, i)]]
  BY RingContent
<1>6. n # 0 /\ h # t
  <2>1. h # t BY DEF Sound!Empty
  <2> HIDE DEF c, n
  <2> QED BY <1>5, <2>1, EmptySeq
<1>7. Filled(r) = n - 1 /\ \A i \in 1 .. n - 1 : Slot(r, i) = Slot(q, i + 1)
  <2>1. n = IF h <= t THEN t - h ELSE t + Chunks + 1 - h BY DEF Filled
  <2>2. Filled(r) = IF u <= t THEN t - u ELSE t + Chunks + 1 - u BY <1>4 DEF Filled
  <2>3. u = IF h + 1 <= Chunks THEN h + 1 ELSE 0 OBVIOUS
  <2>4. ASSUME NEW i \in 1 .. n - 1 PROVE Slot(r, i) = Slot(q, i + 1)
    <3>1. Slot(r, i) = IF u + i - 1 <= Chunks THEN u + i - 1 ELSE u + i - 1 - (Chunks + 1)
      BY <1>4 DEF Slot
    <3>2. Slot(q, i + 1) = IF h + (i + 1) - 1 <= Chunks THEN h + (i + 1) - 1
                           ELSE h + (i + 1) - 1 - (Chunks + 1)
      BY DEF Slot
    <3> HIDE DEF h, t, n, u
    <3>3. CASE u = 0 BY <1>1, <1>5, <2>1, <2>3, <3>1, <3>2, <3>3
    <3>4. CASE u # 0 BY <1>1, <1>5, <2>1, <2>3, <3>1, <3>2, <3>4
    <3> QED BY <3>3, <3>4
  <2>5. Filled(r) = n - 1
    <3> HIDE DEF h, t, n, u
    <3>1. n \in 0 .. Chunks BY <1>5
    <3> QED BY <1>1, <1>6, <2>1, <2>2, <2>3, <3>1
  <2> QED BY <2>4, <2>5
<1>8. /\ Sound!Content(r) \in Seq(0 .. Chunks) /\ Len(Sound!Content(r)) = n - 1
      /\ Sound!Content(r) = [i \in 1 .. n - 1 |-> r.item[Slot(r, i)]]
  BY <1>4, <1>7, RingContent
<1>9. /\ d \in Seq(0 .. Chunks) /\ Len(d) = n - 1 /\ Head(c) = c[1]
      /\ \A i \in 1 .. n - 1 : d[i] = c[i + 1]
  <2> HIDE DEF c, n
  <2> QED BY <1>5, TailOf
<1>10. ASSUME NEW i \in 1 .. n - 1 PROVE Sound!Content(r)[i] = d[i]
  <2>1. Sound!Content(r)[i] = q.item[Slot(q, i + 1)]
    <3> HIDE DEF n
    <3> QED BY <1>4, <1>7, <1>8
  <2>2. i + 1 \in 1 .. n
    <3> HIDE DEF n
    <3> QED BY <1>5
  <2>3. c[i + 1] = q.item[Slot(q, i + 1)]
    <3> HIDE DEF n, c
    <3> QED BY <1>5, <2>2
  <2> QED BY <1>9, <2>1, <2>3
<1>11. Sound!Content(r) = d
  <2> HIDE DEF d, n
  <2> QED BY <1>8, <1>9, <1>10, SeqEqual
<1>12. c[1] = q.item[h]
  <2>1. Slot(q, 1) = IF h + 1 - 1 <= Chunks THEN h + 1 - 1 ELSE h + 1 - 1 - (Chunks + 1)
    BY DEF Slot
  <2>2. Slot(q, 1) = h
    <3> HIDE DEF h
    <3> QED BY <1>1, <2>1
  <2>3. 1 \in 1 .. n
    <3> HIDE DEF n
    <3> QED BY <1>5, <1>6
  <2>4. c[1] = q.item[Slot(q, 1)]
    <3> HIDE DEF n, c
    <3> QED BY <1>5, <2>3
  <2> QED BY <2>2, <2>4
<1> QED BY <1>4, <1>5, <1>9, <1>11, <1>12

-----------------------------------------------------------------------------
(* The samples in chunks, one after the other, behind what comes first.     *)
Chain(now, a, s) ==
  LET all[i \in 0 .. Len(s)] == IF i = 0 THEN now ELSE all[i - 1] \o a[s[i]] IN all[Len(s)]
Memory == [1 .. Chunks -> Seq(Nat)]
Joins(f, now, a, s) ==
  /\ f \in [0 .. Len(s) -> Seq(Nat)] /\ f[0] = now
  /\ \A i \in 1 .. Len(s) : f[i] = f[i - 1] \o a[s[i]]

LEMMA ChainJoins ==
  ASSUME NEW now \in Seq(Nat), NEW a \in Memory, NEW s \in Seq(1 .. Chunks)
  PROVE  \E f : Joins(f, now, a, s) /\ Chain(now, a, s) = f[Len(s)]
<1> DEFINE n == Len(s)
           V == Seq(Nat)
           turn == [t \in Nat \X V |-> IF t[1] \in 1 .. n THEN t[2] \o a[s[t[1]]] ELSE t[2]]
           body(f) == [i \in 0 .. n |-> IF i = 0 THEN now ELSE f[i - 1] \o a[s[i]]]
           all == CHOOSE f : f = body(f)
<1>1. n \in Nat /\ \A i \in 1 .. n : s[i] \in 1 .. Chunks /\ a[s[i]] \in V
  <2>1. n \in Nat /\ \A i \in 1 .. n : s[i] \in 1 .. Chunks BY ElementOfSeq, LenProperties
  <2>2. \A c \in 1 .. Chunks : a[c] \in V BY DEF Memory
  <2> HIDE DEF n, V
  <2> QED BY <2>1, <2>2
<1>2. Chain(now, a, s) = all[n] BY DEF Chain
<1>3. turn \in [Nat \X V -> V]
  <2>1. ASSUME NEW t \in Nat \X V, t[1] \in 1 .. n PROVE t[2] \o a[s[t[1]]] \in V
    <3>1. t[2] \in V /\ a[s[t[1]]] \in V BY <1>1, <2>1
    <3> QED BY <3>1, ConcatProperties
  <2> HIDE DEF n, V
  <2> QED BY <2>1
<1>4. PICK g : Loops(g, V, now, turn, n)
  <2> HIDE DEF turn, n
  <2> QED BY <1>1, <1>3, LoopFunction
<1> HIDE DEF n
<1>5. ASSUME NEW i \in 1 .. n PROVE g[i] = g[i - 1] \o a[s[i]]
  <2>1. i \in Nat /\ i - 1 \in 0 .. n BY <1>1
  <2>2. g[i - 1] \in V /\ g[i] = turn[<<i, g[i - 1]>>] BY <1>4, <2>1 DEF Loops
  <2> HIDE DEF V
  <2> QED BY <2>1, <2>2
<1>6. g = body(g)
  <2>1. g \in [0 .. n -> V] /\ g[0] = now BY <1>4 DEF Loops
  <2>2. \A i \in 0 .. n : i = 0 \/ i \in 1 .. n BY <1>1
  <2> HIDE DEF V
  <2> QED BY <1>5, <2>1, <2>2
<1>7. all = body(all) BY <1>6
<1> HIDE DEF all
<1>8. all[0] = now /\ \A i \in 1 .. n : all[i] = all[i - 1] \o a[s[i]]
  <2>1. 0 \in 0 .. n /\ \A i \in 1 .. n : i \in 0 .. n /\ i # 0 BY <1>1
  <2> QED BY <1>7, <2>1
<1> DEFINE T == { k \in Nat : k <= n => all[k] = g[k] }
<1>9. g[0] = now BY <1>4 DEF Loops
<1>10. 0 \in T BY <1>8, <1>9
<1>11. ASSUME NEW k \in Nat, k \in T PROVE k + 1 \in T
  <2> SUFFICES ASSUME k + 1 <= n PROVE all[k + 1] = g[k + 1] OBVIOUS
  <2>1. k + 1 \in 1 .. n /\ (k + 1) - 1 = k /\ k <= n BY <1>1
  <2> QED BY <1>5, <1>8, <1>11, <2>1
<1>12. n \in T
  <2> HIDE DEF T
  <2> QED BY <1>1, <1>10, <1>11, SetInduction
<1>13. Joins(g, now, a, s)
  <2>1. g \in [0 .. n -> V] BY <1>4 DEF Loops
  <2> QED BY <1>5, <1>9, <2>1 DEF Joins, n
<1> QED BY <1>1, <1>2, <1>12, <1>13 DEF n

LEMMA ChainIs ==
  ASSUME NEW now \in Seq(Nat), NEW a \in Memory, NEW s \in Seq(1 .. Chunks),
         NEW h, Joins(h, now, a, s)
  PROVE  Chain(now, a, s) = h[Len(s)]
<1> DEFINE n == Len(s)
<1>1. PICK f : Joins(f, now, a, s) /\ Chain(now, a, s) = f[n] BY ChainJoins
<1>2. n \in Nat BY LenProperties
<1> DEFINE T == { k \in Nat : k <= n => f[k] = h[k] }
<1>3. 0 \in T BY <1>1 DEF Joins
<1>4. ASSUME NEW k \in Nat, k \in T PROVE k + 1 \in T
  <2> SUFFICES ASSUME k + 1 <= n PROVE f[k + 1] = h[k + 1] OBVIOUS
  <2>1. k + 1 \in 1 .. n /\ (k + 1) - 1 = k /\ k <= n BY <1>2
  <2>2. f[k + 1] = f[(k + 1) - 1] \o a[s[k + 1]] BY <1>1, <2>1 DEF Joins
  <2>3. h[k + 1] = h[(k + 1) - 1] \o a[s[k + 1]] BY <2>1 DEF Joins
  <2> QED BY <1>4, <2>1, <2>2, <2>3
<1>5. n \in T
  <2> HIDE DEF T, n
  <2> QED BY <1>2, <1>3, <1>4, SetInduction
<1> QED BY <1>1, <1>2, <1>5

LEMMA Regroup ==
  ASSUME NEW x \in Seq(Nat), NEW y \in Seq(Nat), NEW z \in Seq(Nat)
  PROVE  (x \o y) \o z = x \o (y \o z)
OBVIOUS

\* It is made of samples, and what comes first comes first.
LEMMA ChainBehind ==
  ASSUME NEW now \in Seq(Nat), NEW x \in Seq(Nat), NEW a \in Memory, NEW s \in Seq(1 .. Chunks)
  PROVE  Chain(now, a, s) \in Seq(Nat) /\ Chain(x \o now, a, s) = x \o Chain(now, a, s)
<1>1. PICK f : Joins(f, now, a, s) /\ Chain(now, a, s) = f[Len(s)] BY ChainJoins
<1>2. Len(s) \in Nat BY LenProperties
<1>3. f \in [0 .. Len(s) -> Seq(Nat)] BY <1>1 DEF Joins
<1> DEFINE g == [i \in 0 .. Len(s) |-> x \o f[i]]
<1>4. ASSUME NEW i \in 0 .. Len(s) PROVE x \o f[i] \in Seq(Nat)
  BY <1>3, ConcatProperties
<1>5. g[0] = x \o now BY <1>1, <1>2 DEF Joins
<1>6. ASSUME NEW i \in 1 .. Len(s) PROVE g[i] = g[i - 1] \o a[s[i]]
  <2>1. i \in 0 .. Len(s) /\ i - 1 \in 0 .. Len(s) BY <1>2
  <2>2. f[i] = f[i - 1] \o a[s[i]] BY <1>1 DEF Joins
  <2>3. g[i] = x \o f[i] /\ g[i - 1] = x \o f[i - 1] BY <2>1
  <2>4. s[i] \in 1 .. Chunks BY ElementOfSeq
  <2>5. a[s[i]] \in Seq(Nat) /\ f[i - 1] \in Seq(Nat) BY <1>3, <2>1, <2>4 DEF Memory
  <2>6. (x \o f[i - 1]) \o a[s[i]] = x \o (f[i - 1] \o a[s[i]])
    <3> DEFINE y == f[i - 1]
               z == a[s[i]]
    <3>1. y \in Seq(Nat) /\ z \in Seq(Nat) BY <2>5
    <3> HIDE DEF y, z
    <3>2. (x \o y) \o z = x \o (y \o z) BY <3>1, Regroup
    <3> QED BY <3>2 DEF y, z
  <2> QED BY <2>2, <2>3, <2>6
<1>7. g \in [0 .. Len(s) -> Seq(Nat)] BY <1>4
<1>8. g[Len(s)] = x \o f[Len(s)] BY <1>2
<1> HIDE DEF g
<1>9. Joins(g, x \o now, a, s) BY <1>5, <1>6, <1>7 DEF Joins
<1>10. x \o now \in Seq(Nat) BY ConcatProperties
<1>11. Chain(x \o now, a, s) = g[Len(s)] BY <1>9, <1>10, ChainIs
<1>12. f[Len(s)] \in Seq(Nat)
  <2>1. Len(s) \in 0 .. Len(s) BY <1>2
  <2> QED BY <1>3, <2>1
<1> QED BY <1>1, <1>8, <1>11, <1>12

\* The first chunk of them may come before the others.
LEMMA ChainTail ==
  ASSUME NEW now \in Seq(Nat), NEW a \in Memory, NEW s \in Seq(1 .. Chunks), s # << >>
  PROVE  Chain(now, a, s) = Chain(now \o a[Head(s)], a, Tail(s))
<1> DEFINE t == Tail(s)
<1>1. /\ Head(s) \in 1 .. Chunks /\ Head(s) = s[1] /\ t \in Seq(1 .. Chunks)
      /\ Len(t) = Len(s) - 1 /\ Len(s) \in Nat \ {0}
      /\ \A i \in 1 .. Len(t) : t[i] = s[i + 1]
  BY TailOf
<1> HIDE DEF t
<1>2. PICK f : Joins(f, now, a, s) /\ Chain(now, a, s) = f[Len(s)] BY ChainJoins
<1>3. /\ f \in [0 .. Len(s) -> Seq(Nat)] /\ f[0] = now
      /\ \A i \in 1 .. Len(s) : f[i] = f[i - 1] \o a[s[i]]
  BY <1>2 DEF Joins
<1> DEFINE g == [i \in 0 .. Len(t) |-> f[i + 1]]
<1>4. g \in [0 .. Len(t) -> Seq(Nat)] BY <1>1, <1>3
<1>5. g[0] = now \o a[Head(s)]
  <2>1. 1 \in 1 .. Len(s) /\ 0 \in 0 .. Len(t) /\ 1 - 1 = 0 /\ 0 + 1 = 1 BY <1>1
  <2> QED BY <1>1, <1>3, <2>1
<1>6. ASSUME NEW i \in 1 .. Len(t) PROVE g[i] = g[i - 1] \o a[t[i]]
  <2>1. i + 1 \in 1 .. Len(s) /\ (i + 1) - 1 = i /\ i \in 0 .. Len(t) /\ i - 1 \in 0 .. Len(t)
        /\ (i - 1) + 1 = i
    BY <1>1
  <2>2. f[i + 1] = f[(i + 1) - 1] \o a[s[i + 1]] BY <1>3, <2>1
  <2>3. g[i] = f[i + 1] /\ g[i - 1] = f[i] BY <2>1
  <2>4. t[i] = s[i + 1] BY <1>1
  <2> QED BY <2>1, <2>2, <2>3, <2>4
<1>7. g[Len(t)] = f[Len(s)]
  <2>1. Len(t) \in 0 .. Len(t) /\ Len(t) + 1 = Len(s) BY <1>1
  <2> QED BY <2>1
<1> HIDE DEF g
<1>8. Joins(g, now \o a[Head(s)], a, t) BY <1>4, <1>5, <1>6 DEF Joins
<1>9. now \o a[Head(s)] \in Seq(Nat)
  <2>1. a[Head(s)] \in Seq(Nat) BY <1>1 DEF Memory
  <2> QED BY <2>1, ConcatProperties
<1>10. Chain(now \o a[Head(s)], a, t) = g[Len(t)] BY <1>1, <1>8, <1>9, ChainIs
<1> QED BY <1>2, <1>7, <1>10 DEF t

\* One more chunk comes after them.
LEMMA ChainAppend ==
  ASSUME NEW now \in Seq(Nat), NEW a \in Memory, NEW s \in Seq(1 .. Chunks), NEW c \in 1 .. Chunks
  PROVE  Chain(now, a, Append(s, c)) = Chain(now, a, s) \o a[c]
<1> DEFINE t == Append(s, c)
           n == Len(s)
<1>1. /\ t \in Seq(1 .. Chunks) /\ Len(t) = n + 1 /\ n \in Nat /\ t[n + 1] = c
      /\ \A j \in 1 .. n : t[j] = s[j]
  BY AppendProperties, LenProperties
<1> HIDE DEF t, n
<1>2. PICK f : Joins(f, now, a, t) /\ Chain(now, a, t) = f[n + 1] BY <1>1, ChainJoins
<1>3. /\ f \in [0 .. n + 1 -> Seq(Nat)] /\ f[0] = now
      /\ \A i \in 1 .. n + 1 : f[i] = f[i - 1] \o a[t[i]]
  BY <1>1, <1>2 DEF Joins
<1> DEFINE g == [i \in 0 .. n |-> f[i]]
<1>4. g \in [0 .. n -> Seq(Nat)] /\ g[0] = now /\ g[n] = f[n] BY <1>1, <1>3
<1>5. ASSUME NEW i \in 1 .. n PROVE g[i] = g[i - 1] \o a[s[i]]
  <2>1. i \in 1 .. n + 1 /\ i \in 0 .. n /\ i - 1 \in 0 .. n BY <1>1
  <2> QED BY <1>1, <1>3, <2>1
<1> HIDE DEF g
<1>6. Joins(g, now, a, s) BY <1>4, <1>5 DEF Joins, n
<1>7. Chain(now, a, s) = f[n] BY <1>4, <1>6, ChainIs DEF n
<1>8. f[n + 1] = f[n] \o a[c]
  <2>1. n + 1 \in 1 .. n + 1 /\ (n + 1) - 1 = n BY <1>1
  <2> QED BY <1>1, <1>3, <2>1
<1> QED BY <1>2, <1>7, <1>8 DEF t

\* What is written elsewhere does not matter.
LEMMA ChainSame ==
  ASSUME NEW now \in Seq(Nat), NEW a \in Memory, NEW b \in Memory, NEW s \in Seq(1 .. Chunks),
         \A c \in OutSet(s) : a[c] = b[c]
  PROVE  Chain(now, a, s) = Chain(now, b, s)
<1>1. PICK f : Joins(f, now, a, s) /\ Chain(now, a, s) = f[Len(s)] BY ChainJoins
<1>2. ASSUME NEW i \in 1 .. Len(s) PROVE a[s[i]] = b[s[i]] BY DEF OutSet
<1>3. Joins(f, now, b, s) BY <1>1, <1>2 DEF Joins
<1> QED BY <1>1, <1>3, ChainIs

-----------------------------------------------------------------------------
(* The audio player.                                                        *)

FeedTypes ==
  /\ audioCodec \in BOOLEAN /\ open \in BOOLEAN /\ cached \in BOOLEAN
  /\ tpc \in {"idle", "shut", "join", "create", "configure", "settings", "over", "stuck"}
  /\ depth \in Nat /\ todo \in 0 .. Heads /\ audioFed \in 0 .. Sounds /\ headers \in 0 .. Headers
  /\ audioInside \in Seq(0 .. Sounds + 1) /\ Len(audioInside) <= In
  /\ freeing \in {"idle", "shut", "join", "free", "gone", "stuck"} /\ switches \in 0 .. Switches
(* A codec has a thread as long as it is there; what is freed last finds    *)
(* neither.                                                                 *)
LettingGo ==
  /\ ~audioCodec => audioPc = "off"
  /\ tpc = "create" => ~audioCodec
  /\ freeing # "idle" => tpc = "over"
  /\ freeing \in {"free", "gone"} => ~audioCodec
  /\ freeing = "gone" => ~open /\ callback = "idle"

Busy == {"took", "give", "gave"}
BufferTypes ==
  /\ audioPc \in {"off", "wait", "push", "done"} \cup Busy
  /\ callback \in {"idle", "pop"} \cup Busy
  /\ left \in Seq(Nat) /\ accepted \in Seq(Nat) /\ played \in Seq(Nat)
  /\ push \in 0 .. Chunks /\ pop \in 0 .. Chunks
  /\ pushed \in 0 .. ChunkSize /\ remains \in 0 .. ChunkSize /\ want \in 0 .. Request
  /\ arr \in Memory /\ Ring(full) /\ Ring(free)
(* A thread within an operation on a queue has a chunk in its hands; the    *)
(* one it takes is still at the head, the one it gives is already behind    *)
(* the tail.                                                                *)
ChunksHeld ==
  /\ audioPc \in Busy => push # 0
  /\ callback \in Busy => pop # 0
  /\ audioPc = "took" => ~Sound!Empty(free)
  /\ callback = "took" => ~Sound!Empty(full)
  /\ audioPc = "gave" => full.item[full.tail] = push
  /\ callback = "gave" => free.item[free.tail] = pop
(* Only full chunks are given away and played.                              *)
ChunksFull ==
  /\ \A c \in OutSet(Sound!FullOnes) : Len(arr[c]) = ChunkSize
  /\ pop # 0 => Len(arr[pop]) = ChunkSize
  /\ push # 0 /\ audioPc # "took" => pushed <= Len(arr[push])
  /\ audioPc \in {"give", "gave"} => pushed = ChunkSize /\ Len(arr[push]) = ChunkSize
  /\ callback \in {"give", "gave"} => remains = 0
(* The chunks of two queues and two hands are as many as there are.         *)
One(c) == IF c = 0 THEN 0 ELSE 1
Hand(c) == IF c = 0 THEN {} ELSE {c}
Owned(f, e, p, k) ==
  /\ Len(f) + Len(e) + One(p) + One(k) = Chunks
  /\ OutSet(f) \cup OutSet(e) \cup Hand(p) \cup Hand(k) = 1 .. Chunks
(* What is still to be heard of the chunk being played, and what is in the  *)
(* chunk being filled.                                                      *)
Heard(k, p, r, a) ==
  IF k = "took" THEN a[p]
  ELSE IF p = 0 \/ k \in {"took", "gave"} \/ r = 0 THEN << >>
  ELSE SubSeq(a[p], ChunkSize - r + 1, ChunkSize)
Fresh(o, c, n, a) == IF c = 0 \/ o = "took" THEN << >> ELSE SubSeq(a[c], 1, n)
InOrder ==
  played \o (Chain(Heard(callback, pop, remains, arr), arr, Sound!FullOnes)
               \o Fresh(audioPc, push, pushed, arr)) = accepted

FeedInv == FeedTypes /\ LettingGo
BufferInv ==
  /\ BufferTypes /\ ChunksHeld /\ ChunksFull /\ InOrder
  /\ Owned(Sound!FullOnes, Sound!FreeOnes, push, pop)
SoundInv == FeedInv /\ BufferInv

\* A sequence has at most as many elements as places.
LEMMA FewOut ==
  ASSUME NEW S, NEW s \in Seq(S)
  PROVE  IsFiniteSet(OutSet(s)) /\ Cardinality(OutSet(s)) <= Len(s)
<1> DEFINE n == Len(s)
           T == OutSet(s)
<1>1. n \in Nat /\ s \in [1 .. n -> S] BY LenProperties
<1>2. IsFiniteSet(1 .. n) /\ Cardinality(1 .. n) = n
  <2> HIDE DEF n
  <2>1. Cardinality(1 .. n) = IF 1 > n THEN 0 ELSE n - 1 + 1 BY <1>1, FS_Interval
  <2>2. IsFiniteSet(1 .. n) BY <1>1, FS_Interval
  <2> QED BY <1>1, <2>1, <2>2
<1>3. s \in Surjection(1 .. n, T)
  <2>1. s \in [1 .. n -> T] BY <1>1 DEF OutSet
  <2> QED BY <2>1 DEF Surjection, OutSet
<1> HIDE DEF n, T
<1>4. IsFiniteSet(T) /\ Cardinality(T) <= Cardinality(1 .. n) BY <1>2, <1>3, FS_Surjection
<1> QED BY <1>2, <1>4 DEF n, T

\* So no chunk is in two places.
LEMMA OwnedApart ==
  ASSUME NEW f \in Seq(0 .. Chunks), NEW e \in Seq(0 .. Chunks),
         NEW p \in 0 .. Chunks, NEW k \in 0 .. Chunks, Owned(f, e, p, k), p # 0
  PROVE  p \notin OutSet(f) /\ p # k
<1> SUFFICES ASSUME p \in OutSet(f) \/ p = k PROVE FALSE OBVIOUS
<1> DEFINE A == OutSet(f)
           B == OutSet(e)
           C == Hand(k)
<1>1. A \cup B \cup C = 1 .. Chunks
  <2>1. A \cup B \cup {p} \cup C = 1 .. Chunks BY DEF Owned, Hand
  <2>2. p \in A \/ p \in C BY DEF Hand
  <2> HIDE DEF A, B, C
  <2> QED BY <2>1, <2>2
<1>2. Chunks \in Nat /\ Chunks # 0 BY AudioAssumption
<1>3. /\ IsFiniteSet(A) /\ IsFiniteSet(B) /\ Cardinality(A) <= Len(f) /\ Cardinality(B) <= Len(e)
  BY FewOut
<1>4. IsFiniteSet(C) /\ Cardinality(C) = One(k)
  <2>1. CASE k = 0 BY <2>1, FS_EmptySet DEF Hand, One
  <2>2. CASE k # 0 BY <2>2, FS_Singleton DEF Hand, One
  <2> QED BY <2>1, <2>2
<1>5. Len(f) + Len(e) + 1 + One(k) = Chunks BY DEF Owned, One
<1>6. One(k) \in Nat /\ Len(f) \in Nat /\ Len(e) \in Nat BY LenProperties DEF One
<1>7. Cardinality(1 .. Chunks) = Chunks
  <2>1. Cardinality(1 .. Chunks) = IF 1 > Chunks THEN 0 ELSE Chunks - 1 + 1 BY <1>2, FS_Interval
  <2> QED BY <1>2, <2>1
<1> HIDE DEF A, B, C
<1>8. /\ IsFiniteSet(A \cup B) /\ Cardinality(A \cup B) <= Cardinality(A) + Cardinality(B)
      /\ Cardinality(A) \in Nat /\ Cardinality(B) \in Nat /\ Cardinality(A \cup B) \in Nat
  <2>1. /\ IsFiniteSet(A \cup B)
        /\ Cardinality(A \cup B) = Cardinality(A) + Cardinality(B) - Cardinality(A \cap B)
    BY <1>3, FS_Union
  <2>2. IsFiniteSet(A \cap B) BY <1>3, FS_Intersection
  <2>3. /\ Cardinality(A) \in Nat /\ Cardinality(B) \in Nat /\ Cardinality(A \cup B) \in Nat
        /\ Cardinality(A \cap B) \in Nat
    BY <1>3, <2>1, <2>2, FS_CardinalityType
  <2> QED BY <2>1, <2>3
<1>9. Cardinality((A \cup B) \cup C) <= Cardinality(A \cup B) + Cardinality(C)
  <2>1. Cardinality((A \cup B) \cup C)
          = Cardinality(A \cup B) + Cardinality(C) - Cardinality((A \cup B) \cap C)
    BY <1>4, <1>8, FS_Union
  <2>2. IsFiniteSet((A \cup B) \cap C) BY <1>4, <1>8, FS_Intersection
  <2>3. Cardinality((A \cup B) \cap C) \in Nat BY <2>2, FS_CardinalityType
  <2> QED BY <1>4, <1>6, <1>8, <2>1, <2>3
<1>10. Chunks <= Cardinality(A \cup B) + One(k) BY <1>1, <1>4, <1>7, <1>9
<1>11. Cardinality(A \cup B) <= Len(f) + Len(e) BY <1>3, <1>6, <1>8
<1> QED BY <1>2, <1>5, <1>6, <1>8, <1>10, <1>11

\* What the invariant says of the queues.
LEMMA QueuesAre ==
  ASSUME BufferInv
  PROVE  /\ Sound!FullOnes \in Seq(1 .. Chunks) /\ Sound!FreeOnes \in Seq(0 .. Chunks)
         /\ Sound!FullOnes \in Seq(0 .. Chunks)
         /\ OutSet(Sound!FullOnes) \subseteq 1 .. Chunks
         /\ OutSet(Sound!FreeOnes) \subseteq 1 .. Chunks
         /\ callback = "took" => Sound!Content(full) # << >>
         /\ audioPc = "took" => Sound!Content(free) # << >>
         /\ push # 0 => Len(Sound!Content(full)) < Chunks
         /\ pop # 0 => Len(Sound!Content(free)) < Chunks
<1> DEFINE F == Sound!FullOnes
           E == Sound!FreeOnes
           C == Sound!Content(full)
           D == Sound!Content(free)
<1>1. /\ Ring(full) /\ Ring(free) /\ push \in 0 .. Chunks /\ pop \in 0 .. Chunks
      /\ (callback = "took" => ~Sound!Empty(full) /\ pop # 0)
      /\ (audioPc = "took" => ~Sound!Empty(free) /\ push # 0)
      /\ Owned(F, E, push, pop) /\ Chunks \in Nat
  BY AudioAssumption DEF BufferInv, BufferTypes, ChunksHeld, Busy
<1>2. /\ C \in Seq(0 .. Chunks) /\ D \in Seq(0 .. Chunks)
      /\ callback = "took" => C # << >>
      /\ audioPc = "took" => D # << >>
  BY <1>1, RingContent
<1>3. /\ F = IF callback = "took" THEN Tail(C) ELSE C
      /\ E = IF audioPc = "took" THEN Tail(D) ELSE D
  BY DEF Sound!FullOnes, Sound!FreeOnes
<1> HIDE DEF C, D, F, E
<1>4. /\ F \in Seq(0 .. Chunks) /\ Len(F) \in Nat
      /\ Len(C) = IF callback = "took" THEN Len(F) + 1 ELSE Len(F)
  <2>1. CASE callback = "took"
    <3>1. Tail(C) \in Seq(0 .. Chunks) /\ Len(Tail(C)) = Len(C) - 1 /\ Len(C) \in Nat \ {0}
      BY <1>2, <2>1, TailOf
    <3> QED BY <1>3, <2>1, <3>1
  <2>2. CASE callback # "took" BY <1>2, <1>3, <2>2, LenProperties
  <2> QED BY <2>1, <2>2
<1>5. /\ E \in Seq(0 .. Chunks) /\ Len(E) \in Nat
      /\ Len(D) = IF audioPc = "took" THEN Len(E) + 1 ELSE Len(E)
  <2>1. CASE audioPc = "took"
    <3>1. Tail(D) \in Seq(0 .. Chunks) /\ Len(Tail(D)) = Len(D) - 1 /\ Len(D) \in Nat \ {0}
      BY <1>2, <2>1, TailOf
    <3> QED BY <1>3, <2>1, <3>1
  <2>2. CASE audioPc # "took" BY <1>2, <1>3, <2>2, LenProperties
  <2> QED BY <2>1, <2>2
<1>6. Len(F) + Len(E) + One(push) + One(pop) = Chunks /\ OutSet(F) \subseteq 1 .. Chunks
      /\ OutSet(E) \subseteq 1 .. Chunks
  BY <1>1 DEF Owned
<1>7. One(push) \in {0, 1} /\ One(pop) \in {0, 1} /\ (push # 0 => One(push) = 1) /\ (pop # 0 => One(pop) = 1)
  BY DEF One
<1>8. push # 0 => Len(C) < Chunks BY <1>1, <1>4, <1>5, <1>6, <1>7
<1>9. pop # 0 => Len(D) < Chunks BY <1>1, <1>4, <1>5, <1>6, <1>7
<1>10. F \in Seq(1 .. Chunks)
  <2>1. \A i \in 1 .. Len(F) : F[i] \in 1 .. Chunks BY <1>6 DEF OutSet
  <2>2. F \in [1 .. Len(F) -> 0 .. Chunks] BY <1>4, LenProperties
  <2>3. F \in [1 .. Len(F) -> 1 .. Chunks] BY <2>1, <2>2
  <2>4. PICK n \in Nat : n = Len(F) BY <1>4
  <2>5. F \in [1 .. n -> 1 .. Chunks] BY <2>3, <2>4
  <2> QED BY <2>4, <2>5, SeqDef
<1> QED BY <1>2, <1>4, <1>5, <1>6, <1>8, <1>9, <1>10 DEF C, D, F, E

\* Held(c) of the player, as a sequence.
LEMMA HandIs ==
  ASSUME NEW c \in 0 .. Chunks
  PROVE  /\ Sound!Held(c) \in Seq(0 .. Chunks) /\ Len(Sound!Held(c)) = One(c)
         /\ OutSet(Sound!Held(c)) = Hand(c)
<1>1. CASE c = 0
  <2>1. Sound!Held(c) = << >> BY <1>1 DEF Sound!Held, Sound!NoChunk
  <2> QED BY <1>1, <2>1, NoneOut, EmptySeq DEF One, Hand
<1>2. CASE c # 0
  <2>1. Sound!Held(c) = <<c>> BY <1>2 DEF Sound!Held, Sound!NoChunk
  <2>2. <<c>> \in Seq(0 .. Chunks) /\ Len(<<c>>) = 1 /\ <<c>>[1] = c OBVIOUS
  <2>3. OutSet(<<c>>) = {c} BY <2>2 DEF OutSet
  <2> QED BY <1>2, <2>1, <2>2, <2>3 DEF One, Hand
<1> QED BY <1>1, <1>2

LEMMA BothOut ==
  ASSUME NEW S, NEW s \in Seq(S), NEW t \in Seq(S)
  PROVE  /\ s \o t \in Seq(S) /\ Len(s \o t) = Len(s) + Len(t)
         /\ OutSet(s \o t) = OutSet(s) \cup OutSet(t)
<1> DEFINE u == s \o t
           m == Len(s)
           n == Len(t)
<1>1. /\ u \in Seq(S) /\ Len(u) = m + n /\ m \in Nat /\ n \in Nat
      /\ \A i \in 1 .. m + n : u[i] = IF i <= m THEN s[i] ELSE t[i - m]
  BY ConcatProperties, LenProperties
<1> HIDE DEF u, m, n
<1>2. ASSUME NEW i \in 1 .. m + n
      PROVE  (i \in 1 .. m /\ u[i] = s[i]) \/ (i - m \in 1 .. n /\ u[i] = t[i - m])
  <2>1. CASE i <= m BY <1>1, <2>1
  <2>2. CASE ~(i <= m) BY <1>1, <2>2
  <2> QED BY <2>1, <2>2
<1>3. \A i \in 1 .. m + n : u[i] \in OutSet(s) \cup OutSet(t) BY <1>2 DEF OutSet, m, n
<1>4. ASSUME NEW i \in 1 .. m PROVE s[i] \in OutSet(u)
  <2>1. i \in 1 .. m + n /\ i <= m BY <1>1
  <2>2. u[i] = s[i] BY <1>1, <2>1
  <2> QED BY <1>1, <2>1, <2>2 DEF OutSet
<1>5. ASSUME NEW i \in 1 .. n PROVE t[i] \in OutSet(u)
  <2>1. i + m \in 1 .. m + n /\ ~(i + m <= m) /\ (i + m) - m = i BY <1>1
  <2>2. u[i + m] = t[i] BY <1>1, <2>1
  <2> QED BY <1>1, <2>1, <2>2 DEF OutSet
<1>6. OutSet(u) = OutSet(s) \cup OutSet(t) BY <1>1, <1>3, <1>4, <1>5 DEF OutSet, m, n
<1> QED BY <1>1, <1>6 DEF u, m, n

LEMMA SoundIs == SoundInv => Sound!TypeOK /\ Sound!AudioSound
<1> SUFFICES ASSUME SoundInv PROVE Sound!TypeOK /\ Sound!AudioSound OBVIOUS
<1>0. FeedTypes /\ LettingGo /\ BufferInv BY DEF SoundInv, FeedInv
<1>1. BufferTypes /\ ChunksHeld /\ InOrder /\ Owned(Sound!FullOnes, Sound!FreeOnes, push, pop)
  BY <1>0 DEF BufferInv
<1>2. Sound!TypeOK
  <2>1. {full.head, full.tail, free.head, free.tail} \subseteq 0 .. Chunks
    BY <1>1 DEF BufferTypes, Ring
  <2> QED BY <1>0, <1>1, <2>1 DEF FeedTypes, BufferTypes, Busy, Sound!TypeOK, Sound!Slots
<1>3. Sound!ChunksOwned
  <2> DEFINE F == Sound!FullOnes
             E == Sound!FreeOnes
             P == Sound!Held(push)
             K == Sound!Held(pop)
             all == F \o E \o P \o K
  <2>1. F \in Seq(0 .. Chunks) /\ E \in Seq(0 .. Chunks) BY <1>0, QueuesAre
  <2>2. /\ P \in Seq(0 .. Chunks) /\ Len(P) = One(push) /\ OutSet(P) = Hand(push)
        /\ K \in Seq(0 .. Chunks) /\ Len(K) = One(pop) /\ OutSet(K) = Hand(pop)
    BY <1>1, HandIs DEF BufferTypes
  <2>3. Owned(F, E, push, pop) BY <1>1
  <2>4. Sound!ChunksOwned <=> Len(all) = Chunks /\ Sound!Range(all) = 1 .. Chunks
    BY DEF Sound!ChunksOwned
  <2> HIDE DEF F, E, P, K
  <2>5. /\ F \o E \in Seq(0 .. Chunks) /\ Len(F \o E) = Len(F) + Len(E)
        /\ OutSet(F \o E) = OutSet(F) \cup OutSet(E)
    BY <2>1, BothOut
  <2>6. /\ (F \o E) \o P \in Seq(0 .. Chunks) /\ Len((F \o E) \o P) = Len(F \o E) + Len(P)
        /\ OutSet((F \o E) \o P) = OutSet(F \o E) \cup OutSet(P)
    <3> DEFINE X == F \o E
    <3>1. X \in Seq(0 .. Chunks) BY <2>5
    <3> HIDE DEF X
    <3>2. /\ X \o P \in Seq(0 .. Chunks) /\ Len(X \o P) = Len(X) + Len(P)
          /\ OutSet(X \o P) = OutSet(X) \cup OutSet(P)
      BY <2>2, <3>1, BothOut
    <3> QED BY <3>2 DEF X
  <2>7. /\ all \in Seq(0 .. Chunks) /\ Len(all) = Len((F \o E) \o P) + Len(K)
        /\ OutSet(all) = OutSet((F \o E) \o P) \cup OutSet(K)
    <3> DEFINE X == (F \o E) \o P
    <3>1. X \in Seq(0 .. Chunks) BY <2>6
    <3> HIDE DEF X
    <3>2. /\ X \o K \in Seq(0 .. Chunks) /\ Len(X \o K) = Len(X) + Len(K)
          /\ OutSet(X \o K) = OutSet(X) \cup OutSet(K)
      BY <2>2, <3>1, BothOut
    <3> QED BY <3>2 DEF X
  <2> HIDE DEF all
  <2>8. Len(all) = Chunks /\ OutSet(all) = 1 .. Chunks
    <3>1. Len(F) \in Nat /\ Len(E) \in Nat BY <2>1, LenProperties
    <3>2. Len(all) = Len(F) + Len(E) + One(push) + One(pop) BY <2>2, <2>5, <2>6, <2>7
    <3>3. OutSet(all) = OutSet(F) \cup OutSet(E) \cup Hand(push) \cup Hand(pop)
      BY <2>2, <2>5, <2>6, <2>7
    <3> QED BY <2>3, <3>2, <3>3 DEF Owned
  <2>9. Sound!Range(all) = OutSet(all)
    <3>1. DOMAIN all = 1 .. Len(all) BY <2>7, LenProperties
    <3> QED BY <3>1 DEF Sound!Range, OutSet
  <2> QED BY <2>4, <2>8, <2>9 DEF all
<1>4. Sound!AlwaysRoom
  <2>1. /\ audioPc = "give" => push # 0
        /\ callback = "give" => pop # 0
    BY <1>1 DEF ChunksHeld, Busy
  <2>2. Ring(full) /\ Ring(free) BY <1>1 DEF BufferTypes
  <2>3. /\ Sound!Fits(full) <=> Len(Sound!Content(full)) < Chunks
        /\ Sound!Fits(free) <=> Len(Sound!Content(free)) < Chunks
    BY <2>2, RingContent
  <2> QED BY <1>0, <2>1, <2>3, QueuesAre DEF Sound!AlwaysRoom
<1>5. Sound!PlayedInOrder
  <2>1. Sound!Pending = Chain(Heard(callback, pop, remains, arr), arr, Sound!FullOnes)
                          \o Fresh(audioPc, push, pushed, arr)
    BY DEF Sound!Pending, Chain, Heard, Fresh, Sound!NoChunk
  <2> QED BY <1>1, <2>1 DEF InOrder, Sound!PlayedInOrder
<1>6. Sound!NoneLeft BY <1>0 DEF LettingGo, Sound!NoneLeft
<1> QED BY <1>2, <1>3, <1>4, <1>5, <1>6 DEF Sound!AudioSound

LEMMA ChainEmpty ==
  ASSUME NEW now \in Seq(Nat), NEW a \in Memory
  PROVE  Chain(now, a, << >>) = now
<1>1. << >> \in Seq(1 .. Chunks) /\ Len(<< >>) = 0 BY EmptySeq
<1>2. PICK f : Joins(f, now, a, << >>) /\ Chain(now, a, << >>) = f[Len(<< >>)]
  BY <1>1, ChainJoins
<1> QED BY <1>1, <1>2 DEF Joins

LEMMA SoundInit == Sound!Init => SoundInv
<1> SUFFICES ASSUME Sound!Init PROVE SoundInv OBVIOUS
<1>1. /\ audioCodec = FALSE /\ tpc = "idle" /\ depth = 0 /\ todo = 0 /\ audioFed = 0 /\ headers = 0
      /\ audioInside = << >> /\ audioPc = "off" /\ left = << >> /\ push = 1 /\ pushed = 0
      /\ arr = [c \in 1 .. Chunks |-> << >>]
      /\ full = Sound!Fifo(<< >>) /\ free = Sound!Fifo([i \in 1 .. Chunks - 1 |-> i + 1])
      /\ callback = "idle" /\ want = 0 /\ pop = 0 /\ remains = 0
      /\ open = FALSE /\ cached = FALSE /\ freeing = "idle" /\ switches = 0
      /\ accepted = << >> /\ played = << >>
  BY DEF Sound!Init, Sound!NoChunk
<1>2. /\ Chunks \in Nat \ {0} /\ ChunkSize \in Nat \ {0} /\ Heads \in Nat /\ Sounds \in Nat
      /\ In \in Nat /\ Headers \in Nat /\ Switches \in Nat /\ Request \in Nat
  BY AudioAssumption
<1>3. FeedInv
  <2>1. << >> \in Seq(0 .. Sounds + 1) /\ Len(<< >>) = 0 BY EmptySeq
  <2>2. 0 \in 0 .. Heads /\ 0 \in 0 .. Sounds /\ 0 \in 0 .. Headers /\ 0 \in 0 .. Switches /\ 0 <= In
        /\ 0 \in Nat
    BY <1>2
  <2>3. audioInside \in Seq(0 .. Sounds + 1) /\ Len(audioInside) <= In BY <1>1, <2>1, <2>2
  <2>4. audioCodec \in BOOLEAN /\ open \in BOOLEAN /\ cached \in BOOLEAN BY <1>1
  <2>5. FeedTypes BY <1>1, <2>2, <2>3, <2>4 DEF FeedTypes
  <2>6. LettingGo BY <1>1 DEF LettingGo
  <2> QED BY <2>5, <2>6 DEF FeedInv
<1> DEFINE items == [i \in 1 .. Chunks - 1 |-> i + 1]
           inFull == [i \in 0 .. Chunks |-> 0]
           inFree == [i \in 0 .. Chunks |-> IF i < Chunks - 1 THEN i + 2 ELSE 0]
<1>4. Len(items) = Chunks - 1 /\ Chunks - 1 \in Nat
  <2>1. Chunks - 1 \in Nat BY <1>2
  <2>2. items \in [1 .. Chunks - 1 -> Nat] BY <1>2
  <2>3. items \in Seq(Nat) BY <2>1, <2>2, SeqDef
  <2> QED BY <2>1, <2>3
<1>5. full = [head |-> 0, tail |-> 0, item |-> inFull]
  <2>1. Len(<< >>) = 0 BY EmptySeq
  <2>2. full = Sound!Fifo(<< >>) BY <1>1
  <2>3. full = [head |-> 0, tail |-> 0,
                item |-> [i \in 0 .. Chunks |-> IF i < 0 THEN << >>[i + 1] ELSE 0]]
    BY <2>1, <2>2 DEF Sound!Fifo, Sound!Slots, Sound!NoChunk
  <2>4. \A i \in 0 .. Chunks : (IF i < 0 THEN << >>[i + 1] ELSE 0) = 0 BY <1>2
  <2> QED BY <2>3, <2>4
<1>6. free = [head |-> 0, tail |-> Chunks - 1, item |-> inFree]
  <2>1. ASSUME NEW i \in 0 .. Chunks, i < Chunks - 1 PROVE items[i + 1] = i + 2
    <3>1. i + 1 \in 1 .. Chunks - 1 /\ (i + 1) + 1 = i + 2 BY <1>2, <2>1
    <3> QED BY <3>1
  <2>2. free = [head |-> 0, tail |-> Chunks - 1,
                item |-> [i \in 0 .. Chunks |-> IF i < Chunks - 1 THEN items[i + 1] ELSE 0]]
    <3>1. free = Sound!Fifo(items) BY <1>1
    <3> HIDE DEF items
    <3> QED BY <1>4, <3>1 DEF Sound!Fifo, Sound!Slots, Sound!NoChunk
  <2> HIDE DEF items
  <2> QED BY <2>1, <2>2
<1>7. Ring(full) /\ full.head = 0 /\ full.tail = 0
  <2>1. inFull \in [0 .. Chunks -> 0 .. Chunks] /\ 0 \in 0 .. Chunks BY <1>2
  <2> HIDE DEF inFull
  <2> QED BY <1>5, <2>1, RingIs
<1>8. Ring(free) /\ free.head = 0 /\ free.tail = Chunks - 1 /\ free.item = inFree
  <2>1. inFree \in [0 .. Chunks -> 0 .. Chunks] /\ 0 \in 0 .. Chunks /\ Chunks - 1 \in 0 .. Chunks
    BY <1>2
  <2> HIDE DEF inFree
  <2> QED BY <1>6, <2>1, RingIs
<1>9. Sound!FullOnes = << >>
  <2>1. Sound!Empty(full) BY <1>7 DEF Sound!Empty
  <2>2. Sound!Content(full) = << >> BY <1>7, <2>1, RingContent
  <2> QED BY <1>1, <2>2 DEF Sound!FullOnes
<1> DEFINE E == Sound!Content(free)
<1>10. Sound!FreeOnes = E BY <1>1 DEF Sound!FreeOnes
<1>11. Filled(free) = Chunks - 1 /\ \A i \in 1 .. Chunks - 1 : Slot(free, i) = i - 1
  <2> HIDE DEF inFree
  <2> QED BY <1>2, <1>8 DEF Filled, Slot
<1>12. Len(E) = Chunks - 1 /\ E = [i \in 1 .. Chunks - 1 |-> free.item[Slot(free, i)]]
  BY <1>8, <1>11, RingContent
<1>13. ASSUME NEW i \in 1 .. Chunks - 1 PROVE E[i] = i + 1
  <2>1. E[i] = inFree[i - 1]
    <3> HIDE DEF inFree, E
    <3> QED BY <1>8, <1>11, <1>12
  <2>2. i - 1 \in 0 .. Chunks /\ i - 1 < Chunks - 1 /\ (i - 1) + 2 = i + 1 BY <1>2
  <2>3. inFree[i - 1] = (i - 1) + 2 BY <2>2
  <2> QED BY <2>1, <2>2, <2>3
<1> HIDE DEF E, items, inFull, inFree
<1>14. OutSet(E) \cup {1} = 1 .. Chunks
  <2>1. \A i \in 1 .. Chunks - 1 : i + 1 \in 1 .. Chunks BY <1>2
  <2>2. \A j \in 1 .. Chunks : j = 1 \/ (j - 1 \in 1 .. Chunks - 1 /\ (j - 1) + 1 = j) BY <1>2
  <2>3. 1 \in 1 .. Chunks BY <1>2
  <2>4. OutSet(E) = {E[i] : i \in 1 .. Chunks - 1} BY <1>12 DEF OutSet
  <2>5. \A j \in 1 .. Chunks : j = 1 \/ j \in OutSet(E)
    <3> SUFFICES ASSUME NEW j \in 1 .. Chunks, j # 1 PROVE j \in OutSet(E) OBVIOUS
    <3>1. j - 1 \in 1 .. Chunks - 1 /\ (j - 1) + 1 = j BY <2>2
    <3>2. E[j - 1] = j BY <1>13, <3>1
    <3> QED BY <2>4, <3>1, <3>2
  <2>6. OutSet(E) \subseteq 1 .. Chunks BY <1>13, <2>1, <2>4
  <2> QED BY <2>3, <2>5, <2>6
<1>15. OutSet(<< >>) = {} /\ Len(<< >>) = 0 /\ << >> \in Seq(Nat) BY NoneOut, EmptySeq
<1>16. Owned(Sound!FullOnes, Sound!FreeOnes, push, pop)
  <2>1. Len(Sound!FullOnes) + Len(Sound!FreeOnes) + One(push) + One(pop) = Chunks
    BY <1>1, <1>2, <1>9, <1>10, <1>12, <1>15 DEF One
  <2>2. OutSet(Sound!FullOnes) \cup OutSet(Sound!FreeOnes) \cup Hand(push) \cup Hand(pop)
          = 1 .. Chunks
    BY <1>1, <1>9, <1>10, <1>14, <1>15 DEF Hand
  <2> QED BY <2>1, <2>2 DEF Owned
<1>17. BufferTypes
  <2>1. arr \in Memory BY <1>1, <1>15 DEF Memory
  <2>2. push \in 0 .. Chunks /\ pop \in 0 .. Chunks /\ pushed \in 0 .. ChunkSize
        /\ remains \in 0 .. ChunkSize /\ want \in 0 .. Request
    BY <1>1, <1>2
  <2> QED BY <1>1, <1>7, <1>8, <1>15, <2>1, <2>2 DEF BufferTypes
<1>18. ChunksHeld BY <1>1 DEF ChunksHeld, Busy
<1>19. Len(arr[1]) = 0 /\ arr[1] = << >>
  <2>1. 1 \in 1 .. Chunks BY <1>2
  <2> QED BY <1>1, <1>15, <2>1
<1>20. ChunksFull BY <1>1, <1>9, <1>15, <1>19 DEF ChunksFull
<1>21. InOrder
  <2>1. Heard(callback, pop, remains, arr) = << >> BY <1>1 DEF Heard
  <2>2. Fresh(audioPc, push, pushed, arr) = << >>
    <3>1. SubSeq(<< >>, 1, 0) = << >> BY SubSeqEmpty
    <3> QED BY <1>1, <1>19, <3>1 DEF Fresh
  <2>3. Chain(<< >>, arr, << >>) = << >> BY <1>15, <1>17, ChainEmpty DEF BufferTypes
  <2>4. << >> \o (<< >> \o << >>) = << >> OBVIOUS
  <2> QED BY <1>1, <1>9, <2>1, <2>2, <2>3, <2>4 DEF InOrder
<1> QED BY <1>3, <1>16, <1>17, <1>18, <1>20, <1>21 DEF SoundInv, BufferInv

\* What a thread does between its operations does not concern the chunks.
Calm ==
  /\ UNCHANGED <<push, pushed, arr, full, free, pop, remains, accepted, played>>
  /\ left' \in Seq(Nat) /\ want' \in 0 .. Request
  /\ audioPc' = audioPc \/ {audioPc, audioPc'} \subseteq {"off", "wait", "push", "done"}
  /\ callback' = callback \/ {callback, callback'} \subseteq {"idle", "pop"}
LEMMA CalmNext == BufferInv /\ Calm => BufferInv'
<1> SUFFICES ASSUME BufferInv, Calm PROVE BufferInv' OBVIOUS
<1>1. /\ BufferTypes /\ ChunksHeld /\ ChunksFull /\ InOrder
      /\ Owned(Sound!FullOnes, Sound!FreeOnes, push, pop)
  BY DEF BufferInv
<1>2. /\ UNCHANGED <<push, pushed, arr, full, free, pop, remains, accepted, played>>
      /\ left' \in Seq(Nat) /\ want' \in 0 .. Request
      /\ audioPc' = audioPc \/ {audioPc, audioPc'} \subseteq {"off", "wait", "push", "done"}
      /\ callback' = callback \/ {callback, callback'} \subseteq {"idle", "pop"}
  BY DEF Calm
<1>3. /\ \A x \in Busy : audioPc' = x <=> audioPc = x
      /\ \A x \in Busy : callback' = x <=> callback = x
  BY <1>2 DEF Busy
<1>4. /\ audioPc' = "took" <=> audioPc = "took"
      /\ callback' = "took" <=> callback = "took"
      /\ audioPc' = "give" <=> audioPc = "give"
      /\ callback' = "give" <=> callback = "give"
      /\ audioPc' = "gave" <=> audioPc = "gave"
      /\ callback' = "gave" <=> callback = "gave"
      /\ audioPc' \in Busy <=> audioPc \in Busy
      /\ callback' \in Busy <=> callback \in Busy
  BY <1>3 DEF Busy
<1>5. Sound!FullOnes' = Sound!FullOnes /\ Sound!FreeOnes' = Sound!FreeOnes
  BY <1>2, <1>4 DEF Sound!FullOnes, Sound!FreeOnes, Sound!Content
<1>6. /\ Heard(callback, pop, remains, arr)' = Heard(callback, pop, remains, arr)
      /\ Fresh(audioPc, push, pushed, arr)' = Fresh(audioPc, push, pushed, arr)
  BY <1>2, <1>4 DEF Heard, Fresh
<1>7. BufferTypes'
  <2>1. Ring(full)' /\ Ring(free)' BY <1>1, <1>2 DEF BufferTypes, Ring
  <2> QED BY <1>1, <1>2, <2>1 DEF BufferTypes
<1>8. ChunksHeld' BY <1>1, <1>2, <1>4 DEF ChunksHeld, Sound!Empty
<1>9. ChunksFull' BY <1>1, <1>2, <1>4, <1>5 DEF ChunksFull
<1>10. InOrder'
  <2>1. (Chain(Heard(callback, pop, remains, arr), arr, Sound!FullOnes))'
          = Chain(Heard(callback, pop, remains, arr), arr, Sound!FullOnes)
    BY <1>2, <1>5, <1>6
  <2> QED BY <1>1, <1>2, <1>6, <2>1 DEF InOrder
<1>11. Owned(Sound!FullOnes, Sound!FreeOnes, push, pop)' BY <1>1, <1>2, <1>5
<1> QED BY <1>7, <1>8, <1>9, <1>10, <1>11 DEF BufferInv

\* The chunk that is being filled and the one being played are samples.
LEMMA InHand ==
  ASSUME BufferInv
  PROVE  /\ Heard(callback, pop, remains, arr) \in Seq(Nat)
         /\ Fresh(audioPc, push, pushed, arr) \in Seq(Nat)
         /\ \A c \in 1 .. Chunks : arr[c] \in Seq(Nat) /\ Len(arr[c]) \in Nat
         /\ Chunks \in Nat \ {0} /\ ChunkSize \in Nat \ {0}
<1>1. /\ BufferTypes /\ ChunksHeld /\ ChunksFull /\ Chunks \in Nat \ {0} /\ ChunkSize \in Nat \ {0}
  BY AudioAssumption DEF BufferInv
<1>2. \A c \in 1 .. Chunks : arr[c] \in Seq(Nat) /\ Len(arr[c]) \in Nat
  <2>1. \A c \in 1 .. Chunks : arr[c] \in Seq(Nat) BY <1>1 DEF BufferTypes, Memory
  <2> QED BY <2>1, LenProperties
<1>3. << >> \in Seq(Nat) BY EmptySeq
<1>4. pop # 0 => pop \in 1 .. Chunks /\ arr[pop] \in Seq(Nat) /\ Len(arr[pop]) = ChunkSize
  BY <1>1, <1>2 DEF BufferTypes, ChunksFull
<1>5. Heard(callback, pop, remains, arr) \in Seq(Nat)
  <2>1. CASE callback = "took" BY <1>1, <1>4, <2>1 DEF Heard, ChunksHeld, Busy
  <2>2. CASE callback # "took" /\ (pop = 0 \/ callback = "gave" \/ remains = 0)
    BY <1>3, <2>2 DEF Heard
  <2>3. CASE callback # "took" /\ ~(pop = 0 \/ callback = "gave" \/ remains = 0)
    <3>1. remains \in 0 .. ChunkSize BY <1>1 DEF BufferTypes
    <3>2. ChunkSize - remains + 1 \in Int /\ ChunkSize \in Int BY <1>1, <3>1
    <3>3. \A i \in ChunkSize - remains + 1 .. ChunkSize : i \in 1 .. Len(arr[pop])
      BY <1>1, <1>4, <2>3, <3>1
    <3>4. \A i \in ChunkSize - remains + 1 .. ChunkSize : arr[pop][i] \in Nat
      BY <1>4, <2>3, <3>3, ElementOfSeq
    <3>5. SubSeq(arr[pop], ChunkSize - remains + 1, ChunkSize) \in Seq(Nat)
      BY <3>2, <3>4, SubSeqProperties
    <3> QED BY <2>3, <3>5 DEF Heard
  <2> QED BY <2>1, <2>2, <2>3
<1>6. Fresh(audioPc, push, pushed, arr) \in Seq(Nat)
  <2>1. CASE push = 0 \/ audioPc = "took" BY <1>3, <2>1 DEF Fresh
  <2>2. CASE ~(push = 0 \/ audioPc = "took")
    <3>1. push \in 1 .. Chunks /\ pushed \in 0 .. ChunkSize /\ pushed <= Len(arr[push])
      BY <1>1, <2>2 DEF BufferTypes, ChunksFull
    <3>2. arr[push] \in Seq(Nat) /\ Len(arr[push]) \in Nat BY <1>2, <3>1
    <3>3. pushed \in Int /\ \A i \in 1 .. pushed : i \in 1 .. Len(arr[push]) BY <1>1, <3>1, <3>2
    <3>4. \A i \in 1 .. pushed : arr[push][i] \in Nat BY <3>2, <3>3, ElementOfSeq
    <3>5. SubSeq(arr[push], 1, pushed) \in Seq(Nat) BY <3>3, <3>4, SubSeqProperties
    <3> QED BY <2>2, <3>5 DEF Fresh
  <2> QED BY <2>1, <2>2
<1> QED BY <1>1, <1>2, <1>5, <1>6

LEMMA PushTakes == BufferInv /\ Sound!PushTake => BufferInv'
<1> SUFFICES ASSUME BufferInv, Sound!PushTake PROVE BufferInv' OBVIOUS
<1>1. /\ BufferTypes /\ ChunksHeld /\ ChunksFull /\ InOrder
      /\ Owned(Sound!FullOnes, Sound!FreeOnes, push, pop)
  BY DEF BufferInv
<1>2. /\ audioPc = "push" /\ push = 0
      /\ UNCHANGED <<pushed, arr, full, free, callback, want, pop, remains, accepted, played>>
      /\ IF Sound!Empty(free) THEN audioPc' = "wait" /\ left' = << >> /\ push' = push
         ELSE audioPc' = "took" /\ push' = free.item[free.head] /\ left' = left
  BY DEF Sound!PushTake, Sound!feeding, Sound!popping, Sound!control, Sound!history, Sound!NoChunk
<1>3. CASE Sound!Empty(free)
  <2>1. << >> \in Seq(Nat) BY EmptySeq
  <2>2. Calm BY <1>1, <1>2, <1>3, <2>1 DEF Calm, BufferTypes
  <2> QED BY <2>2, CalmNext
<1>4. CASE ~Sound!Empty(free)
  <2> DEFINE E == Sound!Content(free)
             F == Sound!FullOnes
             c == Head(E)
  <2>1. /\ E \in Seq(0 .. Chunks) /\ E # << >> /\ c = free.item[free.head]
        /\ OutSet(E) \subseteq 1 .. Chunks /\ Sound!FreeOnes = E
    <3>1. Ring(free) BY <1>1 DEF BufferTypes
    <3>2. E \in Seq(0 .. Chunks) BY <3>1, RingContent
    <3>3. E # << >> /\ c = free.item[free.head] BY <1>4, <3>1, RingTaken
    <3>4. Sound!FreeOnes = E BY <1>2 DEF Sound!FreeOnes
    <3> QED BY <3>2, <3>3, <3>4, QueuesAre
  <2>2. /\ audioPc' = "took" /\ push' = c /\ left' = left
    BY <1>2, <1>4, <2>1
  <2>3. Sound!FullOnes' = F BY <1>2 DEF Sound!FullOnes, Sound!Content
  <2>4. Sound!FreeOnes' = Tail(E) BY <1>2, <2>2 DEF Sound!FreeOnes, Sound!Content
  <2>5. F \in Seq(0 .. Chunks) /\ Owned(F, E, 0, pop)
    <3>1. F \in Seq(0 .. Chunks) BY QueuesAre
    <3> QED BY <1>1, <1>2, <2>1, <3>1
  <2> HIDE DEF E, F, c
  <2>6. /\ c \in 1 .. Chunks /\ Len(Tail(E)) = Len(E) - 1 /\ Len(E) \in Nat \ {0}
        /\ OutSet(E) = {c} \cup OutSet(Tail(E))
    BY <2>1, TailOf DEF c
  <2>7. Owned(F, Tail(E), c, pop)
    <3>1. Len(F) \in Nat /\ One(pop) \in Nat BY <2>5, LenProperties DEF One
    <3>2. One(c) = 1 /\ One(0) = 0 /\ Hand(c) = {c} /\ Hand(0) = {} BY <2>6 DEF One, Hand
    <3>3. Len(F) + Len(E) + 0 + One(pop) = Chunks BY <2>5, <3>2 DEF Owned
    <3>4. Len(F) + Len(Tail(E)) + 1 + One(pop) = Chunks BY <2>6, <3>1, <3>3
    <3>5. OutSet(F) \cup OutSet(Tail(E)) \cup Hand(c) \cup Hand(pop) = 1 .. Chunks
      BY <2>5, <2>6, <3>2 DEF Owned
    <3> QED BY <3>2, <3>4, <3>5 DEF Owned
  <2>8. Owned(Sound!FullOnes, Sound!FreeOnes, push, pop)' BY <1>2, <2>2, <2>3, <2>4, <2>7
  <2>9. BufferTypes'
    <3>1. Ring(full)' /\ Ring(free)' BY <1>1, <1>2 DEF BufferTypes, Ring
    <3> QED BY <1>1, <1>2, <2>2, <2>6, <3>1 DEF BufferTypes, Busy
  <2>10. ChunksHeld' BY <1>1, <1>2, <1>4, <2>2, <2>6 DEF ChunksHeld, Sound!Empty, Busy
  <2>11. ChunksFull' BY <1>1, <1>2, <2>2, <2>3 DEF ChunksFull, F
  <2>12. InOrder'
    <3>1. Heard(callback, pop, remains, arr)' = Heard(callback, pop, remains, arr) BY <1>2 DEF Heard
    <3>2. Fresh(audioPc, push, pushed, arr)' = << >> /\ Fresh(audioPc, push, pushed, arr) = << >>
      BY <1>2, <2>2 DEF Fresh
    <3>3. (Chain(Heard(callback, pop, remains, arr), arr, Sound!FullOnes))'
            = Chain(Heard(callback, pop, remains, arr), arr, Sound!FullOnes)
      BY <1>2, <2>3, <3>1 DEF F
    <3> QED BY <1>1, <1>2, <3>2, <3>3 DEF InOrder
  <2> QED BY <2>8, <2>9, <2>10, <2>11, <2>12 DEF BufferInv
<1> QED BY <1>3, <1>4

LEMMA PushHas == BufferInv /\ Sound!PushTook => BufferInv'
<1> SUFFICES ASSUME BufferInv, Sound!PushTook PROVE BufferInv' OBVIOUS
<1>1. /\ BufferTypes /\ ChunksHeld /\ ChunksFull /\ InOrder
      /\ Owned(Sound!FullOnes, Sound!FreeOnes, push, pop)
  BY DEF BufferInv
<1>2. /\ audioPc = "took" /\ free' = Sound!Taken(free) /\ audioPc' = "push" /\ pushed' = 0
      /\ UNCHANGED <<left, push, arr, full, callback, want, pop, remains, accepted, played>>
  BY DEF Sound!PushTook, Sound!feeding, Sound!popping, Sound!control, Sound!history
<1>3. /\ Ring(free') /\ free'.tail = free.tail /\ free'.item = free.item
      /\ Sound!Content(free') = Tail(Sound!Content(free))
  BY <1>1, <1>2, RingTaken DEF BufferTypes, ChunksHeld
<1>4. Sound!FullOnes' = Sound!FullOnes BY <1>2 DEF Sound!FullOnes, Sound!Content
<1>5. Sound!FreeOnes' = Sound!FreeOnes
  <2>1. Sound!FreeOnes = Tail(Sound!Content(free)) BY <1>2 DEF Sound!FreeOnes
  <2>2. Sound!FreeOnes' = Sound!Content(free') BY <1>2 DEF Sound!FreeOnes
  <2> QED BY <1>3, <2>1, <2>2
<1>6. Owned(Sound!FullOnes, Sound!FreeOnes, push, pop)' BY <1>1, <1>2, <1>4, <1>5
<1>7. /\ \A c \in 1 .. Chunks : Len(arr[c]) \in Nat
      /\ push \in 1 .. Chunks /\ ChunkSize \in Nat
  BY <1>1, <1>2, InHand DEF BufferTypes, ChunksHeld, Busy
<1>8. BufferTypes'
  <2>1. Ring(full)' BY <1>1, <1>2 DEF BufferTypes, Ring
  <2>2. 0 \in 0 .. ChunkSize BY <1>7
  <2> QED BY <1>1, <1>2, <1>3, <2>1, <2>2 DEF BufferTypes
<1>9. ChunksHeld' BY <1>1, <1>2, <1>3 DEF ChunksHeld, Sound!Empty, Busy
<1>10. ChunksFull' BY <1>1, <1>2, <1>4, <1>7 DEF ChunksFull
<1>11. InOrder'
  <2>1. Heard(callback, pop, remains, arr)' = Heard(callback, pop, remains, arr) BY <1>2 DEF Heard
  <2>2. Fresh(audioPc, push, pushed, arr) = << >> BY <1>2 DEF Fresh
  <2>3. Fresh(audioPc, push, pushed, arr)' = << >>
    <3>1. SubSeq(arr[push], 1, 0) = << >> BY SubSeqEmpty
    <3> QED BY <1>2, <1>7, <3>1 DEF Fresh
  <2>4. (Chain(Heard(callback, pop, remains, arr), arr, Sound!FullOnes))'
          = Chain(Heard(callback, pop, remains, arr), arr, Sound!FullOnes)
    BY <1>2, <1>4, <2>1
  <2> QED BY <1>1, <1>2, <2>2, <2>3, <2>4 DEF InOrder
<1> QED BY <1>6, <1>8, <1>9, <1>10, <1>11 DEF BufferInv

LEMMA PushCopies == BufferInv /\ Sound!PushCopy => BufferInv'
<1> SUFFICES ASSUME BufferInv, Sound!PushCopy PROVE BufferInv' OBVIOUS
<1>1. /\ BufferTypes /\ ChunksHeld /\ ChunksFull /\ InOrder
      /\ Owned(Sound!FullOnes, Sound!FreeOnes, push, pop)
  BY DEF BufferInv
<1> DEFINE piece == Sound!Piece
           was == SubSeq(arr[push], 1, pushed)
           F == Sound!FullOnes
           n == IF Len(left) < ChunkSize - pushed THEN Len(left) ELSE ChunkSize - pushed
<1>2. /\ audioPc = "push" /\ left # << >> /\ push # 0
      /\ arr' = [arr EXCEPT ![push] = was \o piece]
      /\ pushed' = pushed + Len(piece)
      /\ left' = SubSeq(left, Len(piece) + 1, Len(left))
      /\ accepted' = accepted \o piece
      /\ audioPc' = IF pushed' = ChunkSize THEN "give" ELSE "push"
      /\ UNCHANGED <<push, full, free, callback, want, pop, remains, played>>
  BY DEF Sound!PushCopy, Sound!feeding, Sound!popping, Sound!control, Sound!history, Sound!NoChunk
<1>3. /\ Chunks \in Nat \ {0} /\ ChunkSize \in Nat \ {0} /\ push \in 1 .. Chunks
      /\ pushed \in 0 .. ChunkSize /\ pushed <= Len(arr[push]) /\ arr[push] \in Seq(Nat)
      /\ Len(arr[push]) \in Nat
  <2> HIDE DEF piece, was, F, n
  <2>1. push \in 0 .. Chunks /\ push # 0 /\ pushed \in 0 .. ChunkSize BY <1>1, <1>2 DEF BufferTypes
  <2>2. Chunks \in Nat \ {0} /\ ChunkSize \in Nat \ {0} BY AudioAssumption
  <2>3. push \in 1 .. Chunks BY <2>1, <2>2
  <2>4. arr[push] \in Seq(Nat) /\ Len(arr[push]) \in Nat BY <1>1, <2>3, InHand
  <2>5. pushed <= Len(arr[push]) BY <1>1, <1>2 DEF ChunksFull
  <2> QED BY <2>1, <2>2, <2>3, <2>4, <2>5
<1>4. /\ left \in Seq(Nat) /\ Len(left) \in Nat \ {0} BY <1>1, <1>2, EmptySeq DEF BufferTypes
<1>5. n \in 0 .. Len(left) /\ n <= ChunkSize - pushed BY <1>3, <1>4
<1>6. piece \in Seq(Nat) /\ Len(piece) = n
  <2>1. piece = SubSeq(left, 1, n) BY DEF Sound!Piece
  <2> HIDE DEF piece, n
  <2>2. \A i \in 1 .. n : left[i] \in Nat
    <3>1. \A i \in 1 .. n : i \in 1 .. Len(left) BY <1>4, <1>5
    <3> QED BY <1>4, <3>1, ElementOfSeq
  <2>3. n \in Nat BY <1>4, <1>5
  <2>4. /\ SubSeq(left, 1, n) \in Seq(Nat)
        /\ Len(SubSeq(left, 1, n)) = IF 1 <= n THEN n - 1 + 1 ELSE 0
    BY <2>2, <2>3, SubSeqProperties
  <2> QED BY <2>1, <2>3, <2>4
<1>7. was \in Seq(Nat) /\ Len(was) = pushed
  <2>1. \A i \in 1 .. pushed : arr[push][i] \in Nat
    <3>1. \A i \in 1 .. pushed : i \in 1 .. Len(arr[push]) BY <1>3
    <3> QED BY <1>3, <3>1, ElementOfSeq
  <2>2. pushed \in Int /\ pushed \in Nat BY <1>3
  <2>3. was \in Seq(Nat) /\ Len(was) = IF 1 <= pushed THEN pushed - 1 + 1 ELSE 0
    BY <2>1, <2>2, SubSeqProperties
  <2> QED BY <2>2, <2>3
<1> HIDE DEF piece, was, n
<1>8. was \o piece \in Seq(Nat) /\ Len(was \o piece) = pushed + n
  BY <1>6, <1>7, ConcatProperties
<1>9. /\ arr'[push] = was \o piece /\ arr' \in Memory
      /\ \A c \in 1 .. Chunks : c # push => arr'[c] = arr[c]
  BY <1>1, <1>2, <1>3, <1>8 DEF BufferTypes, Memory
<1>10. pushed' \in 0 .. ChunkSize /\ pushed' = pushed + n BY <1>2, <1>3, <1>4, <1>5, <1>6
<1>11. /\ F \in Seq(1 .. Chunks) /\ F \in Seq(0 .. Chunks) /\ Sound!FreeOnes \in Seq(0 .. Chunks)
       /\ OutSet(F) \subseteq 1 .. Chunks
  BY QueuesAre
<1>12. push \notin OutSet(F) /\ push # pop
  <2>1. push \in 0 .. Chunks /\ pop \in 0 .. Chunks BY <1>1 DEF BufferTypes
  <2> QED BY <1>1, <1>2, <1>11, <2>1, OwnedApart
<1>13. \A c \in OutSet(F) : arr'[c] = arr[c] BY <1>9, <1>11, <1>12
<1>14. pop # 0 => arr'[pop] = arr[pop] BY <1>1, <1>9, <1>12 DEF BufferTypes
<1>15. Sound!FullOnes' = F BY <1>2 DEF Sound!FullOnes, Sound!Content
<1>16. Sound!FreeOnes' = Sound!FreeOnes BY <1>2 DEF Sound!FreeOnes, Sound!Content
<1>17. Owned(Sound!FullOnes, Sound!FreeOnes, push, pop)' BY <1>1, <1>2, <1>15, <1>16
<1>18. left' \in Seq(Nat)
  <2>1. Len(piece) + 1 \in Int /\ Len(left) \in Int /\ Len(piece) \in Nat BY <1>4, <1>5, <1>6
  <2>2. \A i \in Len(piece) + 1 .. Len(left) : i \in 1 .. Len(left) BY <1>4, <2>1
  <2>3. \A i \in Len(piece) + 1 .. Len(left) : left[i] \in Nat BY <1>4, <2>2, ElementOfSeq
  <2> QED BY <1>2, <2>1, <2>3, SubSeqProperties
<1>19. BufferTypes'
  <2>1. Ring(full)' /\ Ring(free)' BY <1>1, <1>2 DEF BufferTypes, Ring
  <2>2. accepted' \in Seq(Nat) BY <1>1, <1>2, <1>6, ConcatProperties DEF BufferTypes
  <2>3. audioPc' \in {"give", "push"} BY <1>2
  <2> QED BY <1>1, <1>2, <1>9, <1>10, <1>18, <2>1, <2>2, <2>3 DEF BufferTypes, Busy
<1>20. ChunksHeld'
  <2>1. audioPc' \in {"give", "push"} BY <1>2
  <2> QED BY <1>1, <1>2, <2>1 DEF ChunksHeld, Sound!Empty, Busy
<1>21. ChunksFull'
  <2>1. \A c \in OutSet(F) : Len(arr'[c]) = ChunkSize BY <1>1, <1>13 DEF ChunksFull
  <2>2. pop' # 0 => Len(arr'[pop']) = ChunkSize BY <1>1, <1>2, <1>14 DEF ChunksFull
  <2>3. pushed' <= Len(arr'[push]) BY <1>3, <1>8, <1>9, <1>10
  <2>4. audioPc' \in {"give", "gave"} => pushed' = ChunkSize /\ Len(arr'[push']) = ChunkSize
    <3>1. audioPc' \in {"give", "gave"} => pushed' = ChunkSize BY <1>2
    <3> QED BY <1>2, <1>8, <1>9, <1>10, <3>1
  <2>5. callback' \in {"give", "gave"} => remains' = 0 BY <1>1, <1>2 DEF ChunksFull
  <2> QED BY <1>2, <1>15, <2>1, <2>2, <2>3, <2>4, <2>5 DEF ChunksFull
<1>22. InOrder'
  <2> DEFINE now == Heard(callback, pop, remains, arr)
             ch == Chain(now, arr, F)
  <2>1. now \in Seq(Nat) /\ arr \in Memory BY <1>1, InHand DEF BufferTypes
  <2>2. Heard(callback, pop, remains, arr)' = now
    <3>1. callback = "took" => pop # 0 BY <1>1 DEF ChunksHeld, Busy
    <3> QED BY <1>2, <1>14, <3>1 DEF Heard
  <2>3. Fresh(audioPc, push, pushed, arr) = was BY <1>2 DEF Fresh, was
  <2>4. Fresh(audioPc, push, pushed, arr)' = was \o piece
    <3>1. Fresh(audioPc, push, pushed, arr)' = SubSeq(arr'[push], 1, pushed')
      <4>1. audioPc' # "took" BY <1>2
      <4> QED BY <1>2, <4>1 DEF Fresh
    <3>2. pushed' = Len(arr'[push]) BY <1>8, <1>9, <1>10
    <3>3. SubSeq(was \o piece, 1, Len(was \o piece)) = was \o piece BY <1>8, SubSeqFull
    <3> QED BY <1>9, <3>1, <3>2, <3>3
  <2> HIDE DEF now
  <2>5. Chain(now, arr', F) = ch
    <3>1. PICK b : b = arr' OBVIOUS
    <3>2. b \in Memory /\ \A c \in OutSet(F) : b[c] = arr[c] BY <1>9, <1>13, <3>1
    <3>3. Chain(now, b, F) = ch BY <1>11, <2>1, <3>2, ChainSame
    <3> QED BY <3>1, <3>3
  <2>6. (Chain(Heard(callback, pop, remains, arr), arr, Sound!FullOnes))' = ch
    BY <1>15, <2>2, <2>5
  <2>7. ch \in Seq(Nat)
    <3>1. << >> \in Seq(Nat) BY EmptySeq
    <3> QED BY <1>11, <2>1, <3>1, ChainBehind
  <2>8. played \in Seq(Nat) /\ played \o (ch \o was) = accepted
    BY <1>1, <2>3 DEF InOrder, BufferTypes, now
  <2> HIDE DEF ch
  <2>9. played \o (ch \o (was \o piece)) = accepted \o piece
    <3>1. PICK x : x = played OBVIOUS
    <3>2. x \in Seq(Nat) /\ ch \o was \in Seq(Nat) BY <1>7, <2>7, <2>8, <3>1, ConcatProperties
    <3>3. ch \o (was \o piece) = (ch \o was) \o piece BY <1>6, <1>7, <2>7, Regroup
    <3>4. x \o ((ch \o was) \o piece) = (x \o (ch \o was)) \o piece
      <4> DEFINE y == ch \o was
      <4>1. y \in Seq(Nat) BY <3>2
      <4> HIDE DEF y
      <4>2. (x \o y) \o piece = x \o (y \o piece) BY <1>6, <3>2, <4>1, Regroup
      <4> QED BY <4>2 DEF y
    <3> QED BY <2>8, <3>1, <3>3, <3>4
  <2> QED BY <1>2, <2>4, <2>6, <2>9 DEF InOrder
<1> QED BY <1>17, <1>19, <1>20, <1>21, <1>22 DEF BufferInv

LEMMA PushGives == BufferInv /\ Sound!PushGive => BufferInv'
<1> SUFFICES ASSUME BufferInv, Sound!PushGive PROVE BufferInv' OBVIOUS
<1>1. /\ BufferTypes /\ ChunksHeld /\ ChunksFull /\ InOrder
      /\ Owned(Sound!FullOnes, Sound!FreeOnes, push, pop)
  BY DEF BufferInv
<1>2. /\ audioPc = "give" /\ full' = Sound!Put(full, push) /\ audioPc' = "gave"
      /\ UNCHANGED <<left, push, pushed, arr, free, callback, want, pop, remains, accepted, played>>
  BY DEF Sound!PushGive, Sound!feeding, Sound!popping, Sound!control, Sound!history
<1>3. /\ Ring(full') /\ full'.head = full.head /\ full'.tail = full.tail
      /\ full'.item[full.tail] = push /\ Sound!Content(full') = Sound!Content(full)
  <2>1. Ring(full) /\ push \in 0 .. Chunks BY <1>1 DEF BufferTypes
  <2> QED BY <1>2, <2>1, RingPut
<1>4. Sound!FullOnes' = Sound!FullOnes
  <2>1. Sound!FullOnes = IF callback = "took" THEN Tail(Sound!Content(full)) ELSE Sound!Content(full)
    BY DEF Sound!FullOnes
  <2>2. Sound!FullOnes' = IF callback = "took" THEN Tail(Sound!Content(full')) ELSE Sound!Content(full')
    BY <1>2 DEF Sound!FullOnes
  <2> QED BY <1>3, <2>1, <2>2
<1>5. Sound!FreeOnes' = Sound!FreeOnes BY <1>2 DEF Sound!FreeOnes, Sound!Content
<1>6. Owned(Sound!FullOnes, Sound!FreeOnes, push, pop)' BY <1>1, <1>2, <1>4, <1>5
<1>7. BufferTypes'
  <2>1. Ring(free)' BY <1>1, <1>2 DEF BufferTypes, Ring
  <2> QED BY <1>1, <1>2, <1>3, <2>1 DEF BufferTypes, Busy
<1>8. ChunksHeld' BY <1>1, <1>2, <1>3 DEF ChunksHeld, Sound!Empty, Busy
<1>9. ChunksFull' BY <1>1, <1>2, <1>4 DEF ChunksFull
<1>10. InOrder'
  <2>1. Heard(callback, pop, remains, arr)' = Heard(callback, pop, remains, arr) BY <1>2 DEF Heard
  <2>2. Fresh(audioPc, push, pushed, arr)' = Fresh(audioPc, push, pushed, arr) BY <1>2 DEF Fresh
  <2>3. (Chain(Heard(callback, pop, remains, arr), arr, Sound!FullOnes))'
          = Chain(Heard(callback, pop, remains, arr), arr, Sound!FullOnes)
    BY <1>2, <1>4, <2>1
  <2> QED BY <1>1, <1>2, <2>2, <2>3 DEF InOrder
<1> QED BY <1>6, <1>7, <1>8, <1>9, <1>10 DEF BufferInv

\* One more at the end, whether or not the first is being taken.
LEMMA TailAppend ==
  ASSUME NEW S, NEW s \in Seq(S), NEW x \in S, s # << >>
  PROVE  Tail(Append(s, x)) = Append(Tail(s), x) /\ Append(s, x) # << >>
BY HeadTailAppend, AppendProperties

LEMMA PushShows == BufferInv /\ Sound!PushGave => BufferInv'
<1> SUFFICES ASSUME BufferInv, Sound!PushGave PROVE BufferInv' OBVIOUS
<1>1. /\ BufferTypes /\ ChunksHeld /\ ChunksFull /\ InOrder
      /\ Owned(Sound!FullOnes, Sound!FreeOnes, push, pop)
  BY DEF BufferInv
<1>2. /\ audioPc = "gave" /\ full' = Sound!Shown(full) /\ push' = 0 /\ audioPc' = "push"
      /\ UNCHANGED <<left, pushed, arr, free, callback, want, pop, remains, accepted, played>>
  BY DEF Sound!PushGave, Sound!feeding, Sound!popping, Sound!control, Sound!history, Sound!NoChunk
<1> DEFINE C == Sound!Content(full)
           F == Sound!FullOnes
<1>3. /\ push \in 1 .. Chunks /\ full.item[full.tail] = push /\ Ring(full) /\ Len(C) < Chunks
      /\ push # 0 /\ Chunks \in Nat /\ C \in Seq(0 .. Chunks)
  <2>1. /\ push # 0 /\ push \in 0 .. Chunks /\ full.item[full.tail] = push /\ Ring(full)
        /\ Chunks \in Nat
    BY <1>1, <1>2, AudioAssumption DEF BufferTypes, ChunksHeld, Busy
  <2> QED BY <2>1, QueuesAre, RingContent
<1>4. /\ Ring(full') /\ full'.head = full.head /\ full'.item = full.item
      /\ Sound!Content(full') = Append(C, push)
  BY <1>2, <1>3, RingShown
<1>5. /\ callback = "took" => C # << >>
      /\ F = IF callback = "took" THEN Tail(C) ELSE C
      /\ F \in Seq(0 .. Chunks) /\ F \in Seq(1 .. Chunks)
  BY QueuesAre DEF Sound!FullOnes
<1>6. Sound!FullOnes' = IF callback = "took" THEN Tail(Append(C, push)) ELSE Append(C, push)
  <2>1. Sound!FullOnes' = IF callback = "took" THEN Tail(Sound!Content(full')) ELSE Sound!Content(full')
    BY <1>2 DEF Sound!FullOnes
  <2> QED BY <1>4, <2>1
<1> HIDE DEF C, F
<1>7. Sound!FullOnes' = Append(F, push)
  <2>1. push \in 0 .. Chunks BY <1>3
  <2>2. CASE callback = "took"
    <3>1. Tail(Append(C, push)) = Append(Tail(C), push) BY <1>3, <1>5, <2>1, <2>2, TailAppend
    <3> QED BY <1>5, <1>6, <2>2, <3>1
  <2>3. CASE callback # "took" BY <1>5, <1>6, <2>3
  <2> QED BY <2>2, <2>3
<1>8. Sound!FreeOnes' = Sound!FreeOnes BY <1>2 DEF Sound!FreeOnes, Sound!Content
<1>9. /\ Len(Append(F, push)) = Len(F) + 1 /\ Len(F) \in Nat
      /\ OutSet(Append(F, push)) = OutSet(F) \cup {push}
  <2> DEFINE S == 1 .. Chunks
  <2>1. F \in Seq(S) /\ push \in S BY <1>3, <1>5
  <2> HIDE DEF S
  <2> QED BY <2>1, AppendOf
<1>10. Owned(Append(F, push), Sound!FreeOnes, 0, pop)
  <2>1. Owned(F, Sound!FreeOnes, push, pop) BY <1>1 DEF F
  <2>2. One(push) = 1 /\ One(0) = 0 /\ Hand(push) = {push} /\ Hand(0) = {} BY <1>3 DEF One, Hand
  <2>3. Len(Sound!FreeOnes) \in Nat /\ One(pop) \in Nat BY QueuesAre, LenProperties DEF One
  <2>4. Len(F) + Len(Sound!FreeOnes) + 1 + One(pop) = Chunks BY <2>1, <2>2 DEF Owned
  <2>5. Len(Append(F, push)) + Len(Sound!FreeOnes) + 0 + One(pop) = Chunks BY <1>9, <2>3, <2>4
  <2>6. OutSet(Append(F, push)) \cup OutSet(Sound!FreeOnes) \cup Hand(0) \cup Hand(pop) = 1 .. Chunks
    BY <1>9, <2>1, <2>2 DEF Owned
  <2> QED BY <2>2, <2>5, <2>6 DEF Owned
<1>11. Owned(Sound!FullOnes, Sound!FreeOnes, push, pop)' BY <1>2, <1>7, <1>8, <1>10
<1>12. BufferTypes'
  <2>1. Ring(free)' BY <1>1, <1>2 DEF BufferTypes, Ring
  <2>2. 0 \in 0 .. Chunks BY <1>3
  <2> QED BY <1>1, <1>2, <1>4, <2>1, <2>2 DEF BufferTypes
<1>13. ChunksHeld'
  <2>1. callback = "took" => ~Sound!Empty(full')
    <3> SUFFICES ASSUME callback = "took" PROVE ~Sound!Empty(full') OBVIOUS
    <3>1. push \in 0 .. Chunks BY <1>3
    <3>2. Append(C, push) # << >> BY <1>3, <3>1, AppendProperties
    <3> QED BY <1>4, <3>2, RingContent
  <2>2. audioPc' \notin Busy /\ audioPc' # "took" /\ audioPc' # "gave" BY <1>2 DEF Busy
  <2>3. callback' = "took" => ~Sound!Empty(full)' BY <1>2, <2>1
  <2>4. callback' = "gave" => free'.item[free'.tail] = pop' BY <1>1, <1>2 DEF ChunksHeld
  <2>5. callback' \in Busy => pop' # 0 BY <1>1, <1>2 DEF ChunksHeld
  <2> QED BY <2>2, <2>3, <2>4, <2>5 DEF ChunksHeld
<1>14. pushed = ChunkSize /\ Len(arr[push]) = ChunkSize /\ arr[push] \in Seq(Nat)
  BY <1>1, <1>2, <1>3, InHand DEF ChunksFull
<1>15. ChunksFull'
  <2>1. \A c \in OutSet(Sound!FullOnes') : Len(arr[c]) = ChunkSize
    BY <1>1, <1>7, <1>9, <1>14 DEF ChunksFull, F
  <2> QED BY <1>1, <1>2, <2>1 DEF ChunksFull
<1>16. InOrder'
  <2> DEFINE now == Heard(callback, pop, remains, arr)
             ch == Chain(now, arr, F)
  <2>1. now \in Seq(Nat) /\ arr \in Memory BY <1>1, InHand DEF BufferTypes
  <2>2. Heard(callback, pop, remains, arr)' = now BY <1>2 DEF Heard
  <2>3. Fresh(audioPc, push, pushed, arr) = arr[push]
    <3>1. SubSeq(arr[push], 1, Len(arr[push])) = arr[push] BY <1>14, SubSeqFull
    <3> QED BY <1>2, <1>3, <1>14, <3>1 DEF Fresh
  <2>4. Fresh(audioPc, push, pushed, arr)' = << >> BY <1>2 DEF Fresh
  <2>5. played \o (ch \o arr[push]) = accepted BY <1>1, <2>3 DEF InOrder, F
  <2> HIDE DEF now
  <2>6. Chain(now, arr, Append(F, push)) = ch \o arr[push] BY <1>3, <1>5, <2>1, ChainAppend
  <2>7. (Chain(Heard(callback, pop, remains, arr), arr, Sound!FullOnes))' = ch \o arr[push]
    BY <1>2, <1>7, <2>2, <2>6
  <2>8. (ch \o arr[push]) \o << >> = ch \o arr[push]
    <3>1. << >> \in Seq(Nat) BY EmptySeq
    <3>2. ch \in Seq(Nat) BY <1>5, <2>1, <3>1, ChainBehind
    <3> HIDE DEF ch
    <3>3. ch \o arr[push] \in Seq(Nat) BY <1>14, <3>2, ConcatProperties
    <3> QED BY <3>3, ConcatEmptySeq
  <2> QED BY <1>2, <2>4, <2>5, <2>7, <2>8 DEF InOrder
<1> QED BY <1>11, <1>12, <1>13, <1>15, <1>16 DEF BufferInv

LEMMA PopTakes == BufferInv /\ Sound!PopTake => BufferInv'
<1> SUFFICES ASSUME BufferInv, Sound!PopTake PROVE BufferInv' OBVIOUS
<1>1. /\ BufferTypes /\ ChunksHeld /\ ChunksFull /\ InOrder
      /\ Owned(Sound!FullOnes, Sound!FreeOnes, push, pop)
  BY DEF BufferInv
<1>2. /\ callback = "pop" /\ pop = 0
      /\ UNCHANGED <<audioPc, left, push, pushed, arr, full, free, remains, accepted, played>>
      /\ IF Sound!Empty(full) THEN callback' = "idle" /\ want' = 0 /\ pop' = pop
         ELSE callback' = "took" /\ pop' = full.item[full.head] /\ want' = want
  BY DEF Sound!PopTake, Sound!feeding, Sound!pushing, Sound!control, Sound!history, Sound!NoChunk
<1>3. CASE Sound!Empty(full)
  <2>1. 0 \in 0 .. Request BY AudioAssumption
  <2>2. Calm BY <1>1, <1>2, <1>3, <2>1 DEF Calm, BufferTypes
  <2> QED BY <2>2, CalmNext
<1>4. CASE ~Sound!Empty(full)
  <2> DEFINE F == Sound!Content(full)
             E == Sound!FreeOnes
             c == Head(F)
  <2>1. /\ F \in Seq(1 .. Chunks) /\ F # << >> /\ c = full.item[full.head]
        /\ Sound!FullOnes = F
    <3>1. Ring(full) BY <1>1 DEF BufferTypes
    <3>2. F # << >> /\ c = full.item[full.head] BY <1>4, <3>1, RingTaken
    <3>3. Sound!FullOnes = F BY <1>2 DEF Sound!FullOnes
    <3> QED BY <3>2, <3>3, QueuesAre
  <2>2. /\ callback' = "took" /\ pop' = c /\ want' = want BY <1>2, <1>4, <2>1
  <2>3. Sound!FreeOnes' = E BY <1>2 DEF Sound!FreeOnes, Sound!Content
  <2>4. Sound!FullOnes' = Tail(F) BY <1>2, <2>2 DEF Sound!FullOnes, Sound!Content
  <2>5. E \in Seq(0 .. Chunks) /\ Owned(F, E, push, 0)
    <3>1. E \in Seq(0 .. Chunks) BY QueuesAre
    <3> QED BY <1>1, <1>2, <2>1, <3>1
  <2> HIDE DEF E, F, c
  <2>6. /\ c \in 1 .. Chunks /\ Len(Tail(F)) = Len(F) - 1 /\ Len(F) \in Nat \ {0}
        /\ OutSet(F) = {c} \cup OutSet(Tail(F)) /\ Tail(F) \in Seq(1 .. Chunks)
    <3> DEFINE S == 1 .. Chunks
    <3>1. F \in Seq(S) BY <2>1
    <3> HIDE DEF S
    <3>2. /\ c \in S /\ Len(Tail(F)) = Len(F) - 1 /\ Len(F) \in Nat \ {0}
          /\ OutSet(F) = {c} \cup OutSet(Tail(F)) /\ Tail(F) \in Seq(S)
      BY <2>1, <3>1, TailOf DEF c
    <3> QED BY <3>2 DEF S
  <2>7. Owned(Tail(F), E, push, c)
    <3>1. Len(E) \in Nat /\ One(push) \in Nat BY <2>5, LenProperties DEF One
    <3>2. One(c) = 1 /\ One(0) = 0 /\ Hand(c) = {c} /\ Hand(0) = {} BY <2>6 DEF One, Hand
    <3>3. Len(F) + Len(E) + One(push) + 0 = Chunks BY <2>5, <3>2 DEF Owned
    <3>4. Len(Tail(F)) + Len(E) + One(push) + 1 = Chunks BY <2>6, <3>1, <3>3
    <3>5. OutSet(Tail(F)) \cup OutSet(E) \cup Hand(push) \cup Hand(c) = 1 .. Chunks
      BY <2>5, <2>6, <3>2 DEF Owned
    <3> QED BY <3>2, <3>4, <3>5 DEF Owned
  <2>8. Owned(Sound!FullOnes, Sound!FreeOnes, push, pop)' BY <1>2, <2>2, <2>3, <2>4, <2>7
  <2>9. BufferTypes'
    <3>1. Ring(full)' /\ Ring(free)' BY <1>1, <1>2 DEF BufferTypes, Ring
    <3>2. c \in 0 .. Chunks BY <2>6
    <3> QED BY <1>1, <1>2, <2>2, <3>1, <3>2 DEF BufferTypes, Busy
  <2>10. ChunksHeld'
    <3>1. c # 0 BY <2>6
    <3> QED BY <1>1, <1>2, <1>4, <2>2, <3>1 DEF ChunksHeld, Sound!Empty, Busy
  <2>11. \A x \in OutSet(F) : Len(arr[x]) = ChunkSize BY <1>1, <2>1 DEF ChunksFull
  <2>12. ChunksFull' BY <1>1, <1>2, <2>2, <2>4, <2>6, <2>11 DEF ChunksFull
  <2>13. InOrder'
    <3>1. Heard(callback, pop, remains, arr) = << >> BY <1>2 DEF Heard
    <3>2. Heard(callback, pop, remains, arr)' = arr[c] BY <1>2, <2>2 DEF Heard
    <3>3. Fresh(audioPc, push, pushed, arr)' = Fresh(audioPc, push, pushed, arr) BY <1>2 DEF Fresh
    <3>4. << >> \in Seq(Nat) /\ arr \in Memory /\ arr[c] \in Seq(Nat)
      BY <1>1, <2>6, EmptySeq DEF BufferTypes, Memory
    <3>5. Chain(<< >>, arr, F) = Chain(<< >> \o arr[c], arr, Tail(F))
      BY <2>1, <3>4, ChainTail DEF c
    <3>6. << >> \o arr[c] = arr[c] BY <3>4, ConcatEmptySeq
    <3>7. (Chain(Heard(callback, pop, remains, arr), arr, Sound!FullOnes))'
            = Chain(Heard(callback, pop, remains, arr), arr, Sound!FullOnes)
      BY <1>2, <2>1, <2>4, <3>1, <3>2, <3>5, <3>6
    <3> QED BY <1>1, <1>2, <3>3, <3>7 DEF InOrder
  <2> QED BY <2>8, <2>9, <2>10, <2>12, <2>13 DEF BufferInv
<1> QED BY <1>3, <1>4

LEMMA PopHas == BufferInv /\ Sound!PopTook => BufferInv'
<1> SUFFICES ASSUME BufferInv, Sound!PopTook PROVE BufferInv' OBVIOUS
<1>1. /\ BufferTypes /\ ChunksHeld /\ ChunksFull /\ InOrder
      /\ Owned(Sound!FullOnes, Sound!FreeOnes, push, pop)
  BY DEF BufferInv
<1>2. /\ callback = "took" /\ full' = Sound!Taken(full) /\ callback' = "pop"
      /\ remains' = ChunkSize
      /\ UNCHANGED <<audioPc, left, push, pushed, arr, free, want, pop, accepted, played>>
  BY DEF Sound!PopTook, Sound!feeding, Sound!pushing, Sound!control, Sound!history
<1>3. /\ Ring(full') /\ full'.tail = full.tail /\ full'.item = full.item
      /\ Sound!Content(full') = Tail(Sound!Content(full))
  BY <1>1, <1>2, RingTaken DEF BufferTypes, ChunksHeld
<1>4. Sound!FreeOnes' = Sound!FreeOnes BY <1>2 DEF Sound!FreeOnes, Sound!Content
<1>5. Sound!FullOnes' = Sound!FullOnes
  <2>1. Sound!FullOnes = Tail(Sound!Content(full)) BY <1>2 DEF Sound!FullOnes
  <2>2. Sound!FullOnes' = Sound!Content(full') BY <1>2 DEF Sound!FullOnes
  <2> QED BY <1>3, <2>1, <2>2
<1>6. Owned(Sound!FullOnes, Sound!FreeOnes, push, pop)' BY <1>1, <1>2, <1>4, <1>5
<1>7. /\ pop \in 1 .. Chunks /\ pop # 0 /\ ChunkSize \in Nat \ {0}
      /\ arr[pop] \in Seq(Nat) /\ Len(arr[pop]) = ChunkSize
  BY <1>1, <1>2, InHand DEF BufferTypes, ChunksHeld, ChunksFull, Busy
<1>8. BufferTypes'
  <2>1. Ring(free)' BY <1>1, <1>2 DEF BufferTypes, Ring
  <2>2. ChunkSize \in 0 .. ChunkSize BY <1>7
  <2> QED BY <1>1, <1>2, <1>3, <2>1, <2>2 DEF BufferTypes
<1>9. ChunksHeld' BY <1>1, <1>2, <1>3 DEF ChunksHeld, Sound!Empty, Busy
<1>10. ChunksFull' BY <1>1, <1>2, <1>5, <1>7 DEF ChunksFull
<1>11. InOrder'
  <2>1. Heard(callback, pop, remains, arr) = arr[pop] BY <1>2 DEF Heard
  <2>2. Heard(callback, pop, remains, arr)' = arr[pop]
    <3>1. SubSeq(arr[pop], 1, Len(arr[pop])) = arr[pop] BY <1>7, SubSeqFull
    <3>2. ChunkSize - ChunkSize + 1 = 1 BY <1>7
    <3>3. Heard(callback, pop, remains, arr)' = SubSeq(arr[pop], ChunkSize - ChunkSize + 1, ChunkSize)
      BY <1>2, <1>7 DEF Heard
    <3> QED BY <1>7, <3>1, <3>2, <3>3
  <2>3. Fresh(audioPc, push, pushed, arr)' = Fresh(audioPc, push, pushed, arr) BY <1>2 DEF Fresh
  <2>4. (Chain(Heard(callback, pop, remains, arr), arr, Sound!FullOnes))'
          = Chain(Heard(callback, pop, remains, arr), arr, Sound!FullOnes)
    BY <1>2, <1>5, <2>1, <2>2
  <2> QED BY <1>1, <1>2, <2>3, <2>4 DEF InOrder
<1> QED BY <1>6, <1>8, <1>9, <1>10, <1>11 DEF BufferInv

LEMMA PopCopies == BufferInv /\ Sound!PopCopy => BufferInv'
<1> SUFFICES ASSUME BufferInv, Sound!PopCopy PROVE BufferInv' OBVIOUS
<1>1. /\ BufferTypes /\ ChunksHeld /\ ChunksFull /\ InOrder
      /\ Owned(Sound!FullOnes, Sound!FreeOnes, push, pop)
  BY DEF BufferInv
<1> DEFINE n == IF want < remains THEN want ELSE remains
           from == ChunkSize - remains
           x == SubSeq(arr[pop], from + 1, from + n)
           z == SubSeq(arr[pop], from + n + 1, ChunkSize)
<1>2. /\ callback = "pop" /\ pop # 0 /\ played' = played \o x
      /\ remains' = remains - n /\ want' = want - n
      /\ callback' = IF remains' = 0 THEN "give" ELSE "pop"
      /\ UNCHANGED <<audioPc, left, push, pushed, arr, full, free, pop, accepted>>
  BY DEF Sound!PopCopy, Sound!feeding, Sound!pushing, Sound!control, Sound!NoChunk
<1>3. /\ ChunkSize \in Nat \ {0} /\ remains \in 0 .. ChunkSize /\ want \in 0 .. Request
      /\ Request \in Nat /\ pop \in 1 .. Chunks
      /\ arr[pop] \in Seq(Nat) /\ Len(arr[pop]) = ChunkSize
  <2> HIDE DEF n, from, x, z
  <2>1. ChunkSize \in Nat \ {0} /\ Request \in Nat /\ Chunks \in Nat \ {0} BY AudioAssumption
  <2>2. remains \in 0 .. ChunkSize /\ want \in 0 .. Request BY <1>1 DEF BufferTypes
  <2>3. pop \in 0 .. Chunks /\ pop # 0 BY <1>1, <1>2 DEF BufferTypes
  <2>4. pop \in 1 .. Chunks BY <2>1, <2>3
  <2>5. Len(arr[pop]) = ChunkSize BY <1>1, <2>3 DEF ChunksFull
  <2>6. arr[pop] \in Seq(Nat) BY <1>1, <2>4, InHand
  <2> QED BY <2>1, <2>2, <2>4, <2>5, <2>6
<1>4. /\ n \in 0 .. remains /\ n <= want /\ remains - n \in 0 .. ChunkSize /\ want - n \in 0 .. Request
      /\ from \in 0 .. ChunkSize /\ from + n \in from .. ChunkSize /\ from + 1 \in 1 .. ChunkSize + 1
      /\ ChunkSize \in from + n .. ChunkSize /\ from \in (from + 1) - 1 .. ChunkSize
      /\ ChunkSize - (remains - n) = from + n /\ from + n \in (from + 1) - 1 .. ChunkSize
  BY <1>3
<1> HIDE DEF n, from
<1>5. x \in Seq(Nat) /\ z \in Seq(Nat)
  <2>1. \A i \in from + 1 .. from + n : i \in 1 .. Len(arr[pop]) BY <1>3, <1>4
  <2>2. \A i \in from + 1 .. from + n : arr[pop][i] \in Nat BY <1>3, <2>1, ElementOfSeq
  <2>3. \A i \in from + n + 1 .. ChunkSize : i \in 1 .. Len(arr[pop]) BY <1>3, <1>4
  <2>4. \A i \in from + n + 1 .. ChunkSize : arr[pop][i] \in Nat BY <1>3, <2>3, ElementOfSeq
  <2>5. from + 1 \in Int /\ from + n \in Int /\ from + n + 1 \in Int /\ ChunkSize \in Int
    BY <1>3, <1>4
  <2> QED BY <2>2, <2>4, <2>5, SubSeqProperties
<1>6. x \o z = SubSeq(arr[pop], from + 1, ChunkSize)
  <2> DEFINE s == arr[pop]
             m == from + 1
             k == from + n
             e == ChunkSize
  <2>1. s \in Seq(Nat) /\ m \in 1 .. Len(s) + 1 /\ k \in m - 1 .. Len(s) /\ e \in k .. Len(s)
    BY <1>3, <1>4
  <2> HIDE DEF s, m, k, e
  <2>2. SubSeq(s, m, k) \o SubSeq(s, k + 1, e) = SubSeq(s, m, e) BY <2>1, ConcatAdjacentSubSeq
  <2> QED BY <2>2 DEF s, m, k, e
<1> HIDE DEF x, z
<1>7. Heard(callback, pop, remains, arr) = x \o z
  <2>1. CASE remains = 0
    <3>1. from = ChunkSize BY <1>3, <2>1 DEF from
    <3>2. SubSeq(arr[pop], from + 1, ChunkSize) = << >>
      <4>1. ChunkSize < from + 1 /\ from + 1 \in Int /\ ChunkSize \in Int BY <1>3, <3>1
      <4> QED BY <4>1, SubSeqEmpty
    <3> QED BY <1>2, <1>6, <2>1, <3>2 DEF Heard
  <2>2. CASE remains # 0
    <3>1. Heard(callback, pop, remains, arr) = SubSeq(arr[pop], ChunkSize - remains + 1, ChunkSize)
      BY <1>2, <2>2 DEF Heard
    <3> QED BY <1>6, <3>1 DEF from
  <2> QED BY <2>1, <2>2
<1>8. Heard(callback, pop, remains, arr)' = z
  <2>1. callback' \in {"give", "pop"} BY <1>2
  <2>2. CASE remains' = 0
    <3>1. from + n = ChunkSize BY <1>2, <1>3, <1>4, <2>2
    <3>2. SubSeq(arr[pop], from + n + 1, ChunkSize) = << >>
      <4>1. ChunkSize < from + n + 1 /\ from + n + 1 \in Int /\ ChunkSize \in Int BY <1>3, <3>1
      <4> QED BY <4>1, SubSeqEmpty
    <3> QED BY <1>2, <2>1, <2>2, <3>2 DEF Heard, z
  <2>3. CASE remains' # 0
    <3>1. Heard(callback, pop, remains, arr)'
            = SubSeq(arr[pop], ChunkSize - (remains - n) + 1, ChunkSize)
      BY <1>2, <2>1, <2>3 DEF Heard
    <3> QED BY <1>4, <3>1 DEF z
  <2> QED BY <2>2, <2>3
<1> DEFINE F == Sound!FullOnes
<1>9. Sound!FullOnes' = F /\ Sound!FreeOnes' = Sound!FreeOnes
  <2>1. callback' # "took" BY <1>2
  <2> QED BY <1>2, <2>1 DEF Sound!FullOnes, Sound!FreeOnes, Sound!Content
<1>10. Owned(Sound!FullOnes, Sound!FreeOnes, push, pop)' BY <1>1, <1>2, <1>9
<1>11. BufferTypes'
  <2>1. Ring(full)' /\ Ring(free)' BY <1>1, <1>2 DEF BufferTypes, Ring
  <2>2. played' \in Seq(Nat) BY <1>1, <1>2, <1>5, ConcatProperties DEF BufferTypes
  <2>3. callback' \in {"give", "pop"} BY <1>2
  <2> QED BY <1>1, <1>2, <1>4, <2>1, <2>2, <2>3 DEF BufferTypes, Busy
<1>12. ChunksHeld'
  <2>1. callback' \in {"give", "pop"} BY <1>2
  <2> QED BY <1>1, <1>2, <2>1 DEF ChunksHeld, Sound!Empty, Busy
<1>13. ChunksFull'
  <2>1. callback' \in {"give", "gave"} => remains' = 0 BY <1>2
  <2> QED BY <1>1, <1>2, <1>9, <2>1 DEF ChunksFull
<1>14. InOrder'
  <2> DEFINE fr == Fresh(audioPc, push, pushed, arr)
             ch == Chain(z, arr, F)
  <2>1. F \in Seq(1 .. Chunks) /\ fr \in Seq(Nat) /\ arr \in Memory /\ played \in Seq(Nat)
    BY <1>1, QueuesAre, InHand DEF BufferTypes
  <2>2. Fresh(audioPc, push, pushed, arr)' = fr BY <1>2 DEF Fresh
  <2>3. ch \in Seq(Nat) /\ Chain(x \o z, arr, F) = x \o ch
    <3>1. PICK b : b = arr OBVIOUS
    <3>2. PICK g : g = F OBVIOUS
    <3>3. b \in Memory /\ g \in Seq(1 .. Chunks) BY <2>1, <3>1, <3>2
    <3>4. Chain(z, b, g) \in Seq(Nat) /\ Chain(x \o z, b, g) = x \o Chain(z, b, g)
      BY <1>5, <3>3, ChainBehind
    <3> QED BY <3>1, <3>2, <3>4
  <2>4. played \o (Chain(x \o z, arr, F) \o fr) = accepted BY <1>1, <1>7 DEF InOrder
  <2>5. (Chain(Heard(callback, pop, remains, arr), arr, Sound!FullOnes))' = ch
    BY <1>2, <1>8, <1>9
  <2> HIDE DEF ch, fr
  <2>6. (x \o ch) \o fr = x \o (ch \o fr) BY <1>5, <2>1, <2>3, Regroup
  <2>7. (played \o x) \o (ch \o fr) = played \o (x \o (ch \o fr))
    <3> DEFINE y == ch \o fr
    <3>1. y \in Seq(Nat) BY <2>1, <2>3, ConcatProperties
    <3>2. PICK p : p = played OBVIOUS
    <3> HIDE DEF y
    <3>3. (p \o x) \o y = p \o (x \o y) BY <1>5, <2>1, <3>1, <3>2, Regroup
    <3> QED BY <3>2, <3>3 DEF y
  <2>8. (played \o x) \o (ch \o fr) = accepted BY <2>3, <2>4, <2>6, <2>7
  <2> QED BY <1>2, <2>2, <2>5, <2>8 DEF InOrder
<1> QED BY <1>10, <1>11, <1>12, <1>13, <1>14 DEF BufferInv

LEMMA PopGives == BufferInv /\ Sound!PopGive => BufferInv'
<1> SUFFICES ASSUME BufferInv, Sound!PopGive PROVE BufferInv' OBVIOUS
<1>1. /\ BufferTypes /\ ChunksHeld /\ ChunksFull /\ InOrder
      /\ Owned(Sound!FullOnes, Sound!FreeOnes, push, pop)
  BY DEF BufferInv
<1>2. /\ callback = "give" /\ free' = Sound!Put(free, pop) /\ callback' = "gave"
      /\ UNCHANGED <<audioPc, left, push, pushed, arr, full, want, pop, remains, accepted, played>>
  BY DEF Sound!PopGive, Sound!feeding, Sound!pushing, Sound!control, Sound!history
<1>3. /\ Ring(free') /\ free'.head = free.head /\ free'.tail = free.tail
      /\ free'.item[free.tail] = pop /\ Sound!Content(free') = Sound!Content(free)
  <2>1. Ring(free) /\ pop \in 0 .. Chunks BY <1>1 DEF BufferTypes
  <2> QED BY <1>2, <2>1, RingPut
<1>4. Sound!FreeOnes' = Sound!FreeOnes
  <2>1. Sound!FreeOnes = IF audioPc = "took" THEN Tail(Sound!Content(free)) ELSE Sound!Content(free)
    BY DEF Sound!FreeOnes
  <2>2. Sound!FreeOnes' = IF audioPc = "took" THEN Tail(Sound!Content(free')) ELSE Sound!Content(free')
    BY <1>2 DEF Sound!FreeOnes
  <2> QED BY <1>3, <2>1, <2>2
<1>5. Sound!FullOnes' = Sound!FullOnes BY <1>2 DEF Sound!FullOnes, Sound!Content
<1>6. Owned(Sound!FullOnes, Sound!FreeOnes, push, pop)' BY <1>1, <1>2, <1>4, <1>5
<1>7. BufferTypes'
  <2>1. Ring(full)' BY <1>1, <1>2 DEF BufferTypes, Ring
  <2> QED BY <1>1, <1>2, <1>3, <2>1 DEF BufferTypes, Busy
<1>8. ChunksHeld' BY <1>1, <1>2, <1>3 DEF ChunksHeld, Sound!Empty, Busy
<1>9. ChunksFull' BY <1>1, <1>2, <1>5 DEF ChunksFull
<1>10. InOrder'
  <2>1. remains = 0 BY <1>1, <1>2 DEF ChunksFull
  <2>2. Heard(callback, pop, remains, arr)' = Heard(callback, pop, remains, arr)
    BY <1>2, <2>1 DEF Heard
  <2>3. Fresh(audioPc, push, pushed, arr)' = Fresh(audioPc, push, pushed, arr) BY <1>2 DEF Fresh
  <2>4. (Chain(Heard(callback, pop, remains, arr), arr, Sound!FullOnes))'
          = Chain(Heard(callback, pop, remains, arr), arr, Sound!FullOnes)
    BY <1>2, <1>5, <2>2
  <2> QED BY <1>1, <1>2, <2>3, <2>4 DEF InOrder
<1> QED BY <1>6, <1>7, <1>8, <1>9, <1>10 DEF BufferInv

LEMMA PopShows == BufferInv /\ Sound!PopGave => BufferInv'
<1> SUFFICES ASSUME BufferInv, Sound!PopGave PROVE BufferInv' OBVIOUS
<1>1. /\ BufferTypes /\ ChunksHeld /\ ChunksFull /\ InOrder
      /\ Owned(Sound!FullOnes, Sound!FreeOnes, push, pop)
  BY DEF BufferInv
<1>2. /\ callback = "gave" /\ free' = Sound!Shown(free) /\ pop' = 0 /\ callback' = "pop"
      /\ UNCHANGED <<audioPc, left, push, pushed, arr, full, want, remains, accepted, played>>
  BY DEF Sound!PopGave, Sound!feeding, Sound!pushing, Sound!control, Sound!history, Sound!NoChunk
<1> DEFINE D == Sound!Content(free)
           E == Sound!FreeOnes
<1>3. /\ pop \in 0 .. Chunks /\ pop # 0 /\ free.item[free.tail] = pop /\ Ring(free) /\ Len(D) < Chunks
      /\ Chunks \in Nat /\ D \in Seq(0 .. Chunks)
  <2>1. /\ pop # 0 /\ pop \in 0 .. Chunks /\ free.item[free.tail] = pop /\ Ring(free)
        /\ Chunks \in Nat
    BY <1>1, <1>2, AudioAssumption DEF BufferTypes, ChunksHeld, Busy
  <2> QED BY <2>1, QueuesAre, RingContent
<1>4. /\ Ring(free') /\ free'.head = free.head /\ free'.item = free.item
      /\ Sound!Content(free') = Append(D, pop)
  BY <1>2, <1>3, RingShown
<1>5. /\ E \in Seq(0 .. Chunks)
      /\ audioPc = "took" => D # << >>
      /\ E = IF audioPc = "took" THEN Tail(D) ELSE D
  BY QueuesAre DEF Sound!FreeOnes
<1>6. Sound!FreeOnes' = IF audioPc = "took" THEN Tail(Append(D, pop)) ELSE Append(D, pop)
  <2>1. Sound!FreeOnes' = IF audioPc = "took" THEN Tail(Sound!Content(free')) ELSE Sound!Content(free')
    BY <1>2 DEF Sound!FreeOnes
  <2> QED BY <1>4, <2>1
<1> HIDE DEF D, E
<1>7. Sound!FreeOnes' = Append(E, pop)
  <2>1. CASE audioPc = "took"
    <3> DEFINE S == 0 .. Chunks
    <3>1. PICK c : c = pop OBVIOUS
    <3>2. D \in Seq(S) /\ D # << >> /\ c \in S BY <1>3, <1>5, <2>1, <3>1
    <3> HIDE DEF S
    <3>3. Tail(Append(D, c)) = Append(Tail(D), c) BY <3>2, TailAppend
    <3> QED BY <1>5, <1>6, <2>1, <3>1, <3>3
  <2>2. CASE audioPc # "took" BY <1>5, <1>6, <2>2
  <2> QED BY <2>1, <2>2
<1>8. Sound!FullOnes' = Sound!FullOnes BY <1>2 DEF Sound!FullOnes, Sound!Content
<1>9. /\ Len(Append(E, pop)) = Len(E) + 1 /\ Len(E) \in Nat
      /\ OutSet(Append(E, pop)) = OutSet(E) \cup {pop}
  <2> DEFINE S == 0 .. Chunks
  <2>1. PICK c : c = pop OBVIOUS
  <2>2. E \in Seq(S) /\ c \in S BY <1>3, <1>5, <2>1
  <2> HIDE DEF S
  <2>3. /\ Len(Append(E, c)) = Len(E) + 1 /\ Len(E) \in Nat
        /\ OutSet(Append(E, c)) = OutSet(E) \cup {c}
    BY <2>2, AppendOf
  <2> QED BY <2>1, <2>3
<1>10. Owned(Sound!FullOnes, Append(E, pop), push, 0)
  <2>1. Owned(Sound!FullOnes, E, push, pop) BY <1>1 DEF E
  <2>2. One(pop) = 1 /\ One(0) = 0 /\ Hand(pop) = {pop} /\ Hand(0) = {} BY <1>3 DEF One, Hand
  <2>3. Len(Sound!FullOnes) \in Nat /\ One(push) \in Nat BY QueuesAre, LenProperties DEF One
  <2>4. Len(Sound!FullOnes) + Len(E) + One(push) + 1 = Chunks BY <2>1, <2>2 DEF Owned
  <2>5. Len(Sound!FullOnes) + Len(Append(E, pop)) + One(push) + 0 = Chunks BY <1>9, <2>3, <2>4
  <2>6. OutSet(Sound!FullOnes) \cup OutSet(Append(E, pop)) \cup Hand(push) \cup Hand(0) = 1 .. Chunks
    BY <1>9, <2>1, <2>2 DEF Owned
  <2> QED BY <2>2, <2>5, <2>6 DEF Owned
<1>11. Owned(Sound!FullOnes, Sound!FreeOnes, push, pop)' BY <1>2, <1>7, <1>8, <1>10
<1>12. BufferTypes'
  <2>1. Ring(full)' BY <1>1, <1>2 DEF BufferTypes, Ring
  <2>2. 0 \in 0 .. Chunks BY <1>3
  <2> QED BY <1>1, <1>2, <1>4, <2>1, <2>2 DEF BufferTypes
<1>13. ChunksHeld'
  <2>1. audioPc = "took" => ~Sound!Empty(free')
    <3> SUFFICES ASSUME audioPc = "took" PROVE ~Sound!Empty(free') OBVIOUS
    <3>1. Append(D, pop) # << >> BY <1>3, AppendProperties
    <3> QED BY <1>4, <3>1, RingContent
  <2>2. callback' \notin Busy /\ callback' # "took" /\ callback' # "gave" BY <1>2 DEF Busy
  <2>3. audioPc' = "took" => ~Sound!Empty(free)' BY <1>2, <2>1
  <2>4. audioPc' = "gave" => full'.item[full'.tail] = push' BY <1>1, <1>2 DEF ChunksHeld
  <2>5. audioPc' \in Busy => push' # 0 BY <1>1, <1>2 DEF ChunksHeld
  <2> QED BY <2>2, <2>3, <2>4, <2>5 DEF ChunksHeld
<1>14. ChunksFull' BY <1>1, <1>2, <1>8 DEF ChunksFull
<1>15. InOrder'
  <2>1. Heard(callback, pop, remains, arr) = << >> BY <1>2, <1>3 DEF Heard
  <2>2. Heard(callback, pop, remains, arr)' = << >> BY <1>2 DEF Heard
  <2>3. Fresh(audioPc, push, pushed, arr)' = Fresh(audioPc, push, pushed, arr) BY <1>2 DEF Fresh
  <2>4. (Chain(Heard(callback, pop, remains, arr), arr, Sound!FullOnes))'
          = Chain(Heard(callback, pop, remains, arr), arr, Sound!FullOnes)
    BY <1>2, <1>8, <2>1, <2>2
  <2> QED BY <1>1, <1>2, <2>3, <2>4 DEF InOrder
<1> QED BY <1>11, <1>12, <1>13, <1>14, <1>15 DEF BufferInv
-----------------------------------------------------------------------------
LEMMA SamplesAre ==
  ASSUME NEW f \in 0 .. Sounds + 1
  PROVE  Sound!Samples(f) \in Seq(Nat)
<1>1. FrameSize \in Nat /\ Sounds \in Nat BY AudioAssumption
<1>2. CASE f \in 1 .. Sounds
  <2> DEFINE s == [i \in 1 .. FrameSize |-> (f - 1) * FrameSize + i]
  <2>1. Sound!Samples(f) = s BY <1>2 DEF Sound!Samples
  <2>2. ASSUME NEW i \in 1 .. FrameSize PROVE (f - 1) * FrameSize + i \in Nat
    <3>1. f - 1 \in Nat BY <1>1, <1>2
    <3>2. PICK g \in Nat : g = f - 1 BY <3>1
    <3>3. g * FrameSize \in Nat BY <1>1, <3>2
    <3>4. PICK p \in Nat : p = g * FrameSize BY <3>3
    <3>5. p + i \in Nat BY <1>1, <3>4
    <3> QED BY <3>2, <3>4, <3>5
  <2>3. s \in [1 .. FrameSize -> Nat] BY <2>2
  <2> HIDE DEF s
  <2>4. s \in Seq(Nat) BY <1>1, <2>3, SeqDef
  <2> QED BY <2>1, <2>4
<1>3. CASE f \notin 1 .. Sounds
  <2>1. Sound!Samples(f) = << >> BY <1>3 DEF Sound!Samples
  <2> QED BY <2>1
<1> QED BY <1>2, <1>3

\* One more frame for the codec.
LEMMA Fed ==
  ASSUME FeedTypes, Len(audioInside) < In, NEW f \in 0 .. Sounds + 1,
         audioInside' = Append(audioInside, f)
  PROVE  audioInside' \in Seq(0 .. Sounds + 1) /\ Len(audioInside') <= In
<1> DEFINE S == 0 .. Sounds + 1
<1>1. audioInside \in Seq(S) /\ f \in S /\ In \in Nat BY AudioAssumption DEF FeedTypes
<1> HIDE DEF S
<1>2. PICK s : s = audioInside OBVIOUS
<1>3. Append(s, f) \in Seq(S) /\ Len(Append(s, f)) = Len(s) + 1 /\ Len(s) \in Nat
  BY <1>1, <1>2, AppendOf
<1>4. Len(s) + 1 <= In BY <1>1, <1>2, <1>3
<1> QED BY <1>2, <1>3, <1>4 DEF S

LEMMA QueuedFits ==
  ASSUME FeedTypes, NEW f \in 0 .. Sounds + 1, Sound!Queued(f)
  PROVE  audioInside' \in Seq(0 .. Sounds + 1) /\ Len(audioInside') <= In /\ depth' \in Nat
<1>1. CASE Len(audioInside) < In
  <2>1. audioInside' = Append(audioInside, f) /\ UNCHANGED depth BY <1>1 DEF Sound!Queued
  <2>2. audioInside' \in Seq(0 .. Sounds + 1) /\ Len(audioInside') <= In BY <1>1, <2>1, Fed
  <2> QED BY <2>1, <2>2 DEF FeedTypes
<1>2. CASE ~(Len(audioInside) < In)
  <2>1. UNCHANGED audioInside /\ depth' = depth + 1 BY <1>2 DEF Sound!Queued, Sound!Refused
  <2>2. depth \in Nat /\ audioInside \in Seq(0 .. Sounds + 1) /\ Len(audioInside) <= In BY DEF FeedTypes
  <2>3. depth + 1 \in Nat BY <2>2
  <2> QED BY <2>1, <2>2, <2>3
<1> QED BY <1>1, <1>2

(* The feeding of the codec and the freeing of all: what the buffer does    *)
(* matters only for when its threads have let go of it.                     *)
LEMMA FeedNext == SoundInv /\ [Sound!Next]_(Sound!vars) => FeedInv'
<1> SUFFICES ASSUME SoundInv, [Sound!Next]_(Sound!vars) PROVE FeedInv' OBVIOUS
<1> USE DEF Sound!pushing, Sound!popping, Sound!control, Sound!history
<1>a. FeedTypes /\ LettingGo /\ FeedInv BY DEF SoundInv, FeedInv
<1>b. /\ Heads \in Nat /\ Sounds \in Nat /\ In \in Nat /\ Headers \in Nat /\ Switches \in Nat
      /\ 0 \in 0 .. Sounds + 1 /\ Sounds + 1 \in 0 .. Sounds + 1
  BY AudioAssumption
<1>c. << >> \in Seq(0 .. Sounds + 1) /\ Len(<< >>) <= In BY <1>b
<1>1. CASE Sound!Header
  <2>1. headers + 1 \in 0 .. Headers BY <1>a, <1>b, <1>1 DEF Sound!Header, FeedTypes
  <2>2. FeedTypes' BY <1>a, <1>1, <2>1 DEF Sound!Header, FeedTypes
  <2>3. LettingGo' BY <1>a, <1>1 DEF Sound!Header, FeedTypes, LettingGo
  <2> QED BY <2>2, <2>3 DEF FeedInv
<1>2. CASE Sound!HeaderShut
  <2>1. audioInside' \in Seq(0 .. Sounds + 1) /\ Len(audioInside') <= In
    <3>1. CASE Len(audioInside) < In /\ audioInside' = Append(audioInside, 0)
      BY <1>a, <1>b, <3>1, Fed
    <3>2. CASE audioInside' = audioInside BY <1>a, <3>2 DEF FeedTypes
    <3> QED BY <1>2, <3>1, <3>2 DEF Sound!HeaderShut, Sound!EndOfStream
  <2>2. FeedTypes' BY <1>a, <1>2, <2>1 DEF Sound!HeaderShut, FeedTypes
  <2>3. LettingGo' BY <1>a, <1>2 DEF Sound!HeaderShut, FeedTypes, LettingGo
  <2> QED BY <2>2, <2>3 DEF FeedInv
<1>3. CASE Sound!HeaderJoin
  <2>2. FeedTypes' BY <1>a, <1>c, <1>3 DEF Sound!HeaderJoin, FeedTypes
  <2>3. LettingGo' BY <1>a, <1>3 DEF Sound!HeaderJoin, FeedTypes, LettingGo
  <2> QED BY <2>2, <2>3 DEF FeedInv
<1>4. CASE Sound!HeaderCreate
  <2>1. Heads \in 0 .. Heads BY <1>b
  <2>2. FeedTypes' BY <1>a, <1>4, <2>1 DEF Sound!HeaderCreate, FeedTypes
  <2>3. LettingGo' BY <1>a, <1>4 DEF Sound!HeaderCreate, FeedTypes, LettingGo
  <2> QED BY <2>2, <2>3 DEF FeedInv
<1>5. CASE Sound!HeaderConfigure
  <2>1. tpc' \in {"settings", tpc} /\ tpc = "configure"
        /\ UNCHANGED <<audioCodec, audioFed, headers, audioPc, callback, open, cached, freeing, switches>>
    BY <1>5 DEF Sound!HeaderConfigure
  <2>2. todo' \in 0 .. Heads
    <3>1. todo \in 0 .. Heads BY <1>a DEF FeedTypes
    <3>2. todo' = todo \/ (todo # 0 /\ todo' = todo - 1) BY <1>5 DEF Sound!HeaderConfigure
    <3> QED BY <1>b, <3>1, <3>2
  <2>3. audioInside' \in Seq(0 .. Sounds + 1) /\ Len(audioInside') <= In /\ depth' \in Nat
    <3>1. CASE todo = 0 BY <1>a, <1>5, <3>1 DEF Sound!HeaderConfigure, FeedTypes
    <3>2. CASE todo # 0
      <4>1. Sound!Queued(Sounds + 1) BY <1>5, <3>2 DEF Sound!HeaderConfigure, Sound!Configuration
      <4> QED BY <1>a, <1>b, <4>1, QueuedFits
    <3> QED BY <3>1, <3>2
  <2>4. FeedTypes' BY <1>a, <2>1, <2>2, <2>3 DEF FeedTypes
  <2>5. LettingGo' BY <1>a, <2>1 DEF LettingGo
  <2> QED BY <2>4, <2>5 DEF FeedInv
<1>6. CASE Sound!HeaderSettings
  <2>2. FeedTypes' BY <1>a, <1>6 DEF Sound!HeaderSettings, FeedTypes
  <2>3. LettingGo' BY <1>a, <1>6 DEF Sound!HeaderSettings, FeedTypes, LettingGo
  <2> QED BY <2>2, <2>3 DEF FeedInv
<1>7. CASE Sound!Frame
  <2>1. audioFed' \in 0 .. Sounds /\ audioFed' \in 0 .. Sounds + 1
    BY <1>a, <1>b, <1>7 DEF Sound!Frame, FeedTypes
  <2>2. audioInside' \in Seq(0 .. Sounds + 1) /\ Len(audioInside') <= In /\ depth' \in Nat
    <3>1. CASE audioCodec
      <4>1. Sound!Queued(audioFed') BY <1>7, <3>1 DEF Sound!Frame
      <4>2. PICK f \in 0 .. Sounds + 1 : f = audioFed' BY <2>1
      <4> QED BY <1>a, <4>1, <4>2, QueuedFits
    <3>2. CASE ~audioCodec BY <1>a, <1>7, <3>2 DEF Sound!Frame, FeedTypes
    <3> QED BY <3>1, <3>2
  <2>3. FeedTypes' BY <1>a, <1>7, <2>1, <2>2 DEF Sound!Frame, FeedTypes
  <2>4. LettingGo' BY <1>a, <1>7 DEF Sound!Frame, LettingGo
  <2> QED BY <2>3, <2>4 DEF FeedInv
<1>8. CASE Sound!StreamEnds
  <2>2. FeedTypes' BY <1>a, <1>8 DEF Sound!StreamEnds, FeedTypes
  <2>3. LettingGo' BY <1>a, <1>8 DEF Sound!StreamEnds, LettingGo
  <2> QED BY <2>2, <2>3 DEF FeedInv
<1>9. CASE Sound!Output
  <2>1. Tail(audioInside) \in Seq(0 .. Sounds + 1) /\ Len(Tail(audioInside)) <= In
    <3> DEFINE S == 0 .. Sounds + 1
    <3>1. PICK s : s = audioInside OBVIOUS
    <3>2. s \in Seq(S) /\ s # << >> /\ Len(s) <= In BY <1>a, <1>9, <3>1 DEF Sound!Output, FeedTypes
    <3> HIDE DEF S
    <3>3. Tail(s) \in Seq(S) /\ Len(Tail(s)) = Len(s) - 1 /\ Len(s) \in Nat
      BY <3>2, HeadTailProperties, LenProperties
    <3>4. Len(Tail(s)) <= In BY <1>b, <3>2, <3>3
    <3> QED BY <3>1, <3>3, <3>4 DEF S
  <2>2. FeedTypes' BY <1>a, <1>9, <2>1 DEF Sound!Output, FeedTypes
  <2>3. LettingGo' BY <1>a, <1>9 DEF Sound!Output, LettingGo
  <2> QED BY <2>2, <2>3 DEF FeedInv
<1>10. CASE Sound!PushTake \/ Sound!PushTook \/ Sound!PushCopy \/ Sound!PushGive \/ Sound!PushGave
            \/ Sound!PushEnd
  <2>1. /\ audioPc # "off"
        /\ UNCHANGED <<audioCodec, tpc, depth, todo, audioFed, headers, audioInside, callback,
                       open, cached, freeing, switches>>
    BY <1>10 DEF Sound!PushTake, Sound!PushTook, Sound!PushCopy, Sound!PushGive, Sound!PushGave,
                 Sound!PushEnd, Sound!feeding
  <2>2. FeedTypes' BY <1>a, <2>1 DEF FeedTypes
  <2>3. LettingGo' BY <1>a, <2>1 DEF LettingGo
  <2> QED BY <2>2, <2>3 DEF FeedInv
<1>11. CASE Sound!Ready \/ Sound!Callback
  <2>1. /\ callback # "idle" \/ open
        /\ UNCHANGED <<audioCodec, tpc, depth, todo, audioFed, headers, audioInside, audioPc,
                       open, cached, freeing, switches>>
    BY <1>11 DEF Sound!Ready, Sound!Callback, Sound!PopTake, Sound!PopTook, Sound!PopCopy,
                 Sound!PopGive, Sound!PopGave, Sound!PopEnd, Sound!feeding
  <2>2. FeedTypes' BY <1>a, <2>1 DEF FeedTypes
  <2>3. LettingGo' BY <1>a, <2>1 DEF LettingGo
  <2> QED BY <2>2, <2>3 DEF FeedInv
<1>12. CASE Sound!SetDevice
  <2>1. switches' \in 0 .. Switches BY <1>a, <1>b, <1>12 DEF Sound!SetDevice, FeedTypes
  <2>2. /\ freeing = "idle" /\ open' \in BOOLEAN
        /\ UNCHANGED <<audioCodec, tpc, depth, todo, audioFed, headers, audioInside, audioPc,
                       callback, cached, freeing>>
    BY <1>a, <1>12 DEF Sound!SetDevice, Sound!feeding, FeedTypes
  <2>3. FeedTypes' BY <1>a, <2>1, <2>2 DEF FeedTypes
  <2>4. LettingGo' BY <1>a, <2>2 DEF LettingGo
  <2> QED BY <2>3, <2>4 DEF FeedInv
<1>13. CASE Sound!Fini
  <2>2. FeedTypes' BY <1>a, <1>13 DEF Sound!Fini, Sound!feeding, FeedTypes
  <2>3. LettingGo' BY <1>a, <1>13 DEF Sound!Fini, Sound!feeding, FeedTypes, LettingGo
  <2> QED BY <2>2, <2>3 DEF FeedInv
<1>14. CASE Sound!FiniShut
  <2>1. audioInside' \in Seq(0 .. Sounds + 1) /\ Len(audioInside') <= In
    <3>1. CASE Len(audioInside) < In /\ audioInside' = Append(audioInside, 0)
      BY <1>a, <1>b, <3>1, Fed
    <3>2. CASE audioInside' = audioInside BY <1>a, <3>2 DEF FeedTypes
    <3> QED BY <1>14, <3>1, <3>2 DEF Sound!FiniShut, Sound!EndOfStream
  <2>2. FeedTypes' BY <1>a, <1>14, <2>1 DEF Sound!FiniShut, FeedTypes
  <2>3. LettingGo' BY <1>a, <1>14 DEF Sound!FiniShut, LettingGo
  <2> QED BY <2>2, <2>3 DEF FeedInv
<1>15. CASE Sound!FiniJoin
  <2>2. FeedTypes' BY <1>a, <1>c, <1>15 DEF Sound!FiniJoin, FeedTypes
  <2>3. LettingGo' BY <1>a, <1>15 DEF Sound!FiniJoin, LettingGo
  <2> QED BY <2>2, <2>3 DEF FeedInv
<1>16. CASE Sound!FiniFree
  <2>2. FeedTypes' BY <1>a, <1>16 DEF Sound!FiniFree, Sound!feeding, FeedTypes
  <2>3. LettingGo' BY <1>a, <1>16 DEF Sound!FiniFree, Sound!feeding, LettingGo
  <2> QED BY <2>2, <2>3 DEF FeedInv
<1>17. CASE UNCHANGED Sound!vars
  <2>1. UNCHANGED <<audioCodec, tpc, depth, todo, audioFed, headers, audioInside, audioPc,
                    callback, open, cached, freeing, switches>>
    BY <1>17 DEF Sound!vars, Sound!feeding
  <2>2. FeedTypes' BY <1>a, <2>1 DEF FeedTypes
  <2>3. LettingGo' BY <1>a, <2>1 DEF LettingGo
  <2> QED BY <2>2, <2>3 DEF FeedInv
<1> QED BY <1>1, <1>2, <1>3, <1>4, <1>5, <1>6, <1>7, <1>8, <1>9, <1>10, <1>11, <1>12, <1>13,
           <1>14, <1>15, <1>16, <1>17
        DEF Sound!Next, Sound!Feeding, Sound!OutputThread, Sound!Freeing

LEMMA SoundNext == SoundInv /\ [Sound!Next]_(Sound!vars) => SoundInv'
<1> SUFFICES ASSUME SoundInv, [Sound!Next]_(Sound!vars) PROVE SoundInv' OBVIOUS
<1>a. FeedInv' BY FeedNext
<1>b. BufferInv /\ BufferTypes /\ FeedTypes /\ LettingGo
  BY DEF SoundInv, BufferInv, FeedInv
<1> SUFFICES BufferInv' BY <1>a DEF SoundInv
<1>c. left \in Seq(Nat) /\ want \in 0 .. Request /\ Request \in 0 .. Request
  BY <1>b, AudioAssumption DEF BufferTypes
<1>1. CASE \/ Sound!Header \/ Sound!Feeding \/ Sound!Frame \/ Sound!StreamEnds
           \/ Sound!SetDevice \/ Sound!Fini \/ Sound!Freeing \/ UNCHANGED Sound!vars
  <2>1. /\ UNCHANGED <<left, want, callback, push, pushed, arr, full, free, pop, remains, accepted,
                       played>>
        /\ audioPc' = audioPc \/ {audioPc, audioPc'} \subseteq {"off", "wait", "push", "done"}
    <3>1. CASE Sound!HeaderJoin BY <3>1 DEF Sound!HeaderJoin, Sound!popping, Sound!history
    <3>2. CASE Sound!FiniJoin BY <3>2 DEF Sound!FiniJoin, Sound!popping, Sound!history
    <3>3. CASE Sound!HeaderCreate
      <4>1. audioPc = "off" BY <1>b, <3>3 DEF Sound!HeaderCreate, LettingGo
      <4> QED BY <3>3, <4>1 DEF Sound!HeaderCreate, Sound!popping, Sound!history
    <3>4. CASE \/ Sound!Header \/ Sound!HeaderShut \/ Sound!HeaderConfigure
               \/ Sound!HeaderSettings \/ Sound!Frame \/ Sound!StreamEnds
      BY <3>4 DEF Sound!Header, Sound!HeaderShut, Sound!HeaderConfigure, Sound!HeaderSettings,
                  Sound!Frame, Sound!StreamEnds, Sound!pushing, Sound!popping, Sound!history
    <3>5. CASE \/ Sound!SetDevice \/ Sound!Fini \/ Sound!FiniShut \/ Sound!FiniFree
               \/ UNCHANGED Sound!vars
      BY <3>5 DEF Sound!SetDevice, Sound!Fini, Sound!FiniShut, Sound!FiniFree, Sound!vars,
                  Sound!pushing, Sound!popping, Sound!history
    <3> QED BY <1>1, <3>1, <3>2, <3>3, <3>4, <3>5 DEF Sound!Feeding, Sound!Freeing
  <2>2. Calm BY <1>c, <2>1 DEF Calm
  <2> QED BY <1>b, <2>2, CalmNext
<1>2. CASE Sound!Output
  <2>1. /\ UNCHANGED <<want, callback, push, pushed, arr, full, free, pop, remains, accepted, played>>
        /\ {audioPc, audioPc'} \subseteq {"off", "wait", "push", "done"}
        /\ left' = Sound!Samples(Head(audioInside)) /\ audioInside # << >>
    BY <1>2 DEF Sound!Output, Sound!popping, Sound!history
  <2>2. left' \in Seq(Nat)
    <3> DEFINE S == 0 .. Sounds + 1
    <3>1. audioInside \in Seq(S) BY <1>b DEF FeedTypes
    <3>2. PICK s : s = audioInside OBVIOUS
    <3> HIDE DEF S
    <3>3. Head(s) \in S BY <2>1, <3>1, <3>2, HeadTailProperties
    <3>4. Sound!Samples(Head(s)) \in Seq(Nat) BY <3>3, SamplesAre DEF S
    <3> QED BY <2>1, <3>2, <3>4
  <2>3. Calm BY <1>c, <2>1, <2>2 DEF Calm
  <2> QED BY <1>b, <2>3, CalmNext
<1>3. CASE Sound!PushEnd \/ Sound!Ready \/ Sound!PopEnd
  <2>1. /\ UNCHANGED <<left, push, pushed, arr, full, free, pop, remains, accepted, played>>
        /\ want' \in {want, Request}
        /\ audioPc' = audioPc \/ {audioPc, audioPc'} \subseteq {"off", "wait", "push", "done"}
        /\ callback' = callback \/ {callback, callback'} \subseteq {"idle", "pop"}
    BY <1>3 DEF Sound!PushEnd, Sound!Ready, Sound!PopEnd, Sound!pushing, Sound!popping, Sound!history
  <2>2. Calm BY <1>c, <2>1 DEF Calm
  <2> QED BY <1>b, <2>2, CalmNext
<1>4. CASE \/ Sound!PushTake \/ Sound!PushTook \/ Sound!PushCopy \/ Sound!PushGive \/ Sound!PushGave
  BY <1>b, <1>4, PushTakes, PushHas, PushCopies, PushGives, PushShows
<1>5. CASE \/ Sound!PopTake \/ Sound!PopTook \/ Sound!PopCopy \/ Sound!PopGive \/ Sound!PopGave
  BY <1>b, <1>5, PopTakes, PopHas, PopCopies, PopGives, PopShows
<1> QED BY <1>1, <1>2, <1>3, <1>4, <1>5 DEF Sound!Next, Sound!OutputThread, Sound!Callback

-----------------------------------------------------------------------------
(* All of them: what a behaviour is not about does not change.              *)
MediaInv ==
  /\ part \in {"packets", "delivery", "decoder", "sound", "page"}
  /\ ReceiveInv /\ DeliveryInv /\ DecoderInv /\ SoundInv /\ PageInv

LEMMA MediaStart == MediaInit => MediaInv
BY ReceiveInit, DeliveryInit, DecoderInit, SoundInit, PageInit DEF MediaInit, MediaInv

LEMMA MediaStep == MediaInv /\ [MediaNext]_media => MediaInv'
<1> SUFFICES ASSUME MediaInv, [MediaNext]_media PROVE MediaInv' OBVIOUS
<1>1. /\ part \in {"packets", "delivery", "decoder", "sound", "page"}
      /\ ReceiveInv /\ DeliveryInv /\ DecoderInv /\ SoundInv /\ PageInv
  BY DEF MediaInv
<1>2. /\ [Next]_vars /\ [Delivery!Next]_(Delivery!vars) /\ [Decoder!Next]_(Decoder!vars)
      /\ [Sound!Next]_(Sound!vars) /\ [Page!Next]_(Page!vars) /\ part' = part
  <2>1. /\ UNCHANGED carrying => UNCHANGED Delivery!vars
        /\ UNCHANGED decoding => UNCHANGED Decoder!vars
        /\ UNCHANGED playing => UNCHANGED Sound!vars
        /\ UNCHANGED paging => UNCHANGED Page!vars
    <3>1. UNCHANGED carrying => UNCHANGED Delivery!vars BY DEF carrying, Delivery!vars, Delivery!route, Delivery!sender, Delivery!receiver
    <3>2. UNCHANGED decoding => UNCHANGED Decoder!vars 
      BY DEF decoding, Decoder!vars, Decoder!decoder, Decoder!output, Decoder!vsync, Decoder!feed,
             Decoder!app, Decoder!buffers, Decoder!screen
    <3>3. UNCHANGED playing => UNCHANGED Sound!vars
      BY DEF playing, Sound!vars, Sound!feeding, Sound!pushing, Sound!popping, Sound!control,
             Sound!history
    <3>4. UNCHANGED paging => UNCHANGED Page!vars 
      BY DEF paging, Page!vars, Page!js, Page!session, Page!screen
    <3> QED BY <3>1, <3>2, <3>3, <3>4
  <2>2. CASE PacketsOnly /\ Next
    <3>1. Next /\ part' = part /\ UNCHANGED decoding /\ UNCHANGED playing /\ UNCHANGED paging
          /\ UNCHANGED carrying
      BY <2>2 DEF PacketsOnly
    <3> QED BY <2>1, <3>1
  <2>3. CASE DeliveryOnly /\ Delivery!Next
    <3>1. Delivery!Next /\ part' = part /\ UNCHANGED vars /\ UNCHANGED decoding
          /\ UNCHANGED playing /\ UNCHANGED paging
      BY <2>3 DEF DeliveryOnly
    <3> QED BY <2>1, <3>1
  <2>4. CASE DecoderOnly /\ Decoder!Next
    <3>1. Decoder!Next /\ part' = part /\ UNCHANGED vars /\ UNCHANGED playing
          /\ UNCHANGED paging /\ UNCHANGED carrying
      BY <2>4 DEF DecoderOnly
    <3> QED BY <2>1, <3>1
  <2>5. CASE SoundOnly /\ Sound!Next
    <3>1. Sound!Next /\ part' = part /\ UNCHANGED vars /\ UNCHANGED decoding
          /\ UNCHANGED paging /\ UNCHANGED carrying
      BY <2>5 DEF SoundOnly
    <3> QED BY <2>1, <3>1
  <2>6. CASE PageOnly /\ Page!Next
    <3>1. Page!Next /\ part' = part /\ UNCHANGED vars /\ UNCHANGED decoding
          /\ UNCHANGED playing /\ UNCHANGED carrying
      BY <2>6 DEF PageOnly
    <3> QED BY <2>1, <3>1
  <2>7. CASE UNCHANGED media
    <3>1. /\ part' = part /\ UNCHANGED vars /\ UNCHANGED decoding /\ UNCHANGED playing
          /\ UNCHANGED paging /\ UNCHANGED carrying
      BY <2>7 DEF media
    <3> QED BY <2>1, <3>1
  <2> QED BY <2>2, <2>3, <2>4, <2>5, <2>6, <2>7 DEF MediaNext
<1>3. ReceiveInv' BY <1>1, <1>2, ReceiveNext
<1>4. DeliveryInv' BY <1>1, <1>2, DeliveryNext
<1>5. DecoderInv' BY <1>1, <1>2, DecoderNext
<1>6. SoundInv' BY <1>1, <1>2, SoundNext
<1>7. PageInv' BY <1>1, <1>2, PageNext
<1> QED BY <1>1, <1>2, <1>3, <1>4, <1>5, <1>6, <1>7 DEF MediaInv

LEMMA MediaHolds == MediaSpec => []MediaInv
BY MediaStart, MediaStep, PTL DEF MediaSpec

-----------------------------------------------------------------------------
(* Every variable of the part a behaviour is about keeps its type: so the   *)
(* reorder queue, the message queues and the frame queues never grow past   *)
(* their bounds (takion.c:1117, video-decoder.c:115).                       *)
THEOREM MediaTypes == MediaSpec => []MediaTypeOK
<1>1. MediaInv => MediaTypeOK
  <2> SUFFICES ASSUME MediaInv PROVE MediaTypeOK OBVIOUS
  <2>1. /\ part \in {"packets", "delivery", "decoder", "sound", "page"}
        /\ TypeOK /\ Delivery!TypeOK /\ Decoder!TypeOK /\ Sound!TypeOK /\ Page!TypeOK
    BY ReceiveSound, DeliverySound, DecoderIs, SoundIs, PageIs DEF MediaInv
  <2>2. CASE part = "packets" BY <2>1, <2>2 DEF MediaTypeOK
  <2>3. CASE part = "delivery" BY <2>1, <2>3 DEF MediaTypeOK
  <2>4. CASE part = "decoder" BY <2>1, <2>4 DEF MediaTypeOK
  <2>5. CASE part = "sound" BY <2>1, <2>5 DEF MediaTypeOK
  <2>6. CASE part = "page" BY <2>1, <2>6 DEF MediaTypeOK
  <2> QED BY <2>1, <2>2, <2>3, <2>4, <2>5, <2>6
<1> QED BY <1>1, MediaHolds, PTL

(* Packets are handed on in their order between CONNECTED and DISCONNECT,   *)
(* kept or rejected, each buffer is freed once, and a message of the data   *)
(* channel is kept until the other side has it in order (takion.c:937, 577).*)
THEOREM NoPacketForgotten == MediaSpec => []PacketsKept
<1>1. MediaInv => PacketsKept
  BY ReceiveSound, DeliverySound DEF MediaInv, PacketsKept
<1> QED BY <1>1, MediaHolds, PTL

(* Sound and picture come out once and in order, whatever the interleaving  *)
(* of the thread that fills the buffer and the callback that empties it     *)
(* without a lock (video-decoder.c:115, circular-buf.hpp:78).               *)
THEOREM OutputIsSound == MediaSpec => []OutputSound
<1>1. MediaInv => OutputSound
  BY DecoderIs, SoundIs, PageIs DEF MediaInv, OutputSound
<1> QED BY <1>1, MediaHolds, PTL
=============================================================================
