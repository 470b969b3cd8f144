--------------------------- MODULE ControlProofs ----------------------------
(***************************************************************************)
(* Proofs about Control and what it is made of.  The sender: its types,    *)
(* that each history packet carries the latest events, that the events     *)
(* tell the console what keys and touches do, and that no change is slept  *)
(* through, for every number of keys and touch slots and every ring size.  *)
(* The drivers: who may have the native descriptor, and that the service   *)
(* lists open controllers only, for any controllers.  Rumble: that motors  *)
(* and triggers follow the console, for any strengths and effects.         *)
(***************************************************************************)
EXTENDS Control, SequenceTheorems, TLAPS

-----------------------------------------------------------------------------
(* Arithmetic of the ring.                                                  *)

LEMMA ModRange == \A a \in Int : a % Size \in 0 .. Size - 1
  BY SenderAssumption, SMT

(* Slot i of the ring after begin moved back is slot i - 1 before.          *)
LEMMA SlotMoves ==
  ASSUME NEW b \in 0 .. Size - 1, NEW i \in 2 .. Size
  PROVE  /\ (((b + (Size - 1)) % Size) + i - 1) % Size = (b + (i - 1) - 1) % Size
         /\ (b + (i - 1) - 1) % Size # (b + (Size - 1)) % Size
<1> DEFINE c == (b + (Size - 1)) % Size
<1>1. Size \in Nat \ {0} BY SenderAssumption
<1>2. CASE b = 0
  <2>1. c = Size - 1 BY <1>1, <1>2, SMT
  <2>2. (c + i - 1) % Size = i - 2 BY <1>1, <2>1, SMT
  <2>3. (b + (i - 1) - 1) % Size = i - 2 BY <1>1, <1>2, SMT
  <2> QED BY <1>1, <2>1, <2>2, <2>3, SMT
<1>3. CASE b # 0
  <2>1. c = b - 1 BY <1>1, <1>3, SMT
  <2>2. (c + i - 1) % Size = (b + (i - 1) - 1) % Size
    <3>1. c + i - 1 = b + (i - 1) - 1 BY <1>1, <2>1, SMT
    <3> QED BY <3>1
  <2>3. (b + (i - 1) - 1) % Size # b - 1
    <3>1. CASE b + i - 2 < Size BY <1>1, <3>1, SMT
    <3>2. CASE b + i - 2 >= Size
      <4>1. (b + (i - 1) - 1) % Size = b + i - 2 - Size BY <1>1, <3>2, SMT
      <4> QED BY <1>1, <4>1, SMT
    <3> QED BY <1>1, <3>1, <3>2, SMT
  <2> QED BY <2>1, <2>2, <2>3
<1> QED BY <1>2, <1>3

-----------------------------------------------------------------------------
(* Type correctness.                                                        *)

(* A push keeps the types of the ring. *)
LEMMA PushTypes ==
  ASSUME TypeOK, NEW e \in Events, Push(e)
  PROVE  /\ begin' \in 0 .. Size - 1 /\ len' \in 0 .. Size
         /\ events' \in [0 .. Size - 1 -> Events \cup {Nothing}]
         /\ pushed' \in Seq(Events)
<1>1. begin \in 0 .. Size - 1 /\ len \in 0 .. Size BY DEF TypeOK
<1>2. begin' \in 0 .. Size - 1
  <2>1. begin + (Size - 1) \in Int BY <1>1, SenderAssumption
  <2>2. (begin + (Size - 1)) % Size \in 0 .. Size - 1 BY <2>1, ModRange
  <2> QED BY <2>2 DEF Push
<1>3. len' \in 0 .. Size BY <1>1, SenderAssumption DEF Push
<1>4. events' \in [0 .. Size - 1 -> Events \cup {Nothing}] BY <1>2 DEF Push, TypeOK
<1>5. pushed' \in Seq(Events) BY DEF Push, TypeOK
<1> QED BY <1>2, <1>3, <1>4, <1>5

LEMMA NextTouchesType ==
  ASSUME TypeOK
  PROVE  NextTouches \subseteq [SlotIds -> Touches]
<1> SUFFICES ASSUME NEW S \in SUBSET SlotIds, NEW E \in SUBSET SlotIds
             PROVE  [t \in SlotIds |-> IF t \in S THEN nextId + t - Keys
                                       ELSE IF t \in E THEN NoTouch ELSE now.touch[t]]
                       \in [SlotIds -> Touches]
  BY DEF NextTouches
<1> SUFFICES ASSUME NEW t \in SlotIds
             PROVE  (IF t \in S THEN nextId + t - Keys
                     ELSE IF t \in E THEN NoTouch ELSE now.touch[t]) \in Touches
  OBVIOUS
<1>1. nextId + t - Keys \in Nat BY SenderAssumption DEF TypeOK, SlotIds
<1>2. now.touch[t] \in Touches BY DEF TypeOK, States
<1> QED BY <1>1, <1>2 DEF Touches

LEMMA TouchChangeType ==
  ASSUME NEW before \in Touches, NEW after \in Touches
  PROVE  TouchChange(before, after) \subseteq Events
<1>1. ASSUME NEW id \in Touches, id # NoTouch, NEW down \in BOOLEAN
      PROVE  TouchEvent(id, down) \in Events
  <2>1. id \in Nat BY <1>1 DEF Touches
  <2> QED BY <2>1 DEF TouchEvent, Events
<1>2. CASE before # after /\ before # NoTouch BY <1>1, <1>2 DEF TouchChange
<1>3. CASE before # after /\ before = NoTouch BY <1>1, <1>3 DEF TouchChange
<1>4. CASE before = after BY <1>4 DEF TouchChange
<1> QED BY <1>2, <1>3, <1>4

LEMMA InitTypes == Init => TypeOK
<1> SUFFICES ASSUME Init PROVE TypeOK OBVIOUS
<1>1. Idle \in States BY SenderAssumption DEF Idle, States, Touches
<1>2. now \in States /\ prev \in States BY <1>1 DEF Init
<1>3. /\ begin \in 0 .. Size - 1 /\ len \in 0 .. Size
      /\ at \in 0 .. Keys + Slots /\ nextId \in Nat /\ sets \in 0 .. MaxSets
  BY SenderAssumption DEF Init
<1>4. events \in [0 .. Size - 1 -> Events \cup {Nothing}] BY DEF Init
<1>5. pushed \in Seq(Events) BY DEF Init
<1>6. air \subseteq Sticks /\ console \in Sticks BY SenderAssumption DEF Init
<1> QED BY <1>2, <1>3, <1>4, <1>5, <1>6 DEF Init, TypeOK

LEMMA IterateTypes ==
  ASSUME TypeOK, Iterate
  PROVE  /\ prev' \in States /\ changed' \in BOOLEAN
         /\ pc' \in {"start", "awake", "asleep", "timedout", "history", "loop", "done"}
         /\ at' \in 0 .. Keys + Slots
         /\ air' \subseteq Sticks
<1>1. now.stick \in Sticks BY DEF TypeOK, States
<1>2. CASE stop BY <1>2 DEF Iterate, TypeOK
<1>3. CASE ~stop
  <2>1. air' \subseteq Sticks BY <1>1, <1>3 DEF Iterate, TypeOK
  <2>2. prev' \in States BY <1>3 DEF Iterate, TypeOK
  <2>3. at' \in 0 .. Keys + Slots BY <1>3, SenderAssumption DEF Iterate, TypeOK
  <2> QED BY <1>3, <2>1, <2>2, <2>3 DEF Iterate
<1> QED BY <1>2, <1>3

LEMMA NextTypes == TypeOK /\ [Next]_vars => TypeOK'
<1> SUFFICES ASSUME TypeOK, [Next]_vars PROVE TypeOK' OBVIOUS
<1>1. CASE SetState
  <2>1. now' \in States
    <3>1. PICK level \in [KeyIds -> Levels], touch \in NextTouches, stick \in Sticks :
            now' = [level |-> level, touch |-> touch, stick |-> stick]
      BY <1>1 DEF SetState
    <3> QED BY <3>1, NextTouchesType DEF States
  <2>2. nextId' \in Nat /\ sets' \in 0 .. MaxSets
    BY <1>1, SenderAssumption DEF SetState, TypeOK
  <2> QED BY <1>1, <2>1, <2>2 DEF SetState, TypeOK, ring
<1>2. CASE SetSignal BY <1>2 DEF SetSignal, Signaled, TypeOK, ring
<1>3. CASE FiniStop BY <1>3 DEF FiniStop, TypeOK, ring
<1>4. CASE FiniSignal BY <1>4 DEF FiniSignal, Signaled, TypeOK, ring
<1>5. CASE FiniJoin BY <1>5 DEF FiniJoin, TypeOK, ring
<1>6. CASE Check
  <2>1. CASE stop \/ changed BY <1>6, <2>1, IterateTypes DEF Check, TypeOK, ring
  <2>2. CASE ~(stop \/ changed) BY <1>6, <2>2 DEF Check, TypeOK, ring
  <2> QED BY <2>1, <2>2
<1>7. CASE Timedout BY <1>7, IterateTypes DEF Timedout, TypeOK, ring
<1>8. CASE HistoryKey
  <2>1. at' \in 0 .. Keys + Slots BY <1>8, SenderAssumption DEF HistoryKey, KeyIds, TypeOK
  <2>2. KeyEvent(at, now.level[at]) \in Events
    BY <1>8 DEF HistoryKey, KeyEvent, Events, TypeOK, States
  <2>3. CASE prev.level[at] # now.level[at]
    BY <1>8, <2>1, <2>2, <2>3, PushTypes DEF HistoryKey, TypeOK
  <2>4. CASE prev.level[at] = now.level[at]
    BY <1>8, <2>1, <2>4 DEF HistoryKey, TypeOK, ring
  <2> QED BY <2>3, <2>4
<1>9. CASE HistoryTouch
  <2> DEFINE before == prev.touch[at]
             after == now.touch[at]
  <2>1. at' \in 0 .. Keys + Slots BY <1>9, SenderAssumption DEF HistoryTouch, SlotIds, TypeOK
  <2>2. before \in Touches /\ after \in Touches
    BY <1>9 DEF HistoryTouch, TypeOK, States
  <2>3. TouchChange(before, after) \subseteq Events
    BY <2>2, TouchChangeType
  <2>4. CASE TouchChange(before, after) = {}
    BY <1>9, <2>1, <2>4 DEF HistoryTouch, TypeOK, ring
  <2>5. CASE TouchChange(before, after) # {}
    <3>1. PICK e \in TouchChange(before, after) : Push(e) BY <1>9, <2>5 DEF HistoryTouch
    <3> QED BY <1>9, <2>1, <2>3, <3>1, PushTypes DEF HistoryTouch, TypeOK
  <2> QED BY <2>4, <2>5
<1>10. CASE HistoryEnd BY <1>10 DEF HistoryEnd, TypeOK, ring
<1>11. CASE Spurious \/ Timeout BY <1>11 DEF Spurious, Timeout, Wakes, TypeOK, ring
<1>12. CASE Deliver BY <1>12 DEF Deliver, TypeOK, ring
<1>13. CASE Lose BY <1>13 DEF Lose, TypeOK, ring
<1>14. CASE Refused BY <1>14 DEF Refused, TypeOK, ring
<1>15. CASE UNCHANGED vars BY <1>15 DEF vars, TypeOK, ring
<1> QED BY <1>1, <1>2, <1>3, <1>4, <1>5, <1>6, <1>7, <1>8, <1>9, <1>10, <1>11, <1>12, <1>13, <1>14,
     <1>15 DEF Next, Loop

(* Every reachable state has its types, whatever the parameters are.        *)
THEOREM TypeCorrect == Spec => []TypeOK
  BY InitTypes, NextTypes, PTL DEF Spec

-----------------------------------------------------------------------------
(* The history ring.                                                        *)

LEMMA PushWindow ==
  ASSUME TypeOK, HistoryWindow, NEW e \in Events, Push(e)
  PROVE  HistoryWindow'
<1> DEFINE n == Len(pushed)
<1>1. /\ begin \in 0 .. Size - 1 /\ len \in 0 .. Size /\ n \in Nat
      /\ pushed \in Seq(Events)
      /\ Size \in Nat \ {0}
      /\ len = IF n < Size THEN n ELSE Size
  BY SenderAssumption DEF TypeOK, HistoryWindow
<1>2. Len(pushed') = n + 1 /\ pushed'[n + 1] = e
  BY <1>1 DEF Push
<1>3. \A j \in 1 .. n : pushed'[j] = pushed[j]
  BY <1>1 DEF Push
<1>4. len' = IF n + 1 < Size THEN n + 1 ELSE Size
  BY <1>1 DEF Push
<1>5. begin' = (begin + (Size - 1)) % Size /\ begin' \in 0 .. Size - 1
  <2>1. begin + (Size - 1) \in Int BY <1>1
  <2>2. (begin + (Size - 1)) % Size \in 0 .. Size - 1 BY <2>1, ModRange
  <2> QED BY <2>2 DEF Push
<1>6. events' = [events EXCEPT ![begin'] = e] /\ DOMAIN events = 0 .. Size - 1
  BY DEF Push, TypeOK
<1>7. ASSUME NEW i \in 1 .. len'
      PROVE  events'[(begin' + i - 1) % Size] = pushed'[Len(pushed') + 1 - i]
  <2>1. CASE i = 1
    <3>1. (begin' + i - 1) % Size = begin' BY <1>1, <1>5, <2>1, SMT
    <3>2. events'[begin'] = e BY <1>5, <1>6
    <3>3. Len(pushed') + 1 - i = n + 1 BY <1>1, <1>2, <2>1
    <3> QED BY <3>1, <3>2, <3>3, <1>2
  <2>2. CASE i # 1
    <3> DEFINE j == i - 1
    <3>1. i \in 2 .. Size /\ j \in 1 .. len BY <1>1, <1>4, <2>2
    <3>2. /\ (begin' + i - 1) % Size = (begin + j - 1) % Size
          /\ (begin + j - 1) % Size # begin'
      BY <1>1, <1>5, <3>1, SlotMoves
    <3>3. (begin + j - 1) % Size \in 0 .. Size - 1
      <4>1. begin + j - 1 \in Int BY <1>1, <3>1
      <4> QED BY <4>1, ModRange
    <3>4. events'[(begin + j - 1) % Size] = events[(begin + j - 1) % Size]
      BY <1>5, <1>6, <3>2, <3>3
    <3>5. events[(begin + j - 1) % Size] = pushed[n + 1 - j]
      BY <3>1 DEF HistoryWindow, Format
    <3>6. n + 1 - j \in 1 .. n /\ Len(pushed') + 1 - i = n + 1 - j
      BY <1>1, <1>2, <3>1
    <3> HIDE DEF j
    <3> QED BY <1>3, <3>2, <3>4, <3>5, <3>6
  <2> QED BY <2>1, <2>2
<1>8. len' = IF Len(pushed') < Size THEN Len(pushed') ELSE Size BY <1>2, <1>4
<1>9. Format' = [i \in 1 .. len' |-> events'[(begin' + i - 1) % Size]] BY DEF Format
<1> HIDE DEF n
<1> QED BY <1>7, <1>8, <1>9 DEF HistoryWindow

LEMMA WindowKept == ASSUME HistoryWindow, UNCHANGED ring PROVE HistoryWindow'
  BY DEF HistoryWindow, Format, ring

LEMMA NextWindow == TypeOK /\ HistoryWindow /\ [Next]_vars => HistoryWindow'
<1> SUFFICES ASSUME TypeOK, HistoryWindow, [Next]_vars PROVE HistoryWindow' OBVIOUS
<1>1. CASE HistoryKey
  <2>1. KeyEvent(at, now.level[at]) \in Events
    BY <1>1 DEF HistoryKey, KeyEvent, Events, TypeOK, States
  <2> QED BY <1>1, <2>1, PushWindow, WindowKept DEF HistoryKey
<1>2. CASE HistoryTouch
  <2>1. prev.touch[at] \in Touches /\ now.touch[at] \in Touches
    BY <1>2 DEF HistoryTouch, TypeOK, States
  <2>2. TouchChange(prev.touch[at], now.touch[at]) \subseteq Events
    BY <2>1, TouchChangeType
  <2> QED BY <1>2, <2>2, PushWindow, WindowKept DEF HistoryTouch
<1>3. CASE ~HistoryKey /\ ~HistoryTouch
  <2>1. UNCHANGED ring
    BY <1>3 DEF Next, Loop, vars, SetState, SetSignal, FiniStop, FiniSignal, FiniJoin, Check,
                Timedout, Refused, HistoryEnd, Spurious, Timeout, Wakes, Deliver, Lose
  <2> QED BY <2>1, WindowKept
<1> QED BY <1>1, <1>2, <1>3

(* Every history packet carries the latest events, newest first and as many *)
(* as the ring holds, for every ring size and any number of events: begin,  *)
(* which moves backwards through the ring, never meets the oldest of them.  *)
THEOREM HistoryWindowHolds == Spec => []HistoryWindow
<1>1. Init => HistoryWindow
  BY SenderAssumption DEF Init, HistoryWindow
<1> QED BY <1>1, TypeCorrect, NextWindow, PTL DEF Spec

-----------------------------------------------------------------------------
(* What the events tell the console.                                        *)

IsKey(e, k) == e.kind = "key" /\ e.key = k
IsTouch(e, id) == e.kind = "touch" /\ e.id = id

(* The events say of key k that its level is v: the last event of the key   *)
(* does, or there is none and v is 0.                                       *)
Told(k, v) ==
  \/ v = 0 /\ \A j \in 1 .. Len(pushed) : ~IsKey(pushed[j], k)
  \/ \E j \in 1 .. Len(pushed) :
       /\ IsKey(pushed[j], k) /\ pushed[j].level = v
       /\ \A i \in j + 1 .. Len(pushed) : ~IsKey(pushed[i], k)

(* The level and the touch that the console has been told of: the old one   *)
(* until the thread has passed the key or the slot.                         *)
LevelTold(k) == IF pc = "history" /\ k < at THEN now.level[k] ELSE prev.level[k]
TouchTold(t) == IF pc = "history" /\ t < at THEN now.touch[t] ELSE prev.touch[t]

KeysTold == \A k \in KeyIds : Told(k, LevelTold(k))
TouchesTold == Down \subseteq { TouchTold(t) : t \in SlotIds }

(* prev is the state last looked at, until it changes.                      *)
Looked == ~changed /\ pc # "history" => SameForHistory(now, prev)

PadInv == TypeOK /\ HistoryWindow /\ ChangeWakes /\ Looked /\ KeysTold /\ TouchesTold

LEMMA ToldLevel ==
  ASSUME NEW k, NEW v, pushed \in Seq(Events), Told(k, v)
  PROVE  LevelOf(k) = v
<1> DEFINE js == { j \in 1 .. Len(pushed) : pushed[j].kind = "key" /\ pushed[j].key = k }
<1>1. CASE v = 0 /\ \A j \in 1 .. Len(pushed) : ~IsKey(pushed[j], k)
  <2>1. js = {} BY <1>1 DEF IsKey
  <2> QED BY <1>1, <2>1 DEF LevelOf
<1>2. CASE \E j \in 1 .. Len(pushed) :
             /\ IsKey(pushed[j], k) /\ pushed[j].level = v
             /\ \A i \in j + 1 .. Len(pushed) : ~IsKey(pushed[i], k)
  <2>1. PICK j \in 1 .. Len(pushed) :
          /\ IsKey(pushed[j], k) /\ pushed[j].level = v
          /\ \A i \in j + 1 .. Len(pushed) : ~IsKey(pushed[i], k)
    BY <1>2
  <2>2. j \in js BY <2>1 DEF IsKey
  <2>3. js \subseteq Int /\ \A i \in js : i <= j
    BY <2>1, SMT DEF IsKey
  <2> DEFINE m == CHOOSE m \in js : \A i \in js : i <= m
  <2> HIDE DEF js
  <2>4. m \in js /\ \A i \in js : i <= m
    BY <2>2, <2>3
  <2> HIDE DEF m
  <2>5. m = j BY <2>2, <2>3, <2>4, SMT
  <2>6. LevelOf(k) = IF js = {} THEN 0 ELSE pushed[m].level BY DEF LevelOf, js, m
  <2> QED BY <2>1, <2>2, <2>5, <2>6
<1> QED BY <1>1, <1>2 DEF Told

(* An event that is pushed comes last. *)
LEMMA PushLast ==
  ASSUME TypeOK, NEW e \in Events, Push(e)
  PROVE  /\ pushed \in Seq(Events) /\ pushed' \in Seq(Events)
         /\ Len(pushed) \in Nat /\ Len(pushed') = Len(pushed) + 1
         /\ pushed'[Len(pushed) + 1] = e
         /\ \A j \in 1 .. Len(pushed) : pushed'[j] = pushed[j]
  BY DEF Push, TypeOK

(* ... and is the last about its key, and no news of the others. *)
LEMMA ToldOther ==
  ASSUME TypeOK, NEW e \in Events, Push(e), NEW k, NEW v, ~IsKey(e, k), Told(k, v)
  PROVE  Told(k, v)'
<1>1. /\ Len(pushed) \in Nat /\ Len(pushed') = Len(pushed) + 1
      /\ pushed'[Len(pushed) + 1] = e
      /\ \A j \in 1 .. Len(pushed) : pushed'[j] = pushed[j]
  BY PushLast
<1> DEFINE n == Len(pushed)
<1> HIDE DEF n
<1>2. CASE v = 0 /\ \A j \in 1 .. Len(pushed) : ~IsKey(pushed[j], k)
  <2>1. \A j \in 1 .. Len(pushed') : ~IsKey(pushed'[j], k)
    <3> SUFFICES ASSUME NEW j \in 1 .. Len(pushed') PROVE ~IsKey(pushed'[j], k) OBVIOUS
    <3>1. CASE j = Len(pushed) + 1 BY <1>1, <3>1
    <3>2. CASE j # Len(pushed) + 1
      <4>1. j \in 1 .. Len(pushed) BY <1>1, <3>2
      <4> QED BY <1>1, <1>2, <4>1
    <3> QED BY <3>1, <3>2
  <2> QED BY <1>2, <2>1 DEF Told
<1>3. CASE \E j \in 1 .. Len(pushed) :
             /\ IsKey(pushed[j], k) /\ pushed[j].level = v
             /\ \A i \in j + 1 .. Len(pushed) : ~IsKey(pushed[i], k)
  <2>1. PICK j \in 1 .. Len(pushed) :
          /\ IsKey(pushed[j], k) /\ pushed[j].level = v
          /\ \A i \in j + 1 .. Len(pushed) : ~IsKey(pushed[i], k)
    BY <1>3
  <2>2. j \in 1 .. Len(pushed') BY <1>1
  <2>3. ASSUME NEW i \in j + 1 .. Len(pushed') PROVE ~IsKey(pushed'[i], k)
    <3>1. CASE i = Len(pushed) + 1 BY <1>1, <3>1
    <3>2. CASE i # Len(pushed) + 1
      <4>1. i \in 1 .. Len(pushed) /\ i \in j + 1 .. Len(pushed) BY <1>1, <3>2
      <4> QED BY <1>1, <2>1, <4>1
    <3> QED BY <3>1, <3>2
  <2>4. IsKey(pushed'[j], k) /\ pushed'[j].level = v BY <1>1, <2>1
  <2> QED BY <2>2, <2>3, <2>4 DEF Told
<1> QED BY <1>2, <1>3 DEF Told

LEMMA ToldLast ==
  ASSUME TypeOK, NEW e \in Events, Push(e), NEW k, IsKey(e, k)
  PROVE  Told(k, e.level)'
<1>1. Len(pushed) \in Nat /\ Len(pushed') = Len(pushed) + 1 /\ pushed'[Len(pushed) + 1] = e
  BY PushLast
<1>2. Len(pushed') \in 1 .. Len(pushed') BY <1>1
<1>3. \A i \in Len(pushed') + 1 .. Len(pushed') : ~IsKey(pushed'[i], k) BY <1>1
<1>4. IsKey(pushed'[Len(pushed')], k) /\ pushed'[Len(pushed')].level = e.level BY <1>1
<1> QED BY <1>2, <1>3, <1>4 DEF Told

(* A touch that is down has an event that says so, and after an event about *)
(* a touch it is down only if that one says so.                             *)
LEMMA DownPushed ==
  ASSUME TypeOK, NEW e \in Events, Push(e), NEW id \in Down'
  PROVE  \/ id \in Down /\ ~IsTouch(e, id)
         \/ IsTouch(e, id) /\ e.down
<1>1. /\ Len(pushed) \in Nat /\ Len(pushed') = Len(pushed) + 1
      /\ pushed'[Len(pushed) + 1] = e
      /\ \A j \in 1 .. Len(pushed) : pushed'[j] = pushed[j]
  BY PushLast
<1>2. PICK j \in 1 .. Len(pushed') :
        /\ id = pushed'[j].id
        /\ pushed'[j].kind = "touch" /\ pushed'[j].down
        /\ \A i \in j + 1 .. Len(pushed') :
             ~(pushed'[i].kind = "touch" /\ pushed'[i].id = pushed'[j].id)
  BY DEF Down
<1>3. CASE j = Len(pushed) + 1 BY <1>1, <1>2, <1>3 DEF IsTouch
<1>4. CASE j # Len(pushed) + 1
  <2>1. j \in 1 .. Len(pushed) BY <1>1, <1>4
  <2>2. Len(pushed) + 1 \in j + 1 .. Len(pushed') BY <1>1, <2>1
  <2>3. ~IsTouch(e, id) BY <1>1, <1>2, <2>2 DEF IsTouch
  <2>4. ASSUME NEW i \in j + 1 .. Len(pushed)
        PROVE  ~(pushed[i].kind = "touch" /\ pushed[i].id = pushed[j].id)
    <3>1. i \in j + 1 .. Len(pushed') /\ i \in 1 .. Len(pushed) BY <1>1, <2>1
    <3> QED BY <1>1, <1>2, <2>1, <3>1
  <2>5. id \in Down BY <1>1, <1>2, <2>1, <2>4 DEF Down
  <2> QED BY <2>3, <2>5
<1> QED BY <1>3, <1>4

(* A touch that is down has an id. *)
LEMMA DownIds == ASSUME TypeOK PROVE Down \subseteq Nat
<1> SUFFICES ASSUME NEW j \in 1 .. Len(pushed), pushed[j].kind = "touch"
             PROVE  pushed[j].id \in Nat
  BY DEF Down
<1>1. pushed[j] \in Events BY DEF TypeOK
<1> QED BY <1>1 DEF Events

LEMMA KeysToldAnew ==
  ASSUME \A k \in KeyIds : \E v : v = LevelTold(k)' /\ Told(k, v)'
  PROVE  KeysTold'
<1> SUFFICES ASSUME NEW k \in KeyIds
             PROVE  \E v : v = LevelTold(k)' /\ Told(k, v)'
  BY DEF KeysTold, Told
<1> QED OBVIOUS

(* Keys and touches stay told while neither the events nor what the thread  *)
(* compares change.                                                         *)
LEMMA ToldKept ==
  ASSUME KeysTold, TouchesTold, UNCHANGED ring,
         \A k \in KeyIds : LevelTold(k)' = LevelTold(k),
         \A t \in SlotIds : TouchTold(t)' = TouchTold(t)
  PROVE  KeysTold' /\ TouchesTold'
<1>1. pushed' = pushed BY DEF ring
<1>2. KeysTold'
  <2>1. ASSUME NEW k \in KeyIds PROVE \E v : v = LevelTold(k)' /\ Told(k, v)'
    <3>1. PICK v : v = LevelTold(k) OBVIOUS
    <3>2. Told(k, v) BY <3>1 DEF KeysTold
    <3>3. Told(k, v)' BY <1>1, <3>2 DEF Told
    <3> QED BY <3>1, <3>3
  <2> QED BY <2>1, KeysToldAnew
<1>3. TouchesTold'
  <2>1. Down' = Down BY <1>1 DEF Down
  <2>2. { TouchTold(t) : t \in SlotIds }' = { TouchTold(t) : t \in SlotIds } OBVIOUS
  <2> QED BY <2>1, <2>2 DEF TouchesTold
<1> QED BY <1>2, <1>3

LEMMA IterateTold ==
  ASSUME TypeOK, Looked, KeysTold, TouchesTold, pc # "history", Iterate,
         UNCHANGED <<now, ring>>
  PROVE  Looked' /\ KeysTold' /\ TouchesTold'
<1>1. CASE stop
  <2>1. \A k \in KeyIds : LevelTold(k)' = LevelTold(k) BY <1>1 DEF Iterate, LevelTold
  <2>2. \A t \in SlotIds : TouchTold(t)' = TouchTold(t) BY <1>1 DEF Iterate, TouchTold
  <2>3. Looked' BY <1>1 DEF Iterate, Looked, SameForHistory
  <2> QED BY <2>1, <2>2, <2>3, ToldKept
<1>2. CASE ~stop /\ changed /\ ~SameForHistory(now, prev)
  <2>1. pc' = "history" /\ at' = 0 /\ prev' = prev /\ changed' = FALSE
    BY <1>2 DEF Iterate
  <2>2. \A k \in KeyIds : LevelTold(k)' = LevelTold(k)
    BY <2>1 DEF LevelTold, KeyIds
  <2>3. \A t \in SlotIds : TouchTold(t)' = TouchTold(t)
    BY <2>1, SenderAssumption DEF TouchTold, SlotIds
  <2>4. Looked' BY <2>1 DEF Looked
  <2> QED BY <2>2, <2>3, <2>4, ToldKept
<1>3. CASE ~stop /\ (~changed \/ SameForHistory(now, prev))
  <2>1. pc' = "loop" /\ prev' = now /\ now' = now BY <1>3 DEF Iterate
  <2>2. SameForHistory(now, prev) BY <1>3 DEF Looked
  <2>3. \A k \in KeyIds : LevelTold(k)' = LevelTold(k)
    BY <2>1, <2>2 DEF LevelTold, SameForHistory
  <2>4. \A t \in SlotIds : TouchTold(t)' = TouchTold(t)
    BY <2>1, <2>2 DEF TouchTold, SameForHistory
  <2>5. Looked' BY <2>1 DEF Looked, SameForHistory
  <2> QED BY <2>3, <2>4, <2>5, ToldKept
<1> QED BY <1>1, <1>2, <1>3

LEMMA HistoryKeyTold ==
  ASSUME TypeOK, KeysTold, TouchesTold, HistoryKey
  PROVE  KeysTold' /\ TouchesTold'
<1>1. /\ pc = "history" /\ pc' = pc /\ at \in KeyIds /\ at' = at + 1
      /\ now' = now /\ prev' = prev
  BY DEF HistoryKey
<1>2. ASSUME NEW k \in KeyIds, k # at PROVE LevelTold(k)' = LevelTold(k)
  BY <1>1, <1>2, SenderAssumption DEF LevelTold, KeyIds
<1>3. LevelTold(at) = prev.level[at]
  BY <1>1, SenderAssumption DEF LevelTold, KeyIds
<1>4. \A t \in SlotIds : TouchTold(t)' = TouchTold(t)
  BY <1>1, SenderAssumption DEF TouchTold, SlotIds, KeyIds
<1>5. \A k \in KeyIds : k = at => LevelTold(k)' = now.level[at]
  BY <1>1, SenderAssumption DEF LevelTold, KeyIds
<1>6. CASE prev.level[at] = now.level[at]
  <2>1. \A k \in KeyIds : LevelTold(k)' = LevelTold(k) BY <1>2, <1>3, <1>5, <1>6
  <2>2. UNCHANGED ring BY <1>6 DEF HistoryKey
  <2> QED BY <1>4, <2>1, <2>2, ToldKept
<1>7. CASE prev.level[at] # now.level[at]
  <2>0. PICK e : e = KeyEvent(at, now.level[at]) OBVIOUS
  <2>1. e \in Events BY <1>1, <2>0 DEF KeyEvent, Events, TypeOK, States
  <2>2. Push(e) BY <1>7, <2>0 DEF HistoryKey
  <2>3. e.kind = "key" /\ e.key = at /\ e.level = now.level[at] BY <2>0 DEF KeyEvent
  <2>4. ASSUME NEW k \in KeyIds PROVE \E v : v = LevelTold(k)' /\ Told(k, v)'
    <3>1. CASE k = at
      <4>1. PICK v : v = e.level OBVIOUS
      <4>2. Told(k, v)' BY <2>1, <2>2, <2>3, <3>1, <4>1, ToldLast DEF IsKey
      <4> QED BY <1>5, <2>3, <3>1, <4>1, <4>2
    <3>2. CASE k # at
      <4>1. PICK v : v = LevelTold(k) OBVIOUS
      <4>2. Told(k, v) BY <4>1 DEF KeysTold
      <4>3. Told(k, v)' BY <2>1, <2>2, <2>3, <3>2, <4>2, ToldOther DEF IsKey
      <4> QED BY <1>2, <3>2, <4>1, <4>3
    <3> QED BY <3>1, <3>2
  <2>5. KeysTold' BY <2>4, KeysToldAnew
  <2>6. ASSUME NEW id \in Down' PROVE id \in { TouchTold(t) : t \in SlotIds }'
    <3>1. id \in Down BY <2>1, <2>2, <2>3, DownPushed DEF IsTouch
    <3>2. PICK t \in SlotIds : id = TouchTold(t) BY <3>1 DEF TouchesTold
    <3>3. id = TouchTold(t)' BY <1>4, <3>2
    <3> QED BY <3>3 DEF SlotIds
  <2> QED BY <2>5, <2>6 DEF TouchesTold
<1> QED BY <1>6, <1>7

LEMMA HistoryTouchTold ==
  ASSUME TypeOK, KeysTold, TouchesTold, HistoryTouch
  PROVE  KeysTold' /\ TouchesTold'
<1> DEFINE before == prev.touch[at]
           after == now.touch[at]
<1>1. /\ pc = "history" /\ pc' = pc /\ at \in SlotIds /\ at' = at + 1
      /\ now' = now /\ prev' = prev
  BY DEF HistoryTouch
<1>2. \A k \in KeyIds : LevelTold(k)' = LevelTold(k)
  BY <1>1, SenderAssumption DEF LevelTold, SlotIds, KeyIds
<1>3. ASSUME NEW t \in SlotIds, t # at PROVE TouchTold(t)' = TouchTold(t)
  BY <1>1, <1>3, SenderAssumption DEF TouchTold, SlotIds
<1>4. TouchTold(at) = before
  BY <1>1, SenderAssumption DEF TouchTold, SlotIds
<1>5. \A t \in SlotIds : t = at => TouchTold(t)' = after
  BY <1>1, SenderAssumption DEF TouchTold, SlotIds
<1>6. before \in Touches /\ after \in Touches
  BY <1>1 DEF TypeOK, States
<1>7. TouchChange(before, after) \subseteq Events BY <1>6, TouchChangeType
<1>8. CASE TouchChange(before, after) = {}
  <2>1. before = after BY <1>8 DEF TouchChange
  <2>2. \A t \in SlotIds : TouchTold(t)' = TouchTold(t) BY <1>3, <1>4, <1>5, <2>1
  <2>3. UNCHANGED ring BY <1>8 DEF HistoryTouch
  <2> QED BY <1>2, <2>2, <2>3, ToldKept
<1>9. CASE TouchChange(before, after) # {}
  <2>1. PICK e \in TouchChange(before, after) : Push(e) BY <1>9 DEF HistoryTouch
  <2>2. e \in Events BY <1>7, <2>1
  <2>3. e.kind = "touch" BY <2>1 DEF TouchChange, TouchEvent
  <2>4. ASSUME NEW k \in KeyIds PROVE \E v : v = LevelTold(k)' /\ Told(k, v)'
    <3>1. PICK v : v = LevelTold(k) OBVIOUS
    <3>2. Told(k, v) BY <3>1 DEF KeysTold
    <3>3. Told(k, v)' BY <2>1, <2>2, <2>3, <3>2, ToldOther DEF IsKey
    <3> QED BY <1>2, <3>1, <3>3
  <2>5. KeysTold' BY <2>4, KeysToldAnew
  <2>6. \/ before # NoTouch /\ e.id = before /\ ~e.down
        \/ before = NoTouch /\ e.id = after
    BY <2>1 DEF TouchChange, TouchEvent
  <2>7. ASSUME NEW id \in Down' PROVE \E t \in SlotIds : id = TouchTold(t)'
    <3>1. CASE IsTouch(e, id) /\ e.down
      <4>1. id = after BY <2>6, <3>1 DEF IsTouch
      <4> QED BY <1>1, <1>5, <4>1
    <3>2. CASE id \in Down /\ ~IsTouch(e, id)
      <4>1. PICK t \in SlotIds : id = TouchTold(t) BY <3>2 DEF TouchesTold
      <4>2. id # NoTouch BY <3>2, DownIds DEF NoTouch
      <4>3. id # before BY <2>3, <2>6, <3>2, <4>2 DEF IsTouch
      <4>4. t # at BY <1>4, <4>1, <4>3
      <4> QED BY <1>3, <4>1, <4>4
    <3> QED BY <2>1, <2>2, <3>1, <3>2, DownPushed
  <2>8. SlotIds' = SlotIds BY DEF SlotIds
  <2> QED BY <2>5, <2>7, <2>8 DEF TouchesTold
<1> QED BY <1>8, <1>9

LEMMA InitPad == Init => PadInv
<1> SUFFICES ASSUME Init PROVE PadInv OBVIOUS
<1>1. TypeOK BY InitTypes
<1>2. HistoryWindow BY SenderAssumption DEF Init, HistoryWindow
<1>3. ChangeWakes /\ Looked BY DEF Init, ChangeWakes, Looked, SameForHistory
<1>4. KeysTold
  <2> SUFFICES ASSUME NEW k \in KeyIds PROVE Told(k, 0)
    BY DEF KeysTold, Init, LevelTold, Idle
  <2> QED BY DEF Told, Init
<1>5. TouchesTold BY DEF TouchesTold, Down, Init
<1> QED BY <1>1, <1>2, <1>3, <1>4, <1>5 DEF PadInv

LEMMA NextPad == PadInv /\ [Next]_vars => PadInv'
<1> SUFFICES ASSUME PadInv, [Next]_vars PROVE PadInv' OBVIOUS
<1>1. TypeOK /\ HistoryWindow /\ ChangeWakes /\ Looked /\ KeysTold /\ TouchesTold
  BY DEF PadInv
<1> SUFFICES ChangeWakes' /\ Looked' /\ KeysTold' /\ TouchesTold'
  BY <1>1, NextTypes, NextWindow DEF PadInv
<1> DEFINE Same == /\ \A k \in KeyIds : LevelTold(k)' = LevelTold(k)
                   /\ \A t \in SlotIds : TouchTold(t)' = TouchTold(t)
<1>2. CASE SetState
  <2>1. Same BY <1>2 DEF SetState, MutexFree, LevelTold, TouchTold
  <2>2. ChangeWakes' /\ Looked' BY <1>2 DEF SetState, ChangeWakes, Looked
  <2> QED BY <1>1, <1>2, <2>1, <2>2, ToldKept DEF SetState
<1>3. CASE SetSignal
  <2>1. Same BY <1>3 DEF SetSignal, Signaled, LevelTold, TouchTold
  <2>2. ChangeWakes' /\ Looked'
    BY <1>1, <1>3 DEF SetSignal, Signaled, ChangeWakes, Looked, SameForHistory
  <2> QED BY <1>1, <1>3, <2>1, <2>2, ToldKept DEF SetSignal
<1>4. CASE FiniStop \/ FiniJoin
  <2>1. Same BY <1>4 DEF FiniStop, FiniJoin, LevelTold, TouchTold
  <2>2. ChangeWakes' /\ Looked'
    BY <1>1, <1>4 DEF FiniStop, FiniJoin, ChangeWakes, Looked, SameForHistory
  <2> QED BY <1>1, <1>4, <2>1, <2>2, ToldKept DEF FiniStop, FiniJoin
<1>5. CASE FiniSignal
  <2>1. Same BY <1>5 DEF FiniSignal, Signaled, LevelTold, TouchTold
  <2>2. ChangeWakes' /\ Looked'
    BY <1>1, <1>5 DEF FiniSignal, Signaled, ChangeWakes, Looked, SameForHistory
  <2> QED BY <1>1, <1>5, <2>1, <2>2, ToldKept DEF FiniSignal
<1>6. CASE Check
  <2>1. CASE stop \/ changed
    <3>1. Iterate /\ pc # "history" /\ UNCHANGED <<now, ring>>
      BY <1>6, <2>1 DEF Check
    <3>2. ChangeWakes' BY <3>1 DEF ChangeWakes, Iterate
    <3> QED BY <1>1, <3>1, <3>2, IterateTold
  <2>2. CASE ~(stop \/ changed)
    <3>1. Same BY <1>6, <2>2 DEF Check, LevelTold, TouchTold
    <3>2. ChangeWakes' /\ Looked'
      BY <1>1, <1>6, <2>2 DEF Check, ChangeWakes, Looked, SameForHistory
    <3> QED BY <1>1, <1>6, <2>2, <3>1, <3>2, ToldKept DEF Check
  <2> QED BY <2>1, <2>2
<1>7. CASE Timedout
  <2>1. Iterate /\ pc # "history" /\ UNCHANGED <<now, ring>> BY <1>7 DEF Timedout
  <2>2. ChangeWakes' BY <2>1 DEF ChangeWakes, Iterate
  <2> QED BY <1>1, <2>1, <2>2, IterateTold
<1>8. CASE HistoryKey
  <2>1. ChangeWakes' /\ Looked' BY <1>8 DEF HistoryKey, ChangeWakes, Looked
  <2> QED BY <1>1, <1>8, <2>1, HistoryKeyTold
<1>9. CASE HistoryTouch
  <2>1. ChangeWakes' /\ Looked' BY <1>9 DEF HistoryTouch, ChangeWakes, Looked
  <2> QED BY <1>1, <1>9, <2>1, HistoryTouchTold
<1>10. CASE HistoryEnd
  <2>1. /\ pc = "history" /\ pc' = "loop" /\ prev' = now /\ now' = now
        /\ at = Keys + Slots
    BY <1>10 DEF HistoryEnd
  <2>2. \A k \in KeyIds : LevelTold(k)' = LevelTold(k)
    BY <2>1, SenderAssumption DEF LevelTold, KeyIds
  <2>3. \A t \in SlotIds : TouchTold(t)' = TouchTold(t)
    BY <2>1, SenderAssumption DEF TouchTold, SlotIds
  <2>4. ChangeWakes' /\ Looked' BY <2>1 DEF ChangeWakes, Looked, SameForHistory
  <2> QED BY <1>1, <1>10, <2>2, <2>3, <2>4, ToldKept DEF HistoryEnd
<1>11. CASE Spurious \/ Timeout
  <2>1. Same BY <1>11 DEF Spurious, Timeout, Wakes, LevelTold, TouchTold
  <2>2. ChangeWakes' /\ Looked'
    BY <1>1, <1>11 DEF Spurious, Timeout, Wakes, ChangeWakes, Looked, SameForHistory
  <2> QED BY <1>1, <1>11, <2>1, <2>2, ToldKept DEF Spurious, Timeout, Wakes
<1>12. CASE Deliver \/ Lose \/ UNCHANGED vars
  <2>1. /\ UNCHANGED <<now, prev, changed, ring, pc, at, user>>
    BY <1>12 DEF Deliver, Lose, vars
  <2>2. Same BY <2>1 DEF LevelTold, TouchTold
  <2>3. ChangeWakes' /\ Looked' BY <1>1, <2>1 DEF ChangeWakes, Looked, SameForHistory
  <2> QED BY <1>1, <2>1, <2>2, <2>3, ToldKept
<1>13. CASE Refused
  <2>1. Same BY <1>13 DEF Refused, LevelTold, TouchTold
  <2>2. ChangeWakes' /\ Looked'
    BY <1>1, <1>13 DEF Refused, ChangeWakes, Looked, SameForHistory
  <2> QED BY <1>1, <1>13, <2>1, <2>2, ToldKept DEF Refused
<1> QED
  BY <1>2, <1>3, <1>4, <1>5, <1>6, <1>7, <1>8, <1>9, <1>10, <1>11, <1>12, <1>13 DEF Next, Loop

LEMMA PadSound == PadInv => TypeOK /\ HistoryWindow /\ HistoryAgrees /\ ChangeWakes
<1> SUFFICES ASSUME PadInv PROVE HistoryAgrees BY DEF PadInv
<1>1. TypeOK /\ Looked /\ KeysTold /\ TouchesTold BY DEF PadInv
<1>2. KeysAgree
  <2> SUFFICES ASSUME AtRest, NEW k \in KeyIds PROVE LevelOf(k) = now.level[k]
    BY DEF KeysAgree
  <2>1. LevelTold(k) = now.level[k] BY <1>1 DEF AtRest, Looked, SameForHistory, LevelTold
  <2>2. Told(k, now.level[k]) BY <1>1, <2>1 DEF KeysTold
  <2>3. pushed \in Seq(Events) BY <1>1 DEF TypeOK
  <2> QED BY <2>2, <2>3, ToldLevel
<1>3. NoStuckTouch
  <2> SUFFICES ASSUME AtRest, NEW id \in Down
               PROVE  id \in { now.touch[t] : t \in SlotIds }
    BY DEF NoStuckTouch
  <2>1. PICK t \in SlotIds : id = TouchTold(t) BY <1>1 DEF TouchesTold
  <2>2. TouchTold(t) = now.touch[t] BY <1>1 DEF AtRest, Looked, SameForHistory, TouchTold
  <2> QED BY <2>1, <2>2
<1> QED BY <1>2, <1>3 DEF HistoryAgrees

-----------------------------------------------------------------------------
(* What the user feels.                                                     *)

(* The types, those of the queues included, which are empty where nobody    *)
(* reads them.                                                              *)
FeelTypes ==
  /\ device \in {"dualsense", "usb", "bluetooth"}
  /\ lastProcessedEvent \in Strengths /\ motor \in Strengths /\ asked \in Strengths
  /\ cache \in Effects /\ trigger \in Effects /\ wanted \in Effects
  /\ pulse \in Strengths \cup {Feel!Nobody} /\ count \in 0 .. Rumbles
  /\ javascript \in Seq(Effects) /\ pulses \in Seq(Strengths)
  /\ device # "bluetooth" => pulses = << >> /\ pulse = Feel!Nobody

(* The motors are as in the last event that was not dropped, which is near  *)
(* the one that the console sent last.                                      *)
MotorLast ==
  device # "bluetooth" /\ ~over =>
    /\ ~silenced => motor = lastProcessedEvent
    /\ ~missed => Feel!Near(lastProcessedEvent, Feel!Clamped(asked))

(* The last report of triggers on its way to the page is the last that the  *)
(* console sent, and the cache has it already.                              *)
TriggersLast ==
  device = "dualsense" =>
    /\ cache = wanted
    /\ javascript = << >> => trigger = wanted
    /\ javascript # << >> => javascript[Len(javascript)] = wanted

FeelInv == FeelTypes /\ MotorLast /\ TriggersLast /\ Feel!PulsesEnd

LEMMA FeelInit == Feel!Init => FeelInv
<1> SUFFICES ASSUME Feel!Init PROVE FeelInv OBVIOUS
<1>1. FeelTypes BY RumbleAssumption DEF Feel!Init, FeelTypes
<1>2. MotorLast
  BY RumbleAssumption DEF Feel!Init, MotorLast, Feel!Near, Feel!Clamped
<1>3. TriggersLast BY DEF Feel!Init, TriggersLast
<1>4. Feel!PulsesEnd BY DEF Feel!Init, Feel!PulsesEnd
<1> QED BY <1>1, <1>2, <1>3, <1>4 DEF FeelInv

LEMMA ClampedType == \A s \in Strengths : Feel!Clamped(s) \in Strengths
  BY RumbleAssumption DEF Feel!Clamped

LEMMA NearSym == \A x, y \in Strengths : Feel!Near(x, y) => Feel!Near(y, x)
  BY RumbleAssumption DEF Feel!Near

LEMMA FeelRumble ==
  ASSUME FeelInv, NEW s \in Strengths, Feel!RumbleEvent(s)
  PROVE  FeelInv'
<1> DEFINE level == Feel!Clamped(s)
<1>1. FeelTypes /\ MotorLast /\ TriggersLast /\ Feel!PulsesEnd BY DEF FeelInv
<1>2. level \in Strengths BY ClampedType
<1>3. /\ ~over /\ count < Rumbles /\ count' = count + 1 /\ asked' = s
      /\ UNCHANGED <<device, cache, haptics, javascript, pulse, over, wanted>>
  BY DEF Feel!RumbleEvent
<1>4. count' \in 0 .. Rumbles BY <1>1, <1>3, RumbleAssumption DEF FeelTypes
<1>5. Feel!Clamped(asked)' = level BY <1>3 DEF Feel!Clamped
<1> HIDE DEF level
<1>6. CASE Feel!Skipped
  <2>1. /\ missed' /\ UNCHANGED <<lastProcessedEvent, isVibrating, motor, trigger, pulses, silenced>>
    BY <1>6 DEF Feel!RumbleEvent
  <2>2. FeelTypes' BY <1>1, <1>3, <1>4, <2>1 DEF FeelTypes, Feel!Nobody
  <2>3. MotorLast' BY <1>1, <1>3, <2>1 DEF MotorLast
  <2>4. TriggersLast' BY <1>1, <1>3, <2>1 DEF TriggersLast
  <2>5. Feel!PulsesEnd' BY <1>1, <1>3, <2>1 DEF Feel!PulsesEnd, Feel!Nobody
  <2> QED BY <2>2, <2>3, <2>4, <2>5 DEF FeelInv
<1>7. CASE ~Feel!Skipped /\ Feel!Near(level, lastProcessedEvent) /\
           UNCHANGED <<lastProcessedEvent, isVibrating, motor, trigger, pulses, silenced>>
  <2>1. FeelTypes' BY <1>1, <1>3, <1>4, <1>7 DEF FeelTypes, Feel!Nobody
  <2>2. Feel!Near(lastProcessedEvent, level)
    BY <1>1, <1>2, <1>7, NearSym DEF FeelTypes
  <2>3. Feel!Near(lastProcessedEvent, Feel!Clamped(asked))'
    BY <1>5, <1>7, <2>2 DEF Feel!Near
  <2>4. MotorLast' BY <1>1, <1>3, <1>7, <2>3 DEF MotorLast
  <2>5. TriggersLast' BY <1>1, <1>3, <1>7 DEF TriggersLast
  <2>6. Feel!PulsesEnd' BY <1>1, <1>3, <1>7 DEF Feel!PulsesEnd, Feel!Nobody
  <2> QED BY <2>1, <2>4, <2>5, <2>6 DEF FeelInv
<1>8. CASE /\ ~Feel!Skipped /\ lastProcessedEvent' = level /\ ~silenced'
           /\ device = "bluetooth" /\ Feel!Launch(level)
  <2>1. UNCHANGED <<motor, trigger>> BY <1>8 DEF Feel!Launch
  <2>2. PICK u \in Strengths : pulses' = Append(pulses, u)
    BY <1>2, <1>8 DEF Feel!Launch
  <2>3. pulses' \in Seq(Strengths) BY <1>1, <2>2 DEF FeelTypes
  <2>4. FeelTypes' BY <1>1, <1>2, <1>3, <1>4, <1>8, <2>1, <2>3 DEF FeelTypes, Feel!Nobody
  <2>5. MotorLast' /\ TriggersLast' BY <1>3, <1>8 DEF MotorLast, TriggersLast
  <2>6. Feel!PulsesEnd' BY <1>1, <1>3, <2>1 DEF Feel!PulsesEnd, Feel!Nobody
  <2> QED BY <2>4, <2>5, <2>6 DEF FeelInv
<1>9. CASE /\ ~Feel!Skipped /\ lastProcessedEvent' = level /\ ~silenced'
           /\ device # "bluetooth" /\ Feel!Write(level)
  <2>1. /\ motor' = level /\ pulses' = pulses
        /\ trigger' = IF device = "dualsense" THEN cache ELSE trigger
    BY <1>9 DEF Feel!Write
  <2>2. FeelTypes' BY <1>1, <1>2, <1>3, <1>4, <1>9, <2>1 DEF FeelTypes, Feel!Nobody
  <2>3. Feel!Near(lastProcessedEvent, Feel!Clamped(asked))'
    <3>1. level - level \in -1 .. 1 BY <1>2, RumbleAssumption
    <3> QED BY <1>5, <1>9, <3>1 DEF Feel!Near
  <2>4. MotorLast' BY <1>9, <2>1, <2>3 DEF MotorLast
  <2>5. TriggersLast' BY <1>1, <1>3, <2>1 DEF TriggersLast
  <2>6. Feel!PulsesEnd' BY <1>3, <1>9 DEF Feel!PulsesEnd
  <2> QED BY <2>2, <2>4, <2>5, <2>6 DEF FeelInv
<1> QED BY <1>6, <1>7, <1>8, <1>9 DEF Feel!RumbleEvent, Feel!Dropped, level

LEMMA FeelTrigger ==
  ASSUME FeelInv, NEW e \in Effects, Feel!TriggerRumbleEvent(e)
  PROVE  FeelInv'
<1>1. FeelTypes /\ MotorLast /\ TriggersLast /\ Feel!PulsesEnd BY DEF FeelInv
<1>2. /\ ~over /\ count < Rumbles /\ count' = count + 1 /\ wanted' = e
      /\ UNCHANGED <<device, lastProcessedEvent, isVibrating, motor, trigger, haptics, pulses,
                     pulse, over, asked, missed, silenced>>
  BY DEF Feel!TriggerRumbleEvent
<1>3. count' \in 0 .. Rumbles BY <1>1, <1>2, RumbleAssumption DEF FeelTypes
<1>4. cache' \in Effects /\ javascript' \in Seq(Effects)
  <2>1. cache \in Effects /\ javascript \in Seq(Effects) BY <1>1 DEF FeelTypes
  <2>2. cache' \in {cache, e} /\ javascript' \in {javascript, Append(javascript, e)}
    BY DEF Feel!TriggerRumbleEvent, Feel!Cache
  <2> QED BY <2>1, <2>2
<1>5. FeelTypes' BY <1>1, <1>2, <1>3, <1>4 DEF FeelTypes, Feel!Nobody
<1>6. MotorLast' BY <1>1, <1>2 DEF MotorLast, Feel!Near, Feel!Clamped
<1>7. TriggersLast'
  <2> SUFFICES ASSUME device = "dualsense"
               PROVE  /\ cache' = wanted'
                      /\ javascript' # << >> /\ javascript'[Len(javascript')] = wanted'
    BY <1>2 DEF TriggersLast
  <2>1. cache' = e /\ javascript' = Append(javascript, e)
    BY DEF Feel!TriggerRumbleEvent, Feel!Cache
  <2>2. javascript \in Seq(Effects) BY <1>1 DEF FeelTypes
  <2>3. /\ Len(javascript') = Len(javascript) + 1 /\ Len(javascript) \in Nat
        /\ javascript'[Len(javascript) + 1] = e
    BY <2>1, <2>2
  <2> QED BY <1>2, <2>1, <2>3
<1>8. Feel!PulsesEnd' BY <1>1, <1>2 DEF Feel!PulsesEnd, Feel!Nobody
<1> QED BY <1>5, <1>6, <1>7, <1>8 DEF FeelInv

LEMMA FeelListener == ASSUME FeelInv, Feel!Listener PROVE FeelInv'
<1>1. FeelTypes /\ MotorLast /\ TriggersLast /\ Feel!PulsesEnd BY DEF FeelInv
<1>2. /\ javascript # << >> /\ javascript' = Tail(javascript)
      /\ UNCHANGED <<device, lastProcessedEvent, isVibrating, cache, haptics, pulses, pulse, over,
                     count, asked, wanted, missed>>
  BY DEF Feel!Listener, Feel!feeling
<1>3. javascript \in Seq(Effects) BY <1>1 DEF FeelTypes
<1>4. /\ Head(javascript) \in Effects /\ javascript' \in Seq(Effects)
      /\ Len(javascript) \in Nat \ {0} /\ Len(javascript') = Len(javascript) - 1
      /\ \A i \in 1 .. Len(javascript') : javascript'[i] = javascript[i + 1]
  BY <1>2, <1>3
<1>5. CASE device = "dualsense"
  <2>1. motor' = 0 /\ trigger' = Head(javascript) /\ silenced' = (motor # 0 \/ silenced)
    BY <1>5 DEF Feel!Listener
  <2>2. FeelTypes' BY <1>1, <1>2, <1>4, <2>1, RumbleAssumption DEF FeelTypes, Feel!Nobody
  <2>3. MotorLast' BY <1>1, <1>2, <2>1 DEF MotorLast, Feel!Near, Feel!Clamped
  <2>4. javascript[Len(javascript)] = wanted /\ cache = wanted
    BY <1>1, <1>2, <1>5 DEF TriggersLast
  <2>5. ASSUME javascript' = << >> PROVE trigger' = wanted'
    <3>1. Len(javascript) = 1 BY <1>4, <2>5
    <3>2. Head(javascript) = javascript[1] BY <1>2, <1>3
    <3> QED BY <1>2, <2>1, <2>4, <3>1, <3>2
  <2>6. ASSUME javascript' # << >> PROVE javascript'[Len(javascript')] = wanted'
    <3>1. Len(javascript') \in 1 .. Len(javascript') BY <1>4, <2>6
    <3>2. javascript'[Len(javascript')] = javascript[Len(javascript)] BY <1>4, <3>1
    <3> QED BY <1>2, <2>4, <3>2
  <2>7. TriggersLast' BY <1>2, <2>4, <2>5, <2>6 DEF TriggersLast
  <2>8. Feel!PulsesEnd' BY <1>2, <1>5 DEF Feel!PulsesEnd
  <2> QED BY <2>2, <2>3, <2>7, <2>8 DEF FeelInv
<1>6. CASE device # "dualsense"
  <2>1. UNCHANGED <<motor, trigger, silenced>> BY <1>6 DEF Feel!Listener
  <2>2. FeelTypes' BY <1>1, <1>2, <1>4, <2>1 DEF FeelTypes, Feel!Nobody
  <2>3. MotorLast' BY <1>1, <1>2, <2>1 DEF MotorLast, Feel!Near, Feel!Clamped
  <2>4. TriggersLast' BY <1>2, <1>6 DEF TriggersLast
  <2>5. Feel!PulsesEnd' BY <1>1, <1>2, <2>1 DEF Feel!PulsesEnd, Feel!Nobody
  <2> QED BY <2>2, <2>3, <2>4, <2>5 DEF FeelInv
<1> QED BY <1>5, <1>6

LEMMA FeelBegin ==
  ASSUME FeelInv, NEW i \in 1 .. Len(pulses), Feel!PulseBegin(i)
  PROVE  FeelInv'
<1>1. FeelTypes /\ MotorLast /\ TriggersLast /\ Feel!PulsesEnd BY DEF FeelInv
<1>2. /\ pulse' = pulses[i] /\ motor' = pulses[i]
      /\ pulses' = SubSeq(pulses, 1, i - 1) \o SubSeq(pulses, i + 1, Len(pulses))
      /\ UNCHANGED <<device, lastProcessedEvent, isVibrating, cache, trigger, haptics, javascript,
                     over, count, asked, wanted, missed, silenced>>
  BY DEF Feel!PulseBegin, Feel!feeling, Feel!history
<1>3. pulses \in Seq(Strengths) BY <1>1 DEF FeelTypes
<1>4. pulses[i] \in Strengths BY <1>3
<1>5. pulses' \in Seq(Strengths)
  <2>1. SubSeq(pulses, 1, i - 1) \in Seq(Strengths) BY <1>3
  <2>2. SubSeq(pulses, i + 1, Len(pulses)) \in Seq(Strengths) BY <1>3
  <2> QED BY <1>2, <2>1, <2>2
<1>6. device = "bluetooth" BY <1>1, <1>3 DEF FeelTypes
<1>7. FeelTypes' BY <1>1, <1>2, <1>4, <1>5, <1>6 DEF FeelTypes, Feel!Nobody
<1>8. MotorLast' /\ TriggersLast' BY <1>2, <1>6 DEF MotorLast, TriggersLast
<1>9. Feel!PulsesEnd' BY <1>2, <1>4, RumbleAssumption DEF Feel!PulsesEnd, Feel!Nobody
<1> QED BY <1>7, <1>8, <1>9 DEF FeelInv

LEMMA FeelNext == FeelInv /\ [Feel!Next]_(Feel!vars) => FeelInv'
<1> SUFFICES ASSUME FeelInv, [Feel!Next]_(Feel!vars) PROVE FeelInv' OBVIOUS
<1>1. FeelTypes /\ MotorLast /\ TriggersLast /\ Feel!PulsesEnd BY DEF FeelInv
<1>2. CASE Feel!Haptics
  <2>1. UNCHANGED <<device, lastProcessedEvent, isVibrating, cache, motor, trigger, javascript,
                    pulses, pulse, over, count, asked, wanted, missed, silenced>>
    BY <1>2 DEF Feel!Haptics, Feel!feeling, Feel!history
  <2> QED BY <1>1, <2>1 DEF FeelInv, FeelTypes, MotorLast, TriggersLast, Feel!PulsesEnd,
                            Feel!Nobody, Feel!Near, Feel!Clamped
<1>3. CASE Feel!Shutdown
  <2>1. /\ over' /\ motor' = IF device = "dualsense" THEN motor ELSE 0
        /\ UNCHANGED <<device, lastProcessedEvent, isVibrating, cache, trigger, javascript,
                       pulses, pulse, count, asked, wanted, missed, silenced>>
    BY <1>3 DEF Feel!Shutdown, Feel!feeling, Feel!history
  <2>2. FeelTypes' BY <1>1, <2>1, RumbleAssumption DEF FeelTypes, Feel!Nobody
  <2>3. MotorLast' BY <2>1 DEF MotorLast
  <2>4. TriggersLast' BY <1>1, <2>1 DEF TriggersLast
  <2>5. Feel!PulsesEnd' BY <1>1, <2>1 DEF Feel!PulsesEnd, Feel!Nobody
  <2> QED BY <2>2, <2>3, <2>4, <2>5 DEF FeelInv
<1>4. CASE Feel!PulseEnd
  <2>1. /\ pulse # Feel!Nobody /\ pulse' = Feel!Nobody /\ motor' = 0
        /\ UNCHANGED <<device, lastProcessedEvent, isVibrating, cache, trigger, javascript,
                       pulses, over, count, asked, wanted, missed, silenced>>
    BY <1>4 DEF Feel!PulseEnd, Feel!MotorOff, Feel!feeling, Feel!history
  <2>2. device = "bluetooth" BY <1>1, <2>1 DEF FeelTypes
  <2>3. FeelTypes' BY <1>1, <2>1, <2>2, RumbleAssumption DEF FeelTypes, Feel!Nobody
  <2>4. MotorLast' /\ TriggersLast' BY <2>1, <2>2 DEF MotorLast, TriggersLast
  <2>5. Feel!PulsesEnd' BY <2>1 DEF Feel!PulsesEnd
  <2> QED BY <2>3, <2>4, <2>5 DEF FeelInv
<1>5. CASE UNCHANGED Feel!vars
  <2>1. UNCHANGED <<device, lastProcessedEvent, isVibrating, cache, motor, trigger, javascript,
                    pulses, pulse, over, count, asked, wanted, missed, silenced>>
    BY <1>5 DEF Feel!vars, Feel!feeling, Feel!history
  <2> QED BY <1>1, <2>1 DEF FeelInv, FeelTypes, MotorLast, TriggersLast, Feel!PulsesEnd,
                            Feel!Nobody, Feel!Near, Feel!Clamped
<1> QED BY <1>2, <1>3, <1>4, <1>5, FeelRumble, FeelTrigger, FeelListener, FeelBegin DEF Feel!Next

LEMMA FeelSound == FeelInv => Feel!TypeOK /\ Feel!RumbleSound
<1> SUFFICES ASSUME FeelInv PROVE Feel!TypeOK /\ Feel!RumbleSound OBVIOUS
<1>1. FeelTypes /\ MotorLast /\ TriggersLast /\ Feel!PulsesEnd BY DEF FeelInv
<1>2. Feel!TypeOK BY <1>1 DEF FeelTypes, Feel!TypeOK
<1>3. Feel!MotorFollows BY <1>1 DEF MotorLast, Feel!MotorFollows
<1>4. Feel!TriggersFollow BY <1>1 DEF TriggersLast, Feel!TriggersFollow
<1> QED BY <1>1, <1>2, <1>3, <1>4 DEF Feel!RumbleSound

-----------------------------------------------------------------------------
(* Controllers over USB: their types, in parts.                             *)

ServiceTypes ==
  /\ started \in BOOLEAN /\ pending \subseteq Controllers
  /\ controllers \in Seq(Controllers) /\ contexts \subseteq Controllers
DeviceTypes ==
  /\ claimed \in [Controllers -> BOOLEAN] /\ stopped \in [Controllers -> BOOLEAN]
  /\ open \in [Controllers -> BOOLEAN] /\ plugged \in [Controllers -> BOOLEAN]
ThreadTypes ==
  /\ main \in {"idle", "size", "remove", "crashed"} \cup Usb!StopSteps
  /\ victim \in Controllers \cup {Usb!Nobody}
  /\ input \in [Controllers -> {"none", "asleep", "adding", "loop", "done"} \cup Usb!StopSteps]
  /\ interrupted \in [Controllers -> BOOLEAN]
WorkerTypes ==
  /\ enabled \in [Controllers -> BOOLEAN] /\ primed \in [Controllers -> BOOLEAN]
  /\ worker \in [Controllers -> BOOLEAN] /\ queue \in [Controllers -> 0 .. Capacity]
MonitorTypes ==
  /\ monitor \in [Controllers -> Controllers \cup {"main", "module", Usb!Nobody}]
  /\ owner \in Controllers \cup {Usb!Nobody} /\ native \in BOOLEAN
ModuleTypes ==
  /\ module \in {"idle", "enable", "set", "cleanup"}
  /\ target \in Controllers \cup {Usb!Nobody}
FeederTypes ==
  /\ stream \in {"idle", "priming"} /\ fed \in Controllers \cup {Usb!Nobody}
UsbTypes ==
  /\ ServiceTypes /\ DeviceTypes /\ ThreadTypes /\ WorkerTypes /\ MonitorTypes
  /\ ModuleTypes /\ FeederTypes

LEMMA ServiceKept ==
  ASSUME ServiceTypes, UNCHANGED <<started, pending, controllers, contexts>> PROVE ServiceTypes'
  BY DEF ServiceTypes
LEMMA DeviceKept == ASSUME DeviceTypes, UNCHANGED Usb!device PROVE DeviceTypes'
  BY DEF DeviceTypes, Usb!device
LEMMA ThreadKept ==
  ASSUME ThreadTypes, UNCHANGED <<main, victim, input, interrupted>> PROVE ThreadTypes'
  BY DEF ThreadTypes, Usb!StopSteps, Usb!Nobody
LEMMA WorkerKept ==
  ASSUME WorkerTypes, UNCHANGED <<enabled, primed, worker, queue>> PROVE WorkerTypes'
  BY DEF WorkerTypes
LEMMA MonitorKept ==
  ASSUME MonitorTypes, UNCHANGED <<monitor, owner, native>> PROVE MonitorTypes'
  BY DEF MonitorTypes, Usb!Nobody
LEMMA ModuleKept == ASSUME ModuleTypes, UNCHANGED <<module, target>> PROVE ModuleTypes'
  BY DEF ModuleTypes, Usb!Nobody
LEMMA FeederKept == ASSUME FeederTypes, UNCHANGED <<stream, fed>> PROVE FeederTypes'
  BY DEF FeederTypes, Usb!Nobody

LEMMA UsbTypesSound == UsbTypes => Usb!TypeOK
<1> SUFFICES ASSUME UsbTypes PROVE Usb!TypeOK OBVIOUS
<1>1. /\ ServiceTypes /\ DeviceTypes /\ ThreadTypes /\ WorkerTypes /\ MonitorTypes
      /\ ModuleTypes /\ FeederTypes
  BY DEF UsbTypes
<1>2. {started, native} \subseteq BOOLEAN /\ pending \subseteq Controllers
  BY <1>1 DEF ServiceTypes, MonitorTypes
<1>3. Usb!Listed \subseteq Controllers /\ contexts \subseteq Controllers
  BY <1>1 DEF ServiceTypes, Usb!Listed
<1>4. {claimed, stopped, open, plugged, interrupted, enabled, primed,
       worker} \subseteq [Controllers -> BOOLEAN]
  <2>1. {claimed, stopped, open, plugged} \subseteq [Controllers -> BOOLEAN]
    BY <1>1 DEF DeviceTypes
  <2>2. interrupted \in [Controllers -> BOOLEAN] BY <1>1 DEF ThreadTypes
  <2>3. {enabled, primed, worker} \subseteq [Controllers -> BOOLEAN] BY <1>1 DEF WorkerTypes
  <2> QED BY <2>1, <2>2, <2>3
<1>5. {owner, target, fed, victim} \subseteq Controllers \cup {Usb!Nobody}
  BY <1>1 DEF MonitorTypes, ModuleTypes, FeederTypes, ThreadTypes
<1> QED BY <1>1, <1>2, <1>3, <1>4, <1>5
        DEF ThreadTypes, WorkerTypes, MonitorTypes, ModuleTypes, FeederTypes, Usb!TypeOK

-----------------------------------------------------------------------------
(* The list of controllers.                                                 *)

Elements(s) == { s[i] : i \in 1 .. Len(s) }
Once(s) == \A i, j \in 1 .. Len(s) : s[i] = s[j] => i = j

LEMMA AppendList ==
  ASSUME NEW s \in Seq(Controllers), NEW c \in Controllers
  PROVE  /\ Append(s, c) \in Seq(Controllers)
         /\ Elements(Append(s, c)) = Elements(s) \cup {c}
         /\ Once(s) /\ c \notin Elements(s) => Once(Append(s, c))
<1> DEFINE r == Append(s, c)
<1>1. /\ r \in Seq(Controllers) /\ Len(s) \in Nat /\ Len(r) = Len(s) + 1 /\ r[Len(s) + 1] = c
      /\ \A i \in 1 .. Len(s) : r[i] = s[i]
  OBVIOUS
<1> HIDE DEF r
<1>2. Elements(r) \subseteq Elements(s) \cup {c}
  <2> SUFFICES ASSUME NEW i \in 1 .. Len(r) PROVE r[i] \in Elements(s) \cup {c}
    BY DEF Elements
  <2>1. CASE i = Len(s) + 1 BY <1>1, <2>1
  <2>2. CASE i # Len(s) + 1
    <3>1. i \in 1 .. Len(s) BY <1>1, <2>2
    <3> QED BY <1>1, <3>1 DEF Elements
  <2> QED BY <2>1, <2>2
<1>3. ASSUME NEW i \in 1 .. Len(s) PROVE s[i] \in Elements(r)
  <2>1. i \in 1 .. Len(r) /\ s[i] = r[i] BY <1>1
  <2> QED BY <2>1 DEF Elements
<1>4. c \in Elements(r)
  <2>1. Len(s) + 1 \in 1 .. Len(r) BY <1>1
  <2> QED BY <1>1, <2>1 DEF Elements
<1>5. ASSUME Once(s), c \notin Elements(s) PROVE Once(r)
  <2> SUFFICES ASSUME NEW i \in 1 .. Len(r), NEW j \in 1 .. Len(r), r[i] = r[j], i # j
               PROVE  FALSE
    BY DEF Once
  <2>1. \A k \in 1 .. Len(s) : r[k] # c BY <1>1, <1>5 DEF Elements
  <2>2. CASE i = Len(s) + 1
    <3>1. j \in 1 .. Len(s) BY <1>1, <2>2
    <3> QED BY <1>1, <2>1, <2>2, <3>1
  <2>3. CASE j = Len(s) + 1
    <3>1. i \in 1 .. Len(s) BY <1>1, <2>3
    <3> QED BY <1>1, <2>1, <2>3, <3>1
  <2>4. CASE i # Len(s) + 1 /\ j # Len(s) + 1
    <3>1. i \in 1 .. Len(s) /\ j \in 1 .. Len(s) BY <1>1, <2>4
    <3> QED BY <1>1, <1>5, <3>1 DEF Once
  <2> QED BY <2>2, <2>3, <2>4
<1>6. Elements(s) \subseteq Elements(r) BY <1>3 DEF Elements
<1>7. Elements(r) = Elements(s) \cup {c} BY <1>2, <1>4, <1>6
<1> QED BY <1>1, <1>5, <1>7 DEF r

(* A list without the element at a place of it. *)
Cut(s, i) == SubSeq(s, 1, i - 1) \o SubSeq(s, i + 1, Len(s))

LEMMA CutAt ==
  ASSUME NEW s \in Seq(Controllers), NEW i \in 1 .. Len(s)
  PROVE  /\ Cut(s, i) \in Seq(Controllers) /\ Len(Cut(s, i)) = Len(s) - 1
         /\ \A k \in 1 .. i - 1 : Cut(s, i)[k] = s[k]
         /\ \A k \in i .. Len(s) - 1 : Cut(s, i)[k] = s[k + 1]
<1>1. Len(s) \in Nat OBVIOUS
<1> DEFINE a == SubSeq(s, 1, i - 1)
           b == SubSeq(s, i + 1, Len(s))
<1>2. /\ a \in Seq(Controllers) /\ Len(a) = i - 1
      /\ \A k \in 1 .. i - 1 : a[k] = s[k]
  BY <1>1
<1>3. /\ b \in Seq(Controllers) /\ Len(b) = Len(s) - i
      /\ \A k \in 1 .. Len(s) - i : b[k] = s[k + i]
  BY <1>1
<1>4. Cut(s, i) = a \o b BY DEF Cut
<1> HIDE DEF a, b
<1> DEFINE r == Cut(s, i)
<1>5. /\ r \in Seq(Controllers) /\ Len(r) = Len(a) + Len(b)
      /\ \A k \in 1 .. Len(a) + Len(b) : r[k] = IF k <= Len(a) THEN a[k] ELSE b[k - Len(a)]
  <2>1. a \in Seq(Controllers) /\ b \in Seq(Controllers) BY <1>2, <1>3
  <2>2. /\ a \o b \in Seq(Controllers) /\ Len(a \o b) = Len(a) + Len(b)
        /\ \A k \in 1 .. Len(a) + Len(b) :
             (a \o b)[k] = IF k <= Len(a) THEN a[k] ELSE b[k - Len(a)]
    BY <2>1, ConcatProperties
  <2> QED BY <1>4, <2>2
<1> HIDE DEF r
<1>6. r \in Seq(Controllers) /\ Len(r) = Len(s) - 1 BY <1>1, <1>2, <1>3, <1>5
<1>7. ASSUME NEW k \in 1 .. i - 1 PROVE r[k] = s[k]
  <2>1. k \in 1 .. Len(a) + Len(b) /\ k <= Len(a) BY <1>1, <1>2, <1>3
  <2> QED BY <1>2, <1>5, <2>1
<1>8. ASSUME NEW k \in i .. Len(s) - 1 PROVE r[k] = s[k + 1]
  <2>1. /\ k - (i - 1) \in 1 .. Len(s) - i /\ k \in 1 .. Len(a) + Len(b)
        /\ ~(k <= Len(a))
    BY <1>1, <1>2, <1>3
  <2>2. r[k] = b[k - Len(a)] BY <1>5, <2>1
  <2>3. (k - (i - 1)) + i = k + 1 BY <1>1
  <2> QED BY <1>2, <1>3, <2>1, <2>2, <2>3
<1> QED BY <1>6, <1>7, <1>8 DEF r

LEMMA RemoveList ==
  ASSUME NEW s \in Seq(Controllers), NEW i \in 1 .. Len(s), Once(s)
  PROVE  /\ Cut(s, i) \in Seq(Controllers) /\ Once(Cut(s, i))
         /\ Elements(Cut(s, i)) = Elements(s) \ {s[i]}
<1>1. Len(s) \in Nat OBVIOUS
<1> DEFINE r == Cut(s, i)
<1>2. /\ r \in Seq(Controllers) /\ Len(r) = Len(s) - 1
      /\ \A k \in 1 .. i - 1 : r[k] = s[k]
      /\ \A k \in i .. Len(s) - 1 : r[k] = s[k + 1]
  BY CutAt
<1> HIDE DEF r
<1> DEFINE g(k) == IF k < i THEN k ELSE k + 1
<1>3. \A k \in 1 .. Len(r) : g(k) \in 1 .. Len(s) /\ g(k) # i /\ r[k] = s[g(k)]
  <2> SUFFICES ASSUME NEW k \in 1 .. Len(r)
               PROVE  g(k) \in 1 .. Len(s) /\ g(k) # i /\ r[k] = s[g(k)]
    OBVIOUS
  <2>1. CASE k < i
    <3>1. k \in 1 .. i - 1 BY <1>1, <1>2, <2>1
    <3> QED BY <1>1, <1>2, <2>1, <3>1
  <2>2. CASE ~(k < i)
    <3>1. k \in i .. Len(s) - 1 BY <1>1, <1>2, <2>2
    <3> QED BY <1>1, <1>2, <2>2, <3>1
  <2> QED BY <2>1, <2>2
<1>4. \A k, m \in 1 .. Len(r) : g(k) = g(m) => k = m
  BY <1>1, <1>2
<1>5. Once(r)
  <2> HIDE DEF g
  <2> QED BY <1>3, <1>4 DEF Once
<1>6. Elements(r) \subseteq Elements(s) \ {s[i]}
  <2> HIDE DEF g
  <2> QED BY <1>3 DEF Once, Elements
<1>7. Elements(s) \ {s[i]} \subseteq Elements(r)
  <2> SUFFICES ASSUME NEW k \in 1 .. Len(s), s[k] # s[i]
               PROVE  \E m \in 1 .. Len(r) : s[k] = r[m]
    BY DEF Elements
  <2>1. CASE k < i
    <3>1. k \in 1 .. i - 1 /\ k \in 1 .. Len(r) BY <1>1, <1>2, <2>1
    <3> QED BY <1>2, <3>1
  <2>2. CASE k > i
    <3>1. k - 1 \in i .. Len(s) - 1 /\ k - 1 \in 1 .. Len(r) /\ (k - 1) + 1 = k
      BY <1>1, <1>2, <2>2
    <3>2. r[k - 1] = s[k] BY <1>2, <3>1
    <3> QED BY <3>1, <3>2
  <2> QED BY <2>1, <2>2
<1> QED BY <1>2, <1>5, <1>6, <1>7 DEF r

LEMMA WithoutList ==
  ASSUME NEW s \in Seq(Controllers), Once(s), NEW c
  PROVE  /\ Usb!Without(s, c) \in Seq(Controllers) /\ Once(Usb!Without(s, c))
         /\ Elements(Usb!Without(s, c)) = Elements(s) \ {c}
<1>1. CASE \A i \in 1 .. Len(s) : s[i] # c BY <1>1 DEF Usb!Without, Elements
<1>2. CASE ~(\A i \in 1 .. Len(s) : s[i] # c)
  <2> DEFINE i == CHOOSE i \in 1 .. Len(s) : s[i] = c
  <2>1. i \in 1 .. Len(s) /\ s[i] = c BY <1>2
  <2>2. Usb!Without(s, c) = Cut(s, i)
    BY <1>2 DEF Usb!Without, Cut
  <2> HIDE DEF i
  <2> QED BY <2>1, <2>2, RemoveList
<1> QED BY <1>1, <1>2

LEMMA TailList ==
  ASSUME NEW s \in Seq(Controllers), s # << >>, Once(s)
  PROVE  /\ Head(s) \in Controllers /\ Tail(s) \in Seq(Controllers) /\ Once(Tail(s))
         /\ Head(s) \in Elements(s) /\ Elements(Tail(s)) = Elements(s) \ {Head(s)}
<1>1. /\ Len(s) \in Nat \ {0} /\ Head(s) = s[1]
      /\ Tail(s) \in Seq(Controllers) /\ Len(Tail(s)) = Len(s) - 1
      /\ \A k \in 1 .. Len(s) - 1 : Tail(s)[k] = s[k + 1]
  OBVIOUS
<1>2. 1 \in 1 .. Len(s) BY <1>1
<1>3. Head(s) \in Controllers /\ Head(s) \in Elements(s) BY <1>1, <1>2 DEF Elements
<1> DEFINE r == Tail(s)
<1> HIDE DEF r
<1>4. Once(r)
  <2> SUFFICES ASSUME NEW i \in 1 .. Len(r), NEW j \in 1 .. Len(r), r[i] = r[j] PROVE i = j
    BY DEF Once
  <2>1. i + 1 \in 1 .. Len(s) /\ j + 1 \in 1 .. Len(s) BY <1>1 DEF r
  <2>2. s[i + 1] = s[j + 1] BY <1>1 DEF r
  <2>3. i + 1 = j + 1 BY <2>1, <2>2 DEF Once
  <2> QED BY <2>3
<1>5. Elements(r) \subseteq Elements(s) \ {Head(s)}
  <2> SUFFICES ASSUME NEW i \in 1 .. Len(r) PROVE r[i] \in Elements(s) \ {Head(s)}
    BY DEF Elements
  <2>1. i + 1 \in 1 .. Len(s) /\ r[i] = s[i + 1] /\ i + 1 # 1 BY <1>1 DEF r
  <2> QED BY <1>1, <1>2, <2>1 DEF Once, Elements
<1>6. Elements(s) \ {Head(s)} \subseteq Elements(r)
  <2> SUFFICES ASSUME NEW k \in 1 .. Len(s), s[k] # Head(s)
               PROVE  \E m \in 1 .. Len(r) : s[k] = r[m]
    BY DEF Elements
  <2>1. k # 1 BY <1>1
  <2>2. k - 1 \in 1 .. Len(r) /\ k - 1 \in 1 .. Len(s) - 1 /\ (k - 1) + 1 = k
    BY <1>1, <2>1 DEF r
  <2>3. r[k - 1] = s[k] BY <1>1, <2>2 DEF r
  <2> QED BY <2>2, <2>3
<1> QED BY <1>1, <1>3, <1>4, <1>5, <1>6 DEF r

-----------------------------------------------------------------------------
(* What the drivers rely on.                                                *)

(* Whoever holds a controller's monitor is at the step that needs it, and   *)
(* while the module thread starts haptics the descriptor is of its          *)
(* controller or nobody's.                                                  *)
MonitorHeld ==
  /\ module # "idle" => target \in Controllers /\ monitor[target] = "module"
  /\ main = "cleanup" => victim \in Controllers /\ monitor[victim] = "main"
  /\ \A c \in Controllers : input[c] = "cleanup" => monitor[c] = c
  /\ module \in {"enable", "set"} => owner \in {Usb!Nobody, target}
DriversMonitor == MonitorHeld /\ Usb!HapticsOwned

(* A controller is claimed once, so that once it is taken out of the list   *)
(* it never comes back; and while it is listed nobody but its own thread    *)
(* stops it.                                                                *)
Claimed(c) ==
  /\ c \in Elements(controllers) \/ input[c] # "none" \/ stopped[c] => claimed[c]
  /\ c \in Elements(controllers) /\ stopped[c] =>
       input[c] \in {"quiet", "cleanup", "close", "removed"}
  /\ c \in Elements(controllers) => open[c] \/ input[c] = "removed"
Victim ==
  main \in Usb!StopSteps =>
    victim \in Controllers /\ victim \notin Elements(controllers) /\ claimed[victim]
DriversList == Once(controllers) /\ Victim /\ \A c \in Controllers : Claimed(c)

UsbInv == UsbTypes /\ DriversMonitor /\ DriversList

(* The threads have names of their own. *)
LEMMA Names ==
  \A c \in Controllers : c # "main" /\ c # "module" /\ c # Usb!Nobody
  BY DriversAssumption DEF Usb!Nobody

LEMMA UsbSound == UsbInv => Usb!TypeOK /\ Usb!UsbSound
<1> SUFFICES ASSUME UsbInv PROVE Usb!TypeOK /\ Usb!UsbSound OBVIOUS
<1>1. UsbTypes /\ DriversMonitor /\ DriversList BY DEF UsbInv
<1>2. Usb!ListOpen
  <2> SUFFICES ASSUME NEW c \in Usb!Listed PROVE open[c] \/ Usb!Stopping(c)
    BY DEF Usb!ListOpen
  <2>1. c \in Elements(controllers) BY DEF Usb!Listed, Elements
  <2>2. c \in Controllers BY <1>1, <2>1 DEF UsbTypes, ServiceTypes, Elements
  <2>3. open[c] \/ input[c] = "removed" BY <1>1, <2>1, <2>2 DEF DriversList, Claimed
  <2> QED BY <2>3 DEF Usb!Stopping, Usb!StopSteps
<1> QED BY <1>1, <1>2, UsbTypesSound DEF DriversMonitor, Usb!UsbSound

LEMMA UsbInit == Usb!Init => UsbInv
<1> SUFFICES ASSUME Usb!Init PROVE UsbInv OBVIOUS
<1>1. UsbTypes
  <2>1. ServiceTypes
    <3>1. started = FALSE /\ pending = {} /\ controllers = << >> /\ contexts = {}
      BY DEF Usb!Init
    <3>2. controllers \in Seq(Controllers) BY <3>1, EmptySeq
    <3> QED BY <3>1, <3>2 DEF ServiceTypes
  <2>2. DeviceTypes BY DEF Usb!Init, Usb!All, DeviceTypes
  <2>3. ThreadTypes BY DEF Usb!Init, Usb!All, ThreadTypes
  <2>4. WorkerTypes BY DriversAssumption DEF Usb!Init, Usb!All, WorkerTypes
  <2>5. MonitorTypes
    <3>1. monitor = [c \in Controllers |-> Usb!Nobody] BY DEF Usb!Init, Usb!All
    <3>2. owner = Usb!Nobody /\ native = FALSE BY DEF Usb!Init
    <3> QED BY <3>1, <3>2 DEF MonitorTypes
  <2>6. ModuleTypes /\ FeederTypes
    BY DEF Usb!Init, ModuleTypes, FeederTypes
  <2> QED BY <2>1, <2>2, <2>3, <2>4, <2>5, <2>6 DEF UsbTypes
<1>2. DriversMonitor
  BY DEF Usb!Init, Usb!All, DriversMonitor, MonitorHeld, Usb!HapticsOwned
<1>3. DriversList
  <2>1. Elements(controllers) = {} /\ Once(controllers) BY DEF Usb!Init, Elements, Once
  <2> QED BY <2>1 DEF Usb!Init, Usb!All, DriversList, Claimed, Victim, Usb!StopSteps
<1> QED BY <1>1, <1>2, <1>3 DEF UsbInv

(* A step of stopping c, by the main thread or by the input thread of c. *)
LEMMA StopMoves ==
  ASSUME NEW c \in Controllers, NEW t \in {"main", c}, NEW s, NEW r,
         Usb!At(t, c, s), Usb!Goto(t, c, r)
  PROVE  \/ t = "main" /\ main = s /\ victim = c /\ main' = r /\ UNCHANGED input
         \/ t = c /\ t # "main" /\ input[c] = s /\ input' = [input EXCEPT ![c] = r] /\ UNCHANGED main
  BY Names DEF Usb!At, Usb!Goto

-----------------------------------------------------------------------------
(* The types of the drivers are kept.                                       *)

LEMMA StopMoveTypes ==
  ASSUME ThreadTypes, NEW c \in Controllers, NEW t \in {"main", c}, NEW s,
         NEW r \in {Usb!Ended(t)} \cup Usb!StopSteps,
         Usb!At(t, c, s), Usb!Goto(t, c, r), victim' = victim,
         interrupted' \in [Controllers -> BOOLEAN]
  PROVE  ThreadTypes'
<1>1. CASE t = "main" /\ main' = r /\ UNCHANGED input
  <2>1. r \in {"size"} \cup Usb!StopSteps BY <1>1 DEF Usb!Ended
  <2> QED BY <1>1, <2>1 DEF ThreadTypes, Usb!StopSteps, Usb!Nobody
<1>2. CASE t # "main" /\ input' = [input EXCEPT ![c] = r] /\ UNCHANGED main
  <2>1. r \in {"done"} \cup Usb!StopSteps BY <1>2 DEF Usb!Ended
  <2>2. r \in {"none", "asleep", "adding", "loop", "done"} \cup Usb!StopSteps BY <2>1
  <2>3. input' \in [Controllers -> {"none", "asleep", "adding", "loop", "done"} \cup Usb!StopSteps]
    BY <1>2, <2>2 DEF ThreadTypes
  <2> QED BY <1>2, <2>3 DEF ThreadTypes, Usb!StopSteps, Usb!Nobody
<1> QED BY <1>1, <1>2, StopMoves

LEMMA StopStepTypes ==
  ASSUME UsbTypes, Once(controllers),
         NEW c \in Controllers, NEW t \in {"main", c}, Usb!StopStep(t, c)
  PROVE  UsbTypes'
<1>1. /\ ServiceTypes /\ DeviceTypes /\ ThreadTypes /\ WorkerTypes /\ MonitorTypes
      /\ ModuleTypes /\ FeederTypes
  BY DEF UsbTypes
<1>2. interrupted \in [Controllers -> BOOLEAN] BY <1>1 DEF ThreadTypes
<1>3. CASE Usb!CheckStopped(t, c)
  <2>1. ServiceTypes' /\ DeviceTypes'
    BY <1>1, <1>3, ServiceKept, DeviceKept DEF Usb!CheckStopped, Usb!service
  <2>2. WorkerTypes' /\ MonitorTypes'
    BY <1>1, <1>3, WorkerKept, MonitorKept DEF Usb!CheckStopped, Usb!haptics
  <2>3. ModuleTypes' /\ FeederTypes'
    BY <1>1, <1>3, ModuleKept, FeederKept DEF Usb!CheckStopped, Usb!caller, Usb!feeder
  <2>4. PICK r \in {Usb!Ended(t), "mark"} : Usb!Goto(t, c, r)
    BY <1>3 DEF Usb!CheckStopped
  <2>5. ThreadTypes'
    BY <1>1, <1>2, <1>3, <2>4, StopMoveTypes DEF Usb!CheckStopped, Usb!StopSteps
  <2> QED BY <2>1, <2>2, <2>3, <2>5 DEF UsbTypes
<1>4. CASE Usb!Mark(t, c)
  <2>1. ServiceTypes' BY <1>1, <1>4, ServiceKept DEF Usb!Mark, Usb!service
  <2>2. DeviceTypes' BY <1>1, <1>4 DEF Usb!Mark, DeviceTypes
  <2>3. WorkerTypes' /\ MonitorTypes'
    BY <1>1, <1>4, WorkerKept, MonitorKept DEF Usb!Mark, Usb!haptics
  <2>4. ModuleTypes' /\ FeederTypes'
    BY <1>1, <1>4, ModuleKept, FeederKept DEF Usb!Mark, Usb!caller, Usb!feeder
  <2>5. ThreadTypes'
    BY <1>1, <1>2, <1>4, StopMoveTypes DEF Usb!Mark, Usb!StopSteps
  <2> QED BY <2>1, <2>2, <2>3, <2>4, <2>5 DEF UsbTypes
<1>5. CASE Usb!QuietBegin(t, c)
  <2>1. ServiceTypes' /\ DeviceTypes'
    BY <1>1, <1>5, ServiceKept, DeviceKept DEF Usb!QuietBegin, Usb!service
  <2>2. WorkerTypes' BY <1>1, <1>5, DriversAssumption DEF Usb!QuietBegin, Usb!Quiet, WorkerTypes
  <2>3. MonitorTypes' BY <1>1, <1>5 DEF Usb!QuietBegin, MonitorTypes, Usb!Nobody
  <2>4. ModuleTypes' /\ FeederTypes'
    BY <1>1, <1>5, ModuleKept, FeederKept DEF Usb!QuietBegin, Usb!caller, Usb!feeder
  <2>5. ThreadTypes'
    BY <1>1, <1>2, <1>5, StopMoveTypes DEF Usb!QuietBegin, Usb!StopSteps
  <2> QED BY <2>1, <2>2, <2>3, <2>4, <2>5 DEF UsbTypes
<1>6. CASE Usb!QuietEnd(t, c)
  <2>1. ServiceTypes' /\ DeviceTypes'
    BY <1>1, <1>6, ServiceKept, DeviceKept DEF Usb!QuietEnd, Usb!service
  <2>2. WorkerTypes' BY <1>1, <1>6, WorkerKept DEF Usb!QuietEnd
  <2>3. MonitorTypes' BY <1>1, <1>6 DEF Usb!QuietEnd, Usb!Cleanup, MonitorTypes, Usb!Nobody
  <2>4. ModuleTypes' /\ FeederTypes'
    BY <1>1, <1>6, ModuleKept, FeederKept DEF Usb!QuietEnd, Usb!caller, Usb!feeder
  <2>5. ThreadTypes'
    BY <1>1, <1>2, <1>6, StopMoveTypes DEF Usb!QuietEnd, Usb!StopSteps
  <2> QED BY <2>1, <2>2, <2>3, <2>4, <2>5 DEF UsbTypes
<1>7. CASE Usb!Close(t, c)
  <2>1. ServiceTypes' BY <1>1, <1>7, ServiceKept DEF Usb!Close, Usb!service
  <2>2. DeviceTypes' BY <1>1, <1>7 DEF Usb!Close, DeviceTypes
  <2>3. WorkerTypes' /\ MonitorTypes'
    BY <1>1, <1>7, WorkerKept, MonitorKept DEF Usb!Close, Usb!haptics
  <2>4. ModuleTypes' /\ FeederTypes'
    BY <1>1, <1>7, ModuleKept, FeederKept DEF Usb!Close, Usb!caller, Usb!feeder
  <2>5. interrupted' \in [Controllers -> BOOLEAN] BY <1>2, <1>7 DEF Usb!Close
  <2>6. ThreadTypes'
    BY <1>1, <1>7, <2>5, StopMoveTypes DEF Usb!Close, Usb!StopSteps
  <2> QED BY <2>1, <2>2, <2>3, <2>4, <2>6 DEF UsbTypes
<1>8. CASE Usb!Remove(t, c)
  <2>1. ServiceTypes' BY <1>1, <1>8, WithoutList DEF Usb!Remove, ServiceTypes
  <2>2. DeviceTypes' BY <1>1, <1>8, DeviceKept DEF Usb!Remove
  <2>3. WorkerTypes' /\ MonitorTypes'
    BY <1>1, <1>8, WorkerKept, MonitorKept DEF Usb!Remove, Usb!haptics
  <2>4. ModuleTypes' /\ FeederTypes'
    BY <1>1, <1>8, ModuleKept, FeederKept DEF Usb!Remove, Usb!caller, Usb!feeder
  <2>5. ThreadTypes'
    BY <1>1, <1>2, <1>8, StopMoveTypes DEF Usb!Remove
  <2> QED BY <2>1, <2>2, <2>3, <2>4, <2>5 DEF UsbTypes
<1> QED BY <1>3, <1>4, <1>5, <1>6, <1>7, <1>8 DEF Usb!StopStep

LEMMA ExceptType ==
  ASSUME NEW S, NEW f \in [Controllers -> S], NEW c, NEW v, c \in Controllers => v \in S
  PROVE  [f EXCEPT ![c] = v] \in [Controllers -> S]
  OBVIOUS

LEMMA OfferType ==
  ASSUME WorkerTypes, NEW c, Usb!Offer(c) PROVE queue' \in [Controllers -> 0 .. Capacity]
<1> DEFINE v == IF worker[c] /\ queue[c] < Capacity THEN queue[c] + 1 ELSE queue[c]
<1>1. queue \in [Controllers -> 0 .. Capacity] BY DEF WorkerTypes
<1>2. c \in Controllers => v \in 0 .. Capacity BY <1>1, DriversAssumption
<1>3. queue' = [queue EXCEPT ![c] = v] BY DEF Usb!Offer
<1> HIDE DEF v
<1> QED BY <1>1, <1>2, <1>3, ExceptType

LEMMA ServiceStepTypes ==
  ASSUME UsbTypes, Once(controllers),
         Usb!Start \/ Usb!StopBegin \/ Usb!StopSize \/ Usb!StopRemove
  PROVE  UsbTypes'
<1>1. /\ ServiceTypes /\ DeviceTypes /\ ThreadTypes /\ WorkerTypes /\ MonitorTypes
      /\ ModuleTypes /\ FeederTypes
  BY DEF UsbTypes
<1>2. /\ UNCHANGED <<enabled, primed, worker, queue, monitor, owner, native, module, target,
                     stream, fed, interrupted, input>>
      /\ UNCHANGED Usb!device
  BY DEF Usb!Start, Usb!StopBegin, Usb!StopSize, Usb!StopRemove, Usb!haptics, Usb!caller,
         Usb!feeder
<1>3. /\ DeviceTypes' /\ WorkerTypes' /\ MonitorTypes' /\ ModuleTypes' /\ FeederTypes'
  BY <1>1, <1>2, DeviceKept, WorkerKept, MonitorKept, ModuleKept, FeederKept
<1>4. CASE Usb!Start
  <2>1. ServiceTypes' BY <1>1, <1>4 DEF Usb!Start, ServiceTypes
  <2>2. ThreadTypes' BY <1>1, <1>4, ThreadKept DEF Usb!Start
  <2> QED BY <1>3, <2>1, <2>2 DEF UsbTypes
<1>5. CASE Usb!StopBegin \/ Usb!StopSize
  <2>1. ServiceTypes' BY <1>1, <1>5 DEF Usb!StopBegin, Usb!StopSize, Usb!service, ServiceTypes
  <2>2. ThreadTypes'
    <3>1. main' \in {"size", "idle", "remove"} /\ victim' = victim
      BY <1>5 DEF Usb!StopBegin, Usb!StopSize
    <3> QED BY <1>1, <1>2, <3>1 DEF ThreadTypes, Usb!StopSteps, Usb!Nobody
  <2> QED BY <1>3, <2>1, <2>2 DEF UsbTypes
<1>6. CASE Usb!StopRemove
  <2>1. CASE controllers = << >>
    <3>1. ServiceTypes' BY <1>1, <1>6, <2>1, ServiceKept DEF Usb!StopRemove
    <3>2. ThreadTypes'
      BY <1>1, <1>2, <1>6, <2>1 DEF Usb!StopRemove, ThreadTypes, Usb!StopSteps, Usb!Nobody
    <3> QED BY <1>3, <3>1, <3>2 DEF UsbTypes
  <2>2. CASE controllers # << >>
    <3>1. Head(controllers) \in Controllers /\ Tail(controllers) \in Seq(Controllers)
      BY <1>1, <2>2, TailList DEF ServiceTypes
    <3>2. ServiceTypes' BY <1>1, <1>6, <2>2, <3>1 DEF Usb!StopRemove, ServiceTypes
    <3>3. victim' = Head(controllers) /\ main' = "check" BY <1>6, <2>2 DEF Usb!StopRemove
    <3>4. ThreadTypes' BY <1>1, <1>2, <3>1, <3>3 DEF ThreadTypes, Usb!StopSteps, Usb!Nobody
    <3> QED BY <1>3, <3>2, <3>4 DEF UsbTypes
  <2> QED BY <2>1, <2>2
<1> QED BY <1>4, <1>5, <1>6

LEMMA DeviceStepTypes ==
  ASSUME UsbTypes, NEW c \in Controllers,
         Usb!Claim(c) \/ Usb!Unplug(c) \/ Usb!Wake(c) \/ Usb!Add(c) \/ Usb!Loop(c)
  PROVE  UsbTypes'
<1>1. /\ ServiceTypes /\ DeviceTypes /\ ThreadTypes /\ WorkerTypes /\ MonitorTypes
      /\ ModuleTypes /\ FeederTypes
  BY DEF UsbTypes
<1>2. UNCHANGED <<enabled, primed, worker, queue, monitor, owner, native, module, target,
                  stream, fed, main, victim, interrupted>>
  BY DEF Usb!Claim, Usb!Unplug, Usb!Wake, Usb!Add, Usb!Loop, Usb!haptics, Usb!caller, Usb!feeder
<1>3. WorkerTypes' /\ MonitorTypes' /\ ModuleTypes' /\ FeederTypes'
  BY <1>1, <1>2, WorkerKept, MonitorKept, ModuleKept, FeederKept
<1>4. ASSUME NEW r \in {"asleep", "adding", "loop", "done", "check"},
             input' = [input EXCEPT ![c] = r]
      PROVE  ThreadTypes'
  <2>1. input' \in [Controllers -> {"none", "asleep", "adding", "loop", "done"} \cup Usb!StopSteps]
    BY <1>1, <1>4 DEF ThreadTypes, Usb!StopSteps
  <2> QED BY <1>1, <1>2, <2>1 DEF ThreadTypes, Usb!StopSteps, Usb!Nobody
<1>5. CASE Usb!Claim(c)
  <2>1. CASE UNCHANGED <<controllers, claimed, open, input>>
    <3>1. ServiceTypes' BY <1>1, <1>5, <2>1 DEF Usb!Claim, ServiceTypes
    <3>2. DeviceTypes' BY <1>1, <1>5, <2>1, DeviceKept DEF Usb!Claim, Usb!device
    <3>3. ThreadTypes' BY <1>1, <1>2, <2>1, ThreadKept
    <3> QED BY <1>3, <3>1, <3>2, <3>3 DEF UsbTypes
  <2>2. CASE ~UNCHANGED <<controllers, claimed, open, input>>
    <3>1. /\ started' = started /\ contexts' = contexts /\ pending' \subseteq pending
          /\ controllers' = Append(controllers, c)
      BY <1>5, <2>2 DEF Usb!Claim
    <3>2. ServiceTypes' BY <1>1, <3>1, AppendList DEF ServiceTypes
    <3>3. DeviceTypes' BY <1>1, <1>5, <2>2 DEF Usb!Claim, DeviceTypes
    <3>4. ThreadTypes' BY <1>4, <1>5, <2>2 DEF Usb!Claim
    <3> QED BY <1>3, <3>2, <3>3, <3>4 DEF UsbTypes
  <2> QED BY <2>1, <2>2
<1>6. CASE Usb!Unplug(c)
  <2>1. ServiceTypes' BY <1>1, <1>6, ServiceKept DEF Usb!Unplug, Usb!service
  <2>2. DeviceTypes' BY <1>1, <1>6 DEF Usb!Unplug, DeviceTypes
  <2>3. ThreadTypes' BY <1>1, <1>6, ThreadKept DEF Usb!Unplug
  <2> QED BY <1>3, <2>1, <2>2, <2>3 DEF UsbTypes
<1>7. CASE Usb!Wake(c)
  <2>1. ServiceTypes' BY <1>1, <1>7, ServiceKept DEF Usb!Wake, Usb!service
  <2>2. DeviceTypes' BY <1>1, <1>7, DeviceKept DEF Usb!Wake
  <2>3. ThreadTypes' BY <1>4, <1>7 DEF Usb!Wake
  <2> QED BY <1>3, <2>1, <2>2, <2>3 DEF UsbTypes
<1>8. CASE Usb!Add(c)
  <2>1. ServiceTypes' BY <1>1, <1>8 DEF Usb!Add, Usb!service, ServiceTypes
  <2>2. DeviceTypes' BY <1>1, <1>8, DeviceKept DEF Usb!Add
  <2>3. ThreadTypes' BY <1>4, <1>8 DEF Usb!Add
  <2> QED BY <1>3, <2>1, <2>2, <2>3 DEF UsbTypes
<1>9. CASE Usb!Loop(c)
  <2>1. ServiceTypes' BY <1>1, <1>9, ServiceKept DEF Usb!Loop, Usb!service
  <2>2. DeviceTypes' BY <1>1, <1>9, DeviceKept DEF Usb!Loop
  <2>3. ThreadTypes' BY <1>4, <1>9 DEF Usb!Loop
  <2> QED BY <1>3, <2>1, <2>2, <2>3 DEF UsbTypes
<1> QED BY <1>5, <1>6, <1>7, <1>8, <1>9

LEMMA HapticStepTypes ==
  ASSUME UsbTypes, MonitorHeld,
         \/ Usb!Enable \/ Usb!SetEnabled \/ Usb!ModuleCleanup \/ Usb!Prime
         \/ \E c \in Controllers : \/ Usb!Connect(c) \/ Usb!ModuleStop(c)
                                   \/ Usb!Feed(c) \/ Usb!Command(c) \/ Usb!Take(c)
  PROVE  UsbTypes'
<1>1. /\ ServiceTypes /\ DeviceTypes /\ ThreadTypes /\ WorkerTypes /\ MonitorTypes
      /\ ModuleTypes /\ FeederTypes
  BY DEF UsbTypes
<1>2. /\ UNCHANGED <<started, pending, controllers, contexts, main, victim, input, interrupted>>
      /\ UNCHANGED Usb!device
  BY DEF Usb!Enable, Usb!SetEnabled, Usb!ModuleCleanup, Usb!Prime, Usb!Connect, Usb!ModuleStop,
         Usb!Feed, Usb!Command, Usb!Take, Usb!service
<1>3. ServiceTypes' /\ DeviceTypes' /\ ThreadTypes'
  BY <1>1, <1>2, ServiceKept, DeviceKept, ThreadKept
<1>4. CASE Usb!Enable
  <2>1. WorkerTypes' BY <1>1, <1>4, WorkerKept DEF Usb!Enable
  <2>2. MonitorTypes' BY <1>1, <1>4 DEF Usb!Enable, Usb!Cleanup, MonitorTypes, Usb!Nobody
  <2>3. ModuleTypes' BY <1>1, <1>4 DEF Usb!Enable, ModuleTypes, Usb!Nobody
  <2>4. FeederTypes' BY <1>1, <1>4, FeederKept DEF Usb!Enable, Usb!feeder
  <2> QED BY <1>3, <2>1, <2>2, <2>3, <2>4 DEF UsbTypes
<1>5. CASE Usb!SetEnabled
  <2>1. WorkerTypes'
    <3>1. /\ enabled \in [Controllers -> BOOLEAN] /\ primed \in [Controllers -> BOOLEAN]
          /\ worker \in [Controllers -> BOOLEAN] /\ queue \in [Controllers -> 0 .. Capacity]
          /\ 0 \in 0 .. Capacity
      BY <1>1, DriversAssumption DEF WorkerTypes
    <3>2. /\ enabled' = [enabled EXCEPT ![target] = TRUE]
          /\ primed' = [primed EXCEPT ![target] = FALSE]
          /\ worker' = [worker EXCEPT ![target] = TRUE]
          /\ queue' = [queue EXCEPT ![target] = 0]
      BY <1>5 DEF Usb!SetEnabled
    <3>3. enabled' \in [Controllers -> BOOLEAN] BY <3>1, <3>2, ExceptType
    <3>4. primed' \in [Controllers -> BOOLEAN] BY <3>1, <3>2, ExceptType
    <3>5. worker' \in [Controllers -> BOOLEAN] BY <3>1, <3>2, ExceptType
    <3>6. queue' \in [Controllers -> 0 .. Capacity] BY <3>1, <3>2, ExceptType
    <3> QED BY <3>3, <3>4, <3>5, <3>6 DEF WorkerTypes
  <2>2. MonitorTypes' BY <1>1, <1>5 DEF Usb!SetEnabled, MonitorTypes, Usb!Nobody
  <2>3. ModuleTypes' BY <1>1, <1>5 DEF Usb!SetEnabled, ModuleTypes, Usb!Nobody
  <2>4. FeederTypes' BY <1>1, <1>5, FeederKept DEF Usb!SetEnabled, Usb!feeder
  <2> QED BY <1>3, <2>1, <2>2, <2>3, <2>4 DEF UsbTypes
<1>6. CASE Usb!ModuleCleanup
  <2>1. WorkerTypes' BY <1>1, <1>6, WorkerKept DEF Usb!ModuleCleanup
  <2>2. MonitorTypes' BY <1>1, <1>6 DEF Usb!ModuleCleanup, Usb!Cleanup, MonitorTypes, Usb!Nobody
  <2>3. ModuleTypes' BY <1>1, <1>6 DEF Usb!ModuleCleanup, ModuleTypes, Usb!Nobody
  <2>4. FeederTypes' BY <1>1, <1>6, FeederKept DEF Usb!ModuleCleanup, Usb!feeder
  <2> QED BY <1>3, <2>1, <2>2, <2>3, <2>4 DEF UsbTypes
<1>7. CASE Usb!Prime
  <2>1. WorkerTypes'
    <3>1. UNCHANGED <<enabled, worker>> BY <1>7 DEF Usb!Prime
    <3>2. CASE UNCHANGED <<primed, queue>> BY <1>1, <3>1, <3>2, WorkerKept
    <3>3. CASE primed' = [primed EXCEPT ![fed] = TRUE] /\ Usb!Offer(fed)
      <4>1. queue' \in [Controllers -> 0 .. Capacity] BY <1>1, <3>3, OfferType
      <4>2. primed' \in [Controllers -> BOOLEAN] BY <1>1, <3>3, ExceptType DEF WorkerTypes
      <4> QED BY <1>1, <3>1, <4>1, <4>2 DEF WorkerTypes
    <3> QED BY <1>7, <3>2, <3>3 DEF Usb!Prime
  <2>2. MonitorTypes' BY <1>1, <1>7, MonitorKept DEF Usb!Prime
  <2>3. ModuleTypes' BY <1>1, <1>7, ModuleKept DEF Usb!Prime, Usb!caller
  <2>4. FeederTypes' BY <1>1, <1>7 DEF Usb!Prime, FeederTypes, Usb!Nobody
  <2> QED BY <1>3, <2>1, <2>2, <2>3, <2>4 DEF UsbTypes
<1>8. ASSUME NEW c \in Controllers, Usb!Connect(c) PROVE UsbTypes'
  <2>1. WorkerTypes' BY <1>1, <1>8, WorkerKept DEF Usb!Connect
  <2>2. MonitorTypes' BY <1>1, <1>8 DEF Usb!Connect, MonitorTypes, Usb!Nobody
  <2>3. ModuleTypes' BY <1>1, <1>8 DEF Usb!Connect, ModuleTypes, Usb!Nobody
  <2>4. FeederTypes' BY <1>1, <1>8, FeederKept DEF Usb!Connect, Usb!feeder
  <2> QED BY <1>3, <2>1, <2>2, <2>3, <2>4 DEF UsbTypes
<1>9. ASSUME NEW c \in Controllers, Usb!ModuleStop(c) PROVE UsbTypes'
  <2>1. WorkerTypes' BY <1>1, <1>9, DriversAssumption DEF Usb!ModuleStop, Usb!Quiet, WorkerTypes
  <2>2. MonitorTypes' BY <1>1, <1>9 DEF Usb!ModuleStop, MonitorTypes, Usb!Nobody
  <2>3. ModuleTypes' BY <1>1, <1>9 DEF Usb!ModuleStop, ModuleTypes, Usb!Nobody
  <2>4. FeederTypes' BY <1>1, <1>9, FeederKept DEF Usb!ModuleStop, Usb!feeder
  <2> QED BY <1>3, <2>1, <2>2, <2>3, <2>4 DEF UsbTypes
<1>10. ASSUME NEW c \in Controllers, Usb!Feed(c) \/ Usb!Command(c) \/ Usb!Take(c) PROVE UsbTypes'
  <2>1. WorkerTypes'
    <3>1. CASE Usb!Feed(c)
      <4>1. UNCHANGED <<enabled, primed, worker>> BY <3>1 DEF Usb!Feed
      <4>2. Usb!Offer(c) \/ UNCHANGED queue BY <3>1 DEF Usb!Feed
      <4>3. queue' \in [Controllers -> 0 .. Capacity]
        BY <1>1, <4>2, OfferType DEF WorkerTypes
      <4> QED BY <1>1, <4>1, <4>3 DEF WorkerTypes
    <3>2. CASE Usb!Command(c) BY <1>1, <3>2 DEF Usb!Command, WorkerTypes
    <3>3. CASE Usb!Take(c)
      <4>1. UNCHANGED <<enabled, primed, worker>> BY <3>3 DEF Usb!Take
      <4>2. queue' \in [Controllers -> 0 .. Capacity]
        BY <1>1, <3>3, DriversAssumption DEF Usb!Take, WorkerTypes
      <4> QED BY <1>1, <4>1, <4>2 DEF WorkerTypes
    <3> QED BY <1>10, <3>1, <3>2, <3>3
  <2>2. MonitorTypes' BY <1>1, <1>10, MonitorKept DEF Usb!Feed, Usb!Command, Usb!Take
  <2>3. ModuleTypes' BY <1>1, <1>10, ModuleKept DEF Usb!Feed, Usb!Command, Usb!Take, Usb!caller
  <2>4. FeederTypes'
    BY <1>1, <1>10 DEF Usb!Feed, Usb!Command, Usb!Take, Usb!feeder, FeederTypes, Usb!Nobody
  <2> QED BY <1>3, <2>1, <2>2, <2>3, <2>4 DEF UsbTypes
<1> QED BY <1>4, <1>5, <1>6, <1>7, <1>8, <1>9, <1>10

-----------------------------------------------------------------------------
(* The monitors and the descriptor.                                         *)

LEMMA MonitorStays ==
  ASSUME DriversMonitor,
         UNCHANGED <<monitor, owner, native, enabled, module, target>>,
         main' = "cleanup" => main = "cleanup" /\ victim' = victim,
         \A c \in Controllers : input'[c] = "cleanup" => input[c] = "cleanup"
  PROVE  DriversMonitor'
<1>1. MonitorHeld' BY DEF DriversMonitor, MonitorHeld, Usb!Nobody
<1>2. Usb!HapticsOwned' BY DEF DriversMonitor, Usb!HapticsOwned, Usb!Nobody
<1> QED BY <1>1, <1>2 DEF DriversMonitor

LEMMA StopStepMonitor ==
  ASSUME UsbTypes, DriversMonitor, NEW c \in Controllers, NEW t \in {"main", c},
         Usb!StopStep(t, c)
  PROVE  DriversMonitor'
<1>1. MonitorHeld /\ Usb!HapticsOwned /\ ThreadTypes /\ MonitorTypes /\ WorkerTypes
  BY DEF DriversMonitor, UsbTypes
<1>2. ASSUME NEW s, NEW r, r # "cleanup", Usb!At(t, c, s), Usb!Goto(t, c, r),
             victim' = victim
      PROVE  /\ main' = "cleanup" => main = "cleanup" /\ victim' = victim
             /\ \A d \in Controllers : input'[d] = "cleanup" => input[d] = "cleanup"
  BY <1>1, <1>2, StopMoves DEF ThreadTypes
<1>3. CASE Usb!CheckStopped(t, c)
  <2>1. PICK r \in {Usb!Ended(t), "mark"} : Usb!Goto(t, c, r) BY <1>3 DEF Usb!CheckStopped
  <2>2. r # "cleanup" BY DEF Usb!Ended
  <2> QED BY <1>2, <1>3, <2>1, <2>2, MonitorStays DEF Usb!CheckStopped, Usb!haptics, Usb!caller
<1>4. CASE Usb!Mark(t, c)
  BY <1>2, <1>4, MonitorStays DEF Usb!Mark, Usb!haptics, Usb!caller
<1>5. CASE Usb!Close(t, c)
  BY <1>2, <1>5, MonitorStays DEF Usb!Close, Usb!haptics, Usb!caller
<1>6. CASE Usb!Remove(t, c)
  <2>1. Usb!Ended(t) # "cleanup" BY DEF Usb!Ended
  <2> QED BY <1>2, <1>6, <2>1, MonitorStays DEF Usb!Remove, Usb!haptics, Usb!caller
<1>7. CASE Usb!QuietBegin(t, c)
  <2>1. /\ monitor[c] = Usb!Nobody /\ monitor' = [monitor EXCEPT ![c] = t]
        /\ enabled' = [enabled EXCEPT ![c] = FALSE]
        /\ UNCHANGED <<owner, native, module, target, victim>>
        /\ Usb!At(t, c, "quiet") /\ Usb!Goto(t, c, "cleanup")
    BY <1>7 DEF Usb!QuietBegin, Usb!Quiet, Usb!caller
  <2>2. monitor'[c] = t /\ \A d \in Controllers : d # c => monitor'[d] = monitor[d]
    BY <1>1, <2>1 DEF MonitorTypes
  <2>3. module' # "idle" => target' \in Controllers /\ monitor'[target'] = "module"
    BY <1>1, <2>1, <2>2, Names DEF MonitorHeld, Usb!Nobody
  <2>4. main' = "cleanup" => victim' \in Controllers /\ monitor'[victim'] = "main"
    BY <1>1, <2>1, <2>2, Names, StopMoves DEF MonitorHeld, Usb!Nobody
  <2>5. \A d \in Controllers : input'[d] = "cleanup" => monitor'[d] = d
    <3> SUFFICES ASSUME NEW d \in Controllers, input'[d] = "cleanup" PROVE monitor'[d] = d
      OBVIOUS
    <3>1. CASE d = c
      <4>1. monitor[c] # c BY <2>1, Names
      <4>2. input[c] # "cleanup" BY <1>1, <4>1 DEF MonitorHeld
      <4>3. t = c BY <2>1, <3>1, <4>2, StopMoves
      <4> QED BY <2>2, <3>1, <4>3
    <3>2. CASE d # c
      <4>1. input'[d] = input[d] BY <1>1, <2>1, <3>2, StopMoves DEF ThreadTypes
      <4> QED BY <1>1, <2>2, <3>2, <4>1 DEF MonitorHeld
    <3> QED BY <3>1, <3>2
  <2>6. MonitorHeld' BY <1>1, <2>1, <2>3, <2>4, <2>5 DEF MonitorHeld, Usb!Nobody
  <2>7. Usb!HapticsOwned'
    <3> SUFFICES ASSUME native', owner' # Usb!Nobody
                 PROVE  enabled'[owner'] \/ monitor'[owner'] # Usb!Nobody
      BY DEF Usb!HapticsOwned, Usb!Nobody
    <3>1. owner \in Controllers /\ owner' = owner BY <1>1, <2>1 DEF MonitorTypes
    <3>2. CASE owner = c
      <4>1. t # Usb!Nobody BY Names DEF Usb!Nobody
      <4> QED BY <2>2, <3>1, <3>2, <4>1
    <3>3. CASE owner # c
      <4>1. enabled'[owner] = enabled[owner] BY <1>1, <2>1, <3>1, <3>3 DEF WorkerTypes
      <4> QED BY <1>1, <2>1, <2>2, <3>1, <3>3, <4>1 DEF Usb!HapticsOwned
    <3> QED BY <3>2, <3>3
  <2> QED BY <2>6, <2>7 DEF DriversMonitor
<1>8. CASE Usb!QuietEnd(t, c)
  <2>1. /\ monitor' = [monitor EXCEPT ![c] = Usb!Nobody] /\ owner' = Usb!Nobody
        /\ UNCHANGED <<module, target, victim>>
        /\ Usb!At(t, c, "cleanup") /\ Usb!Goto(t, c, "close")
    BY <1>8 DEF Usb!QuietEnd, Usb!Cleanup, Usb!caller
  <2>2. monitor[c] = t BY <1>1, <2>1 DEF Usb!At, MonitorHeld
  <2>3. \A d \in Controllers : d # c => monitor'[d] = monitor[d]
    BY <1>1, <2>1 DEF MonitorTypes
  <2>4. module' # "idle" => target' \in Controllers /\ monitor'[target'] = "module"
    BY <1>1, <2>1, <2>2, <2>3, Names DEF MonitorHeld
  <2>5. main' = "cleanup" => victim' \in Controllers /\ monitor'[victim'] = "main"
    <3> SUFFICES ASSUME main' = "cleanup"
                 PROVE  victim \in Controllers /\ monitor'[victim] = "main"
      BY <2>1
    <3>1. t = c /\ t # "main" /\ main = "cleanup" BY <2>1, StopMoves
    <3>2. victim \in Controllers /\ monitor[victim] = "main" BY <1>1, <3>1 DEF MonitorHeld
    <3>3. victim # c BY <2>2, <3>1, <3>2
    <3> QED BY <2>3, <3>2, <3>3
  <2>6. \A d \in Controllers : input'[d] = "cleanup" => monitor'[d] = d
    <3> SUFFICES ASSUME NEW d \in Controllers, input'[d] = "cleanup" PROVE monitor'[d] = d
      OBVIOUS
    <3>1. input[d] = "cleanup" /\ (t = c => d # c)
      BY <1>1, <2>1, StopMoves, Names DEF ThreadTypes
    <3>2. monitor[d] = d BY <1>1, <3>1 DEF MonitorHeld
    <3>3. d # c BY <2>2, <3>1, <3>2, Names
    <3> QED BY <2>3, <3>2, <3>3
  <2>7. MonitorHeld' BY <1>1, <2>1, <2>4, <2>5, <2>6 DEF MonitorHeld, Usb!Nobody
  <2>8. Usb!HapticsOwned' BY <2>1 DEF Usb!HapticsOwned, Usb!Nobody
  <2> QED BY <2>7, <2>8 DEF DriversMonitor
<1> QED BY <1>3, <1>4, <1>5, <1>6, <1>7, <1>8 DEF Usb!StopStep

LEMMA ModuleMonitor ==
  ASSUME UsbTypes, DriversMonitor,
         \/ Usb!Enable \/ Usb!SetEnabled \/ Usb!ModuleCleanup
         \/ \E c \in Controllers : Usb!Connect(c) \/ Usb!ModuleStop(c)
  PROVE  DriversMonitor'
<1>1. MonitorHeld /\ Usb!HapticsOwned /\ ThreadTypes /\ MonitorTypes /\ WorkerTypes
  BY DEF DriversMonitor, UsbTypes
<1>2. UNCHANGED <<main, victim, input>>
  BY DEF Usb!Enable, Usb!SetEnabled, Usb!ModuleCleanup, Usb!Connect, Usb!ModuleStop
<1>3. ASSUME NEW c \in Controllers, monitor[c] \in {Usb!Nobody, "module"},
             NEW v, monitor' = [monitor EXCEPT ![c] = v]
      PROVE  /\ main' = "cleanup" => victim' \in Controllers /\ monitor'[victim'] = "main"
             /\ \A d \in Controllers : input'[d] = "cleanup" => monitor'[d] = d
  <2>1. \A d \in Controllers : d # c => monitor'[d] = monitor[d]
    BY <1>1, <1>3 DEF MonitorTypes
  <2>2. main = "cleanup" => victim # c BY <1>1, <1>3, Names DEF MonitorHeld, Usb!Nobody
  <2>3. input[c] # "cleanup" BY <1>1, <1>3, Names DEF MonitorHeld
  <2> QED BY <1>1, <1>2, <2>1, <2>2, <2>3 DEF MonitorHeld
<1>4. CASE Usb!Enable
  <2>1. module = "enable" /\ target' = target /\ UNCHANGED enabled BY <1>4 DEF Usb!Enable, Usb!caller
  <2>2. target \in Controllers /\ monitor[target] = "module" /\ owner \in {Usb!Nobody, target}
    BY <1>1, <2>1 DEF MonitorHeld
  <2>3. CASE /\ owner # Usb!Nobody /\ native' = TRUE /\ module' = "set"
             /\ UNCHANGED <<owner, monitor>>
    <3>1. MonitorHeld' BY <1>1, <1>2, <2>1, <2>2, <2>3 DEF MonitorHeld, Usb!Nobody
    <3>2. monitor'[owner'] = "module" BY <2>2, <2>3
    <3>3. Usb!HapticsOwned' BY <3>2 DEF Usb!HapticsOwned, Usb!Nobody
    <3> QED BY <3>1, <3>3 DEF DriversMonitor
  <2>4. CASE /\ Usb!Cleanup(target) /\ module' = "idle"
             /\ monitor' = [monitor EXCEPT ![target] = Usb!Nobody]
    <3>1. MonitorHeld' BY <1>3, <2>2, <2>4 DEF MonitorHeld
    <3>2. Usb!HapticsOwned' BY <2>4 DEF Usb!Cleanup, Usb!HapticsOwned, Usb!Nobody
    <3> QED BY <3>1, <3>2 DEF DriversMonitor
  <2> QED BY <1>4, <2>3, <2>4 DEF Usb!Enable
<1>5. CASE Usb!SetEnabled
  <2>1. /\ module = "set" /\ module' = "idle" /\ UNCHANGED <<owner, native>>
        /\ enabled' = [enabled EXCEPT ![target] = TRUE]
        /\ monitor' = [monitor EXCEPT ![target] = Usb!Nobody]
    BY <1>5 DEF Usb!SetEnabled
  <2>2. target \in Controllers /\ monitor[target] = "module" /\ owner \in {Usb!Nobody, target}
    BY <1>1, <2>1 DEF MonitorHeld
  <2>3. MonitorHeld' BY <1>3, <2>1, <2>2 DEF MonitorHeld
  <2>4. enabled'[target] BY <1>1, <2>1, <2>2 DEF WorkerTypes
  <2>5. Usb!HapticsOwned' BY <2>1, <2>2, <2>4 DEF Usb!HapticsOwned, Usb!Nobody
  <2> QED BY <2>3, <2>5 DEF DriversMonitor
<1>6. CASE Usb!ModuleCleanup
  <2>1. /\ module = "cleanup" /\ module' = "idle" /\ owner' = Usb!Nobody
        /\ monitor' = [monitor EXCEPT ![target] = Usb!Nobody]
    BY <1>6 DEF Usb!ModuleCleanup, Usb!Cleanup
  <2>2. target \in Controllers /\ monitor[target] = "module" BY <1>1, <2>1 DEF MonitorHeld
  <2>3. MonitorHeld' BY <1>3, <2>1, <2>2 DEF MonitorHeld
  <2>4. Usb!HapticsOwned' BY <2>1 DEF Usb!HapticsOwned, Usb!Nobody
  <2> QED BY <2>3, <2>4 DEF DriversMonitor
<1>7. ASSUME NEW c \in Controllers, Usb!Connect(c) PROVE DriversMonitor'
  <2>1. /\ monitor[c] = Usb!Nobody /\ owner' = c /\ native' = FALSE /\ target' = c
        /\ monitor' = [monitor EXCEPT ![c] = "module"]
    BY <1>7 DEF Usb!Connect
  <2>2. monitor'[c] = "module" BY <1>1, <2>1 DEF MonitorTypes
  <2>3. MonitorHeld' BY <1>3, <2>1, <2>2 DEF MonitorHeld
  <2>4. Usb!HapticsOwned' BY <2>1 DEF Usb!HapticsOwned
  <2> QED BY <2>3, <2>4 DEF DriversMonitor
<1>8. ASSUME NEW c \in Controllers, Usb!ModuleStop(c) PROVE DriversMonitor'
  <2>1. /\ monitor[c] = Usb!Nobody /\ target' = c /\ module' = "cleanup"
        /\ monitor' = [monitor EXCEPT ![c] = "module"]
        /\ enabled' = [enabled EXCEPT ![c] = FALSE] /\ UNCHANGED <<owner, native>>
    BY <1>8 DEF Usb!ModuleStop, Usb!Quiet
  <2>2. monitor'[c] = "module" /\ \A d \in Controllers : d # c => monitor'[d] = monitor[d]
    BY <1>1, <2>1 DEF MonitorTypes
  <2>3. MonitorHeld' BY <1>3, <2>1, <2>2 DEF MonitorHeld
  <2>4. Usb!HapticsOwned'
    <3> SUFFICES ASSUME native', owner' # Usb!Nobody
                 PROVE  enabled'[owner'] \/ monitor'[owner'] # Usb!Nobody
      BY DEF Usb!HapticsOwned, Usb!Nobody
    <3>1. owner \in Controllers /\ owner' = owner BY <1>1, <2>1 DEF MonitorTypes
    <3>2. CASE owner = c BY <2>2, <3>1, <3>2 DEF Usb!Nobody
    <3>3. CASE owner # c
      <4>1. enabled'[owner] = enabled[owner] BY <1>1, <2>1, <3>1, <3>3 DEF WorkerTypes
      <4> QED BY <1>1, <2>1, <2>2, <3>1, <3>3, <4>1 DEF Usb!HapticsOwned
    <3> QED BY <3>2, <3>3
  <2> QED BY <2>3, <2>4 DEF DriversMonitor
<1> QED BY <1>4, <1>5, <1>6, <1>7, <1>8

LEMMA OtherMonitor ==
  ASSUME UsbTypes, DriversMonitor,
         \/ Usb!Start \/ Usb!StopBegin \/ Usb!StopSize \/ Usb!StopRemove \/ Usb!Prime
         \/ \E c \in Controllers :
              \/ Usb!Claim(c) \/ Usb!Unplug(c) \/ Usb!Wake(c) \/ Usb!Add(c) \/ Usb!Loop(c)
              \/ Usb!Feed(c) \/ Usb!Command(c) \/ Usb!Take(c)
  PROVE  DriversMonitor'
<1>1. UNCHANGED <<monitor, owner, native, enabled, module, target>>
  BY DEF Usb!Start, Usb!StopBegin, Usb!StopSize, Usb!StopRemove, Usb!Prime, Usb!Claim, Usb!Unplug,
         Usb!Wake, Usb!Add, Usb!Loop, Usb!Feed, Usb!Command, Usb!Take, Usb!haptics, Usb!caller
<1>2. main' = "cleanup" => main = "cleanup" /\ victim' = victim
  BY DEF Usb!Start, Usb!StopBegin, Usb!StopSize, Usb!StopRemove, Usb!Prime, Usb!Claim, Usb!Unplug,
         Usb!Wake, Usb!Add, Usb!Loop, Usb!Feed, Usb!Command, Usb!Take
<1>3. \A d \in Controllers : input'[d] = "cleanup" => input[d] = "cleanup"
  <2>1. CASE UNCHANGED input BY <2>1
  <2>2. ASSUME NEW c \in Controllers, NEW r, r # "cleanup", input' = [input EXCEPT ![c] = r]
        PROVE  \A d \in Controllers : input'[d] = "cleanup" => input[d] = "cleanup"
    BY <2>2 DEF UsbTypes, ThreadTypes
  <2>3. ASSUME NEW c \in Controllers, Usb!Claim(c), ~UNCHANGED input
        PROVE  input' = [input EXCEPT ![c] = "asleep"]
    BY <2>3 DEF Usb!Claim
  <2>4. ASSUME NEW c \in Controllers, Usb!Wake(c) \/ Usb!Add(c) \/ Usb!Loop(c)
        PROVE  \E r : r # "cleanup" /\ input' = [input EXCEPT ![c] = r]
    <3>1. CASE Usb!Wake(c)
      <4>1. (IF interrupted[c] THEN "done" ELSE "adding") # "cleanup" OBVIOUS
      <4> QED BY <3>1, <4>1 DEF Usb!Wake
    <3>2. CASE Usb!Add(c) BY <3>2 DEF Usb!Add
    <3>3. CASE Usb!Loop(c)
      <4>1. (IF interrupted[c] \/ stopped[c] THEN "done"
             ELSE IF open[c] /\ plugged[c] THEN "loop" ELSE "check") # "cleanup" OBVIOUS
      <4> QED BY <3>3, <4>1 DEF Usb!Loop
    <3> QED BY <2>4, <3>1, <3>2, <3>3
  <2>5. CASE ~\E c \in Controllers : Usb!Claim(c) \/ Usb!Wake(c) \/ Usb!Add(c) \/ Usb!Loop(c)
    <3>1. UNCHANGED input
      BY <2>5 DEF Usb!Start, Usb!StopBegin, Usb!StopSize, Usb!StopRemove, Usb!Prime, Usb!Unplug,
                  Usb!Feed, Usb!Command, Usb!Take
    <3> QED BY <3>1
  <2> QED BY <2>1, <2>2, <2>3, <2>4, <2>5
<1> QED BY <1>1, <1>2, <1>3, MonitorStays

-----------------------------------------------------------------------------
(* The list and the controllers on it.                                      *)

LEMMA ListStays ==
  ASSUME DriversList, UNCHANGED <<controllers, claimed, stopped, open, input>>,
         main' \in Usb!StopSteps => main \in Usb!StopSteps /\ victim' = victim
  PROVE  DriversList'
<1>1. Once(controllers)' BY DEF DriversList, Once
<1>2. Elements(controllers)' = Elements(controllers) BY DEF Elements
<1>3. Victim' BY <1>2 DEF DriversList, Victim, Usb!StopSteps
<1>4. ASSUME NEW c \in Controllers PROVE Claimed(c)'
  BY <1>2 DEF DriversList, Claimed
<1> QED BY <1>1, <1>3, <1>4 DEF DriversList

LEMMA ListBecomes ==
  ASSUME NEW r, controllers' = r
  PROVE  /\ Elements(controllers)' = Elements(r)
         /\ Once(controllers)' <=> Once(r)
  BY DEF Elements, Once

(* One controller's input thread goes on. *)
LEMMA ListInput ==
  ASSUME DriversList, ThreadTypes, NEW c \in Controllers, NEW r,
         UNCHANGED <<controllers, claimed, main, victim>>,
         input[c] # "none", input' = [input EXCEPT ![c] = r],
         \A d \in Controllers : d # c => stopped'[d] = stopped[d] /\ open'[d] = open[d],
         c \in Elements(controllers) =>
           /\ stopped'[c] => r \in {"quiet", "cleanup", "close", "removed"}
           /\ open'[c] \/ r = "removed"
  PROVE  DriversList'
<1>1. Once(controllers)' BY DEF DriversList, Once
<1>2. Elements(controllers)' = Elements(controllers) BY DEF Elements
<1>3. Victim' BY <1>2 DEF DriversList, Victim, Usb!StopSteps
<1>4. ASSUME NEW d \in Controllers PROVE Claimed(d)'
  <2>1. Claimed(d) /\ Claimed(c) BY DEF DriversList
  <2>2. CASE d = c
    <3>1. input'[c] = r /\ claimed[c] BY <2>1, <2>2 DEF Claimed, ThreadTypes
    <3> QED BY <1>2, <2>2, <3>1 DEF Claimed
  <2>3. CASE d # c
    <3>1. input'[d] = input[d] BY <2>3 DEF ThreadTypes
    <3> QED BY <1>2, <2>1, <2>3, <3>1 DEF Claimed
  <2> QED BY <2>2, <2>3
<1> QED BY <1>1, <1>3, <1>4 DEF DriversList

LEMMA StopStepList ==
  ASSUME UsbTypes, DriversList, NEW c \in Controllers, NEW t \in {"main", c},
         Usb!StopStep(t, c)
  PROVE  DriversList'
<1>1. Once(controllers) /\ Victim /\ Claimed(c) /\ \A d \in Controllers : Claimed(d)
  BY DEF DriversList
<1>2. controllers \in Seq(Controllers) BY DEF UsbTypes, ServiceTypes
<1>3. /\ stopped \in [Controllers -> BOOLEAN] /\ open \in [Controllers -> BOOLEAN]
      /\ ThreadTypes
  BY DEF UsbTypes, DeviceTypes
<1>4. victim' = victim /\ claimed' = claimed
  BY DEF Usb!StopStep, Usb!CheckStopped, Usb!Mark, Usb!QuietBegin, Usb!QuietEnd, Usb!Close,
         Usb!Remove, Usb!device
<1>5. CASE t = "main"
  <2>1. ASSUME NEW s \in Usb!StopSteps, NEW r, Usb!At(t, c, s), Usb!Goto(t, c, r)
        PROVE  /\ main \in Usb!StopSteps /\ victim = c /\ UNCHANGED input
               /\ c \notin Elements(controllers) /\ claimed[c]
    BY <1>1, <1>5, <2>1, StopMoves, Names DEF Victim
  <2>2. /\ main \in Usb!StopSteps /\ victim = c /\ UNCHANGED input
        /\ c \notin Elements(controllers) /\ claimed[c]
    BY <2>1 DEF Usb!StopStep, Usb!CheckStopped, Usb!Mark, Usb!QuietBegin, Usb!QuietEnd, Usb!Close,
         Usb!Remove, Usb!StopSteps
  <2>3. CASE Usb!CheckStopped(t, c) \/ Usb!QuietBegin(t, c) \/ Usb!QuietEnd(t, c)
    BY <1>4, <2>2, <2>3, ListStays
       DEF Usb!CheckStopped, Usb!QuietBegin, Usb!QuietEnd, Usb!service, Usb!device
  <2>4. CASE Usb!Mark(t, c) \/ Usb!Close(t, c)
    <3>1. controllers' = controllers BY <2>4 DEF Usb!Mark, Usb!Close, Usb!service
    <3>2. \A d \in Controllers : d # c => stopped'[d] = stopped[d] /\ open'[d] = open[d]
      BY <1>3, <2>4 DEF Usb!Mark, Usb!Close
    <3>3. Once(controllers)' /\ Elements(controllers)' = Elements(controllers)
      BY <1>1, <3>1 DEF Once, Elements
    <3>4. Victim' BY <1>4, <2>2, <3>3 DEF Victim
    <3>5. ASSUME NEW d \in Controllers PROVE Claimed(d)'
      BY <1>1, <1>4, <2>2, <3>2, <3>3 DEF Claimed
    <3> QED BY <3>3, <3>4, <3>5 DEF DriversList
  <2>5. CASE Usb!Remove(t, c)
    <3>1. controllers' = Usb!Without(controllers, c) /\ UNCHANGED <<stopped, open>>
      BY <2>5 DEF Usb!Remove, Usb!device
    <3>2. Once(controllers)' /\ Elements(controllers)' = Elements(controllers)
      <4>1. PICK r : r = Usb!Without(controllers, c) OBVIOUS
      <4>2. Once(r) /\ Elements(r) = Elements(controllers) \ {c}
        BY <1>1, <1>2, <4>1, WithoutList
      <4>3. Elements(r) = Elements(controllers) BY <2>2, <4>2
      <4> QED BY <3>1, <4>1, <4>2, <4>3, ListBecomes
    <3>3. Victim' BY <1>4, <2>2, <3>2 DEF Victim
    <3>4. ASSUME NEW d \in Controllers PROVE Claimed(d)'
      BY <1>1, <1>4, <2>2, <3>1, <3>2 DEF Claimed
    <3> QED BY <3>2, <3>3, <3>4 DEF DriversList
  <2> QED BY <2>3, <2>4, <2>5 DEF Usb!StopStep
<1>6. CASE t # "main"
  <2>0. t = c BY <1>6
  <2>1. ASSUME NEW s, NEW r, Usb!At(t, c, s), Usb!Goto(t, c, r)
        PROVE  input[c] = s /\ input' = [input EXCEPT ![c] = r] /\ UNCHANGED main
    BY <1>6, <2>1, StopMoves
  <2>2. CASE Usb!CheckStopped(t, c)
    <3>1. PICK r : r = (IF stopped[c] THEN Usb!Ended(t) ELSE "mark") OBVIOUS
    <3>2. Usb!At(t, c, "check") /\ Usb!Goto(t, c, r) BY <2>2, <3>1 DEF Usb!CheckStopped
    <3>3. input[c] = "check" /\ input' = [input EXCEPT ![c] = r] /\ UNCHANGED main
      BY <2>1, <3>2
    <3>4. UNCHANGED <<controllers, stopped, open>>
      BY <2>2 DEF Usb!CheckStopped, Usb!service, Usb!device
    <3>5. c \in Elements(controllers) => ~stopped[c] /\ open[c] BY <1>1, <3>3 DEF Claimed
    <3> QED BY <1>3, <1>4, <3>3, <3>4, <3>5, ListInput
  <2>3. CASE Usb!Mark(t, c)
    <3>1. /\ input[c] = "mark" /\ input' = [input EXCEPT ![c] = "quiet"] /\ UNCHANGED main
          /\ stopped' = [stopped EXCEPT ![c] = TRUE] /\ UNCHANGED <<controllers, open>>
      BY <2>1, <2>3 DEF Usb!Mark, Usb!service
    <3>2. c \in Elements(controllers) => open[c] BY <1>1, <3>1 DEF Claimed
    <3>3. \A d \in Controllers : d # c => stopped'[d] = stopped[d] BY <1>3, <3>1
    <3> QED BY <1>3, <1>4, <3>1, <3>2, <3>3, ListInput
  <2>4. CASE Usb!QuietBegin(t, c)
    <3>1. /\ input[c] = "quiet" /\ input' = [input EXCEPT ![c] = "cleanup"] /\ UNCHANGED main
          /\ UNCHANGED <<controllers, stopped, open>>
      BY <2>1, <2>4 DEF Usb!QuietBegin, Usb!service, Usb!device
    <3>2. c \in Elements(controllers) => open[c] BY <1>1, <3>1 DEF Claimed
    <3> QED BY <1>3, <1>4, <3>1, <3>2, ListInput
  <2>5. CASE Usb!QuietEnd(t, c)
    <3>1. /\ input[c] = "cleanup" /\ input' = [input EXCEPT ![c] = "close"] /\ UNCHANGED main
          /\ UNCHANGED <<controllers, stopped, open>>
      BY <2>1, <2>5 DEF Usb!QuietEnd, Usb!service, Usb!device
    <3>2. c \in Elements(controllers) => open[c] BY <1>1, <3>1 DEF Claimed
    <3> QED BY <1>3, <1>4, <3>1, <3>2, ListInput
  <2>6. CASE Usb!Close(t, c)
    <3>1. /\ input[c] = "close" /\ input' = [input EXCEPT ![c] = "removed"] /\ UNCHANGED main
          /\ open' = [open EXCEPT ![c] = FALSE] /\ UNCHANGED <<controllers, stopped>>
      BY <2>1, <2>6 DEF Usb!Close, Usb!service
    <3>2. \A d \in Controllers : d # c => open'[d] = open[d] BY <1>3, <3>1
    <3> QED BY <1>3, <1>4, <3>1, <3>2, ListInput
  <2>7. CASE Usb!Remove(t, c)
    <3>1. /\ input[c] = "removed" /\ input' = [input EXCEPT ![c] = "done"] /\ UNCHANGED main
          /\ controllers' = Usb!Without(controllers, c) /\ UNCHANGED <<stopped, open>>
      BY <1>6, <2>1, <2>7 DEF Usb!Remove, Usb!device, Usb!Ended
    <3>2. Once(controllers)' /\ Elements(controllers)' = Elements(controllers) \ {c}
      <4>1. PICK r : r = Usb!Without(controllers, c) OBVIOUS
      <4>2. Once(r) /\ Elements(r) = Elements(controllers) \ {c}
        BY <1>1, <1>2, <4>1, WithoutList
      <4> QED BY <3>1, <4>1, <4>2, ListBecomes
    <3>3. Victim' BY <1>1, <1>4, <3>1, <3>2 DEF Victim, Usb!StopSteps
    <3>4. ASSUME NEW d \in Controllers PROVE Claimed(d)'
      <4>1. CASE d = c
        <5>1. claimed[c] BY <1>1, <3>1 DEF Claimed
        <5> QED BY <1>4, <3>2, <4>1, <5>1 DEF Claimed
      <4>2. CASE d # c
        <5>1. input'[d] = input[d] BY <1>3, <3>1, <4>2 DEF ThreadTypes
        <5> QED BY <1>1, <1>4, <3>1, <3>2, <5>1 DEF Claimed
      <4> QED BY <4>1, <4>2
    <3> QED BY <3>2, <3>3, <3>4 DEF DriversList
  <2> QED BY <2>2, <2>3, <2>4, <2>5, <2>6, <2>7 DEF Usb!StopStep
<1> QED BY <1>5, <1>6

LEMMA StopRemoveList ==
  ASSUME UsbTypes, DriversList, Usb!StopRemove PROVE DriversList'
<1>1. Once(controllers) /\ Victim /\ \A d \in Controllers : Claimed(d)
  BY DEF DriversList
<1>2. controllers \in Seq(Controllers) BY DEF UsbTypes, ServiceTypes
<1>3. UNCHANGED <<claimed, stopped, open, input>> BY DEF Usb!StopRemove, Usb!device
<1>4. CASE controllers = << >>
  <2>1. main' = "crashed" /\ UNCHANGED controllers BY <1>4 DEF Usb!StopRemove
  <2> QED BY <1>3, <2>1, ListStays DEF Usb!StopSteps
<1>5. CASE controllers # << >>
  <2>1. victim' = Head(controllers) /\ controllers' = Tail(controllers)
    BY <1>5 DEF Usb!StopRemove
  <2>2. PICK h, r : h = Head(controllers) /\ r = Tail(controllers) OBVIOUS
  <2>3. /\ h \in Controllers /\ h \in Elements(controllers)
        /\ Once(r) /\ Elements(r) = Elements(controllers) \ {h}
    BY <1>1, <1>2, <1>5, <2>2, TailList
  <2>4. Once(controllers)' /\ Elements(controllers)' = Elements(controllers) \ {h}
    BY <2>1, <2>2, <2>3, ListBecomes
  <2>5. claimed[h] BY <1>1, <2>3 DEF Claimed
  <2>6. Victim' BY <1>3, <2>1, <2>2, <2>3, <2>4, <2>5 DEF Victim
  <2>7. ASSUME NEW d \in Controllers PROVE Claimed(d)'
    BY <1>1, <1>3, <2>4 DEF Claimed
  <2> QED BY <2>4, <2>6, <2>7 DEF DriversList
<1> QED BY <1>4, <1>5

LEMMA ClaimList ==
  ASSUME UsbTypes, DriversList, NEW c \in Controllers, Usb!Claim(c) PROVE DriversList'
<1>1. Once(controllers) /\ Victim /\ \A d \in Controllers : Claimed(d)
  BY DEF DriversList
<1>2. controllers \in Seq(Controllers) BY DEF UsbTypes, ServiceTypes
<1>3. /\ claimed \in [Controllers -> BOOLEAN] /\ open \in [Controllers -> BOOLEAN]
      /\ ThreadTypes
  BY DEF UsbTypes, DeviceTypes
<1>4. main' = "idle" /\ stopped' = stopped BY DEF Usb!Claim
<1>5. CASE UNCHANGED <<controllers, claimed, open, input>>
  BY <1>4, <1>5, ListStays DEF Usb!StopSteps
<1>6. CASE ~UNCHANGED <<controllers, claimed, open, input>>
  <2>1. /\ ~claimed[c] /\ claimed' = [claimed EXCEPT ![c] = TRUE]
        /\ open' = [open EXCEPT ![c] = TRUE] /\ input' = [input EXCEPT ![c] = "asleep"]
        /\ controllers' = Append(controllers, c)
    BY <1>6 DEF Usb!Claim
  <2>2. c \notin Elements(controllers) /\ ~stopped[c] BY <1>1, <2>1 DEF Claimed
  <2>3. PICK r : r = Append(controllers, c) OBVIOUS
  <2>4. Once(r) /\ Elements(r) = Elements(controllers) \cup {c}
    BY <1>1, <1>2, <2>2, <2>3, AppendList
  <2>5. Once(controllers)' /\ Elements(controllers)' = Elements(controllers) \cup {c}
    BY <2>1, <2>3, <2>4, ListBecomes
  <2>6. Victim' BY <1>4 DEF Victim, Usb!StopSteps
  <2>7. ASSUME NEW d \in Controllers PROVE Claimed(d)'
    <3>1. CASE d = c BY <1>3, <1>4, <2>1, <2>2, <3>1 DEF Claimed, ThreadTypes
    <3>2. CASE d # c
      <4>1. /\ claimed'[d] = claimed[d] /\ open'[d] = open[d] /\ input'[d] = input[d]
        BY <1>3, <2>1, <3>2 DEF ThreadTypes
      <4> QED BY <1>1, <1>4, <2>5, <3>2, <4>1 DEF Claimed
    <3> QED BY <3>1, <3>2
  <2> QED BY <2>5, <2>6, <2>7 DEF DriversList
<1> QED BY <1>5, <1>6

LEMMA InputList ==
  ASSUME UsbTypes, DriversList, NEW c \in Controllers,
         Usb!Wake(c) \/ Usb!Add(c) \/ Usb!Loop(c)
  PROVE  DriversList'
<1>1. Claimed(c) BY DEF DriversList
<1>2. ThreadTypes BY DEF UsbTypes
<1>3. UNCHANGED <<controllers, claimed, stopped, open, main, victim>>
  BY DEF Usb!Wake, Usb!Add, Usb!Loop, Usb!service, Usb!device
<1>4. input[c] \in {"asleep", "adding", "loop"} BY DEF Usb!Wake, Usb!Add, Usb!Loop
<1>5. c \in Elements(controllers) => ~stopped[c] /\ open[c] BY <1>1, <1>4 DEF Claimed
<1>6. \E r : input' = [input EXCEPT ![c] = r]
  BY DEF Usb!Wake, Usb!Add, Usb!Loop
<1> QED BY <1>2, <1>3, <1>4, <1>5, <1>6, ListInput

LEMMA OtherList ==
  ASSUME UsbTypes, DriversList,
         \/ Usb!Start \/ Usb!StopBegin \/ Usb!StopSize
         \/ Usb!Enable \/ Usb!SetEnabled \/ Usb!ModuleCleanup \/ Usb!Prime
         \/ \E c \in Controllers :
              \/ Usb!Unplug(c) \/ Usb!Connect(c) \/ Usb!ModuleStop(c)
              \/ Usb!Feed(c) \/ Usb!Command(c) \/ Usb!Take(c)
  PROVE  DriversList'
<1>1. UNCHANGED <<controllers, claimed, stopped, open, input>>
  BY DEF Usb!Start, Usb!StopBegin, Usb!StopSize, Usb!Enable, Usb!SetEnabled, Usb!ModuleCleanup,
         Usb!Prime, Usb!Unplug, Usb!Connect, Usb!ModuleStop, Usb!Feed, Usb!Command, Usb!Take,
         Usb!service, Usb!device
<1>2. main' \in Usb!StopSteps => main \in Usb!StopSteps /\ victim' = victim
  BY DEF Usb!Start, Usb!StopBegin, Usb!StopSize, Usb!Enable, Usb!SetEnabled, Usb!ModuleCleanup,
         Usb!Prime, Usb!Unplug, Usb!Connect, Usb!ModuleStop, Usb!Feed, Usb!Command, Usb!Take,
         Usb!StopSteps
<1> QED BY <1>1, <1>2, ListStays

-----------------------------------------------------------------------------
LEMMA UsbNext == UsbInv /\ [Usb!Next]_(Usb!vars) => UsbInv'
<1> SUFFICES ASSUME UsbInv, [Usb!Next]_(Usb!vars) PROVE UsbInv' OBVIOUS
<1>1. UsbTypes /\ DriversMonitor /\ DriversList /\ MonitorHeld /\ Once(controllers)
  BY DEF UsbInv, DriversMonitor, DriversList
<1>2. CASE Usb!Start \/ Usb!StopBegin \/ Usb!StopSize \/ Usb!StopRemove
  BY <1>1, <1>2, ServiceStepTypes, OtherMonitor, OtherList, StopRemoveList DEF UsbInv
<1>3. CASE Usb!Enable \/ Usb!SetEnabled \/ Usb!ModuleCleanup
  BY <1>1, <1>3, HapticStepTypes, ModuleMonitor, OtherList DEF UsbInv
<1>4. CASE Usb!Prime
  BY <1>1, <1>4, HapticStepTypes, OtherMonitor, OtherList DEF UsbInv
<1>5. ASSUME NEW c \in Controllers,
             Usb!Claim(c) \/ Usb!Unplug(c) \/ Usb!Wake(c) \/ Usb!Add(c) \/ Usb!Loop(c)
      PROVE  UsbInv'
  BY <1>1, <1>5, DeviceStepTypes, OtherMonitor, ClaimList, InputList, OtherList DEF UsbInv
<1>6. ASSUME NEW c \in Controllers, Usb!StopStep("main", c) \/ Usb!StopStep(c, c) PROVE UsbInv'
  <2>1. PICK t \in {"main", c} : Usb!StopStep(t, c) BY <1>6
  <2> QED BY <1>1, <2>1, StopStepTypes, StopStepMonitor, StopStepList DEF UsbInv
<1>7. ASSUME NEW c \in Controllers, Usb!Connect(c) \/ Usb!ModuleStop(c) PROVE UsbInv'
  BY <1>1, <1>7, HapticStepTypes, ModuleMonitor, OtherList DEF UsbInv
<1>8. ASSUME NEW c \in Controllers, Usb!Feed(c) \/ Usb!Command(c) \/ Usb!Take(c) PROVE UsbInv'
  BY <1>1, <1>8, HapticStepTypes, OtherMonitor, OtherList DEF UsbInv
<1>9. CASE UNCHANGED Usb!vars
  <2>1. /\ UNCHANGED <<started, pending, controllers, contexts, main, victim, input, interrupted,
                       claimed, stopped, open, enabled, primed, worker, queue,
                       monitor, owner, native, module, target, stream, fed>>
        /\ UNCHANGED Usb!device
    BY <1>9 DEF Usb!vars, Usb!service, Usb!device, Usb!haptics, Usb!caller, Usb!feeder
  <2>2. UsbTypes'
    BY <1>1, <2>1, ServiceKept, DeviceKept, ThreadKept, WorkerKept, MonitorKept, ModuleKept,
       FeederKept DEF UsbTypes
  <2>3. DriversMonitor' BY <1>1, <2>1, MonitorStays
  <2>4. DriversList' BY <1>1, <2>1, ListStays
  <2> QED BY <2>2, <2>3, <2>4 DEF UsbInv
<1> QED BY <1>2, <1>3, <1>4, <1>5, <1>6, <1>7, <1>8, <1>9 DEF Usb!Next

-----------------------------------------------------------------------------
(* What each part relies on, whichever part a behaviour is about.           *)
ControlInv == part \in {"pad", "usb", "feel"} /\ PadInv /\ UsbInv /\ FeelInv

LEMMA ControlStep == ControlInv /\ [ControlNext]_control => ControlInv'
<1> SUFFICES ASSUME ControlInv, [ControlNext]_control PROVE ControlInv' OBVIOUS
<1>1. [Next]_vars BY DEF ControlNext, PadOnly, UsbOnly, FeelOnly, control
<1>2. [Usb!Next]_(Usb!vars)
  <2>1. CASE UNCHANGED driving
    BY <2>1 DEF driving, Usb!vars, Usb!service, Usb!device, Usb!haptics, Usb!caller, Usb!feeder
  <2>2. CASE UsbOnly /\ Usb!Next BY <2>2
  <2> QED BY <2>1, <2>2 DEF ControlNext, PadOnly, FeelOnly, control
<1>3. [Feel!Next]_(Feel!vars)
  <2>1. CASE UNCHANGED feelings
    BY <2>1 DEF feelings, Feel!vars, Feel!feeling, Feel!history
  <2>2. CASE FeelOnly /\ Feel!Next BY <2>2
  <2> QED BY <2>1, <2>2 DEF ControlNext, PadOnly, UsbOnly, control
<1>4. part' = part BY DEF ControlNext, PadOnly, UsbOnly, FeelOnly, control
<1> QED BY <1>1, <1>2, <1>3, <1>4, NextPad, UsbNext, FeelNext DEF ControlInv

LEMMA ControlInvHolds == ControlSpec => []ControlInv
<1>1. ControlInit => ControlInv
  BY InitPad, UsbInit, FeelInit DEF ControlInit, ControlInv
<1> QED BY <1>1, ControlStep, PTL DEF ControlSpec

(* The user's controller and the console agree, for every number of keys,   *)
(* touches and controllers and all strengths: the events tell the console   *)
(* what keys and touches do and no change is slept through; the descriptor  *)
(* of native haptics belongs to a controller that has them on, and the      *)
(* service lists open controllers only, whoever of their threads stops      *)
(* them; and motors and triggers follow what the console said last.         *)
THEOREM ControlHolds == ControlSpec => []ControlSound
<1>1. ControlInv => ControlSound
  <2> SUFFICES ASSUME ControlInv PROVE ControlSound OBVIOUS
  <2>1. HistoryAgrees /\ ChangeWakes BY PadSound DEF ControlInv
  <2>2. Usb!TypeOK /\ Usb!UsbSound BY UsbSound DEF ControlInv
  <2>3. Feel!TypeOK /\ Feel!RumbleSound BY FeelSound DEF ControlInv
  <2>4. part \in {"pad", "usb", "feel"} BY DEF ControlInv
  <2>5. CASE part = "pad" BY <2>1, <2>5 DEF ControlSound
  <2>6. CASE part = "usb" BY <2>2, <2>6 DEF ControlSound
  <2>7. CASE part = "feel" BY <2>3, <2>7 DEF ControlSound
  <2> QED BY <2>4, <2>5, <2>6, <2>7
<1> QED BY <1>1, ControlInvHolds, PTL

(* In a behaviour of any of the three parts the sender keeps its types and  *)
(* its window.                                                              *)
THEOREM ControlWindow == ControlSpec => [](TypeOK /\ HistoryWindow)
<1>1. ControlInv => TypeOK /\ HistoryWindow BY DEF ControlInv, PadInv
<1> QED BY <1>1, ControlInvHolds, PTL
=============================================================================
