--------------------------- MODULE FeedbackSender ---------------------------
(***************************************************************************)
(* lib/src/feedbacksender.c and the history ring of lib/src/feedback.c:    *)
(* the thread that tells the console about the controller.  Sticks and     *)
(* sensors go out as feedback states, each of which replaces the last;     *)
(* buttons and touches go out as history events, and each history packet   *)
(* repeats the latest events to make up for packets that were lost.        *)
(*                                                                         *)
(* A controller state has a level for each key (a button, or an analog     *)
(* trigger), the id of the touch in each of the touch slots, and stick,    *)
(* which stands for all that a feedback state carries.  now, prev, changed *)
(* and stop are fields of ChiakiFeedbackSender; events, begin and len are  *)
(* its history ring.  Every call of the sender is made under               *)
(* feedback_sender_mutex of the stream connection, so there is one user.   *)
(* History: pushed lists every event ever pushed, nextId is the next touch *)
(* id chiaki_controller_state_start_touch gives out.  air and console are  *)
(* the feedback state in flight and the one the console knows.             *)
(*                                                                         *)
(* Time is left out: the thread may find its timeout over whenever it      *)
(* sleeps, and min_interval_ms, which only changes that timeout, with it.  *)
(* A wait may also be refused for its deadline, which ends the thread.     *)
(***************************************************************************)
EXTENDS Integers, Sequences

CONSTANTS
  Keys,         (* how many buttons and triggers: they are 0 .. Keys - 1     *)
  Levels,       (* values of a key, 0 when it is not pressed                 *)
  Slots,        (* CHIAKI_CONTROLLER_TOUCHES_MAX                             *)
  Sticks,       (* values of the sticks and sensors, 0 when idle             *)
  Size,         (* FEEDBACK_HISTORY_BUFFER_SIZE                              *)
  MaxSets       (* bound: how often the user sets a new state                *)

ASSUME SenderAssumption ==
  /\ Keys \in Nat /\ Slots \in Nat /\ MaxSets \in Nat
  /\ Size \in Nat \ {0}
  /\ 0 \in Levels /\ 0 \in Sticks

VARIABLES now, prev, changed, stop, events, begin, len,
          pc,       (* of the thread                                         *)
          at,       (* the key or touch slot feedback_sender_send_history is at *)
          user,     (* idle, or where its call is: set, stopped, joining, gone *)
          pushed, nextId, sets, air, console

ring == <<events, begin, len, pushed>>
vars == <<now, prev, changed, stop, ring, pc, at, user, nextId, sets, air, console>>

-----------------------------------------------------------------------------
KeyIds == 0 .. Keys - 1
SlotIds == Keys .. Keys + Slots - 1      \* the loop goes over keys, then slots
NoTouch == -1
Nothing == [kind |-> "none"]             \* an event not written yet
KeyEvent(k, level) == [kind |-> "key", key |-> k, level |-> level]
TouchEvent(id, down) == [kind |-> "touch", id |-> id, down |-> down]

Idle == [level |-> [k \in KeyIds |-> 0], touch |-> [t \in SlotIds |-> NoTouch], stick |-> 0]

Init ==
  /\ now = Idle /\ prev = Idle
  /\ changed = FALSE /\ stop = FALSE
  /\ events = [i \in 0 .. Size - 1 |-> Nothing] /\ begin = 0 /\ len = 0
  /\ pc = "start" /\ at = 0 /\ user = "idle"
  /\ pushed = << >> /\ nextId = 0 /\ sets = 0
  /\ air = {} /\ console = 0

(* The thread owns state_mutex except while it waits for the condition or   *)
(* for the mutex on its way back from there.                                *)
MutexFree == pc \in {"start", "asleep", "awake", "timedout", "done"}

Signaled == pc' = IF pc = "asleep" THEN "awake" ELSE pc

-----------------------------------------------------------------------------
(* The user: chiaki_feedback_sender_set_controller_state and _fini.         *)

(* In each slot the touch stays, or it ends, or it ends (if there was one)  *)
(* and a new one starts.                                                    *)
NextTouches ==
  { [t \in SlotIds |-> IF t \in starts THEN nextId + t - Keys
                       ELSE IF t \in ends THEN NoTouch ELSE now.touch[t]]
    : starts, ends \in SUBSET SlotIds }

SetState ==
  /\ user = "idle" /\ MutexFree /\ sets < MaxSets
  /\ \E level \in [KeyIds -> Levels], touch \in NextTouches, stick \in Sticks :
       /\ now' = [level |-> level, touch |-> touch, stick |-> stick]
       /\ now' # now
  /\ changed' = TRUE
  /\ user' = "set"
  /\ nextId' = nextId + Slots /\ sets' = sets + 1
  /\ UNCHANGED <<prev, stop, ring, pc, at, air, console>>

\* Mutant: the thread is not signaled.
SetSilent ==
  /\ user = "set" /\ user' = "idle" /\ pc' = pc
  /\ UNCHANGED <<now, prev, changed, stop, ring, at, nextId, sets, air, console>>

SetSignal ==
  /\ user = "set" /\ user' = "idle"
  /\ Signaled
  /\ UNCHANGED <<now, prev, changed, stop, ring, at, nextId, sets, air, console>>

FiniStop ==
  /\ user = "idle" /\ MutexFree
  /\ stop' = TRUE /\ user' = "stopped"
  /\ UNCHANGED <<now, prev, changed, ring, pc, at, nextId, sets, air, console>>

FiniSignal ==
  /\ user = "stopped" /\ user' = "joining"
  /\ Signaled
  /\ UNCHANGED <<now, prev, changed, stop, ring, at, nextId, sets, air, console>>

FiniJoin ==
  /\ user = "joining" /\ pc = "done" /\ user' = "gone"
  /\ UNCHANGED <<now, prev, changed, stop, ring, pc, at, nextId, sets, air, console>>

-----------------------------------------------------------------------------
(* The thread.                                                              *)

(* chiaki_feedback_history_buffer_push: begin moves back one slot, and the  *)
(* event is written there.                                                  *)
\* Mutants: begin moves forward; the length is not limited.
PushForward(e) ==
  /\ begin' = (begin + 1) % Size
  /\ len' = IF len + 1 >= Size THEN Size ELSE len + 1
  /\ events' = [events EXCEPT ![begin'] = e]
  /\ pushed' = Append(pushed, e)
PushUnlimited(e) ==
  /\ begin' = (begin + (Size - 1)) % Size
  /\ len' = len + 1
  /\ events' = [events EXCEPT ![begin'] = e]
  /\ pushed' = Append(pushed, e)

Push(e) ==
  /\ begin' = (begin + (Size - 1)) % Size
  /\ len' = IF len + 1 >= Size THEN Size ELSE len + 1
  /\ events' = [events EXCEPT ![begin'] = e]
  /\ pushed' = Append(pushed, e)

(* What chiaki_feedback_history_buffer_format writes: the packet that is    *)
(* sent after every push.                                                   *)
Format == [i \in 1 .. len |-> events[(begin + i - 1) % Size]]

SameForHistory(a, b) == a.level = b.level /\ a.touch = b.touch

\* Mutant: nothing is sent again when the timeout is over.
SendsStateOnce == changed /\ now.stick # prev.stick
SendsState == ~changed \/ now.stick # prev.stick

(* An iteration of the loop, which the predicate or the timeout let go on.  *)
Iterate ==
  IF stop
  THEN pc' = "done" /\ UNCHANGED <<prev, changed, at, air>>
  ELSE /\ changed' = FALSE
       /\ air' = IF SendsState THEN {now.stick} ELSE air
       /\ IF changed /\ ~SameForHistory(now, prev)
          THEN pc' = "history" /\ at' = 0 /\ prev' = prev
          ELSE pc' = "loop" /\ prev' = now /\ at' = at

Check ==
  /\ pc \in {"start", "awake", "loop"}
  /\ IF stop \/ changed THEN Iterate
     ELSE pc' = "asleep" /\ UNCHANGED <<prev, changed, at, air>>
  /\ UNCHANGED <<now, stop, ring, user, nextId, sets, console>>

(* set_timeout leaves a deadline of exactly one second in nanoseconds as it *)
(* is.  Unless the predicate holds at once, the wait then returns an error, *)
(* and the thread ends although nobody stopped it: the calls of the user    *)
(* go on without it.                                                        *)
Refused ==
  /\ pc \in {"start", "loop"} /\ ~stop /\ ~changed
  /\ pc' = "done"
  /\ UNCHANGED <<now, prev, changed, stop, ring, at, user, nextId, sets, air, console>>

Timedout ==
  /\ pc = "timedout"
  /\ Iterate
  /\ UNCHANGED <<now, stop, ring, user, nextId, sets, console>>

Wakes(to) ==
  /\ pc = "asleep" /\ pc' = to
  /\ UNCHANGED <<now, prev, changed, stop, ring, at, user, nextId, sets, air, console>>
Spurious == Wakes("awake")
Timeout == Wakes("timedout")

HistoryKey ==
  /\ pc = "history" /\ at \in KeyIds
  /\ IF prev.level[at] # now.level[at] THEN Push(KeyEvent(at, now.level[at])) ELSE UNCHANGED ring
  /\ at' = at + 1
  /\ UNCHANGED <<now, prev, changed, stop, pc, user, nextId, sets, air, console>>

\* Mutant: the new touch of a slot takes precedence over the one that ended.
TouchChangeDown(before, after) ==
  IF before # after /\ after # NoTouch THEN {TouchEvent(after, TRUE)}
  ELSE IF before # after THEN {TouchEvent(before, FALSE)} ELSE {}

(* One event at most: of a touch that ended and one that has started in     *)
(* its slot since, only the end is sent.                                    *)
TouchChange(before, after) ==
  IF before # after /\ before # NoTouch THEN {TouchEvent(before, FALSE)}
  ELSE IF before # after THEN {TouchEvent(after, TRUE)} ELSE {}

HistoryTouch ==
  /\ pc = "history" /\ at \in SlotIds
  /\ LET change == TouchChange(prev.touch[at], now.touch[at])
     IN IF change = {} THEN UNCHANGED ring ELSE \E e \in change : Push(e)
  /\ at' = at + 1
  /\ UNCHANGED <<now, prev, changed, stop, pc, user, nextId, sets, air, console>>

HistoryEnd ==
  /\ pc = "history" /\ at = Keys + Slots
  /\ pc' = "loop" /\ prev' = now
  /\ UNCHANGED <<now, changed, stop, ring, at, user, nextId, sets, air, console>>

-----------------------------------------------------------------------------
(* The network and the console.  A state that is still in flight when the   *)
(* next is sent counts as lost: the console drops it if it comes later.     *)

Deliver ==
  /\ air # {} /\ air' = {}
  /\ console' \in air
  /\ UNCHANGED <<now, prev, changed, stop, ring, pc, at, user, nextId, sets>>

Lose ==
  /\ air # {} /\ air' = {}
  /\ UNCHANGED <<now, prev, changed, stop, ring, pc, at, user, nextId, sets, console>>

Loop == Check \/ Timedout \/ HistoryKey \/ HistoryTouch \/ HistoryEnd

Next ==
  \/ SetState \/ SetSignal \/ FiniStop \/ FiniSignal \/ FiniJoin
  \/ Loop \/ Refused \/ Spurious \/ Timeout
  \/ Deliver \/ Lose

Spec == Init /\ [][Next]_vars

(* The thread runs; the deadline of its wait is absolute, so that waking up *)
(* early does not put it off for ever; the network does not lose every      *)
(* state; a call of the user that has begun goes on.                        *)
Fairness ==
  /\ WF_vars(Loop) /\ SF_vars(Timeout)
  /\ WF_vars(SetSignal) /\ WF_vars(FiniSignal)
  /\ SF_vars(Deliver)

FairSpec == Spec /\ Fairness

-----------------------------------------------------------------------------
(* Properties.                                                              *)

Touches == {NoTouch} \cup Nat
States == [level : [KeyIds -> Levels], touch : [SlotIds -> Touches], stick : Sticks]
Events == [kind : {"key"}, key : KeyIds, level : Levels]
            \cup [kind : {"touch"}, id : Nat, down : BOOLEAN]

(* Type invariant. *)
TypeOK ==
  /\ now \in States /\ prev \in States
  /\ changed \in BOOLEAN /\ stop \in BOOLEAN
  /\ begin \in 0 .. Size - 1 /\ len \in 0 .. Size
  /\ events \in [0 .. Size - 1 -> Events \cup {Nothing}]
  /\ pushed \in Seq(Events)
  /\ pc \in {"start", "awake", "asleep", "timedout", "history", "loop", "done"}
  /\ at \in 0 .. Keys + Slots
  /\ user \in {"idle", "set", "stopped", "joining", "gone"}
  /\ nextId \in Nat /\ sets \in 0 .. MaxSets
  /\ air \subseteq Sticks /\ console \in Sticks

(* A history packet carries the latest events, newest first, as many as the *)
(* ring has room for: whatever a lost packet said is said again.            *)
HistoryWindow ==
  /\ len = IF Len(pushed) < Size THEN Len(pushed) ELSE Size
  /\ \A i \in 1 .. len : Format[i] = pushed[Len(pushed) + 1 - i]

(* The key and touch states of a console that has seen every event. *)
LevelOf(k) ==
  LET js == { j \in 1 .. Len(pushed) : pushed[j].kind = "key" /\ pushed[j].key = k }
  IN IF js = {} THEN 0 ELSE pushed[CHOOSE j \in js : \A i \in js : i <= j].level
Down ==
  { pushed[j].id : j \in { j \in 1 .. Len(pushed) :
      /\ pushed[j].kind = "touch" /\ pushed[j].down
      /\ \A i \in j + 1 .. Len(pushed) :
           ~(pushed[i].kind = "touch" /\ pushed[i].id = pushed[j].id) } }

AtRest == ~changed /\ pc \in {"start", "asleep", "awake", "timedout", "loop"}

(* Once the thread has taken notice of the last change, the events have     *)
(* told the console the level of every key, however many changes in between *)
(* they skipped.                                                            *)
KeysAgree == AtRest => \A k \in KeyIds : LevelOf(k) = now.level[k]

(* ... and no touch is down for the console that has ended.  (The converse  *)
(* does not hold, see TouchChange.)                                         *)
NoStuckTouch == AtRest => Down \subseteq { now.touch[t] : t \in SlotIds }

(* The history tells the console what the controller's keys and touches do. *)
HistoryAgrees == KeysAgree /\ NoStuckTouch

(* The thread does not sleep through a change until the timeout.            *)
ChangeWakes == changed /\ pc = "asleep" => user = "set"

(* The thread has ended for a refused deadline: nothing is sent any more.   *)
Deserted == pc = "done" /\ ~stop

(* When the sticks stay where they are, the console learns of it although   *)
(* states are lost: the thread repeats the last one, as long as no deadline *)
(* is refused.                                                              *)
StickArrives ==
  \A s \in Sticks :
    <>[](now.stick = s /\ ~stop /\ ~Deserted) => <>[](console = s)
=============================================================================
