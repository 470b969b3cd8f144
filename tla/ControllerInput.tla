--------------------------- MODULE ControllerInput ---------------------------
(***************************************************************************)
(* Where the controller state comes from: StreamView.java keeps one         *)
(* controllerState, which every source changes in part and sends whole.     *)
(* The sources are a gamepad of Android (its keys, its trigger keys, its    *)
(* sticks with hat and triggers, its touchpad), or else a controller over   *)
(* USB, whose reports replace the state; the buttons, sticks and touchpad   *)
(* on the screen (Stream.tsx, Touchpad.tsx), which let go after a timer;    *)
(* and the gyroscope as a right stick.  All run on the main thread, and     *)
(* JavaScript sends its commands there in order, so that each event is one  *)
(* step.                                                                    *)
(*                                                                         *)
(* A trigger or a stick is at rest or not.  The id of a touch on the screen *)
(* or the gamepad's touchpad stands for the finger; when an id reaches its  *)
(* maximum all ids start again and the touchpad forgets its finger.  Motion *)
(* sensors and the delayed resend of a neutral state, which the sender of   *)
(* feedback takes for no change, are left out.                              *)
(* History: orphaned, triggers whose axis is ignored from now on although   *)
(* it was pulled.                                                           *)
(***************************************************************************)
EXTENDS Naturals, Sequences, FiniteSets

CONSTANTS
  Together,     \* bound: how many sources are used in one behaviour
  Waiting       \* bound: timers of one kind at a time

VARIABLES settings, pad, screen, page, view, controllerState, orphaned

vars == <<settings, pad, screen, page, view, controllerState, orphaned>>

Gamepad == {"keys", "triggers", "joystick", "touchpad"}
Buttons == {"L1", "DPAD", "TOUCHPAD"}
Triggers == {"L2", "R2"}
Keys == {"L1", "DPAD"}                    \* as key events of the gamepad
Controls == {"L1", "TOUCHPAD", "L2"}      \* on the screen
Sources == Gamepad \cup Controls \cup {"usb", "stick", "screenpad", "gyroscope"}
Fingers == {1, 2}
NoTouch == 0
Nobody == <<NoTouch, NoTouch>>

Neutral == [buttons |-> {}, triggers |-> {}, left |-> FALSE, right |-> FALSE, touches |-> Nobody]
NewView == [isTriggerWork |-> FALSE, isRightstickMoving |-> FALSE, isTouchpadTap |-> FALSE,
            touchId |-> NoTouch]
NewPage(gp) == [gpState |-> gp, stickMoving |-> FALSE, releases |-> [c \in Controls |-> 0],
                taps |-> 0, slots |-> Nobody]
AtRest == [keys |-> {}, hat |-> FALSE, axes |-> {}, left |-> FALSE, right |-> FALSE,
           finger |-> FALSE, touches |-> {}, turning |-> FALSE]
Untouched == [controls |-> {}, left |-> FALSE, right |-> FALSE, fingers |-> {}, long |-> FALSE]

(* What a user may set.                                                     *)
Settings ==
  [uses : {U \in SUBSET Sources : Cardinality(U) = Together /\ ("usb" \in U => U \cap Gamepad = {})},
   swapDpad : BOOLEAN, isShortTrigger : BOOLEAN, gyroscopeType : 0 .. 3,
   hold_buttons : SUBSET {"L1", "L2"}]

(* Nothing is set that is not used.                                         *)
Allowed(s) ==
  /\ ("gyroscope" \in s.uses) = (s.gyroscopeType # 0)
  /\ "joystick" \notin s.uses => ~s.swapDpad
  /\ "triggers" \notin s.uses => ~s.isShortTrigger
  /\ s.hold_buttons \subseteq s.uses

Init ==
  /\ settings \in Settings /\ Allowed(settings)
  /\ pad = AtRest /\ screen = Untouched
  /\ page = NewPage({}) /\ view = NewView
  /\ controllerState = Neutral /\ orphaned = {}

Uses(source) == source \in settings.uses
Flip(S, x) == IF x \in S THEN S \ {x} ELSE S \cup {x}

-----------------------------------------------------------------------------
(* Events of a gamepad.                                                     *)

(* handleKeyEvent of a key that is a button.                                *)
Key(k) ==
  /\ Uses("keys")
  /\ LET down == k \notin pad.keys
     IN /\ pad' = [pad EXCEPT !.keys = Flip(@, k)]
        /\ controllerState' = [controllerState EXCEPT !.buttons =
                                IF down THEN @ \cup {k} ELSE @ \ {k}]
  /\ UNCHANGED <<settings, screen, page, view, orphaned>>

(* A trigger key sets the trigger when triggers are short, and then the     *)
(* axes of both triggers no longer do.                                      *)
AxesWork == ~settings.isShortTrigger \/ ~view.isTriggerWork

TriggerKey(t) ==
  /\ Uses("triggers")
  /\ LET down == t \notin pad.keys
     IN /\ pad' = [pad EXCEPT !.keys = Flip(@, t)]
        /\ IF settings.isShortTrigger
           THEN /\ view' = [view EXCEPT !.isTriggerWork = TRUE]
                /\ controllerState' = [controllerState EXCEPT !.triggers =
                                         IF down THEN @ \cup {t} ELSE @ \ {t}]
                /\ orphaned' = (IF AxesWork THEN pad.axes ELSE orphaned) \ {t}
           ELSE UNCHANGED <<view, controllerState, orphaned>>
  /\ UNCHANGED <<settings, screen, page>>

(* Of sticks, hat and triggers at most one changes between two events.      *)
Turned ==
  {pad, [pad EXCEPT !.hat = ~@], [pad EXCEPT !.left = ~@], [pad EXCEPT !.right = ~@]}
    \cup {[pad EXCEPT !.axes = Flip(@, t)] : t \in Triggers}

(* handleGenericMotionEvent of the joystick: an event tells of every axis.  *)
(* With swapDpad the hat is the left stick and the sticks are not used.     *)
Joystick(now, halfSecond) ==
  /\ Uses("joystick")
  /\ pad' = now
  /\ view' = [view EXCEPT !.isRightstickMoving = now.right \/ (@ /\ ~halfSecond)]
  /\ controllerState' = [controllerState EXCEPT
       !.buttons = IF settings.swapDpad THEN @
                   ELSE (@ \ {"DPAD"}) \cup {b \in {"DPAD"} : now.hat},
       !.triggers = IF AxesWork THEN now.axes ELSE @,
       !.left = IF settings.swapDpad THEN now.hat ELSE now.left,
       !.right = IF settings.swapDpad THEN @ ELSE now.right]
  /\ UNCHANGED <<settings, screen, page, orphaned>>

(* handleTouchpadTap                                                        *)
Tap(state, isPressed, touches) ==
  [state EXCEPT !.buttons = IF isPressed THEN @ \cup {"TOUCHPAD"} ELSE @ \ {"TOUCHPAD"},
                !.touches = touches]

(* The touchpad of the gamepad: the system tells of a press between the     *)
(* finger's coming and its going.                                           *)
MoveStart ==
  /\ Uses("touchpad") /\ ~pad.finger
  /\ pad' = [pad EXCEPT !.finger = TRUE]
  /\ \E id \in {1, NoTouch} : view' = [view EXCEPT !.touchId = id]
  /\ UNCHANGED <<settings, screen, page, controllerState, orphaned>>

Move ==
  /\ pad.finger /\ ~view.isTouchpadTap
  /\ controllerState' = Tap(controllerState, FALSE, <<view.touchId, NoTouch>>)
  /\ UNCHANGED <<settings, pad, screen, page, view, orphaned>>

(* ACTION_BUTTON_PRESS and ACTION_BUTTON_RELEASE                            *)
Press ==
  /\ pad.finger
  /\ controllerState' = Tap(controllerState, ~view.isTouchpadTap, <<1, NoTouch>>)
  /\ \E id \in {1, NoTouch} :
       view' = [view EXCEPT !.isTouchpadTap = ~@, !.touchId = id]
  /\ UNCHANGED <<settings, pad, screen, page, orphaned>>

\* Mutant: the finger's last place is told like any other.
LiftedTouches == <<view.touchId, NoTouch>>
Lifted == Nobody

MoveEnd ==
  /\ pad.finger /\ ~view.isTouchpadTap
  /\ pad' = [pad EXCEPT !.finger = FALSE]
  /\ controllerState' = Tap(controllerState, FALSE, Lifted)
  /\ UNCHANGED <<settings, screen, page, view, orphaned>>

-----------------------------------------------------------------------------
(* A controller over USB.                                                   *)

\* Mutant: touches are shown in the order of the report.
SlotsReported(active, prev) == [i \in 1 .. 2 |-> IF i <= Len(active) THEN active[i] ELSE NoTouch]
(* onDsGamepadReport: a finger keeps its slot, unless it is alone.          *)
Slots(active, prev) ==
  CASE Len(active) = 0 -> Nobody
    [] Len(active) = 1 -> <<active[1], NoTouch>>
    [] OTHER -> IF active[1] = prev[2] \/ active[2] = prev[1] THEN <<active[2], active[1]>> ELSE active

Reports == {q \in UNION {[1 .. n -> 1 .. 3] : n \in 0 .. 2} : Len(q) = 2 => q[1] # q[2]}

(* Between two reports a button, a trigger, a stick or the fingers change.  *)
Moved ==
  {[pad EXCEPT !.keys = Flip(@, b)] : b \in {"L1", "TOUCHPAD"}}
    \cup {[pad EXCEPT !.axes = Flip(@, "L2")], [pad EXCEPT !.right = ~@], pad}

(* handleUsbDsControllerEvent *)
Report(now, active) ==
  /\ Uses("usb")
  /\ now = pad \/ pad.touches = {active[i] : i \in 1 .. Len(active)}
  /\ pad' = [now EXCEPT !.touches = {active[i] : i \in 1 .. Len(active)}]
  /\ page' = [page EXCEPT !.slots = Slots(active, @)]
  /\ controllerState' = [buttons |-> now.keys, triggers |-> now.axes, left |-> now.left,
                         right |-> now.right, touches |-> page'.slots]
  /\ UNCHANGED <<settings, screen, view, orphaned>>

-----------------------------------------------------------------------------
(* Buttons and sticks on the screen.                                        *)
Held(c) == c \in settings.hold_buttons
Pressed(state, c, isPressed) ==
  CASE c = "TOUCHPAD" -> Tap(state, isPressed, Nobody)
    [] c = "L1" -> [state EXCEPT !.buttons = IF isPressed THEN @ \cup {c} ELSE @ \ {c}]
    [] c = "L2" -> [state EXCEPT !.triggers = IF isPressed THEN @ \cup {c} ELSE @ \ {c}]

(* handlePressIn: a control that is to be held is pressed and released in   *)
(* turns, a trigger beginning with its release.                             *)
PressIn(c) ==
  /\ Uses(c) /\ c \notin screen.controls
  /\ screen' = [screen EXCEPT !.controls = @ \cup {c}]
  /\ IF Held(c)
     THEN /\ controllerState' = Pressed(controllerState, c, (c \in page.gpState) = (c = "L2"))
          /\ page' = [page EXCEPT !.gpState = IF c \in @ THEN @ \ {c} ELSE @ \cup {c}]
     ELSE controllerState' = Pressed(controllerState, c, TRUE) /\ UNCHANGED page
  /\ orphaned' = orphaned \ {c}
  /\ UNCHANGED <<settings, pad, view>>

(* handlePressOut, and the timers it sets.                                  *)
PressOut(c) ==
  /\ c \in screen.controls /\ page.releases[c] < Waiting
  /\ screen' = [screen EXCEPT !.controls = @ \ {c}]
  /\ page' = [page EXCEPT !.releases[c] = @ + 1]
  /\ UNCHANGED <<settings, pad, view, controllerState, orphaned>>

\* Mutant: a touchpad button that is released is let go with the others.
ReleaseUntapped(c) ==
  /\ page' = [page EXCEPT !.releases[c] = @ - 1]
  /\ UNCHANGED controllerState
Release(c) ==
  IF c = "TOUCHPAD"
  THEN /\ page' = [page EXCEPT !.releases[c] = @ - 1, !.taps = @ + 1]
       /\ UNCHANGED controllerState
  ELSE /\ page' = [page EXCEPT !.releases[c] = @ - 1]
       /\ controllerState' = IF Held(c) THEN controllerState ELSE Pressed(controllerState, c, FALSE)

ReleaseTimer(c) ==
  /\ page.releases[c] > 0 /\ (c = "TOUCHPAD" => page.taps < Waiting)
  /\ Release(c)
  /\ UNCHANGED <<settings, pad, screen, view, orphaned>>

TapTimer ==
  /\ page.taps > 0
  /\ page' = [page EXCEPT !.taps = @ - 1]
  /\ controllerState' = Tap(controllerState, FALSE, Nobody)
  /\ UNCHANGED <<settings, pad, screen, view, orphaned>>

(* handleStickMove *)
Stick(left, right) ==
  /\ Uses("stick") /\ <<left, right>> # <<screen.left, screen.right>>
  /\ screen' = [screen EXCEPT !.left = left, !.right = right]
  /\ page' = [page EXCEPT !.stickMoving = right]
  /\ controllerState' = [controllerState EXCEPT
       !.left = IF left = screen.left THEN @ ELSE left,
       !.right = IF right = screen.right THEN @ ELSE right]
  /\ UNCHANGED <<settings, pad, view, orphaned>>

-----------------------------------------------------------------------------
(* The touchpad on the screen.                                              *)

(* handleTouchpad: no button is pressed while a finger moves.               *)
Touch(touches) == [controllerState EXCEPT !.buttons = {}, !.touches = touches]

FingerDown(f) ==
  /\ Uses("screenpad") /\ f \notin screen.fingers /\ ~screen.long
  /\ screen' = [screen EXCEPT !.fingers = @ \cup {f}]
  /\ UNCHANGED <<settings, pad, page, view, controllerState, orphaned>>

FingersMove ==
  /\ screen.fingers # {} /\ ~screen.long
  /\ controllerState' = Touch([f \in Fingers |-> IF f \in screen.fingers THEN f ELSE NoTouch])
  /\ UNCHANGED <<settings, pad, screen, page, view, orphaned>>

LongPress ==
  /\ Cardinality(screen.fingers) = 1 /\ ~screen.long
  /\ screen' = [screen EXCEPT !.long = TRUE]
  /\ controllerState' = Tap(controllerState, TRUE, <<1, NoTouch>>)
  /\ UNCHANGED <<settings, pad, page, view, orphaned>>

(* A finger is lifted.  A long press ends; else the pan gesture is told,    *)
(* and a short touch is a tap, which is told before or after it.            *)
FingerUp(f) ==
  /\ f \in screen.fingers /\ page.taps < Waiting
  /\ screen' = [screen EXCEPT !.fingers = @ \ {f}, !.long = FALSE]
  /\ \/ screen.long /\ page' = [page EXCEPT !.taps = @ + 1] /\ UNCHANGED controllerState
     \/ ~screen.long /\ controllerState' = Touch(Nobody) /\ UNCHANGED page
     \/ /\ ~screen.long /\ screen.fingers = {f}
        /\ page' = [page EXCEPT !.taps = @ + 1]
        /\ \/ controllerState' = Tap(Touch(Nobody), TRUE, <<1, NoTouch>>)
           \/ controllerState' = Touch(Nobody)
  /\ UNCHANGED <<settings, pad, view, orphaned>>

-----------------------------------------------------------------------------
\* Mutant: the stick is not set back when the button is released.
SensorStickKept(turning, on) == IF on THEN turning ELSE controllerState.right
(* handleSensorStick: the gyroscope is the right stick while a trigger or a *)
(* button is pressed, or always.                                            *)
SensorStick(turning, on) == on /\ turning

GyroscopeOn ==
  CASE settings.gyroscopeType = 1 -> "L2" \in controllerState.triggers
    [] settings.gyroscopeType = 2 -> "L1" \in controllerState.buttons
    [] OTHER -> TRUE

(* The right stick after an event of the gyroscope.                         *)
Sensed(turning) ==
  IF settings.gyroscopeType = 0 \/ page.stickMoving \/ view.isRightstickMoving
  THEN controllerState.right
  ELSE SensorStick(turning, GyroscopeOn)

Sensor(turning) ==
  /\ Uses("gyroscope")
  /\ pad' = [pad EXCEPT !.turning = turning]
  /\ controllerState' = [controllerState EXCEPT !.right = Sensed(turning)]
  /\ UNCHANGED <<settings, screen, page, view, orphaned>>

(* The page is left and opened again: gpState belongs to the module, all    *)
(* else to the page, its view or its touchpad; timers find no view.         *)
Reopen ==
  /\ screen = Untouched
  /\ page' = NewPage(page.gpState) /\ view' = NewView
  /\ controllerState' = Neutral /\ orphaned' = {}
  /\ UNCHANGED <<settings, pad, screen>>

Next ==
  \/ \E k \in Keys : Key(k)
  \/ \E t \in Triggers : TriggerKey(t)
  \/ \E now \in Turned, halfSecond \in BOOLEAN : Joystick(now, halfSecond)
  \/ MoveStart \/ Move \/ Press \/ MoveEnd
  \/ \E now \in Moved, active \in Reports : Report(now, active)
  \/ \E c \in Controls : PressIn(c) \/ PressOut(c) \/ ReleaseTimer(c)
  \/ TapTimer
  \/ \E left, right \in BOOLEAN : Stick(left, right)
  \/ \E f \in Fingers : FingerDown(f) \/ FingerUp(f)
  \/ FingersMove \/ LongPress
  \/ \E turning \in BOOLEAN : Sensor(turning)
  \/ Reopen

Spec == Init /\ [][Next]_vars
-----------------------------------------------------------------------------
(* Type invariant. *)
TypeOK ==
  /\ settings.uses \subseteq Sources /\ settings.gyroscopeType \in 0 .. 3
  /\ controllerState \in [buttons : SUBSET Buttons, triggers : SUBSET Triggers,
                          left : BOOLEAN, right : BOOLEAN, touches : [1 .. 2 -> 0 .. 3]]
  /\ page.taps \in 0 .. Waiting /\ page.releases \in [Controls -> 0 .. Waiting]
  /\ page.gpState \subseteq settings.hold_buttons
  /\ orphaned \subseteq Triggers

(* What is still to be released by a timer, or is held by turns.            *)
Lingering(c) == c \in screen.controls \/ page.releases[c] > 0

(* A button that is shown is pressed somewhere, or is about to be released. *)
ButtonsMeant ==
  \A b \in controllerState.buttons :
    \/ b \in pad.keys \/ (b = "DPAD" /\ pad.hat)
    \/ b \in Controls /\ Lingering(b)
    \/ b \in page.gpState
    \/ b = "TOUCHPAD" /\ (view.isTouchpadTap \/ screen.long \/ page.taps > 0)

(* So is a trigger, but for one whose axis lost its say while it was pulled *)
(* and one that is to be held.                                              *)
TriggersMeant ==
  \A t \in controllerState.triggers :
    t \in pad.keys \cup pad.axes \cup orphaned \/ Held(t) \/ (t \in Controls /\ Lingering(t))

(* The gyroscope sends all the time: with its next event the right stick is *)
(* at rest if nobody moves anything, unless the gyroscope is kept out by a  *)
(* right stick that is not used itself (swapDpad).                          *)
SticksMeant ==
  /\ controllerState.left => pad.left \/ pad.hat \/ screen.left
  /\ Sensed(pad.turning) => \/ pad.right \/ screen.right \/ pad.turning
                            \/ settings.swapDpad /\ view.isRightstickMoving

(* A touch that is shown is a finger's, or a tap's that is about to end.    *)
TouchesMeant ==
  controllerState.touches # Nobody =>
    pad.finger \/ pad.touches # {} \/ screen.fingers # {} \/ page.taps > 0

(* Of the fingers on a controller over USB each has one slot, one that is   *)
(* alone has the first, and of two one that had a slot keeps it.            *)
SlotsKept ==
  \A active \in Reports :
    LET slots == Slots(active, page.slots)
    IN /\ {slots[1], slots[2]} \ {NoTouch} = {active[i] : i \in 1 .. Len(active)}
       /\ Len(active) = 1 => slots[1] = active[1]
       /\ Len(active) = 2 => \A i \in 1 .. 2 : page.slots[i] \in {active[1], active[2]} =>
                                                 slots[i] = page.slots[i]

(* The console never sees the user do what nobody does any more, whichever  *)
(* sources, timers and gestures change the one state in whichever order     *)
(* (StreamView.java:607, Stream.tsx:221, Touchpad.tsx:180).                 *)
InputSound == ButtonsMeant /\ TriggersMeant /\ SticksMeant /\ TouchesMeant /\ SlotsKept
=============================================================================
