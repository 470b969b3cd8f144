-------------------------------- MODULE Rumble --------------------------------
(***************************************************************************)
(* What the player feels of the console's rumble and of its adaptive        *)
(* triggers: StreamSession.kt, on the thread that reports the events of the *)
(* native session; the listener for triggers in Stream.tsx, which writes a  *)
(* report of its own through UsbRumbleManager.java; and for a controller    *)
(* that is Android's the coroutines that give short pulses.                 *)
(*                                                                         *)
(* There is one motor, and one value for the settings of both triggers.     *)
(* A DualSense over USB takes reports with its motors and triggers; other   *)
(* controllers over USB take the motors only.  The settings ask for rumble. *)
(* History: asked and wanted are what the console said last of motors and   *)
(* triggers; missed, that haptics kept it from the motors; silenced, that a *)
(* report of triggers turned the motors off.                                *)
(***************************************************************************)
EXTENDS Integers, Sequences

CONSTANTS
  Strengths,    \* of a rumble, 0 for none
  MinLevel,     \* RUMBLE_MIN_LEVEL, more than 1
  Effects,      \* of triggers, 0 for none
  Rumbles       \* bound: events of the console

VARIABLES
  device,               \* dualsense, usb or bluetooth
  lastProcessedEvent, isVibrating, cache,
  motor, trigger,       \* of the device
  haptics,              \* isDualSenseHapticsActive
  javascript,           \* trigger events on their way to the page
  pulses, pulse,        \* coroutines that wait for vibrateMutex, and the one that has it
  over, count, asked, wanted, missed, silenced

feeling == <<lastProcessedEvent, isVibrating, cache>>
history == <<count, asked, wanted, missed, silenced>>
vars == <<device, feeling, motor, trigger, haptics, javascript, pulses, pulse, over, history>>

Nobody == -1

Init ==
  /\ device \in {"dualsense", "usb", "bluetooth"}
  /\ lastProcessedEvent = 0 /\ isVibrating = FALSE /\ cache = 0
  /\ motor = 0 /\ trigger = 0
  /\ haptics = FALSE /\ javascript = << >> /\ pulses = << >> /\ pulse = Nobody
  /\ over = FALSE /\ count = 0 /\ asked = 0 /\ wanted = 0
  /\ missed = FALSE /\ silenced = FALSE

Clamped(s) == IF s < MinLevel THEN 0 ELSE s
Near(a, b) == a - b \in -1 .. 1

Skipped == device = "dualsense" /\ haptics

\* Mutant: what is dropped counts as the last event.
ProcessedEver(level) == lastProcessedEvent' = level
Dropped(level) == UNCHANGED lastProcessedEvent

(* sendDualSenseRumbleDirect, or handleRumble.                              *)
Write(level) ==
  /\ motor' = level
  /\ trigger' = IF device = "dualsense" THEN cache ELSE trigger
  /\ UNCHANGED pulses

(* A pulse of Android's controller.  When the player did something lately,  *)
(* the peak takes the place of a rumble that is zero.                       *)
Launch(level) ==
  /\ \E s \in (IF level = 0 THEN {s \in Strengths : s = 0 \/ s > MinLevel} ELSE {level}) :
       pulses' = Append(pulses, s)
  /\ UNCHANGED <<motor, trigger>>

(* eventCallback of a RumbleEvent.                                          *)
RumbleEvent(s) ==
  /\ ~over /\ count < Rumbles /\ count' = count + 1
  /\ asked' = s
  /\ LET level == Clamped(s)
         shouldStop == isVibrating /\ level = 0
     IN IF Skipped
        THEN /\ missed' = TRUE
             /\ UNCHANGED <<lastProcessedEvent, isVibrating, motor, trigger, pulses, silenced>>
        ELSE /\ missed' = FALSE
             /\ IF ~shouldStop /\ Near(level, lastProcessedEvent)
                THEN /\ Dropped(level)
                     /\ UNCHANGED <<isVibrating, motor, trigger, pulses, silenced>>
                ELSE /\ isVibrating' = (level > 0) /\ lastProcessedEvent' = level
                     /\ silenced' = FALSE
                     /\ IF device = "bluetooth" THEN Launch(level) ELSE Write(level)
  /\ UNCHANGED <<device, cache, haptics, javascript, pulse, over, wanted>>

\* Mutant: only the page learns of the triggers.
CacheNot(e) == UNCHANGED cache
(* updateDualSenseTriggerCache                                              *)
Cache(e) == IF device = "dualsense" THEN cache' = e ELSE UNCHANGED cache

(* eventCallback of a TriggerRumbleEvent.                                   *)
TriggerRumbleEvent(e) ==
  /\ ~over /\ count < Rumbles /\ count' = count + 1
  /\ wanted' = e
  /\ IF device = "bluetooth" THEN UNCHANGED <<cache, javascript>>
     ELSE Cache(e) /\ javascript' = Append(javascript, e)
  /\ UNCHANGED <<device, lastProcessedEvent, isVibrating, motor, trigger, haptics, pulses, pulse,
                 over, asked, missed, silenced>>

(* The listener of the page: setDsController, whose report says that the    *)
(* motors are off.  Other controllers have no such command.                 *)
Listener ==
  /\ javascript # << >> /\ javascript' = Tail(javascript)
  /\ IF device = "dualsense"
     THEN /\ motor' = 0 /\ trigger' = Head(javascript)
          /\ silenced' = (motor # 0 \/ silenced)
     ELSE UNCHANGED <<motor, trigger, silenced>>
  /\ UNCHANGED <<device, feeling, haptics, pulses, pulse, over, count, asked, wanted, missed>>

(* Haptics become active with their first frame, and no longer are when the *)
(* frames stay away or a report has come between.                           *)
Haptics ==
  /\ device = "dualsense" /\ ~over /\ haptics' = ~haptics
  /\ UNCHANGED <<device, feeling, motor, trigger, javascript, pulses, pulse, over, history>>

-----------------------------------------------------------------------------
(* The coroutines run in any order, one at a time.                          *)
PulseBegin(i) ==
  /\ pulse = Nobody
  /\ pulse' = pulses[i] /\ motor' = pulses[i]
  /\ pulses' = SubSeq(pulses, 1, i - 1) \o SubSeq(pulses, i + 1, Len(pulses))
  /\ UNCHANGED <<device, feeling, trigger, haptics, javascript, over, history>>

\* Mutant: the motor is left to the duration of the effect.
MotorLeft == motor
MotorOff == 0

PulseEnd ==
  /\ pulse # Nobody /\ pulse' = Nobody /\ motor' = MotorOff
  /\ UNCHANGED <<device, feeling, trigger, haptics, javascript, pulses, over, history>>

(* shutdown: rumble is stopped, which a DualSense does not know how to do.  *)
(* Pulses that were launched still come, and so does what the page has yet  *)
(* to hear while it is open.                                                *)
Shutdown ==
  /\ ~over /\ over' = TRUE
  /\ motor' = IF device = "dualsense" THEN motor ELSE 0
  /\ haptics' = FALSE
  /\ UNCHANGED <<device, feeling, trigger, javascript, pulses, pulse, history>>

Next ==
  \/ \E s \in Strengths : RumbleEvent(s)
  \/ \E e \in Effects : TriggerRumbleEvent(e)
  \/ Listener \/ Haptics \/ Shutdown \/ PulseEnd
  \/ \E i \in 1 .. Len(pulses) : PulseBegin(i)

Spec == Init /\ [][Next]_vars
-----------------------------------------------------------------------------
(* Type invariant. *)
TypeOK ==
  /\ device \in {"dualsense", "usb", "bluetooth"}
  /\ {lastProcessedEvent, motor, asked} \subseteq Strengths
  /\ {cache, trigger, wanted} \subseteq Effects
  /\ pulse \in Strengths \cup {Nobody} /\ count \in 0 .. Rumbles

(* The motors of a controller over USB are as the console said last, but    *)
(* for a change that is too small, one that haptics kept away, and a report *)
(* of triggers that silenced them.                                          *)
MotorFollows ==
  device # "bluetooth" /\ ~over /\ ~missed /\ ~silenced => Near(motor, Clamped(asked))

(* Rumble does not undo the triggers: once the page has written all it was  *)
(* told, they are as the console said last.                                 *)
TriggersFollow == device = "dualsense" /\ ~over /\ javascript = << >> => trigger = wanted

(* A controller of Android's rumbles only while a pulse has the mutex.      *)
PulsesEnd == device = "bluetooth" /\ pulse = Nobody => motor = 0

(* The player feels what the console said last (StreamSession.kt:406, 314,  *)
(* 462).                                                                    *)
RumbleSound == MotorFollows /\ TriggersFollow /\ PulsesEnd
=============================================================================
