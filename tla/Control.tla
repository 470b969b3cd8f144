------------------------------ MODULE Control -------------------------------
(***************************************************************************)
(* The user's controller: the thread that tells the console what it does   *)
(* (FeedbackSender), the threads of the app when it drives the controller  *)
(* over USB itself (UsbDrivers), and what the user feels of the console's  *)
(* answers (Rumble).  The sender takes whatever state it is given and the  *)
(* drivers whatever report; "part" says which a behaviour is about.        *)
(***************************************************************************)
EXTENDS FeedbackSender

CONSTANTS Controllers, Loose, Capacity, Starts, Toggles, Frames      \* UsbDrivers
CONSTANTS Strengths, MinLevel, Effects, Rumbles                       \* Rumble

(* The other threads, and nobody, are no controllers.                       *)
ASSUME DriversAssumption ==
  /\ Controllers \cap {"nobody", "main", "module"} = {}
  /\ Capacity \in Nat

ASSUME RumbleAssumption ==
  /\ Strengths \subseteq Nat /\ 0 \in Strengths /\ 0 \in Effects
  /\ MinLevel \in Nat /\ Rumbles \in Nat

VARIABLES
  part,
  device, lastProcessedEvent, isVibrating, cache, motor, trigger, haptics, javascript, pulses,
  pulse, over, count, asked, wanted, missed, silenced,
  started, starts, pending, controllers, claimed, stopped, open, plugged, contexts,
  main, victim, input, interrupted, enabled, primed, monitor, worker, queue, owner, native,
  module, target, toggles, stream, fed, frames

Usb == INSTANCE UsbDrivers
Feel == INSTANCE Rumble

driving == <<started, starts, pending, controllers, claimed, stopped, open, plugged, contexts,
             main, victim, input, interrupted, enabled, primed, monitor, worker, queue, owner,
             native, module, target, toggles, stream, fed, frames>>
feelings == <<device, lastProcessedEvent, isVibrating, cache, motor, trigger, haptics, javascript,
              pulses, pulse, over, count, asked, wanted, missed, silenced>>
control == <<part, vars, driving, feelings>>

(* What a behaviour is not about stays as it is at first.                   *)
ControlInit ==
  /\ part \in {"pad", "usb", "feel"}
  /\ Init /\ Usb!Init /\ Feel!Init
  /\ part # "feel" => device = "usb"
PadOnly == part = "pad" /\ UNCHANGED <<part, driving, feelings>>
UsbOnly == part = "usb" /\ UNCHANGED <<part, vars, feelings>>
FeelOnly == part = "feel" /\ UNCHANGED <<part, vars, driving>>
ControlNext ==
  \/ PadOnly /\ Next
  \/ UsbOnly /\ Usb!Next
  \/ FeelOnly /\ Feel!Next

(* Threads run on, and what holds for the sender's (FeedbackSender).        *)
ControlFairness ==
  /\ WF_vars(part = "pad" /\ Loop) /\ WF_vars(part = "pad" /\ SetSignal)
  /\ WF_vars(part = "pad" /\ FiniSignal)
  /\ SF_vars(part = "pad" /\ Timeout) /\ SF_vars(part = "pad" /\ Deliver)
  /\ WF_driving(part = "usb" /\ Usb!Main) /\ WF_driving(part = "usb" /\ Usb!Module)
  /\ \A c \in Controllers : WF_driving(part = "usb" /\ Usb!Thread(c))
ControlSpec == ControlInit /\ [][ControlNext]_control /\ ControlFairness
-----------------------------------------------------------------------------
(* The console knows what keys and touches do and no change is slept        *)
(* through; native haptics belong to a controller that has them enabled,    *)
(* and the service lists open controllers; and motors and triggers follow   *)
(* the console (feedbacksender.c:139, 265, haptic_usb.cpp:115,              *)
(* UsbDriverService.java:357, StreamSession.kt:406).                        *)
ControlSound ==
  CASE part = "pad" -> HistoryAgrees /\ ChangeWakes
    [] part = "usb" -> Usb!TypeOK /\ Usb!UsbSound
    [] part = "feel" -> Feel!TypeOK /\ Feel!RumbleSound

(* A controller that is stopped, or fails, is closed, and its input thread  *)
(* and the service's stop end (AbstractDualSenseController.java:217).       *)
UsbStops == []<>(Usb!Quiesced)
=============================================================================
