----------------------------- MODULE UsbDrivers -----------------------------
(***************************************************************************)
(* android input/UsbDriverService.java, AbstractDualSenseController.java,  *)
(* AbstractXboxController.java, DualSenseHapticSender.java and the haptics *)
(* half of ControllerHandler.java and cpp/haptic/haptic_usb.cpp: game      *)
(* controllers that the app drives itself over USB.                        *)
(*                                                                         *)
(* The main thread claims devices and stops the service; every controller  *)
(* has an input thread that stops its own controller on an I/O error; the  *)
(* module thread starts and stops haptics; the stream's thread queues      *)
(* haptic frames for a worker thread per controller; native code keeps one *)
(* descriptor for all of them.  Neither the list of controllers nor their  *)
(* stopped flags are locked.                                               *)
(***************************************************************************)
EXTENDS Integers, Sequences

CONSTANTS
  Controllers,
  Loose,      (* bound: the controllers that may be unplugged                *)
  Capacity,   (* QUEUE_CAPACITY                                               *)
  Starts,     (* bound: times the service is started                          *)
  Toggles,    (* bound: calls of startHaptics and stopHaptics                 *)
  Frames      (* bound: haptic frames and commands from the console           *)

VARIABLES
  started, starts, pending,   (* the service; devices whose delayed attach    *)
                              (* or permission result is still to come        *)
  controllers,                (* the service's list                           *)
  claimed, stopped, open, plugged,   (* per controller                        *)
  contexts,                   (* ControllerHandler's usbDeviceContexts        *)
  main, victim,               (* the main thread: its step, whom it stops     *)
  input, interrupted,         (* the input threads                            *)
  enabled, primed, monitor,   (* hapticEnabled, hapticPrimed, synchronized    *)
  worker, queue,              (* DualSenseHapticSender                        *)
  owner, native,              (* g_usb_fd and g_haptic_enabled                *)
  module, target, toggles,    (* the module thread                            *)
  stream, fed, frames         (* the stream's thread, whom it feeds           *)

service == <<started, starts, pending, controllers>>
device == <<claimed, stopped, open, plugged>>
haptics == <<enabled, primed, monitor, worker, queue, owner, native>>
caller == <<module, target, toggles>>
feeder == <<stream, fed, frames>>
vars == <<service, device, contexts, main, victim, input, interrupted,
          haptics, caller, feeder>>

Nobody == "nobody"
Listed == {controllers[i] : i \in 1 .. Len(controllers)}
(* ArrayList.remove of an object: the list has it once at most.             *)
Without(s, c) ==
  IF \A i \in 1 .. Len(s) : s[i] # c THEN s
  ELSE LET i == CHOOSE i \in 1 .. Len(s) : s[i] = c
       IN SubSeq(s, 1, i - 1) \o SubSeq(s, i + 1, Len(s))
All(v) == [c \in Controllers |-> v]

Init ==
  /\ started = FALSE /\ starts = 0 /\ pending = {} /\ controllers = <<>>
  /\ claimed = All(FALSE) /\ stopped = All(FALSE) /\ open = All(FALSE) /\ plugged = All(TRUE)
  /\ contexts = {}
  /\ main = "idle" /\ victim = Nobody
  /\ input = All("none") /\ interrupted = All(FALSE)
  /\ enabled = All(FALSE) /\ primed = All(FALSE) /\ monitor = All(Nobody)
  /\ worker = All(FALSE) /\ queue = All(0)
  /\ owner = Nobody /\ native = FALSE
  /\ module = "idle" /\ target = Nobody /\ toggles = 0
  /\ stream = "idle" /\ fed = Nobody /\ frames = 0

-----------------------------------------------------------------------------
(* The service, on the main thread.                                         *)

(* start: the devices there are, and those attached while it runs.          *)
Start ==
  /\ main = "idle" /\ ~started /\ starts < Starts
  /\ started' = TRUE /\ starts' = starts + 1
  /\ pending' = pending \cup {c \in Controllers : plugged[c] /\ ~claimed[c]}
  /\ UNCHANGED <<controllers, device, contexts, main, victim, input, interrupted, haptics, caller, feeder>>

(* handleUsbDeviceState, after the delay or the permission; it does not     *)
(* look at started.  The input thread sleeps a second first.                *)
Claim(c) ==
  /\ main = "idle" /\ c \in pending
  /\ pending' = pending \ {c}
  /\ \/ UNCHANGED <<controllers, claimed, open, input>>       \* cannot be opened or started
     \/ /\ plugged[c] /\ ~claimed[c]
        /\ claimed' = [claimed EXCEPT ![c] = TRUE]
        /\ open' = [open EXCEPT ![c] = TRUE]
        /\ input' = [input EXCEPT ![c] = "asleep"]
        /\ controllers' = Append(controllers, c)
  /\ UNCHANGED <<started, starts, stopped, plugged, contexts, main, victim, interrupted,
                 haptics, caller, feeder>>

(* stop: while(controllers.size() > 0) controllers.remove(0).stop()         *)
StopBegin ==
  /\ main = "idle" /\ started
  /\ started' = FALSE /\ main' = "size"
  /\ UNCHANGED <<starts, pending, controllers, device, contexts, victim, input, interrupted,
                 haptics, caller, feeder>>

StopSize ==
  /\ main = "size"
  /\ main' = IF controllers = <<>> THEN "idle" ELSE "remove"
  /\ UNCHANGED <<service, device, contexts, victim, input, interrupted, haptics, caller, feeder>>

(* The list may have become empty in between: the app crashes.              *)
StopRemove ==
  /\ main = "remove"
  /\ IF controllers = <<>>
       THEN main' = "crashed" /\ UNCHANGED <<controllers, victim>>
       ELSE /\ victim' = Head(controllers) /\ controllers' = Tail(controllers)
            /\ main' = "check"
  /\ UNCHANGED <<started, starts, pending, device, contexts, input, interrupted, haptics, caller, feeder>>

-----------------------------------------------------------------------------
(* AbstractDualSenseController.stop, on the main thread or on the           *)
(* controller's own input thread; both may be in it.                        *)

StopSteps == {"check", "mark", "quiet", "cleanup", "close", "removed"}
Stopping(c) == (main \in StopSteps /\ victim = c) \/ input[c] \in StopSteps

(* Thread t ("main" or the controller itself) is at step s of stopping c,   *)
(* and goes on to step r.                                                   *)
At(t, c, s) == IF t = "main" THEN main = s /\ victim = c ELSE t = c /\ input[c] = s
Goto(t, c, r) ==
  IF t = "main" THEN main' = r /\ UNCHANGED input
                ELSE input' = [input EXCEPT ![c] = r] /\ UNCHANGED main
Ended(t) == IF t = "main" THEN "size" ELSE "done"

CheckStopped(t, c) ==
  /\ At(t, c, "check")
  /\ Goto(t, c, IF stopped[c] THEN Ended(t) ELSE "mark")
  /\ UNCHANGED <<service, device, contexts, victim, interrupted, haptics, caller, feeder>>

Mark(t, c) ==
  /\ At(t, c, "mark")
  /\ stopped' = [stopped EXCEPT ![c] = TRUE]
  /\ Goto(t, c, "quiet")
  /\ UNCHANGED <<service, claimed, open, plugged, contexts, victim, interrupted, haptics, caller, feeder>>

(* stopHaptics: the flags and the worker first, the native side last, with  *)
(* the controller's monitor held.                                           *)
Quiet(c) ==
  /\ enabled' = [enabled EXCEPT ![c] = FALSE]
  /\ primed' = [primed EXCEPT ![c] = FALSE]
  /\ worker' = [worker EXCEPT ![c] = FALSE]
  /\ queue' = [queue EXCEPT ![c] = 0]

Cleanup(c) == owner' = Nobody /\ native' = FALSE

QuietBegin(t, c) ==
  /\ At(t, c, "quiet") /\ monitor[c] = Nobody
  /\ monitor' = [monitor EXCEPT ![c] = t]
  /\ Quiet(c)
  /\ Goto(t, c, "cleanup")
  /\ UNCHANGED <<service, device, contexts, victim, interrupted, owner, native, caller, feeder>>

QuietEnd(t, c) ==
  /\ At(t, c, "cleanup")
  /\ monitor' = [monitor EXCEPT ![c] = Nobody]
  /\ Cleanup(c)
  /\ Goto(t, c, "close")
  /\ UNCHANGED <<service, device, contexts, victim, interrupted, enabled, primed, worker, queue, caller, feeder>>

(* The input thread is interrupted and the connection is closed.            *)
Close(t, c) ==
  /\ At(t, c, "close")
  /\ interrupted' = [interrupted EXCEPT ![c] = TRUE]
  /\ open' = [open EXCEPT ![c] = FALSE]
  /\ Goto(t, c, "removed")
  /\ UNCHANGED <<service, claimed, stopped, plugged, contexts, victim, haptics, caller, feeder>>

(* deviceRemoved, in the service and then in the handler.                   *)
\* Mutant: a controller that stops itself stays in the service's list.
RemoveKept(t, c) ==
  /\ At(t, c, "removed")
  /\ contexts' = contexts \ {c}
  /\ Goto(t, c, Ended(t))
  /\ UNCHANGED <<service, device, victim, interrupted, haptics, caller, feeder>>
Remove(t, c) ==
  /\ At(t, c, "removed")
  /\ controllers' = Without(controllers, c)
  /\ contexts' = contexts \ {c}
  /\ Goto(t, c, Ended(t))
  /\ UNCHANGED <<started, starts, pending, device, victim, interrupted, haptics, caller, feeder>>

StopStep(t, c) ==
  \/ CheckStopped(t, c) \/ Mark(t, c) \/ QuietBegin(t, c) \/ QuietEnd(t, c)
  \/ Close(t, c) \/ Remove(t, c)

-----------------------------------------------------------------------------
(* The input thread.                                                        *)

Wake(c) ==
  /\ input[c] = "asleep"
  /\ input' = [input EXCEPT ![c] = IF interrupted[c] THEN "done" ELSE "adding"]
  /\ UNCHANGED <<service, device, contexts, main, victim, interrupted, haptics, caller, feeder>>

(* deviceAdded, even of a controller stopped since the thread woke up.      *)
Add(c) ==
  /\ input[c] = "adding"
  /\ contexts' = contexts \cup {c}
  /\ input' = [input EXCEPT ![c] = "loop"]
  /\ UNCHANGED <<service, device, main, victim, interrupted, haptics, caller, feeder>>

\* Mutant: a transfer that fails ends the thread but does not stop the controller.
LoopQuits(c) ==
  /\ input[c] = "loop"
  /\ input' = [input EXCEPT ![c] = IF ~interrupted[c] /\ ~stopped[c] /\ open[c] /\ plugged[c]
                                  THEN "loop" ELSE "done"]
  /\ UNCHANGED <<service, device, contexts, main, victim, interrupted, haptics, caller, feeder>>

(* A transfer gives input, or nothing for three seconds, or fails at once:  *)
(* then the thread stops its controller and ends.                           *)
Loop(c) ==
  /\ input[c] = "loop"
  /\ input' = [input EXCEPT ![c] =
                 IF interrupted[c] \/ stopped[c] THEN "done"
                 ELSE IF open[c] /\ plugged[c] THEN "loop" ELSE "check"]
  /\ UNCHANGED <<service, device, contexts, main, victim, interrupted, haptics, caller, feeder>>

Unplug(c) ==
  /\ c \in Loose /\ plugged[c] /\ plugged' = [plugged EXCEPT ![c] = FALSE]
  /\ UNCHANGED <<service, claimed, stopped, open, contexts, main, victim, input, interrupted,
                 haptics, caller, feeder>>

-----------------------------------------------------------------------------
(* The module thread: startHaptics and stopHaptics of the controllers that  *)
(* the handler knows.                                                       *)

\* Mutant: the native side is connected without the controller's monitor.
ConnectUnlocked(c) ==
  /\ module = "idle" /\ toggles < Toggles /\ c \in contexts /\ monitor[c] = Nobody
  /\ toggles' = toggles + 1
  /\ ~enabled[c] /\ open[c]
  /\ owner' = c /\ native' = FALSE
  /\ module' = "enable" /\ target' = c
  /\ UNCHANGED monitor
  /\ UNCHANGED <<service, device, contexts, main, victim, input, interrupted,
                 enabled, primed, worker, queue, feeder>>
Connect(c) ==
  /\ module = "idle" /\ toggles < Toggles /\ c \in contexts /\ monitor[c] = Nobody
  /\ toggles' = toggles + 1
  /\ ~enabled[c] /\ open[c]
  /\ owner' = c /\ native' = FALSE
  /\ monitor' = [monitor EXCEPT ![c] = "module"]
  /\ module' = "enable" /\ target' = c
  /\ UNCHANGED <<service, device, contexts, main, victim, input, interrupted,
                 enabled, primed, worker, queue, feeder>>

(* nativeEnableHaptics fails without a descriptor, or without memory.       *)
Enable ==
  /\ module = "enable"
  /\ \/ /\ owner # Nobody /\ native' = TRUE
        /\ module' = "set" /\ UNCHANGED <<owner, monitor>>
     \/ /\ Cleanup(target)
        /\ monitor' = [monitor EXCEPT ![target] = Nobody]
        /\ module' = "idle"
  /\ UNCHANGED <<service, device, contexts, main, victim, input, interrupted,
                 enabled, primed, worker, queue, target, toggles, feeder>>

SetEnabled ==
  /\ module = "set"
  /\ enabled' = [enabled EXCEPT ![target] = TRUE]
  /\ primed' = [primed EXCEPT ![target] = FALSE]
  /\ worker' = [worker EXCEPT ![target] = TRUE]
  /\ queue' = [queue EXCEPT ![target] = 0]
  /\ monitor' = [monitor EXCEPT ![target] = Nobody]
  /\ module' = "idle"
  /\ UNCHANGED <<service, device, contexts, main, victim, input, interrupted,
                 owner, native, target, toggles, feeder>>

ModuleStop(c) ==
  /\ module = "idle" /\ toggles < Toggles /\ c \in contexts /\ monitor[c] = Nobody
  /\ toggles' = toggles + 1
  /\ Quiet(c)
  /\ monitor' = [monitor EXCEPT ![c] = "module"]
  /\ module' = "cleanup" /\ target' = c
  /\ UNCHANGED <<service, device, contexts, main, victim, input, interrupted, owner, native, feeder>>

ModuleCleanup ==
  /\ module = "cleanup"
  /\ Cleanup(target)
  /\ monitor' = [monitor EXCEPT ![target] = Nobody]
  /\ module' = "idle"
  /\ UNCHANGED <<service, device, contexts, main, victim, input, interrupted,
                 enabled, primed, worker, queue, target, toggles, feeder>>

-----------------------------------------------------------------------------
(* The stream's thread: enqueueHapticData, which sends the priming report   *)
(* first, and sendCommand, which makes priming necessary again.             *)

Offer(c) ==
  queue' = [queue EXCEPT ![c] = IF worker[c] /\ @ < Capacity THEN @ + 1 ELSE @]

Feed(c) ==
  /\ stream = "idle" /\ frames < Frames /\ c \in contexts /\ enabled[c]
  /\ frames' = frames + 1
  /\ IF primed[c] THEN Offer(c) /\ UNCHANGED <<stream, fed>>
                  ELSE stream' = "priming" /\ fed' = c /\ UNCHANGED queue
  /\ UNCHANGED <<service, device, contexts, main, victim, input, interrupted,
                 enabled, primed, monitor, worker, owner, native, caller>>

(* tryPrimeHaptics sets the flag without the monitor.                       *)
Prime ==
  /\ stream = "priming"
  /\ \/ /\ open[fed] /\ plugged[fed]
        /\ primed' = [primed EXCEPT ![fed] = TRUE]
        /\ Offer(fed)
     \/ UNCHANGED <<primed, queue>>
  /\ stream' = "idle"
  /\ UNCHANGED <<service, device, contexts, main, victim, input, interrupted,
                 enabled, monitor, worker, owner, native, caller, fed, frames>>

Command(c) ==
  /\ stream = "idle" /\ frames < Frames /\ c \in contexts /\ monitor[c] = Nobody
  /\ frames' = frames + 1
  /\ primed' = [primed EXCEPT ![c] = FALSE]
  /\ UNCHANGED <<service, device, contexts, main, victim, input, interrupted,
                 enabled, monitor, worker, queue, owner, native, caller, stream, fed>>

(* The worker sends to whatever descriptor there is.                        *)
Take(c) ==
  /\ worker[c] /\ queue[c] > 0
  /\ queue' = [queue EXCEPT ![c] = @ - 1]
  /\ UNCHANGED <<service, device, contexts, main, victim, input, interrupted,
                 enabled, primed, monitor, worker, owner, native, caller, feeder>>

Next ==
  \/ Start \/ StopBegin \/ StopSize \/ StopRemove
  \/ Enable \/ SetEnabled \/ ModuleCleanup \/ Prime
  \/ \E c \in Controllers :
       \/ Claim(c) \/ Unplug(c)
       \/ StopStep("main", c) \/ StopStep(c, c)
       \/ Wake(c) \/ Add(c) \/ Loop(c)
       \/ Connect(c) \/ ModuleStop(c)
       \/ Feed(c) \/ Command(c) \/ Take(c)

(* Java's threads run on; a transfer returns within three seconds.          *)
Thread(c) == StopStep(c, c) \/ Wake(c) \/ Add(c) \/ Loop(c)
Main == StopSize \/ StopRemove \/ \E c \in Controllers : StopStep("main", c)
Module == Enable \/ SetEnabled \/ ModuleCleanup
Spec ==
  /\ Init /\ [][Next]_vars
  /\ WF_vars(Main) /\ WF_vars(Module)
  /\ \A c \in Controllers : WF_vars(Thread(c))

-----------------------------------------------------------------------------
(* The types of the controllers' state. *)
TypeOK ==
  /\ {started, native} \subseteq BOOLEAN /\ pending \subseteq Controllers
  /\ Listed \subseteq Controllers /\ contexts \subseteq Controllers
  /\ {claimed, stopped, open, plugged, interrupted, enabled, primed,
      worker} \subseteq [Controllers -> BOOLEAN]
  /\ main \in {"idle", "size", "remove", "crashed"} \cup StopSteps
  /\ input \in [Controllers -> {"none", "asleep", "adding", "loop", "done"} \cup StopSteps]
  /\ monitor \in [Controllers -> Controllers \cup {"main", "module", Nobody}]
  /\ queue \in [Controllers -> 0 .. Capacity]
  /\ {owner, target, fed, victim} \subseteq Controllers \cup {Nobody}
  /\ module \in {"idle", "enable", "set", "cleanup"} /\ stream \in {"idle", "priming"}

(* Native haptics are never on for a controller that is not in the haptic   *)
(* mode, though one descriptor serves all controllers and each of them      *)
(* clears it when it stops: whoever owns the descriptor has haptics enabled *)
(* or is just starting or stopping them.                                    *)
HapticsOwned ==
  native /\ owner # Nobody => enabled[owner] \/ monitor[owner] # Nobody

(* The service's list holds no controller whose connection is closed,       *)
(* except while its own thread is about to take it out, whoever stopped it. *)
ListOpen == \A c \in Listed : open[c] \/ Stopping(c)

UsbSound == HapticsOwned /\ ListOpen

(* A controller that is told to stop, by the service or by its own failing  *)
(* transfer, closes its connection and its input thread ends, and the       *)
(* service's stop returns, unless the list's race crashed the app.          *)
Quiesced ==
  \/ main = "crashed"
  \/ /\ main = "idle"
     /\ \A c \in Controllers : stopped[c] => ~open[c] /\ input[c] = "done"
     /\ \A c \in Controllers : claimed[c] /\ ~plugged[c] => stopped[c]
=============================================================================
