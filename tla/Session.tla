------------------------------- MODULE Session -------------------------------
(***************************************************************************)
(* src/lib/src/session.c and ctrl.c: the session thread, the ctrl thread it *)
(* starts, and the application threads that stop the session, enter a login *)
(* PIN or send a ctrl message.  The stream connection is there by what it   *)
(* promises (StreamRun, which StreamConnection implements).  The connection *)
(* through PSN (rudp, holepunch) is left out: session->rudp is NULL.        *)
(*                                                                          *)
(* session->state_mutex and ctrl->notif_mutex have no variable: who holds   *)
(* them shows in where the threads are.  A step that takes a mutex and      *)
(* gives it back is guarded by its being free.                              *)
(***************************************************************************)
EXTENDS Naturals

CONSTANTS
  ConsoleMsgs,    \* the ctrl messages the console may send, any number of times
  MaxQueue        \* the application does not queue more ctrl messages than this

ASSUME SessionAssumption ==
  /\ ConsoleMsgs \subseteq {"sessionId", "invalidId", "pinReq", "pinWrong", "loginOk", "other"}
  /\ MaxQueue \in Nat

VARIABLES
  spc,           \* where the session thread is
  shouldStop,    \* session->should_stop; its stop pipe is signaled with it
  ctrlFailed,    \* session->ctrl_failed
  pinRequested,  \* session->ctrl_login_pin_requested
  pinEntered,    \* session->login_pin_entered
  sessionId,     \* "none" until ctrl_session_id_received, then whose it is
  reason,        \* session->quit_reason
  asked,         \* pin_incorrect: the console asked for a PIN before
  event,         \* the event the application got last
  cpc,           \* where the ctrl thread is
  cmsg,          \* the message it handles
  ctrlStop,      \* ctrl->should_stop
  ctrlPin,       \* ctrl->login_pin_entered
  pinOpen,       \* ctrl->login_pin_requested
  queue,         \* number of messages in ctrl->msg_queue
  pipe,          \* ctrl->notif_pipe is signaled
  apc,           \* an application thread in chiaki_ctrl_send_message
  phase, stop, remote, result   \* the stream connection (StreamRun)

Stream == INSTANCE StreamRun
stream == <<phase, stop, remote, result>>
shared == <<ctrlFailed, pinRequested, sessionId, reason>>
sess == <<spc, asked, event>>
ctrl == <<cpc, cmsg, pinOpen>>
notif == <<ctrlStop, ctrlPin, queue, pipe>>
vars == <<sess, shouldStop, shared, pinEntered, ctrl, notif, apc, stream>>

Init ==
  /\ spc = "start" /\ shouldStop = FALSE /\ ctrlFailed = FALSE /\ pinRequested = FALSE
  /\ pinEntered = FALSE /\ sessionId = "none" /\ reason = "none" /\ asked = FALSE
  /\ event = "none" /\ cpc = "off" /\ cmsg = "none" /\ ctrlStop = FALSE /\ ctrlPin = FALSE
  /\ pinOpen = FALSE /\ queue = 0 /\ pipe = FALSE /\ apc = "idle"
  /\ Stream!Init

\* The session thread holds state_mutex over chiaki_ctrl_set_login_pin and
\* over the whole of Senkusha; the ctrl thread holds notif_mutex but for its
\* select and its connect.
StateFree == spc \notin {"pinForward", "senkusha"}
NotifFree == cpc \in {"off", "starting", "connecting", "select", "done"}
-----------------------------------------------------------------------------
(* session_thread_func.                                                     *)

Quitting(r) == spc' = "quit" /\ reason' = r
Stopping(r) == spc' = "ctrlStop" /\ reason' = r
SessionOnly == UNCHANGED <<shouldStop, ctrl, ctrlStop, ctrlPin, queue, pipe, apc, stream>>

\* Up to three session requests.  A stop cancels their connects, unless they
\* fail by themselves; getting through starts the ctrl thread, with the reason
\* that an earlier address of the console left when it refused.
Start ==
  /\ spc = "start"
  /\ IF shouldStop THEN Quitting("stopped") ELSE spc' = "request" /\ UNCHANGED reason
  /\ UNCHANGED <<asked, event, ctrlFailed, pinRequested, sessionId, pinEntered>> /\ SessionOnly
RequestFails ==
  /\ spc = "request"
  /\ \/ Quitting("request")
     \/ shouldStop /\ Quitting("stopped")
  /\ UNCHANGED <<asked, event, ctrlFailed, pinRequested, sessionId, pinEntered>> /\ SessionOnly
RequestDone ==
  /\ spc = "request" /\ spc' = "ctrlWait" /\ cpc' = "starting" /\ reason' \in {"none", "request"}
  /\ UNCHANGED <<asked, event, ctrlFailed, pinRequested, sessionId, shouldStop, pinEntered, cmsg,
                 pinOpen, notif, apc, stream>>

\* The timed waits for ctrl to start and for its answer to a PIN are over, by
\* their predicate or by the timeout.  Only the first looks at ctrl_failed.
CtrlFailedLabel == Stopping(IF reason = "none" THEN "ctrl" ELSE reason)
CtrlWaited ==
  /\ spc \in {"ctrlWait", "pinReply"}
  /\ \/ /\ shouldStop /\ Stopping("stopped")
        /\ UNCHANGED <<pinRequested, asked, event>>
     \/ /\ ~shouldStop /\ ctrlFailed /\ spc = "ctrlWait" /\ CtrlFailedLabel
        /\ UNCHANGED <<pinRequested, asked, event>>
     \/ /\ ~shouldStop /\ ~(ctrlFailed /\ spc = "ctrlWait") /\ pinRequested
        /\ pinRequested' = FALSE /\ asked' = TRUE /\ spc' = "pinWait"
        /\ event' = "pin"
        /\ UNCHANGED reason
     \/ /\ ~shouldStop /\ ~(ctrlFailed /\ spc = "ctrlWait") /\ ~pinRequested
        /\ spc' = IF sessionId = "none" THEN "fallback" ELSE "senkusha"
        /\ UNCHANGED <<pinRequested, asked, event, reason>>
  /\ UNCHANGED <<ctrlFailed, sessionId, pinEntered>> /\ SessionOnly

\* The wait for the PIN has no timeout.
PinWaited ==
  /\ spc = "pinWait" /\ (shouldStop \/ ctrlFailed \/ pinEntered)
  /\ \/ shouldStop /\ Stopping("stopped")
     \/ ~shouldStop /\ ctrlFailed /\ CtrlFailedLabel
     \/ ~shouldStop /\ ~ctrlFailed /\ spc' = "pinForward" /\ UNCHANGED reason
  /\ UNCHANGED <<asked, event, ctrlFailed, pinRequested, sessionId, pinEntered>> /\ SessionOnly

\* chiaki_ctrl_set_login_pin, with state_mutex held.
PinForward ==
  /\ spc = "pinForward" /\ NotifFree
  /\ ctrlPin' = TRUE /\ pipe' = TRUE /\ pinEntered' = FALSE /\ spc' = "pinReply"
  /\ UNCHANGED <<asked, event, shared, shouldStop, ctrl, ctrlStop, queue, apc, stream>>

\* Mutant: no fallback id, and on with it.
FallbackNone ==
  /\ spc = "fallback" /\ spc' = "senkusha"
  /\ UNCHANGED <<sessionId, reason, asked, event, ctrlFailed, pinRequested, pinEntered>>
  /\ SessionOnly

\* Without a session id one is made up, with state_mutex released before.
Fallback ==
  /\ spc = "fallback"
  /\ \/ sessionId' = (IF sessionId = "none" THEN "fallback" ELSE sessionId)
        /\ spc' = "senkusha" /\ UNCHANGED reason
     \/ CtrlFailedLabel /\ UNCHANGED sessionId
  /\ UNCHANGED <<asked, event, ctrlFailed, pinRequested, pinEntered>> /\ SessionOnly

\* Senkusha may fail without consequence; the stream connection is then run
\* with state_mutex released.  Something before it may fail.
SenkushaDone ==
  /\ spc = "senkusha" /\ spc' = "stream" /\ Stream!Start
  /\ UNCHANGED <<asked, event, shared, shouldStop, pinEntered, ctrl, notif, apc>>
SenkushaFails ==
  /\ spc = "senkusha" /\ Stopping(reason)
  /\ UNCHANGED <<asked, event, ctrlFailed, pinRequested, sessionId, pinEntered>> /\ SessionOnly

StreamDone ==
  /\ spc = "stream" /\ phase = "over"
  /\ Stopping(CASE result = "disconnected" -> "remote"
                [] result = "failed" -> "stream"
                [] OTHER -> "stopped")
  /\ UNCHANGED <<asked, event, ctrlFailed, pinRequested, sessionId, pinEntered>> /\ SessionOnly

\* Mutant: the pipe of ctrl is not signaled.
CtrlStopSilent ==
  /\ spc = "ctrlStop" /\ NotifFree /\ ctrlStop' = TRUE /\ spc' = "join"
  /\ UNCHANGED <<asked, event, shared, shouldStop, pinEntered, ctrl, ctrlPin, pipe, queue, apc,
                 stream>>

\* chiaki_ctrl_stop, chiaki_ctrl_join and the QUIT event.
CtrlStop ==
  /\ spc = "ctrlStop" /\ NotifFree
  /\ ctrlStop' = TRUE /\ pipe' = TRUE /\ spc' = "join"
  /\ UNCHANGED <<asked, event, shared, shouldStop, pinEntered, ctrl, ctrlPin, queue, apc, stream>>
\* Mutant: the ctrl thread is not joined.
CtrlJoinNot ==
  /\ spc = "join" /\ spc' = "quit"
  /\ UNCHANGED <<asked, event, shared, pinEntered>> /\ SessionOnly

CtrlJoin ==
  /\ spc = "join" /\ cpc = "done" /\ spc' = "quit"
  /\ UNCHANGED <<asked, event, shared, pinEntered>> /\ SessionOnly
Quit ==
  /\ spc = "quit" /\ spc' = "done" /\ event' = "quit"
  /\ UNCHANGED <<asked, shared, pinEntered>> /\ SessionOnly

SessionThread == Start \/ RequestFails \/ RequestDone \/ CtrlWaited \/ PinWaited \/ PinForward
                 \/ Fallback \/ SenkushaDone \/ SenkushaFails \/ StreamDone \/ CtrlStop
                 \/ CtrlJoin \/ Quit
-----------------------------------------------------------------------------
(* ctrl_thread_func.  It goes "failing" to report that it failed and end.   *)

CtrlUnchanged == UNCHANGED <<sess, shouldStop, pinEntered, apc, stream>>
CtrlStep(from, to) ==
  /\ cpc = from /\ cpc' = to
  /\ UNCHANGED <<cmsg, pinOpen, shared, notif>> /\ CtrlUnchanged

\* ctrl_connect: the socket is made with notif_mutex held, connected without
\* it, and the request and its answer go over it with the mutex held again.
\* Whatever signals the pipe in time cancels the waits.
CtrlConnect ==
  \/ CtrlStep("starting", "connecting") \/ CtrlStep("starting", "failing")
  \/ CtrlStep("connecting", "http")
  \/ pipe /\ CtrlStep("connecting", "canceled")
  \/ CtrlStep("connecting", "failing")
  \/ CtrlStep("http", "select")
  \/ CtrlStep("http", "failing") \/ CtrlStep("canceled", "failing")

\* ctrl_failed, taking state_mutex while notif_mutex is held.
CtrlFailed ==
  /\ StateFree /\ ctrlFailed' = TRUE /\ reason' = "ctrl"
  /\ \/ cpc = "failing" /\ cpc' = "done"
     \/ cpc = "failMsg" /\ cpc' = "handled"
  /\ UNCHANGED <<cmsg, pinOpen, pinRequested, sessionId, notif>> /\ CtrlUnchanged

\* Mutant: one message is taken off without a look whether there is one.
CtrlNotifiedUnlooked ==
  /\ cpc = "select" /\ pipe
  /\ queue' = queue - 1 /\ ctrlPin' = FALSE /\ pipe' = FALSE
  /\ UNCHANGED <<cpc, cmsg, pinOpen, ctrlStop, shared>> /\ CtrlUnchanged

\* Mutant: a PIN is sent before the queued messages, which are left.
CtrlNotifiedPinFirst ==
  /\ cpc = "select" /\ pipe
  /\ queue' = (IF ctrlPin THEN queue ELSE 0) /\ ctrlPin' = FALSE
  /\ cpc' = IF ~ctrlPin /\ ctrlStop THEN "done" ELSE "select"
  /\ pipe' = (~ctrlPin /\ (ctrlStop \/ queue = 0))
  /\ UNCHANGED <<cmsg, pinOpen, ctrlStop, shared>> /\ CtrlUnchanged

\* The pipe is signaled: the queued messages and an entered PIN are sent.
CtrlNotified ==
  /\ cpc = "select" /\ pipe
  /\ queue' = 0 /\ ctrlPin' = FALSE
  /\ cpc' = IF ~ctrlPin /\ ctrlStop THEN "done" ELSE "select"
  /\ pipe' = (~ctrlPin /\ (ctrlStop \/ queue = 0))
  /\ UNCHANGED <<cmsg, pinOpen, ctrlStop, shared>> /\ CtrlUnchanged

\* The socket is readable: what comes is an error, the end, or messages.
CtrlReceives ==
  /\ cpc = "select" /\ ~pipe
  /\ \/ /\ cpc' \in {"failing", "done"} /\ UNCHANGED cmsg
     \/ /\ cpc' = "handle" /\ cmsg' \in ConsoleMsgs
  /\ UNCHANGED <<pinOpen, shared, notif>> /\ CtrlUnchanged

\* ctrl_message_received.  The session id is looked at and stored under two
\* separate holds of state_mutex.
Handled == cpc' = "handled" /\ cmsg' = "none"
HandleSessionId ==
  /\ StateFree
  /\ \/ /\ cpc = "handle" /\ cmsg \in {"sessionId", "invalidId"} /\ UNCHANGED sessionId
        /\ IF sessionId = "none" THEN cpc' = "store" /\ UNCHANGED cmsg ELSE Handled
     \/ /\ cpc = "store" /\ Handled
        /\ \/ cmsg = "sessionId" /\ sessionId' = "console"
           \/ cmsg = "invalidId" /\ sessionId = "none" /\ sessionId' = "fallback"
           \/ cmsg = "invalidId" /\ UNCHANGED sessionId
  /\ UNCHANGED <<pinOpen, ctrlFailed, pinRequested, reason, notif>> /\ CtrlUnchanged
HandlePinReq ==
  /\ cpc = "handle" /\ cmsg = "pinReq" /\ StateFree /\ pinOpen' = TRUE
  /\ IF sessionId # "none" THEN cpc' = "failMsg" /\ cmsg' = "none" /\ UNCHANGED pinRequested
     ELSE Handled /\ pinRequested' = TRUE
  /\ UNCHANGED <<ctrlFailed, sessionId, reason, notif>> /\ CtrlUnchanged
HandleLogin ==
  /\ cpc = "handle" /\ Handled
  /\ \/ cmsg = "loginOk" /\ pinOpen' = FALSE /\ UNCHANGED pinRequested
     \/ /\ cmsg = "pinWrong" /\ (pinOpen => StateFree)
        /\ pinRequested' = (pinRequested \/ pinOpen) /\ UNCHANGED pinOpen
     \/ cmsg = "other" /\ UNCHANGED <<pinOpen, pinRequested>>
  /\ UNCHANGED <<ctrlFailed, sessionId, reason, notif>> /\ CtrlUnchanged

\* On to the next message of the receive buffer, or to the select.
HandleNext ==
  /\ cpc = "handled" /\ cpc' = "handle" /\ cmsg' \in ConsoleMsgs
  /\ UNCHANGED <<pinOpen, shared, notif>> /\ CtrlUnchanged
HandleLast == CtrlStep("handled", "select")

CtrlThread == CtrlConnect \/ CtrlFailed \/ CtrlNotified \/ CtrlReceives \/ HandleSessionId
              \/ HandlePinReq \/ HandleLogin \/ HandleNext \/ HandleLast
-----------------------------------------------------------------------------
(* The application and the stream connection.                               *)

\* chiaki_session_stop.
SessionStop ==
  /\ StateFree /\ ~shouldStop /\ shouldStop' = TRUE /\ Stream!Stop
  /\ UNCHANGED <<sess, shared, pinEntered, ctrl, notif, apc>>

\* chiaki_session_set_login_pin.
SetPin ==
  /\ StateFree /\ pinEntered' = TRUE
  /\ UNCHANGED <<sess, shouldStop, shared, ctrl, notif, apc, stream>>

\* chiaki_ctrl_send_message: the pipe is signaled after the mutex is released.
SendMessage ==
  /\ apc = "idle" /\ NotifFree /\ queue < MaxQueue
  /\ queue' = queue + 1 /\ apc' = "signal"
  /\ UNCHANGED <<sess, shouldStop, shared, pinEntered, ctrl, ctrlStop, ctrlPin, pipe, stream>>
SendSignal ==
  /\ apc = "signal" /\ apc' = "idle" /\ pipe' = TRUE
  /\ UNCHANGED <<sess, shouldStop, shared, pinEntered, ctrl, ctrlStop, ctrlPin, queue, stream>>

StreamRuns ==
  /\ Stream!Connect \/ Stream!RemoteDisconnect \/ \E r \in Stream!Results : Stream!Return(r)
  /\ event' = IF phase' = "connected" /\ phase = "running" THEN "connected" ELSE event
  /\ UNCHANGED <<spc, asked, shouldStop, shared, pinEntered, ctrl, notif, apc>>

Next == SessionThread \/ CtrlThread \/ SessionStop \/ SetPin \/ SendMessage \/ SendSignal
        \/ StreamRuns

(* Each thread takes its next step when it can; the receive buffer of ctrl  *)
(* holds finitely many messages and no mutex starves who waits for it (SF). *)
(* The stream connection ends when stopped: StreamConnection!StopEnds.      *)
Fairness ==
  /\ SF_vars(SessionThread)
  /\ WF_vars(CtrlThread) /\ SF_vars(HandleLast)
  /\ WF_vars(SendSignal)
  /\ WF_vars(stop /\ StreamRuns /\ phase' = "over")

Spec == Init /\ [][Next]_vars
FairSpec == Spec /\ Fairness
-----------------------------------------------------------------------------
(* Type invariant: every variable has one of the values named above.        *)
TypeOK ==
  /\ spc \in {"start", "request", "ctrlWait", "pinWait", "pinForward", "pinReply", "fallback",
              "senkusha", "stream", "ctrlStop", "join", "quit", "done"}
  /\ cpc \in {"off", "starting", "connecting", "http", "canceled", "failing", "select", "handle",
              "store", "failMsg", "handled", "done"}
  /\ {shouldStop, ctrlFailed, pinRequested, pinEntered, asked, ctrlStop, ctrlPin, pinOpen,
      pipe, stop, remote} \subseteq BOOLEAN
  /\ sessionId \in {"none", "console", "fallback"}
  /\ reason \in {"none", "stopped", "request", "ctrl", "stream", "remote"}
  /\ event \in {"none", "pin", "connected", "quit"}
  /\ cmsg \in ConsoleMsgs \cup {"none"} /\ apc \in {"idle", "signal"}
  /\ queue \in 0 .. MaxQueue
  /\ phase \in {"idle", "running", "connected", "over"} /\ result \in Stream!Results

(* The application may free the session at the QUIT event: neither the ctrl *)
(* thread nor the stream connection runs any more (session.c:780-799).      *)
NothingOutlivesQuit == event = "quit" => cpc \in {"off", "done"} /\ phase \in {"idle", "over"}

(* The reason in the QUIT event is true: "stopped" only if the application  *)
(* stopped the session, "remote" only if the console disconnected.          *)
ReasonTrue ==
  event = "quit" => (reason = "stopped" => shouldStop) /\ (reason = "remote" => remote)

(* The QUIT event comes last and says why.                                  *)
QuitTrue == NothingOutlivesQuit /\ ReasonTrue

(* No message waits in the queue of a sleeping ctrl thread: the pipe is     *)
(* signaled or is about to be, though chiaki_ctrl_send_message signals it   *)
(* without the mutex and the ctrl thread resets it.                         *)
MessageWakes == queue > 0 /\ cpc = "select" => pipe \/ apc = "signal"

(* Nor a PIN that the session forwarded.                                    *)
PinWakes == ctrlPin /\ cpc = "select" => pipe
CtrlWakes == MessageWakes /\ PinWakes

(* A stream is run only with a session id, the console's or the fallback.   *)
StreamIdentified == phase # "idle" => sessionId # "none"

(* What the ctrl thread owes the session: messages and the PIN passed on,   *)
(* and the session id before there is a stream.                             *)
CtrlSound == CtrlWakes /\ StreamIdentified

(* chiaki_session_stop ends the session, wherever it comes, but in two       *)
(* places that take a login PIN to get to: the session thread, forwarding   *)
(* the PIN with state_mutex held, and the ctrl thread, in a handler that    *)
(* needs state_mutex with notif_mutex held, wait for each other; or the     *)
(* ctrl thread, sending the PIN, has reset the pipe that the stop signaled  *)
(* as well, and sleeps until the console does something.                    *)
PinDeadlock == spc = "pinForward" /\ ~NotifFree
StopForgotten == spc = "join" /\ ctrlStop /\ cpc = "select" /\ ~pipe
StopEnds == shouldStop ~> (spc = "done" \/ (asked /\ (PinDeadlock \/ StopForgotten)))

(* A PIN entered is forwarded to ctrl ("Session received entered Login PIN, *)
(* forwarding to Ctrl", session.c): the threads do not wait for each other. *)
PinForwarded == spc = "pinForward" ~> spc # "pinForward"
=============================================================================
