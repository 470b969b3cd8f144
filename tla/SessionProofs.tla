---------------------------- MODULE SessionProofs ----------------------------
(* Proofs of what the application relies on at the QUIT event, and of what  *)
(* the ctrl thread owes the session, for any messages of the console and    *)
(* any number of messages the application queues.                           *)
EXTENDS Session, TLAPS

(* The invariant, in the parts that the steps are checked against.          *)
Flags ==
  /\ shouldStop \in BOOLEAN /\ ctrlFailed \in BOOLEAN /\ pinRequested \in BOOLEAN
  /\ pinEntered \in BOOLEAN /\ asked \in BOOLEAN /\ ctrlStop \in BOOLEAN
  /\ ctrlPin \in BOOLEAN /\ pinOpen \in BOOLEAN /\ pipe \in BOOLEAN
  /\ stop \in BOOLEAN /\ remote \in BOOLEAN
SessionPlaces ==
  spc \in {"start", "request", "ctrlWait", "pinWait", "pinForward", "pinReply", "fallback",
           "senkusha", "stream", "ctrlStop", "join", "quit", "done"}
CtrlPlaces ==
  /\ cpc \in {"off", "starting", "connecting", "http", "canceled", "failing", "select", "handle",
              "store", "failMsg", "handled", "done"}
  /\ cmsg \in ConsoleMsgs \cup {"none"}
Values ==
  /\ sessionId \in {"none", "console", "fallback"}
  /\ reason \in {"none", "stopped", "request", "ctrl", "stream", "remote"}
  /\ event \in {"none", "pin", "connected", "quit"}
  /\ apc \in {"idle", "signal"} /\ queue \in 0 .. MaxQueue
StreamValues ==
  /\ phase \in {"idle", "running", "connected", "over"} /\ result \in Stream!Results

(* Who runs when: the ctrl thread from the session request to the join, the *)
(* stream connection while the session thread is in it.                     *)
Lifetimes ==
  /\ spc \in {"start", "request"} => cpc = "off"
  /\ cpc = "off" => spc \in {"start", "request", "quit", "done"}
  /\ spc \in {"quit", "done"} => cpc \in {"off", "done"}
  /\ phase \in {"running", "connected"} => spc = "stream"
  /\ event = "quit" => spc = "done"

(* Every reason that is set is true when it is set, and stays true.         *)
Reasons ==
  /\ stop => shouldStop
  /\ phase = "over" => /\ result # "none"
                       /\ result \in {"success", "canceled"} => stop
                       /\ result = "disconnected" => remote
  /\ reason = "stopped" => shouldStop
  /\ reason = "remote" => remote

(* What is queued for the ctrl thread keeps its pipe signaled wherever the  *)
(* thread is, not only in its select.                                       *)
Signals ==
  /\ queue > 0 => pipe \/ apc = "signal"
  /\ ctrlPin => pipe

Identified ==
  /\ phase # "idle" => sessionId # "none"
  /\ spc = "senkusha" => sessionId # "none"

Types == Flags /\ SessionPlaces /\ CtrlPlaces /\ Values /\ StreamValues
Relations == Lifetimes /\ Reasons /\ Signals /\ Identified
SessionInv == Types /\ Relations

LEMMA InitInv == Init => SessionInv
<1> SUFFICES ASSUME Init PROVE SessionInv
  OBVIOUS
<1>1. Flags
  BY DEF Init, Stream!Init, Flags
<1>2. SessionPlaces /\ CtrlPlaces
  BY DEF Init, SessionPlaces, CtrlPlaces
<1>3. Values /\ StreamValues
  BY SessionAssumption DEF Init, Stream!Init, Values, StreamValues, Stream!Results
<1>4. Relations
  BY DEF Init, Stream!Init, Relations, Lifetimes, Reasons, Signals, Identified
<1> QED
  BY <1>1, <1>2, <1>3, <1>4 DEF SessionInv, Types

-----------------------------------------------------------------------------
(* The session thread.                                                      *)
LEMMA RequestInv ==
  ASSUME SessionInv, Start \/ RequestFails \/ RequestDone
  PROVE  SessionInv'
<1> USE DEF SessionInv, Types, SessionOnly, CtrlUnchanged, sess, ctrl, notif, stream, shared
<1>1. CASE Start
  <2> USE <1>1 DEF Start, Quitting
  <2>1. Types'
    BY DEF Flags, SessionPlaces, CtrlPlaces, Values, StreamValues
  <2>2. Relations'
    BY DEF Flags, SessionPlaces, CtrlPlaces, Values, StreamValues, Relations, Lifetimes,
           Reasons, Signals, Identified
  <2> QED
    BY <2>1, <2>2
<1>2. CASE RequestFails
  <2> USE <1>2 DEF RequestFails, Quitting
  <2>1. Types'
    BY DEF Flags, SessionPlaces, CtrlPlaces, Values, StreamValues
  <2>2. Relations'
    BY DEF Flags, SessionPlaces, CtrlPlaces, Values, StreamValues, Relations, Lifetimes,
           Reasons, Signals, Identified
  <2> QED
    BY <2>1, <2>2
<1>3. CASE RequestDone
  <2> USE <1>3 DEF RequestDone
  <2>1. Types'
    BY DEF Flags, SessionPlaces, CtrlPlaces, Values, StreamValues
  <2>2. Relations'
    BY DEF Flags, SessionPlaces, CtrlPlaces, Values, StreamValues, Relations, Lifetimes,
           Reasons, Signals, Identified
  <2> QED
    BY <2>1, <2>2
<1> QED
  BY <1>1, <1>2, <1>3

LEMMA WaitsInv ==
  ASSUME SessionInv, CtrlWaited \/ PinWaited \/ PinForward \/ Fallback
  PROVE  SessionInv'
<1> USE DEF SessionInv, Types, SessionOnly, CtrlUnchanged, sess, ctrl, notif, stream, shared
<1>1. CASE CtrlWaited
  <2> USE <1>1 DEF CtrlWaited, Stopping, CtrlFailedLabel
  <2>1. Flags'
    BY DEF Flags
  <2>2. SessionPlaces' /\ CtrlPlaces'
    BY DEF SessionPlaces, CtrlPlaces
  <2>3. Values'
    BY DEF Values
  <2>4. StreamValues'
    BY DEF StreamValues
  <2>5. Relations'
    BY DEF Flags, SessionPlaces, CtrlPlaces, Values, StreamValues, Relations, Lifetimes,
           Reasons, Signals, Identified
  <2> QED
    BY <2>1, <2>2, <2>3, <2>4, <2>5
<1>2. CASE PinWaited
  <2> USE <1>2 DEF PinWaited, Stopping, CtrlFailedLabel
  <2>1. Types'
    BY DEF Flags, SessionPlaces, CtrlPlaces, Values, StreamValues
  <2>2. Relations'
    BY DEF Flags, SessionPlaces, CtrlPlaces, Values, StreamValues, Relations, Lifetimes,
           Reasons, Signals, Identified
  <2> QED
    BY <2>1, <2>2
<1>3. CASE PinForward
  <2> USE <1>3 DEF PinForward
  <2>1. Flags'
    BY DEF Flags
  <2>2. SessionPlaces' /\ CtrlPlaces'
    BY DEF SessionPlaces, CtrlPlaces
  <2>3. Values'
    BY DEF Values
  <2>4. StreamValues'
    BY DEF StreamValues
  <2>5. Relations'
    BY DEF Flags, SessionPlaces, CtrlPlaces, Values, StreamValues, Relations, Lifetimes,
           Reasons, Signals, Identified
  <2> QED
    BY <2>1, <2>2, <2>3, <2>4, <2>5
<1>4. CASE Fallback
  <2> USE <1>4 DEF Fallback, Stopping, CtrlFailedLabel
  <2>1. Types'
    BY DEF Flags, SessionPlaces, CtrlPlaces, Values, StreamValues
  <2>2. Relations'
    BY DEF Flags, SessionPlaces, CtrlPlaces, Values, StreamValues, Relations, Lifetimes,
           Reasons, Signals, Identified
  <2> QED
    BY <2>1, <2>2
<1> QED
  BY <1>1, <1>2, <1>3, <1>4

LEMMA StreamInv ==
  ASSUME SessionInv, SenkushaDone \/ SenkushaFails \/ StreamDone
  PROVE  SessionInv'
<1> USE DEF SessionInv, Types, SessionOnly, CtrlUnchanged, sess, ctrl, notif, stream, shared
<1>1. CASE SenkushaDone
  <2> USE <1>1 DEF SenkushaDone, Stream!Start
  <2>1. Types'
    BY DEF Flags, SessionPlaces, CtrlPlaces, Values, StreamValues
  <2>2. Relations'
    BY DEF Flags, SessionPlaces, CtrlPlaces, Values, StreamValues, Relations, Lifetimes,
           Reasons, Signals, Identified
  <2> QED
    BY <2>1, <2>2
<1>2. CASE SenkushaFails
  <2> USE <1>2 DEF SenkushaFails, Stopping
  <2>1. Types'
    BY DEF Flags, SessionPlaces, CtrlPlaces, Values, StreamValues
  <2>2. Relations'
    BY DEF Flags, SessionPlaces, CtrlPlaces, Values, StreamValues, Relations, Lifetimes,
           Reasons, Signals, Identified
  <2> QED
    BY <2>1, <2>2
<1>3. CASE StreamDone
  <2> USE <1>3 DEF StreamDone, Stopping, Stream!Results
  <2>1. Types'
    BY DEF Flags, SessionPlaces, CtrlPlaces, Values, StreamValues
  <2>2. Relations'
    BY DEF Flags, SessionPlaces, CtrlPlaces, Values, StreamValues, Relations, Lifetimes,
           Reasons, Signals, Identified
  <2> QED
    BY <2>1, <2>2
<1> QED
  BY <1>1, <1>2, <1>3

LEMMA EndingInv ==
  ASSUME SessionInv, CtrlStop \/ CtrlJoin \/ Quit
  PROVE  SessionInv'
<1> USE DEF SessionInv, Types, SessionOnly, CtrlUnchanged, sess, ctrl, notif, stream, shared
<1>1. CASE CtrlStop
  <2> USE <1>1 DEF CtrlStop
  <2>1. Types'
    BY DEF Flags, SessionPlaces, CtrlPlaces, Values, StreamValues
  <2>2. Relations'
    BY DEF Flags, SessionPlaces, CtrlPlaces, Values, StreamValues, Relations, Lifetimes,
           Reasons, Signals, Identified
  <2> QED
    BY <2>1, <2>2
<1>2. CASE CtrlJoin
  <2> USE <1>2 DEF CtrlJoin
  <2>1. Types'
    BY DEF Flags, SessionPlaces, CtrlPlaces, Values, StreamValues
  <2>2. Relations'
    BY DEF Flags, SessionPlaces, CtrlPlaces, Values, StreamValues, Relations, Lifetimes,
           Reasons, Signals, Identified
  <2> QED
    BY <2>1, <2>2
<1>3. CASE Quit
  <2> USE <1>3 DEF Quit
  <2>1. Types'
    BY DEF Flags, SessionPlaces, CtrlPlaces, Values, StreamValues
  <2>2. Relations'
    BY DEF Flags, SessionPlaces, CtrlPlaces, Values, StreamValues, Relations, Lifetimes,
           Reasons, Signals, Identified
  <2> QED
    BY <2>1, <2>2
<1> QED
  BY <1>1, <1>2, <1>3

-----------------------------------------------------------------------------
(* The ctrl thread.                                                         *)
LEMMA CtrlConnectInv ==
  ASSUME SessionInv, CtrlConnect \/ CtrlFailed \/ HandleLast
  PROVE  SessionInv'
<1> USE DEF SessionInv, Types, SessionOnly, CtrlUnchanged, sess, ctrl, notif, stream, shared
<1>1. CASE CtrlConnect
  <2> USE <1>1 DEF CtrlConnect, CtrlStep
  <2>1. Types'
    BY DEF Flags, SessionPlaces, CtrlPlaces, Values, StreamValues
  <2>2. Relations'
    BY DEF Flags, SessionPlaces, CtrlPlaces, Values, StreamValues, Relations, Lifetimes,
           Reasons, Signals, Identified
  <2> QED
    BY <2>1, <2>2
<1>2. CASE CtrlFailed
  <2> USE <1>2 DEF CtrlFailed
  <2>1. Types'
    BY DEF Flags, SessionPlaces, CtrlPlaces, Values, StreamValues
  <2>2. Relations'
    BY DEF Flags, SessionPlaces, CtrlPlaces, Values, StreamValues, Relations, Lifetimes,
           Reasons, Signals, Identified
  <2> QED
    BY <2>1, <2>2
<1>3. CASE HandleLast
  <2> USE <1>3 DEF HandleLast, CtrlStep
  <2>1. Types'
    BY DEF Flags, SessionPlaces, CtrlPlaces, Values, StreamValues
  <2>2. Relations'
    BY DEF Flags, SessionPlaces, CtrlPlaces, Values, StreamValues, Relations, Lifetimes,
           Reasons, Signals, Identified
  <2> QED
    BY <2>1, <2>2
<1> QED
  BY <1>1, <1>2, <1>3

LEMMA CtrlLoopInv ==
  ASSUME SessionInv, CtrlNotified \/ CtrlReceives \/ HandleNext
  PROVE  SessionInv'
<1> USE DEF SessionInv, Types, SessionOnly, CtrlUnchanged, sess, ctrl, notif, stream, shared
<1>1. CASE CtrlNotified
  <2> USE <1>1 DEF CtrlNotified
  <2>1. Flags'
    BY DEF Flags
  <2>2. SessionPlaces' /\ CtrlPlaces'
    BY DEF SessionPlaces, CtrlPlaces
  <2>3. Values'
    BY SessionAssumption DEF Values
  <2>4. StreamValues'
    BY DEF StreamValues
  <2>5. Relations'
    BY DEF Flags, SessionPlaces, CtrlPlaces, Values, StreamValues, Relations, Lifetimes,
           Reasons, Signals, Identified
  <2> QED
    BY <2>1, <2>2, <2>3, <2>4, <2>5
<1>2. CASE CtrlReceives
  <2> USE <1>2 DEF CtrlReceives
  <2>1. Types'
    BY DEF Flags, SessionPlaces, CtrlPlaces, Values, StreamValues
  <2>2. Relations'
    BY DEF Flags, SessionPlaces, CtrlPlaces, Values, StreamValues, Relations, Lifetimes,
           Reasons, Signals, Identified
  <2> QED
    BY <2>1, <2>2
<1>3. CASE HandleNext
  <2> USE <1>3 DEF HandleNext
  <2>1. Types'
    BY DEF Flags, SessionPlaces, CtrlPlaces, Values, StreamValues
  <2>2. Relations'
    BY DEF Flags, SessionPlaces, CtrlPlaces, Values, StreamValues, Relations, Lifetimes,
           Reasons, Signals, Identified
  <2> QED
    BY <2>1, <2>2
<1> QED
  BY <1>1, <1>2, <1>3

LEMMA CtrlHandleInv ==
  ASSUME SessionInv, HandleSessionId \/ HandlePinReq \/ HandleLogin
  PROVE  SessionInv'
<1> USE DEF SessionInv, Types, SessionOnly, CtrlUnchanged, sess, ctrl, notif, stream, shared
<1>1. CASE HandleSessionId
  <2> USE <1>1 DEF HandleSessionId, Handled
  <2>1. Types'
    BY DEF Flags, SessionPlaces, CtrlPlaces, Values, StreamValues
  <2>2. Relations'
    BY DEF Flags, SessionPlaces, CtrlPlaces, Values, StreamValues, Relations, Lifetimes,
           Reasons, Signals, Identified
  <2> QED
    BY <2>1, <2>2
<1>2. CASE HandlePinReq
  <2> USE <1>2 DEF HandlePinReq, Handled
  <2>1. Flags'
    BY DEF Flags
  <2>2. SessionPlaces' /\ CtrlPlaces'
    BY DEF SessionPlaces, CtrlPlaces
  <2>3. Values'
    BY DEF Values
  <2>4. StreamValues'
    BY DEF StreamValues
  <2>5. Relations'
    BY DEF Flags, SessionPlaces, CtrlPlaces, Values, StreamValues, Relations, Lifetimes,
           Reasons, Signals, Identified
  <2> QED
    BY <2>1, <2>2, <2>3, <2>4, <2>5
<1>3. CASE HandleLogin
  <2> USE <1>3 DEF HandleLogin, Handled
  <2>1. Flags'
    BY ZenonT(60) DEF Flags
  <2>2. SessionPlaces' /\ CtrlPlaces'
    BY DEF SessionPlaces, CtrlPlaces
  <2>3. Values'
    BY DEF Values
  <2>4. StreamValues'
    BY DEF StreamValues
  <2>5. Relations'
    BY DEF Flags, SessionPlaces, CtrlPlaces, Values, StreamValues, Relations, Lifetimes,
           Reasons, Signals, Identified
  <2> QED
    BY <2>1, <2>2, <2>3, <2>4, <2>5
<1> QED
  BY <1>1, <1>2, <1>3

-----------------------------------------------------------------------------
(* The application and the stream connection.                               *)
LEMMA ApplicationInv ==
  ASSUME SessionInv, SessionStop \/ SetPin \/ SendMessage \/ SendSignal
  PROVE  SessionInv'
<1> USE DEF SessionInv, Types, SessionOnly, CtrlUnchanged, sess, ctrl, notif, stream, shared
<1>1. CASE SessionStop
  <2> USE <1>1 DEF SessionStop, Stream!Stop
  <2>1. Types'
    BY DEF Flags, SessionPlaces, CtrlPlaces, Values, StreamValues
  <2>2. Relations'
    BY DEF Flags, SessionPlaces, CtrlPlaces, Values, StreamValues, Relations, Lifetimes,
           Reasons, Signals, Identified
  <2> QED
    BY <2>1, <2>2
<1>2. CASE SetPin
  <2> USE <1>2 DEF SetPin
  <2>1. Types'
    BY DEF Flags, SessionPlaces, CtrlPlaces, Values, StreamValues
  <2>2. Relations'
    BY DEF Flags, SessionPlaces, CtrlPlaces, Values, StreamValues, Relations, Lifetimes,
           Reasons, Signals, Identified
  <2> QED
    BY <2>1, <2>2
<1>3. CASE SendMessage
  <2> USE <1>3 DEF SendMessage
  <2>1. Types'
    BY SessionAssumption DEF Flags, SessionPlaces, CtrlPlaces, Values, StreamValues
  <2>2. Relations'
    BY DEF Flags, SessionPlaces, CtrlPlaces, Values, StreamValues, Relations, Lifetimes,
           Reasons, Signals, Identified
  <2> QED
    BY <2>1, <2>2
<1>4. CASE SendSignal
  <2> USE <1>4 DEF SendSignal
  <2>1. Types'
    BY DEF Flags, SessionPlaces, CtrlPlaces, Values, StreamValues
  <2>2. Relations'
    BY DEF Flags, SessionPlaces, CtrlPlaces, Values, StreamValues, Relations, Lifetimes,
           Reasons, Signals, Identified
  <2> QED
    BY <2>1, <2>2
<1> QED
  BY <1>1, <1>2, <1>3, <1>4

LEMMA StreamRunsInv ==
  ASSUME SessionInv, StreamRuns
  PROVE  SessionInv'
<1>1. UNCHANGED <<spc, asked, shouldStop, ctrlFailed, pinRequested, sessionId, reason, pinEntered,
                  cpc, cmsg, pinOpen, ctrlStop, ctrlPin, queue, pipe, apc>>
  BY DEF StreamRuns, shared, ctrl, notif
<1>2. event' = "connected" \/ event' = event
  BY DEF StreamRuns
<1>3. /\ stop' = stop /\ remote' \in BOOLEAN /\ (remote => remote')
      /\ phase' \in {"idle", "running", "connected", "over"} /\ result' \in Stream!Results
      /\ phase \in {"running", "connected"}
      /\ phase' = "over" => /\ result' # "none"
                            /\ result' \in {"success", "canceled"} => stop'
                            /\ result' = "disconnected" => remote'
  <2> USE DEF SessionInv, Types, Flags, StreamValues
  <2>1. CASE Stream!Connect
    BY <2>1 DEF Stream!Connect
  <2>2. CASE Stream!RemoteDisconnect
    BY <2>2 DEF Stream!RemoteDisconnect, Stream!Active
  <2>3. ASSUME NEW r \in Stream!Results, Stream!Return(r)
        PROVE  <1>3!:
    BY <2>3 DEF Stream!Return, Stream!Allowed, Stream!Active
  <2> QED
    BY <2>1, <2>2, <2>3 DEF StreamRuns
<1>4. Types'
  BY <1>1, <1>2, <1>3 DEF SessionInv, Types, Flags, SessionPlaces, CtrlPlaces, Values, StreamValues
<1>5. Lifetimes'
  BY <1>1, <1>2, <1>3 DEF SessionInv, Relations, Lifetimes
<1>6. Reasons'
  <2>1. (stop => shouldStop) /\ (reason = "stopped" => shouldStop) /\ (reason = "remote" => remote)
    BY DEF SessionInv, Relations, Reasons
  <2>2. stop' => shouldStop'
    BY <1>1, <1>3, <2>1
  <2>3. (reason' = "stopped" => shouldStop') /\ (reason' = "remote" => remote')
    BY <1>1, <1>3, <2>1
  <2> QED
    BY <1>3, <2>2, <2>3 DEF Reasons
<1>7. Signals' /\ Identified'
  BY <1>1, <1>3 DEF SessionInv, Relations, Signals, Identified
<1> QED
  BY <1>4, <1>5, <1>6, <1>7 DEF SessionInv, Relations

LEMMA StepInv == SessionInv /\ [Next]_vars => SessionInv'
<1>1. SessionInv /\ UNCHANGED vars => SessionInv'
  BY DEF SessionInv, Types, Flags, SessionPlaces, CtrlPlaces, Values, StreamValues, Relations,
         Lifetimes, Reasons, Signals, Identified, vars, sess, ctrl, notif, stream, shared
<1> QED
  BY <1>1, RequestInv, WaitsInv, StreamInv, EndingInv, CtrlConnectInv, CtrlLoopInv,
     CtrlHandleInv, ApplicationInv, StreamRunsInv
  DEF Next, SessionThread, CtrlThread

LEMMA InvHolds == Spec => []SessionInv
BY InitInv, StepInv, PTL DEF Spec

-----------------------------------------------------------------------------
(* Every variable has one of the values the code gives it.                  *)
THEOREM TypeCorrect == Spec => []TypeOK
<1>1. SessionInv => TypeOK
  BY DEF SessionInv, Types, Flags, SessionPlaces, CtrlPlaces, Values, StreamValues, TypeOK
<1> QED
  BY <1>1, InvHolds, PTL

(* At the QUIT event neither the ctrl thread nor the stream connection      *)
(* runs, and the reason it gives is true.                                   *)
THEOREM QuitHolds == Spec => []QuitTrue
<1>1. SessionInv => QuitTrue
  BY DEF SessionInv, Types, StreamValues, Relations, Lifetimes, Reasons, QuitTrue,
         NothingOutlivesQuit, ReasonTrue
<1> QED
  BY <1>1, InvHolds, PTL

(* No message and no PIN waits for a sleeping ctrl thread whose pipe nobody *)
(* will signal, and a stream has a session id.                              *)
THEOREM CtrlHolds == Spec => []CtrlSound
<1>1. SessionInv => CtrlSound
  BY DEF SessionInv, Relations, Signals, Identified, CtrlSound, CtrlWakes, MessageWakes,
         PinWakes, StreamIdentified
<1> QED
  BY <1>1, InvHolds, PTL
=============================================================================
