--------------------------- MODULE StreamConnection ---------------------------
(***************************************************************************)
(* src/lib/src/streamconnection.c: the thread that runs the stream          *)
(* connection, the callbacks it gets on the Takion thread, the congestion   *)
(* control thread and the feedback sender it owns, and an application       *)
(* thread that stops it and passes it controller states.                    *)
(*                                                                          *)
(* The run thread holds state_mutex from one wait to the next, so a step of *)
(* it is what it does between two waits.  Only when it needs the feedback   *)
(* sender's mutex while it holds state_mutex ("fsInit", "fsFini") a step    *)
(* ends with state_mutex held.  A timed wait may report the timeout though  *)
(* its predicate became true at the same moment (thread.c:305-319 returns   *)
(* what pthread_cond_timedwait said without another look at the predicate). *)
(*                                                                          *)
(* The console answers the BIG message by a BANG and describes the streams  *)
(* (STREAMINFO), in any order, and sends neither again once it was taken;   *)
(* the Takion thread hands messages over in the order they were sent in.    *)
(***************************************************************************)
EXTENDS Naturals, Sequences

VARIABLES
  rpc,         \* where the run thread is
  state,       \* "idle", "takionConnect", "expectBang", "expectStreaminfo"
  finished,    \* state_finished
  shouldStop,  \* should_stop
  remote,      \* remote_disconnected
  early,       \* streaminfo_early_buf is allocated
  secret,      \* ecdh_secret is derived and the crypts are set
  streams,     \* the receivers were told the stream info
  receivers,   \* the video, audio and haptics receivers exist
  cc,          \* the congestion control thread runs
  active,      \* feedback_sender_active, with the feedback sender's thread
  result,      \* what run returned or is about to return
  tpc,         \* where the Takion thread is
  msg,         \* the message the Takion thread is handing over
  channel,     \* messages of the console not yet handed over
  bigSent,     \* the console got the BIG message
  dropped,     \* a stream info was handed over and neither used nor kept
  apc,         \* the application thread, "setState": holding feedback_sender_mutex
  lateSend     \* run sent a message after the Takion thread gave up

thread == <<rpc, state, finished, early, result>>
takion == <<tpc, msg, channel>>
owned == <<receivers, cc, active>>
vars == <<rpc, state, finished, shouldStop, remote, early, secret, streams, receivers, cc,
          active, result, tpc, msg, channel, bigSent, dropped, apc, lateSend>>

Messages == {"bang", "streaminfo", "disconnect"}
NoMsg == "none"

Init ==
  /\ rpc = "off" /\ state = "idle" /\ finished = FALSE /\ shouldStop = FALSE
  /\ remote = FALSE /\ early = FALSE /\ secret = FALSE /\ streams = FALSE
  /\ receivers = FALSE /\ cc = FALSE /\ active = FALSE /\ result = "none"
  /\ tpc = "off" /\ msg = NoMsg /\ channel = <<>> /\ bigSent = FALSE /\ dropped = FALSE
  /\ apc = "idle" /\ lateSend = FALSE

StateFree == rpc \notin {"fsInit", "fsFini"}         \* nobody holds state_mutex
TakionRuns == tpc \in {"handshake", "loop", "handing"}
\* Mutant: the wait does not end for a stop.
PredNoStop == finished \/ remote
Pred == finished \/ shouldStop \/ remote             \* state_finished_cond_check
-----------------------------------------------------------------------------
(* chiaki_stream_connection_run.                                            *)

\* The receivers, Takion and congestion control are started; Takion or the
\* congestion control may fail to start.
Run ==
  /\ rpc = "off" /\ receivers' = TRUE
  /\ state' = "takionConnect" /\ finished' = FALSE
  /\ \/ tpc' = "handshake" /\ cc' = TRUE /\ rpc' = "connect" /\ result' = result
     \/ tpc' = "handshake" /\ cc' = FALSE /\ rpc' = "closing" /\ result' = "failed"
     \/ tpc' = "off" /\ cc' = FALSE /\ rpc' = "closed" /\ result' = "failed"
  /\ UNCHANGED <<shouldStop, remote, early, secret, streams, active, msg, channel, bigSent,
                 dropped, apc, lateSend>>

\* A message goes out through Takion; a BIG that arrives makes the console talk.
Sends(big) ==
  /\ lateSend' = (lateSend \/ ~TakionRuns)
  /\ bigSent' = (bigSent \/ big)

\* From the label disconnect to close_takion: the disconnect message, what run
\* will return, the congestion control stopped and joined.
Outcome(err) == IF shouldStop THEN "canceled" ELSE IF remote THEN "disconnected" ELSE err
Disconnecting(err) ==
  /\ early' = FALSE /\ result' = Outcome(err) /\ cc' = FALSE /\ rpc' = "closing"
  /\ lateSend' = (lateSend \/ ~TakionRuns)

\* The wait for Takion ends: stopped, timed out, or (also when a disconnect
\* message already came) on to the BIG message, whose sending may fail.
ConnectStopped(timeout) ==
  /\ rpc = "connect" /\ shouldStop
  /\ rpc' = "closing" /\ result' = (IF timeout THEN "failed" ELSE "success")
  /\ UNCHANGED <<state, finished, shouldStop, remote, early, secret, streams, owned, takion,
                 bigSent, dropped, apc, lateSend>>
ConnectTimeout ==
  /\ rpc = "connect" /\ ~shouldStop
  /\ rpc' = "closing" /\ result' = "failed" /\ cc' = FALSE
  /\ UNCHANGED <<state, finished, shouldStop, remote, early, secret, streams, receivers,
                 active, takion, bigSent, dropped, apc, lateSend>>
\* Mutant: state_finished is not reset for the next wait.
ConnectDoneStale ==
  /\ rpc = "connect" /\ Pred /\ ~shouldStop
  /\ state' = "expectBang" /\ Sends(TRUE) /\ rpc' = "bang"
  /\ UNCHANGED <<finished, early, result, cc, shouldStop, remote, secret, streams, receivers,
                 active, takion, dropped, apc>>

ConnectDone ==
  /\ rpc = "connect" /\ Pred /\ ~shouldStop
  /\ state' = "expectBang" /\ finished' = FALSE
  /\ \/ /\ Sends(TRUE) /\ rpc' = "bang"
        /\ UNCHANGED <<early, result, cc>>
     \/ Disconnecting("failed") /\ UNCHANGED bigSent
  /\ UNCHANGED <<shouldStop, remote, secret, streams, receivers, active, takion, dropped, apc>>

\* A wait of the handshake that ends without what it waits for: by the
\* timeout, a stop, or the console's disconnect.
GiveUp ==
  /\ rpc \in {"bang", "streaminfo"} /\ (shouldStop \/ ~finished)
  /\ Disconnecting("failed")
  /\ UNCHANGED <<state, finished, shouldStop, remote, secret, streams, receivers, active,
                 takion, bigSent, dropped, apc>>

\* The BANG came; a stream info that came before it is handled now, and when
\* it is no good the wait for another one follows.
BangDone ==
  /\ rpc = "bang" /\ finished /\ ~shouldStop
  /\ state' = "expectStreaminfo" /\ early' = FALSE
  /\ \E good \in {FALSE, early} :
       /\ finished' = good
       /\ streams' = (streams \/ good)
       /\ rpc' = IF good THEN "fsInit" ELSE "streaminfo"
       /\ lateSend' = (lateSend \/ (good /\ ~TakionRuns))
  /\ UNCHANGED <<shouldStop, remote, secret, receivers, cc, active, result, takion, bigSent,
                 dropped, apc>>
StreamInfoDone ==
  /\ rpc = "streaminfo" /\ finished /\ ~shouldStop
  /\ rpc' = "fsInit"
  /\ UNCHANGED <<state, finished, shouldStop, remote, early, secret, streams, owned, result,
                 takion, bigSent, dropped, apc, lateSend>>

\* The feedback sender is started under its own mutex, or fails to start.
FeedbackStart ==
  /\ rpc = "fsInit" /\ apc # "setState"
  /\ \/ /\ active' = TRUE /\ state' = "idle" /\ finished' = FALSE /\ rpc' = "beat"
        /\ UNCHANGED <<early, result, cc, lateSend>>
     \/ Disconnecting("failed") /\ UNCHANGED <<active, state, finished>>
  /\ UNCHANGED <<shouldStop, remote, secret, streams, receivers, takion, bigSent, dropped, apc>>

\* The heartbeat loop: every timeout sends a heartbeat (one that races the
\* predicate too), the predicate ends the loop.
Heartbeat ==
  /\ rpc = "beat" /\ Sends(FALSE)
  /\ UNCHANGED <<thread, shouldStop, remote, secret, streams, owned, takion, dropped, apc>>
\* Mutant: any wake-up ends the loop.
BeatEndSpurious ==
  /\ rpc = "beat" /\ rpc' = "fsFini"
  /\ UNCHANGED <<state, finished, shouldStop, remote, early, secret, streams, owned, result,
                 takion, bigSent, dropped, apc, lateSend>>

BeatEnd ==
  /\ rpc = "beat" /\ Pred /\ rpc' = "fsFini"
  /\ UNCHANGED <<state, finished, shouldStop, remote, early, secret, streams, owned, result,
                 takion, bigSent, dropped, apc, lateSend>>
\* Mutant: the feedback sender is torn down without its mutex.
FeedbackEndUnlocked ==
  /\ rpc = "fsFini" /\ active' = FALSE /\ Disconnecting("success")
  /\ UNCHANGED <<state, finished, shouldStop, remote, secret, streams, receivers, takion,
                 bigSent, dropped, apc>>

FeedbackEnd ==
  /\ rpc = "fsFini" /\ apc # "setState"
  /\ active' = FALSE /\ Disconnecting("success")
  /\ UNCHANGED <<state, finished, shouldStop, remote, secret, streams, receivers, takion,
                 bigSent, dropped, apc>>

\* chiaki_takion_close joins the Takion thread; then the receivers are freed.
Closed ==
  /\ rpc = "closing" /\ tpc = "done" /\ rpc' = "closed"
  /\ UNCHANGED <<state, finished, shouldStop, remote, early, secret, streams, owned, result,
                 takion, bigSent, dropped, apc, lateSend>>
Return ==
  /\ rpc = "closed" /\ rpc' = "done" /\ receivers' = FALSE
  /\ UNCHANGED <<state, finished, shouldStop, remote, early, secret, streams, cc, active,
                 result, takion, bigSent, dropped, apc, lateSend>>

Waited == \E timeout \in BOOLEAN : ConnectStopped(timeout)
RunThread == Waited \/ ConnectTimeout \/ ConnectDone \/ GiveUp \/ BangDone \/ StreamInfoDone
             \/ FeedbackStart \/ BeatEnd \/ FeedbackEnd \/ Closed \/ Return
-----------------------------------------------------------------------------
(* The Takion thread and stream_connection_takion_cb.                       *)

TakionUnchanged == UNCHANGED <<rpc, shouldStop, receivers, cc, active, result, bigSent, apc,
                               lateSend>>

\* The handshake succeeded: the CONNECTED event.
Connected ==
  /\ tpc = "handshake" /\ StateFree /\ tpc' = "loop"
  /\ finished' = IF state = "takionConnect" THEN TRUE ELSE finished
  /\ UNCHANGED <<state, remote, early, secret, streams, msg, channel, dropped>> /\ TakionUnchanged

\* The thread gives up: closed, or its socket failed.  It frees its send
\* buffer, then reports the DISCONNECT event.
TakionEnds ==
  /\ tpc \in {"handshake", "loop"} /\ tpc' = "ending"
  /\ UNCHANGED <<state, finished, remote, early, secret, streams, msg, channel, dropped>>
  /\ TakionUnchanged
TakionDone ==
  /\ tpc = "ending" /\ StateFree /\ tpc' = "done"
  /\ finished' = IF state = "takionConnect" THEN FALSE ELSE finished
  /\ UNCHANGED <<state, remote, early, secret, streams, msg, channel, dropped>> /\ TakionUnchanged

Receive ==
  /\ tpc = "loop" /\ channel # <<>>
  /\ tpc' = "handing" /\ msg' = Head(channel) /\ channel' = Tail(channel)
  /\ UNCHANGED <<state, finished, remote, early, secret, streams, dropped>> /\ TakionUnchanged

\* Mutant: the message is not taken off.
HandedKept == tpc = "handing" /\ StateFree /\ tpc' = "loop" /\ UNCHANGED <<msg, channel>>

\* stream_connection_takion_data_protobuf: the message is handled as the state
\* says.  The console may decline or send something invalid (state_failed,
\* which no wait looks at).
Handed == tpc = "handing" /\ StateFree /\ tpc' = "loop" /\ msg' = NoMsg /\ UNCHANGED channel
HandDisconnect ==
  /\ Handed /\ msg = "disconnect" /\ remote' = TRUE
  /\ UNCHANGED <<state, finished, early, secret, streams, dropped>> /\ TakionUnchanged
HandBang ==
  /\ Handed /\ msg = "bang"
  /\ \E good \in {FALSE, state = "expectBang"} :
       /\ finished' = (finished \/ good) /\ secret' = (secret \/ good)
  /\ UNCHANGED <<state, remote, early, streams, dropped>> /\ TakionUnchanged
HandStreaminfo ==
  /\ Handed /\ msg = "streaminfo"
  /\ \/ /\ state = "expectBang" /\ early' = TRUE /\ dropped' = (dropped \/ early)
        /\ UNCHANGED <<finished, streams>>
     \/ /\ state = "expectStreaminfo"
        /\ \E good \in BOOLEAN : finished' = (finished \/ good) /\ streams' = (streams \/ good)
        /\ UNCHANGED <<early, dropped>>
     \/ /\ state \in {"idle", "takionConnect"} /\ dropped' = TRUE
        /\ UNCHANGED <<early, finished, streams>>
  /\ UNCHANGED <<state, remote, secret>> /\ TakionUnchanged

TakionThread == Connected \/ TakionEnds \/ TakionDone \/ Receive
                \/ HandDisconnect \/ HandBang \/ HandStreaminfo
-----------------------------------------------------------------------------
(* The console, and the application thread.                                 *)

InChannel(m) == \E i \in 1 .. Len(channel) : channel[i] = m

ConsoleSends(m) ==
  /\ tpc \in {"loop", "handing"} /\ ~InChannel(m) /\ msg # m
  /\ CASE m = "bang" -> bigSent /\ ~secret
       [] m = "streaminfo" -> bigSent /\ ~streams /\ ~early /\ ~dropped
       [] OTHER -> ~remote
  /\ channel' = Append(channel, m)
  /\ UNCHANGED <<thread, shouldStop, remote, secret, streams, owned, tpc, msg, bigSent,
                 dropped, apc, lateSend>>

\* chiaki_stream_connection_stop.
Stop ==
  /\ StateFree /\ shouldStop' = TRUE
  /\ UNCHANGED <<thread, remote, secret, streams, owned, takion, bigSent, dropped, apc, lateSend>>

\* chiaki_session_set_controller_state: feedback_sender_active is looked at and
\* the feedback sender used under feedback_sender_mutex.
SetState ==
  /\ apc = "idle" /\ active /\ apc' = "setState"
  /\ UNCHANGED <<thread, shouldStop, remote, secret, streams, owned, takion, bigSent, dropped,
                 lateSend>>
SetStateDone ==
  /\ apc = "setState" /\ apc' = "idle"
  /\ UNCHANGED <<thread, shouldStop, remote, secret, streams, owned, takion, bigSent, dropped,
                 lateSend>>

Next == Run \/ RunThread \/ Heartbeat \/ TakionThread \/ Stop \/ SetState \/ SetStateDone
        \/ \E m \in Messages : ConsoleSends(m)

(* Both threads keep running and every wait of the run thread but the       *)
(* heartbeat loop has a timeout; the Takion thread hands over what it       *)
(* received, and ends when it is closed: its select looks at the stop pipe  *)
(* before the socket each time, so a chatty console does not keep it (SF).  *)
(* The application holds feedback_sender_mutex for moments only: the run     *)
(* thread gets it in the end, however often the application takes it (SF).  *)
Fairness ==
  /\ WF_vars(RunThread)
  /\ SF_vars(FeedbackStart \/ FeedbackEnd)
  /\ WF_vars(TakionDone \/ HandDisconnect \/ HandBang \/ HandStreaminfo)
  /\ SF_vars(rpc = "closing" /\ TakionEnds)
  /\ WF_vars(SetStateDone)

Spec == Init /\ [][Next]_vars
FairSpec == Spec /\ Fairness
-----------------------------------------------------------------------------
(* Type invariant; a message is being handled exactly while it is handed    *)
(* over.                                                                    *)
TypeOK ==
  /\ rpc \in {"off", "connect", "bang", "streaminfo", "fsInit", "beat", "fsFini", "closing",
              "closed", "done"}
  /\ state \in {"idle", "takionConnect", "expectBang", "expectStreaminfo"}
  /\ {finished, shouldStop, remote, early, secret, streams, receivers, cc, active, bigSent,
      dropped, lateSend} \subseteq BOOLEAN
  /\ result \in {"none", "success", "canceled", "disconnected", "failed"}
  /\ tpc \in {"off", "handshake", "loop", "handing", "ending", "done"}
  /\ msg \in Messages \cup {NoMsg} /\ channel \in Seq(Messages)
  /\ apc \in {"idle", "setState"}
  /\ tpc = "handing" <=> msg # NoMsg

(* When the session is told CONNECTED, the encryption was negotiated and    *)
(* the receivers know the streams, whatever the order in which BANG and     *)
(* STREAMINFO came and whatever raced them (streamconnection.c:237-330).    *)
HandshakeComplete == rpc \in {"beat", "fsFini"} => secret /\ streams

(* While the Takion thread can hand over packets the receivers it hands     *)
(* them to exist, on every path by which run ends (:206-213, :358-372).     *)
ReceiversAlive == TakionRuns => receivers

(* "If feedback_sender_active is true, the feedback sender may be accessed" *)
(* (streamconnection.h:56-57): it is not torn down under the thread that    *)
(* looked at the flag.                                                      *)
FeedbackGuard == apc = "setState" => active

(* A STREAMINFO that comes before the BANG, or while run moves on to the    *)
(* next state, is not lost: it is used or kept in streaminfo_early_buf      *)
(* until the BANG was handled (:275-280, :815-836).                         *)
EarlyKept == ~dropped

(* The congestion control thread, which sends through Takion, is stopped    *)
(* before chiaki_takion_close, on every way out but one: a stop while       *)
(* Takion connects skips err_congestion_control (:236), and the thread goes *)
(* on with a Takion that is closed.                                         *)
CongestionStopped ==
  rpc \in {"closed", "done"} /\ cc => shouldStop /\ state = "takionConnect"

(* Nothing is torn down under a thread that uses it, but for that one way.  *)
TeardownOrder == ReceiversAlive /\ FeedbackGuard /\ CongestionStopped

(* What the handshake hands to what comes after it.                         *)
HandshakeSound == HandshakeComplete /\ EarlyKept

(* Heartbeats and the disconnect message are sent while Takion is running   *)
(* ("Thread-safe while Takion is running", takion.h, of                     *)
(* chiaki_takion_send_message_data).                                        *)
SendsWhileRunning == ~lateSend

(* A stop ends the run, wherever it comes, even from another wait than the  *)
(* one it was meant for (chiaki_stream_connection_stop).                    *)
StopEnds == (shouldStop /\ rpc # "off") ~> rpc = "done"

(* So does a disconnect message of the console (remote_disconnected).       *)
RemoteEnds == remote ~> rpc = "done"
EndsWhenTold == StopEnds /\ RemoteEnds

(* What run promises the session: it fails only before it reported          *)
(* CONNECTED, and is canceled or disconnected only when it was told so.     *)
Promise == INSTANCE StreamRun WITH
  phase <- IF rpc = "off" THEN "idle" ELSE IF rpc = "done" THEN "over"
           ELSE IF state = "idle" THEN "connected" ELSE "running",
  stop <- shouldStop,
  result <- IF rpc = "done" THEN result ELSE "none"
StreamRunSpec == Promise!Spec
=============================================================================
