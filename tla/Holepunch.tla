------------------------------ MODULE Holepunch ------------------------------
(***************************************************************************)
(* src/lib/src/remote/holepunch.c: a connection to a console through PSN.   *)
(* The main thread makes a PSN session, waits for the console to join it,   *)
(* and punches two holes, one after the other, for ctrl and for data; the   *)
(* websocket thread queues what PSN notifies.  The callers are the JNI      *)
(* bridge (chiaki-jni.c:861, up to the ctrl hole, with retries) and         *)
(* session.c:651, 373 (the data hole and the end).                          *)
(*                                                                          *)
(* A notification is <<kind, port, id>>.  The port of an ACCEPT or OFFER is *)
(* what the console meant: no message carries it, and no code reads it.     *)
(* What check_candidates does on the sockets is in Candidates.              *)
(***************************************************************************)
EXTENDS Naturals, Sequences, SequencesExt

CONSTANTS
  Attempts,   \* for the data hole, 10 in the code
  Tries,      \* of the JNI bridge to get a ctrl hole, 3 in the code
  Repeats,    \* how often the console repeats an OFFER that was not acknowledged
  InFlight    \* no more notifications are under way at a time

VARIABLES
  mpc,        \* where the main thread is
  port,       \* the hole it is at
  attempt,
  reqId,      \* session->local_req_id
  ours,       \* session->our_offer_msg is there
  pair,       \* session->ipv4_sock and ipv6_sock are open
  taken,      \* which hole the console's OFFER was for
  tries,      \* of the JNI bridge, Tries when no other follows
  flags,      \* session->state
  locked,     \* the main thread returned with state_mutex held
  ws,         \* where the websocket thread is
  note,       \* the notification it handles
  wsOpen,     \* session->ws_open
  queue,      \* session->ws_notification_queue
  wire,       \* notifications PSN sent
  told,       \* what PSN and the console got from us
  sent,       \* what they sent
  repeats

main == <<mpc, port, attempt, reqId, ours, pair, taken, tries>>
wst == <<ws, note, wsOpen>>
psn == <<wire, sent, repeats>>
hvars == <<main, flags, locked, wst, queue, told, psn>>

Ctrl == 1
Data == 2
None == <<"none", 0, 0>>

\* chiaki_holepunch_session_init.
Fresh ==
  /\ mpc = "create" /\ port = Ctrl /\ attempt = 0 /\ reqId = 1 /\ ours = FALSE
  /\ pair = FALSE /\ taken = 0 /\ flags = {} /\ locked = FALSE
  /\ ws = "off" /\ note = None /\ wsOpen = FALSE /\ queue = <<>> /\ wire = <<>> /\ told = {}
  /\ sent = {} /\ repeats = 0
Init == Fresh /\ tries = 1
-----------------------------------------------------------------------------
(* Waiting for notifications.                                               *)

Messages == {"offer", "result", "accept", "terminate"}
Wanted ==
  [joining |-> {"created", "member"}, starting |-> {"member", "custom"},
   offer |-> Messages, result |-> Messages, accept |-> Messages, deleting |-> {"gone", "deleted"}]

\* The first notification of the queue that the wait is for, or 0.
First ==
  IF mpc \notin DOMAIN Wanted THEN 0
  ELSE SelectInSeq(queue, LAMBDA n : n[1] \in Wanted[mpc])
Found == IF First = 0 THEN None ELSE queue[First]

\* Mutant: it stays in the queue.
ClearedNot == queue
\* clear_notification: what is before it goes as well.
Cleared == SubSeq(queue, First + 1, Len(queue))

\* The error exits: of punch_hole, which closes the sockets once there was an
\* OFFER and frees ours, of the other calls, and of the wait in fini.
PunchFails(close) == mpc' = "failed" /\ pair' = (pair /\ ~close) /\ ours' = FALSE
Fails == mpc' = "failed" /\ UNCHANGED <<pair, ours>>
WaitFails ==
  CASE mpc \in {"joining", "starting"} -> Fails
    [] mpc = "deleting" -> mpc' = "stopWs" /\ UNCHANGED <<pair, ours>>
    [] OTHER -> PunchFails(mpc # "offer")

\* wait_for_notification returns the first that fits, or fails when nothing
\* does until the timeout.
TimedOut ==
  /\ mpc \in DOMAIN Wanted /\ First = 0 /\ WaitFails
  /\ UNCHANGED <<port, attempt, reqId, taken, tries, flags, locked, wst, queue, told, psn>>
Finds(kind) == First # 0 /\ Found[1] = kind

GoesTo(to) == mpc' = to /\ UNCHANGED <<pair, ours>>
-----------------------------------------------------------------------------
(* chiaki_holepunch_session_create, holepunch_session_create_offer and      *)
(* chiaki_holepunch_session_start.                                          *)

Create ==
  /\ mpc = "create"
  /\ \/ Fails /\ UNCHANGED ws
     \/ GoesTo("wsWait") /\ ws' = "connecting"
  /\ UNCHANGED <<port, attempt, reqId, taken, tries, flags, locked, note, wsOpen,
                 queue, told, psn>>

\* There is no timeout: who waits here for a websocket that failed stays.
WsWaited ==
  /\ mpc = "wsWait" /\ "open" \in flags /\ GoesTo("httpCreate")
  /\ UNCHANGED <<port, attempt, reqId, taken, tries, flags, locked, wst, queue,
                 told, psn>>

\* http_create_session, and http_start_session or a PS4's wakeup.
Request(from, to, what) ==
  /\ mpc = from
  /\ \/ Fails /\ UNCHANGED told
     \/ told' = told \cup {<<what, 0, 0>>} /\ GoesTo(to)
  /\ UNCHANGED <<port, attempt, reqId, taken, tries, flags, locked, wst, queue, psn>>
HttpCreate == Request("httpCreate", "joining", "create")
HttpStart == Request("start", "starting", "start")

\* state_mutex is held until the end of the loop: the returns before it leave
\* it locked, here for a SESSION_CREATED without an online id.
Joined ==
  /\ \E kind \in {"created", "member"} :
       /\ mpc = "joining" /\ Finds(kind)
       /\ \/ kind = "created" /\ Fails /\ locked' = TRUE /\ UNCHANGED <<flags, queue>>
          \/ /\ flags' = flags \cup {kind} /\ queue' = Cleared /\ UNCHANGED locked
             /\ GoesTo(IF {"created", "member"} \subseteq flags' THEN "offering" ELSE "joining")
  /\ UNCHANGED <<port, attempt, reqId, taken, tries, wst, told, psn>>

\* holepunch_session_create_offer makes the sockets and our OFFER, and takes
\* an id for it.  For the data hole the caller goes on without.
OfferMade ==
  \/ ours' = TRUE /\ pair' = TRUE /\ reqId' = reqId + 1
  \/ ours' = FALSE /\ pair' = FALSE /\ reqId' \in {reqId, reqId + 1}
CreateOffer ==
  /\ mpc = "offering" /\ OfferMade
  /\ mpc' = IF port = Data THEN "precheck" ELSE IF ours' THEN "start" ELSE "failed"
  /\ UNCHANGED <<port, attempt, taken, tries, flags, locked, wst, queue, told,
                 psn>>

\* Another member than the console ends the loop with an error that its own
\* "err" hides from the caller.  The end of the loop unlocks state_mutex.
Started ==
  /\ \E kind \in {"member", "custom"} :
       /\ mpc = "starting" /\ Finds(kind)
       /\ \/ Fails /\ UNCHANGED <<flags, queue>>
          \/ /\ kind = "member" /\ Found[3] # 1 /\ GoesTo("precheck")
             /\ UNCHANGED <<flags, queue>>
          \/ /\ kind = "member" => Found[3] = 1
             /\ flags' = flags \cup {IF kind = "member" THEN "console" ELSE kind}
             /\ queue' = Cleared
             /\ GoesTo(IF {"console", "custom"} \subseteq flags' THEN "precheck" ELSE "starting")
  /\ UNCHANGED <<port, attempt, reqId, taken, tries, locked, wst, told, psn>>
-----------------------------------------------------------------------------
(* chiaki_holepunch_session_punch_hole.                                     *)

PunchUnchanged == UNCHANGED <<port, tries, locked, wst, psn>>

Precheck ==
  /\ mpc = "precheck"
  /\ IF port = Ctrl /\ "custom" \notin flags THEN PunchFails(FALSE)
     ELSE mpc' = "offer" /\ UNCHANGED <<pair, ours>>
  /\ UNCHANGED <<attempt, reqId, taken, flags, queue, told>> /\ PunchUnchanged

\* wait_for_session_message: a TERMINATE cancels, a message of another kind is
\* passed over, with all before it.
MessagePassed ==
  /\ \E kind \in Messages :
       /\ Finds(kind)
       /\ \/ kind = "terminate" /\ WaitFails /\ UNCHANGED queue
          \/ /\ kind \notin {"terminate", mpc} /\ queue' = Cleared
             /\ UNCHANGED <<mpc, pair, ours>>
  /\ UNCHANGED <<attempt, reqId, taken, flags, told>> /\ PunchUnchanged

\* The message that was waited for stays in the queue.
Takes(kind) == mpc = kind /\ Finds(kind) /\ UNCHANGED queue

TakeOffer ==
  /\ Takes("offer") /\ taken' = Found[2] /\ mpc' = "ackOffer"
  /\ flags' = flags \cup {IF port = Ctrl THEN "ctrlOffer" ELSE "dataOffer"}
  /\ UNCHANGED <<attempt, reqId, ours, pair, told>> /\ PunchUnchanged

\* A RESULT is sent for what was taken, or the request fails.
Ack(from, what, to) ==
  /\ mpc = from
  /\ \/ PunchFails(TRUE) /\ UNCHANGED told
     \/ GoesTo(to) /\ told' = told \cup {what}
  /\ UNCHANGED <<reqId, taken, flags, queue>> /\ PunchUnchanged
AckOffer == Ack("ackOffer", <<"ack", taken, 0>>, "send") /\ attempt' = 1
\* Our OFFER goes out with a new id, whether or not it gets there.
SendOffer ==
  /\ mpc = "send" /\ mpc' = (IF ours THEN "result" ELSE "crashed") /\ reqId' = reqId + 1
  /\ told' \in {told} \cup (IF ours THEN {told \cup {<<"offer", port, reqId>>}} ELSE {})
  /\ UNCHANGED <<attempt, ours, pair, taken, flags, queue>> /\ PunchUnchanged

\* wait_for_session_message_ack.  A RESULT for another id than that of our
\* last OFFER is left in the queue and found again.
Stale == mpc = "result" /\ Found[1] = "result" /\ Found[3] # reqId - 1
TakeResult ==
  /\ Takes("result") /\ ~Stale /\ mpc' = "check"
  /\ UNCHANGED <<attempt, reqId, ours, pair, taken, flags, told>> /\ PunchUnchanged

\* Mutant: the sockets stay open.
CheckKept ==
  /\ mpc = "check"
  /\ \/ GoesTo("sendAccept")
     \/ IF port = Data /\ attempt < Attempts
        THEN mpc' = "retry" /\ UNCHANGED <<pair, ours>> ELSE PunchFails(TRUE)
  /\ UNCHANGED <<attempt, reqId, taken, flags, queue, told>> /\ PunchUnchanged

\* check_candidates finds a hole, whose socket is no longer one of the pair,
\* or closes the pair and fails.
Check ==
  /\ mpc = "check" /\ pair' = FALSE
  /\ \/ mpc' = "sendAccept" /\ UNCHANGED ours
     \/ IF port = Data /\ attempt < Attempts
        THEN mpc' = "retry" /\ UNCHANGED ours ELSE PunchFails(TRUE)
  /\ UNCHANGED <<attempt, reqId, taken, flags, queue, told>> /\ PunchUnchanged

\* After a pause the sockets and our OFFER are made anew.
Retry ==
  /\ mpc = "retry" /\ attempt' = attempt + 1
  /\ \/ PunchFails(TRUE) /\ reqId' \in {reqId, reqId + 1}
     \/ mpc' = "send" /\ ours' = TRUE /\ pair' = TRUE /\ reqId' = reqId + 1
  /\ UNCHANGED <<taken, flags, queue, told>> /\ PunchUnchanged

SendAccept ==
  /\ mpc = "sendAccept"
  /\ \/ PunchFails(TRUE) /\ UNCHANGED <<reqId, told>>
     \/ /\ told' = told \cup {<<"accept", port, 0>>} /\ GoesTo("accept") /\ reqId' = reqId + 1
  /\ UNCHANGED <<attempt, taken, flags, queue>> /\ PunchUnchanged
TakeAccept ==
  /\ Takes("accept") /\ mpc' = "ackAccept"
  /\ UNCHANGED <<attempt, reqId, ours, pair, taken, flags, told>> /\ PunchUnchanged
AckAccept == Ack("ackAccept", <<"ackAccept", port, 0>>, "established") /\ UNCHANGED attempt

\* The socket is handed over; what the console still asks on it is answered.
Established ==
  /\ mpc = "established" /\ flags' = flags \cup {IF port = Ctrl THEN "ctrl" ELSE "data"}
  /\ \/ PunchFails(TRUE)
     \/ /\ UNCHANGED pair /\ ours' = FALSE
        /\ mpc' = IF port = Ctrl THEN "between" ELSE "streaming"
  /\ UNCHANGED <<attempt, reqId, taken, queue, told>> /\ PunchUnchanged
-----------------------------------------------------------------------------
(* chiaki_holepunch_session_fini, and the callers.                          *)

MainOnly == UNCHANGED <<port, attempt, reqId, ours, pair, taken, tries, locked, wst, psn>>

Fini ==
  /\ mpc = "fini"
  /\ IF wsOpen THEN mpc' = "deleting" /\ told' \in {told, told \cup {<<"delete", 0, 0>>}}
     ELSE mpc' = "freed" /\ UNCHANGED told
  /\ UNCHANGED <<flags, queue>> /\ MainOnly
Deleted ==
  /\ ~locked /\ \E kind \in {"gone", "deleted"} : mpc = "deleting" /\ Finds(kind)
  /\ flags' = flags \cup {"deleted"} /\ queue' = Cleared /\ mpc' = "stopWs"
  /\ UNCHANGED told /\ MainOnly
StopWs ==
  /\ mpc = "stopWs" /\ mpc' = "joinWs"
  /\ UNCHANGED <<flags, queue, told>> /\ MainOnly
JoinWs ==
  /\ mpc = "joinWs" /\ ws = "done" /\ mpc' = "freed"
  /\ UNCHANGED <<flags, queue, told>> /\ MainOnly

\* A ctrl hole that failed is tried again with a new session, also when it was
\* established and only the last answer failed.  After the last try the bridge
\* leaves the session as it is.
Failed ==
  /\ mpc = "failed" /\ mpc' = IF port = Ctrl /\ tries = Tries THEN "left" ELSE "fini"
  /\ UNCHANGED <<flags, queue, told>> /\ MainOnly
Again ==
  /\ mpc = "freed" /\ port = Ctrl /\ tries < Tries /\ tries' = tries + 1
  /\ mpc' = "create" /\ port' = Ctrl /\ attempt' = 0 /\ reqId' = 1
  /\ ours' = FALSE /\ pair' = FALSE /\ taken' = 0 /\ flags' = {} /\ locked' = FALSE
  /\ ws' = "off" /\ note' = None /\ wsOpen' = FALSE
  /\ queue' = <<>> /\ wire' = <<>> /\ told' = {} /\ sent' = {} /\ repeats' = 0

Main ==
  \/ TimedOut \/ Create \/ WsWaited \/ HttpCreate \/ Joined \/ CreateOffer \/ HttpStart
  \/ Started \/ Precheck \/ MessagePassed \/ TakeOffer \/ AckOffer \/ SendOffer \/ TakeResult
  \/ Check \/ Retry \/ SendAccept \/ TakeAccept \/ AckAccept \/ Established \/ Fini \/ Deleted
  \/ StopWs \/ JoinWs \/ Failed \/ Again

\* session.c goes on to the data hole, or ends.
ToData ==
  /\ mpc \in {"between", "streaming"}
  /\ \/ mpc = "between" /\ mpc' = "offering" /\ port' = Data /\ UNCHANGED tries
     \/ mpc' = "fini" /\ tries' = Tries /\ UNCHANGED port
  /\ UNCHANGED <<attempt, reqId, ours, pair, taken, flags, locked, wst,
                 queue, told, psn>>

-----------------------------------------------------------------------------
(* websocket_thread_func.                                                   *)

WsUnchanged == UNCHANGED <<main, locked>>

WsOpen ==
  /\ ws = "connecting"
  /\ \/ ws' = "done" /\ UNCHANGED <<wsOpen, flags>>
     \/ ~locked /\ ws' = "running" /\ wsOpen' = TRUE /\ flags' = flags \cup {"open"}
  /\ UNCHANGED <<note, queue, told, psn>> /\ WsUnchanged

\* It ends when it is told to, when the websocket is closed or answers no ping.
WsEnds ==
  /\ ws = "running" /\ ws' = "done" /\ wsOpen' = FALSE
  /\ UNCHANGED <<note, flags, queue, told, psn>> /\ WsUnchanged

\* The type is looked at after the notification was handed over: when the main
\* thread has freed it already, a deletion may be missed.
Queued == /\ queue' = Append(queue, note')
          /\ \/ ws' = "running" /\ UNCHANGED wsOpen
             \/ note'[1] = "deleted" /\ ws' = "done" /\ wsOpen' = FALSE
\* An OFFER that nobody waits for is acknowledged, and queued all the same.
ShouldAckOffers == ("ctrlOffer" \in flags /\ "ctrl" \notin flags) \/ "dataOffer" \in flags
WsReceives ==
  /\ ws = "running" /\ wire # <<>> /\ ~locked
  /\ note' = Head(wire) /\ wire' = Tail(wire)
  /\ IF note'[1] = "offer"
     THEN ws' = (IF ShouldAckOffers THEN "ack" ELSE "enqueue") /\ UNCHANGED <<wsOpen, queue>>
     ELSE Queued
  /\ UNCHANGED <<flags, told, sent, repeats>> /\ WsUnchanged
WsAcks ==
  /\ ws = "ack" /\ ws' = "enqueue" /\ told' \in {told, told \cup {<<"ack", note[2], 0>>}}
  /\ UNCHANGED <<note, wsOpen, flags, queue, psn>> /\ WsUnchanged
WsEnqueues ==
  /\ ws = "enqueue" /\ UNCHANGED note /\ Queued
  /\ UNCHANGED <<flags, told, psn>> /\ WsUnchanged

Ws == WsOpen \/ (mpc = "joinWs" /\ WsEnds) \/ WsAcks \/ WsEnqueues
-----------------------------------------------------------------------------
(* PSN and the console.  A console repeats its OFFER until it gets the      *)
(* RESULT; everything else is sent once, and arrives in order.              *)

Happened(kind, p) == \E m \in told \cup sent : m[1] = kind /\ m[2] = p
Cause(m) ==
  LET kind == m[1] IN
  CASE kind = "created" \/ m = <<"member", 0, 0>> -> <<"create", 0, 0>> \in told
    [] kind \in {"custom", "terminate"} -> <<"start", 0, 0>> \in told
    [] kind = "member" -> <<"start", 0, 0>> \in told /\ <<"member", 0, 3 - m[3]>> \notin sent
    [] kind = "offer" -> IF m[2] = Ctrl THEN Happened("custom", 0) ELSE Happened("accept", Ctrl)
    [] kind = "result" -> \E p \in {Ctrl, Data} : <<"offer", p, m[3]>> \in told
    [] kind = "accept" -> \E i \in 1 .. reqId :
                             <<"result", 0, i>> \in sent /\ <<"offer", m[2], i>> \in told
    [] OTHER -> FALSE
Sendable ==
  {<<"created", 0, 0>>, <<"custom", 0, 0>>, <<"terminate", 0, 0>>, <<"gone", 0, 0>>,
   <<"deleted", 0, 0>>} \cup {<<"member", 0, i>> : i \in 0 .. 2}
  \cup {<<k, p, 0>> : k \in {"offer", "accept"}, p \in {Ctrl, Data}}
  \cup {<<"result", 0, i>> : i \in 1 .. reqId}
Over == <<"delete", 0, 0>> \in told \/ <<"terminate", 0, 0>> \in sent

Sends ==
  /\ ws # "done" /\ Len(wire) < InFlight
  /\ \E m \in Sendable :
       /\ IF Over THEN m[1] \in {"gone", "deleted"} ELSE Cause(m)
       /\ wire' = Append(wire, m)
       /\ \/ m \notin sent /\ sent' = sent \cup {m} /\ UNCHANGED repeats
          \/ /\ m \in sent /\ m[1] = "offer" /\ <<"ack", m[2], 0>> \notin told
             /\ repeats < Repeats /\ repeats' = repeats + 1 /\ UNCHANGED sent
  /\ UNCHANGED <<main, flags, locked, wst, queue, told>>

Next == Main \/ ToData \/ Ws \/ WsEnds \/ WsReceives \/ Sends

Spec == Init /\ [][Next]_hvars
-----------------------------------------------------------------------------
(* Type invariant.                                                          *)
TypeOK ==
  /\ mpc \in DOMAIN Wanted \cup {"create", "wsWait", "httpCreate", "offering", "start", "precheck",
       "ackOffer", "send", "check", "retry", "sendAccept", "ackAccept", "established", "between",
       "streaming", "failed", "left", "fini", "stopWs", "joinWs", "freed", "crashed"}
  /\ {ours, pair, locked, wsOpen} \subseteq BOOLEAN
  /\ port \in {Ctrl, Data} /\ attempt \in 0 .. Attempts /\ reqId \in 1 .. 6 + 2 * Attempts
  /\ taken \in 0 .. Data /\ tries \in 1 .. Tries /\ repeats \in 0 .. Repeats
  /\ flags \subseteq {"open", "created", "member", "console", "custom", "ctrlOffer", "dataOffer",
                      "ctrl", "data", "deleted"}
  /\ ws \in {"off", "connecting", "running", "ack", "enqueue", "done"}

(* A hole is established only with the console: it accepted that hole, and  *)
(* our accept of it went out, though no message says which hole it means    *)
(* (holepunch.c:1620, 1666).                                                *)
BothAccepted ==
  \A p \in {Ctrl, Data} :
     (IF p = Ctrl THEN "ctrl" ELSE "data") \in flags
       => <<"accept", p, 0>> \in sent \cap told /\ (p = Data => "ctrl" \in flags)

(* The candidates that are checked are those the console offered for this   *)
(* hole, though it may have repeated its OFFER for the other one before     *)
(* (holepunch.c:1459, 2277).                                                *)
OfferFits == mpc \in {"ackOffer", "send", "result", "check", "sendAccept"} => taken = port

(* The end leaves no thread that uses what was freed, and no socket is made *)
(* in the place of one that is still open (holepunch.c:1777, 2391).         *)
EndsClean == /\ mpc = "freed" => ws \in {"off", "done"}
             /\ mpc \in {"offering", "retry"} => ~pair
HolepunchSound == BothAccepted /\ OfferFits /\ EndsClean

(* Whatever PSN and the console do, the main thread comes to an end, but    *)
(* for a websocket that never opened (holepunch.c:883), a return that left  *)
(* state_mutex locked (955) and an old RESULT (4916).                       *)
NeverOpens == mpc = "wsWait" /\ ws = "done"
PunchEnded ==
  mpc \in {"between", "streaming", "left", "freed", "crashed"} \/ NeverOpens \/ locked \/ Stale
=============================================================================
