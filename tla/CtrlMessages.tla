---------------------------- MODULE CtrlMessages ----------------------------
(***************************************************************************)
(* src/lib/src/ctrl.c: the messages of the ctrl connection, on TCP or, over *)
(* a punched hole, in datagrams.  A message is a header and a payload that  *)
(* is enciphered with a counter of its direction; nothing on the wire says  *)
(* which counter.  Two threads send: the ctrl thread in its handlers, and   *)
(* the session thread when it made up a session id (session.c:684).         *)
(* Session has the threads, pipe and mutexes around this.                   *)
(*                                                                          *)
(* A unit is half a header or half a payload of the smallest kind, named    *)
(* <<message, part>>; the console is an assumption: it keeps both counters, *)
(* and sends a datagram again until an acknowledgement gets through.        *)
(***************************************************************************)
EXTENDS Naturals, Sequences, FiniteSets

CONSTANTS
  Room,       \* the size of recv_buf, in units
  Count,      \* how many the console sends
  Features,   \* how many messages ctrl_enable_features sends
  Doubles     \* how many datagrams arrive once more

VARIABLES
  rudp,       \* there is a punched hole
  pc,         \* "response", "loop", "select", "sending", "failed" or "crashed"
  sent,       \* the kinds of the console's messages
  net,        \* their units that we have not got yet
  buf,        \* recv_buf
  remote,     \* crypt_counter_remote
  handled,    \* of each handled message its number and the counter it got
  known,      \* session->ctrl_session_id_received
  local,      \* crypt_counter_local
  out,        \* of each sender: payload sizes to send, its place, its counter
  heard,      \* what the console makes of our messages
  clash,      \* both threads were in ctrl_message_send at a time
  doubles,    \* datagrams that arrived again
  cantA,      \* cant_displaya
  cantB,      \* cant_displayb
  sink,       \* a display sink was set; the Android app sets none
  shown       \* what it was told last: the stream can not be displayed

wire == <<sent, net, doubles>>
receiver == <<buf, remote, handled>>
senders == <<local, out, heard, clash>>
display == <<cantA, cantB, shown>>
vars == <<rudp, pc, wire, receiver, known, senders, display, sink>>

Both == {"ctrl", "session"}
\* Header units, then those of the payload.
Payload == [beat |-> 0, id |-> 1, aOn |-> 1, aOff |-> 1, bOn |-> 1, bOff |-> 1, long |-> Room]
Units(i) == [k \in 1 .. 2 + Payload[sent[i]] |-> <<i, k>>]
UnitsFrom[i \in 1 .. Count + 1] == IF i > Count THEN <<>> ELSE Units(i) \o UnitsFrom[i + 1]
Idle == [todo |-> <<>>, at |-> "idle", num |-> 0]

Init ==
  /\ rudp \in BOOLEAN /\ pc = "response" /\ sent \in [1 .. Count -> DOMAIN Payload]
  /\ rudp => \A i \in 1 .. Count : sent[i] # "long"
  /\ net = UnitsFrom[1] /\ doubles = 0
  /\ buf = <<>> /\ remote = 0 /\ handled = <<>> /\ known = FALSE
  /\ local = 0 /\ out = [t \in Both |-> Idle] /\ clash = FALSE
  /\ heard = [next |-> 0, body |-> FALSE, lost |-> FALSE]
  /\ cantA = FALSE /\ cantB = FALSE /\ sink \in BOOLEAN /\ shown = FALSE
-----------------------------------------------------------------------------
(* The network: an acknowledgement of a datagram was lost.                  *)
ArrivesAgain(i) ==
  /\ rudp /\ pc = "select" /\ doubles < Doubles /\ doubles' = doubles + 1
  /\ (net # <<>> => i < net[1][1]) /\ net' = Units(i) \o net
  /\ UNCHANGED <<rudp, pc, sent, receiver, known, senders, display, sink>>
-----------------------------------------------------------------------------
(* The end of ctrl_connect, and the reading of ctrl_thread_func.            *)

\* The sink is told; without one a null pointer is called.
Tells(cannot) ==
  IF sink THEN shown' = cannot /\ pc' = "loop" ELSE pc' = "crashed" /\ UNCHANGED shown

\* An RP-Prohibit of the response is shown, and what came behind its header
\* is the first of recv_buf.  Counters start behind those of the request and
\* the response.
Response ==
  /\ pc = "response"
  /\ Tells(TRUE) \/ (pc' = "loop" /\ UNCHANGED shown)
  /\ \E n \in 0 .. Len(net) :
       /\ n <= Room /\ (rudp => n = 0)
       /\ buf' = SubSeq(net, 1, n) /\ net' = SubSeq(net, n + 1, Len(net))
  /\ UNCHANGED <<rudp, sent, doubles, remote, handled, known, senders, cantA, cantB, sink>>

\* The socket has something: as much as fits, or one datagram.
Received ==
  /\ pc = "select" /\ net # <<>> /\ pc' = "loop"
  /\ \E n \in 1 .. Len(net) :
       /\ IF rudp THEN n = 2 + Payload[sent[net[1][1]]] ELSE n <= Room - Len(buf)
       /\ buf' = buf \o SubSeq(net, 1, n) /\ net' = SubSeq(net, n + 1, Len(net))
  /\ UNCHANGED <<rudp, sent, doubles, remote, handled, known, senders, display, sink>>

\* A whole message is there, by the size in its header.
Number == buf[1][1]
MessageSize == 2 + Payload[sent[Number]]
Whole == Len(buf) >= 2 /\ Len(buf) >= MessageSize
Incomplete ==
  /\ pc = "loop" /\ ~Whole
  /\ pc' = IF Len(buf) >= 2 /\ MessageSize > Room THEN "failed" ELSE "select"
  /\ UNCHANGED <<rudp, wire, receiver, known, senders, display, sink>>

\* Mutant: each message takes a counter.
TakesAlways ==
  /\ buf' = SubSeq(buf, MessageSize + 1, Len(buf))
  /\ handled' = Append(handled, <<Number, remote>>) /\ remote' = remote + 1
  /\ UNCHANGED <<rudp, wire, sink>>
\* A payload takes the next counter.
Takes ==
  /\ buf' = SubSeq(buf, MessageSize + 1, Len(buf))
  /\ handled' = Append(handled, <<Number, remote>>)
  /\ remote' = IF MessageSize > 2 THEN remote + 1 ELSE remote
  /\ UNCHANGED <<rudp, wire, sink>>
-----------------------------------------------------------------------------
(* ctrl_message_received: what the handlers send, store and show.  Replies  *)
(* are sent before the next message is looked at.                           *)

Starts(t, sizes) ==
  /\ out' = [out EXCEPT ![t] = [Idle EXCEPT !.todo = sizes]]
  /\ UNCHANGED <<local, heard, clash>>
EnableFeatures == [i \in 1 .. Features |-> 1]

Handles(kind) == pc = "loop" /\ Whole /\ sent[Number] = kind /\ Takes
Heartbeat ==
  /\ Handles("beat") /\ Starts("ctrl", <<0>>) /\ pc' = "sending" /\ UNCHANGED <<known, display>>
\* Another session id is not taken, but the features are enabled again.
SessionId ==
  /\ Handles("id") /\ known' = TRUE /\ Starts("ctrl", EnableFeatures) /\ pc' = "sending"
  /\ UNCHANGED display
\* Mutant: whether the second message still stands is not looked at.
DisplayAAlone ==
  /\ \/ Handles("aOn") /\ cantA' = TRUE /\ pc' = "loop" /\ UNCHANGED shown
     \/ Handles("aOff") /\ cantA' = FALSE /\ Tells(FALSE)
  /\ UNCHANGED <<known, senders, cantB>>
DisplayA ==
  /\ \/ Handles("aOn") /\ cantA' = TRUE /\ pc' = "loop" /\ UNCHANGED shown
     \/ /\ Handles("aOff")
        /\ IF cantB THEN pc' = "loop" /\ UNCHANGED <<cantA, shown>>
           ELSE cantA' = FALSE /\ Tells(FALSE)
  /\ UNCHANGED <<known, senders, cantB>>
DisplayB ==
  /\ \/ /\ Handles("bOn")
        /\ IF cantA /\ ~cantB THEN cantB' = TRUE /\ Tells(TRUE)
           ELSE pc' = "loop" /\ UNCHANGED <<cantB, shown>>
     \/ Handles("bOff") /\ cantB' = FALSE /\ pc' = "loop" /\ UNCHANGED shown
  /\ UNCHANGED <<known, senders, cantA>>
-----------------------------------------------------------------------------
(* ctrl_message_send of both threads: the counter, the header, the payload. *)

Busy(t) == out[t].at # "idle"
SendOnly == UNCHANGED <<rudp, wire, receiver, known, display, sink>>
\* Mutant: a message without a payload takes a counter, too.
EnciphersAlways(t) ==
  /\ out[t].at = "idle" /\ out[t].todo # <<>> /\ clash' = (clash \/ \E u \in Both : Busy(u))
  /\ out' = [out EXCEPT ![t].at = "header", ![t].num = local] /\ local' = local + 1
  /\ UNCHANGED <<pc, heard>> /\ SendOnly
\* crypt_counter_local++ without a mutex that both would hold: the other may
\* have read, but not yet stored.
Racing == {out[u].num : u \in {u \in Both : out[u].at = "header" /\ Head(out[u].todo) > 0}}
Enciphers(t) ==
  /\ out[t].at = "idle" /\ out[t].todo # <<>> /\ clash' = (clash \/ \E u \in Both : Busy(u))
  /\ \E n \in {local} \cup Racing :
       /\ out' = [out EXCEPT ![t].at = "header", ![t].num = n]
       /\ local' = IF Head(out[t].todo) = 0 THEN local ELSE n + 1
  /\ UNCHANGED <<pc, heard>> /\ SendOnly

\* Over TCP the header goes first, and to the console what comes in place of
\* the payload is that payload; a datagram has both.
Done(t) == out' = [out EXCEPT ![t] = [Idle EXCEPT !.todo = Tail(out[t].todo)]]
Deciphered(t, whole) ==
  [next |-> heard.next + 1, body |-> FALSE,
   lost |-> heard.lost \/ ~whole \/ out[t].num # heard.next]
SendHeader(t) ==
  /\ out[t].at = "header"
  /\ \/ Head(out[t].todo) = 0 /\ heard' = [heard EXCEPT !.lost = @ \/ heard.body] /\ Done(t)
     \/ Head(out[t].todo) > 0 /\ rudp /\ heard' = Deciphered(t, TRUE) /\ Done(t)
     \/ /\ Head(out[t].todo) > 0 /\ ~rudp /\ out' = [out EXCEPT ![t].at = "payload"]
        /\ heard' = [heard EXCEPT !.lost = @ \/ heard.body, !.body = TRUE]
  /\ UNCHANGED <<pc, local, clash>> /\ SendOnly
SendPayload(t) ==
  /\ out[t].at = "payload" /\ heard' = Deciphered(t, heard.body) /\ Done(t)
  /\ UNCHANGED <<pc, local, clash>> /\ SendOnly
Replied ==
  /\ pc = "sending" /\ out["ctrl"] = Idle /\ pc' = "loop"
  /\ UNCHANGED senders /\ SendOnly

Alive == pc \notin {"failed", "crashed"}
\* The session thread gave up waiting for an id.
Fallback ==
  /\ Alive /\ ~known /\ known' = TRUE /\ Starts("session", EnableFeatures)
  /\ UNCHANGED <<rudp, pc, wire, receiver, display, sink>>

Reads == Response \/ Received \/ Incomplete \/ Heartbeat \/ SessionId \/ DisplayA \/ DisplayB
Sends(t) == Alive /\ (Enciphers(t) \/ SendHeader(t) \/ SendPayload(t))
Work == Reads \/ Replied \/ \E t \in Both : Sends(t)
Next ==
  \/ \E i \in DOMAIN sent : ArrivesAgain(i)
  \/ Work \/ Fallback
Spec == Init /\ [][Next]_vars
-----------------------------------------------------------------------------
(* Type invariant.                                                          *)
TypeOK ==
  /\ {rudp, known, clash, cantA, cantB, sink, shown} \subseteq BOOLEAN
  /\ pc \in {"response", "loop", "select", "sending", "failed", "crashed"}
  /\ \A i \in DOMAIN sent : sent[i] \in DOMAIN Payload
  /\ Len(buf) <= Room /\ doubles \in 0 .. Doubles /\ {remote, local, heard.next} \subseteq Nat
  /\ \A t \in Both : out[t].at \in {"idle", "header", "payload"}

(* Messages are put together in order and whole from whatever pieces they   *)
(* come in, each with the counter the console used for it (ctrl.c:688),     *)
(* unless one came twice before: "ctrl_message_received" has no way to know.*)
Counter(i) == Cardinality({j \in 1 .. i - 1 : Payload[sent[j]] > 0})
Decipherable ==
  doubles = 0 => \A k \in DOMAIN handled : handled[k] = <<k, Counter(k)>>

(* What we send is what the console reads, and enciphered with the counter  *)
(* it expects, unless both threads were sending at a time (ctrl.c:557).     *)
ConsoleFollows == heard.lost => clash

(* While both messages of the console say that the stream can not be        *)
(* displayed, this is shown; after the first says otherwise it is not, if   *)
(* the second did not still stand by then (ctrl.c:874, 888).                *)
Kind(k) == sent[handled[k][1]]
Among(kinds, first, last) == \E k \in first .. last : Kind(k) \in kinds
DisplayTrue ==
  /\ cantB => cantA /\ shown
  /\ \A k \in DOMAIN handled :
       Kind(k) = "aOff" /\ ~Among({"aOn", "aOff", "bOn"}, k + 1, Len(handled)) /\ shown
         => \E j \in 1 .. k - 1 : Kind(j) = "bOn" /\ ~Among({"bOff"}, j + 1, k - 1)
CtrlMessagesSound == Decipherable /\ ConsoleFollows /\ (sink => DisplayTrue)
=============================================================================
