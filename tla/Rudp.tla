-------------------------------- MODULE Rudp --------------------------------
(***************************************************************************)
(* src/lib/src/remote/rudp.c and rudpsendbuffer.c: the datagram protocol    *)
(* that carries the session request and ctrl over a punched hole.  Each     *)
(* connection opens with exchanges that are tried three times; then ctrl    *)
(* messages of two threads, the ctrl thread and the session thread          *)
(* (session.c:684, 725), are sent again until the console acknowledges      *)
(* them, and a thread of the buffer gives up on them.                       *)
(*                                                                          *)
(* A datagram of an exchange is the parts it is made of, the message and    *)
(* its submessage, each <<connection, step>>.  A ctrl message is named by   *)
(* its counter, which also orders it; the buffer keeps it under the counter *)
(* read after that, which the console's acknowledgement is to name.         *)
(***************************************************************************)
EXTENDS SeqNum, Sequences, FiniteSets

CONSTANTS
  Connections,  \* how many there are: registration, session request, ctrl
  Tries,        \* of an exchange, 3 in the code
  Size,         \* RUDP_SEND_BUFFER_SIZE, 16 in the code
  ResendTries,  \* RUDP_DATA_RESEND_TRIES_MAX
  Senders,      \* the threads that send ctrl messages
  Lowest, Limit   \* the counters of the ctrl messages

VARIABLES
  upc,       \* "exchange", "over", "ctrl" or "failed"
  conn, step, try, waiting,
  inbox,     \* datagrams that wait in the socket, in order
  asked,     \* requests the console has not answered yet, in order
  counter,   \* rudp->counter
  sending,   \* of each sender: the number it took and the key it read
  buffer,    \* send_buffer->packets
  slot,      \* <<index, key>> of the slot a scan looks at without the mutex
  received,  \* what the console has got
  accepted,  \* numbers and keys the buffer took
  forsaken,  \* numbers it gave up
  misled     \* an exchange took the answer to another one for its own

exchange == <<upc, conn, step, try, waiting, inbox, asked, misled>>
history == <<accepted, forsaken>>
messages == <<counter, sending, buffer, slot, received, history>>
uvars == <<exchange, messages>>

ExchangeSteps == <<"init", "cookie", "session", "finish">>
Idle == [num |-> -1, key |-> -1]
Scanning == <<0, 0>>

Init ==
  /\ upc = "exchange" /\ conn = 1 /\ step = 1 /\ try = 0 /\ waiting = FALSE /\ inbox = <<>>
  /\ asked = <<>> /\ counter = Lowest /\ sending = [t \in Senders |-> Idle] /\ buffer = <<>>
  /\ slot = Scanning /\ received = {} /\ accepted = {} /\ forsaken = {}
  /\ misled = FALSE
-----------------------------------------------------------------------------
(* chiaki_rudp_send_recv: a request and at most one datagram to each try.   *)

\* Only the ctrl connection has no FINISH; without one the others go on, too.
LastStep == IF conn = Connections THEN 3 ELSE 4
Forward ==
  /\ try' = 0
  /\ IF step < LastStep THEN step' = step + 1 /\ UNCHANGED <<upc, conn>>
     ELSE IF conn < Connections THEN conn' = conn + 1 /\ step' = 1 /\ UNCHANGED upc
     ELSE upc' = "over" /\ UNCHANGED <<conn, step>>
GiveUp == IF step = 4 THEN Forward ELSE upc' = "failed" /\ UNCHANGED <<conn, step, try>>

Send ==
  /\ upc = "exchange" /\ ~waiting /\ try < Tries
  /\ waiting' = TRUE /\ try' = try + 1
  /\ asked' \in {asked, Append(asked, <<conn, step>>)}
  /\ UNCHANGED <<upc, conn, step, inbox, misled, messages>>

\* The message or its submessage is of the kind that is expected.
Matches(d) == \E i \in DOMAIN d : d[i][2] = step
Receive ==
  /\ waiting /\ inbox # <<>> /\ waiting' = FALSE /\ inbox' = Tail(inbox)
  /\ LET d == Head(inbox) IN
     /\ IF Matches(d) THEN Forward ELSE UNCHANGED <<upc, conn, step, try>>
     /\ misled' = (misled \/ (Matches(d) /\ <<conn, step>> \notin {d[i] : i \in DOMAIN d}))
  /\ UNCHANGED <<asked, messages>>
\* The wait times out, or there is too little data; or the call fails at once.
NoAnswer ==
  /\ waiting /\ waiting' = FALSE /\ inbox' \in {inbox} \cup {Tail(b) : b \in {inbox} \ {<<>>}}
  /\ GiveUp \/ UNCHANGED <<upc, conn, step, try>>
  /\ UNCHANGED <<asked, misled, messages>>
Exhausted ==
  /\ upc = "exchange" /\ ~waiting /\ try = Tries /\ GiveUp
  /\ UNCHANGED <<waiting, inbox, asked, misled, messages>>

\* The console answers late or not at all, and what it sends keeps its order.
\* An answer may come along with one that was sent before.
Console ==
  /\ upc = "exchange" /\ asked # <<>> /\ asked' = Tail(asked)
  /\ \/ inbox' \in {inbox, Append(inbox, <<Head(asked)>>)}
     \/ Len(asked) > 1 /\ inbox' = Append(inbox, <<Head(asked), asked[2]>>)
  /\ UNCHANGED <<upc, conn, step, try, waiting, misled, messages>>
-----------------------------------------------------------------------------
(* chiaki_rudp_send_ctrl_message and the switch to the stream connection.   *)

\* What was left in the socket no longer matters.
Open ==
  /\ upc = "over" /\ upc' = "ctrl" /\ inbox' = <<>> /\ asked' = <<>>
  /\ UNCHANGED <<conn, step, try, waiting, misled, messages>>
ExchangeOver == upc = "ctrl" /\ UNCHANGED exchange

Take(t) ==
  /\ ExchangeOver /\ sending[t] = Idle /\ counter < Limit /\ counter' = counter + 1
  /\ sending' = [sending EXCEPT ![t].num = counter]
  /\ UNCHANGED <<buffer, slot, received, history>>
Sender(t) == sending[t].num # -1 /\ ExchangeOver

\* Mutant: the key is the number of the message itself.
KeyOwn(t) == sending' = [sending EXCEPT ![t].key = sending[t].num]
\* The counter is read without its mutex: the other thread may have taken one.
Key(t) == sending' = [sending EXCEPT ![t].key = Wrap(counter)]
\* The message is sent, or the call fails and the buffer never sees it.
SendMessage(t) ==
  /\ Sender(t) /\ sending[t].key = -1
  /\ \/ Key(t) /\ received' \in {received, received \cup {sending[t].num}}
     \/ sending' = [sending EXCEPT ![t] = Idle] /\ UNCHANGED received
  /\ UNCHANGED <<counter, buffer, slot, history>>

\* The slot a scan looks at holds what is in the array, or what was last.
Becomes(b) ==
  /\ buffer' = b
  /\ slot' = IF slot[1] \in DOMAIN b THEN <<slot[1], b[slot[1]].key>> ELSE slot

\* When it is full, or has the key, the message is not kept and the call fails.
Push(t) ==
  /\ Sender(t) /\ sending[t].key # -1
  /\ sending' = [sending EXCEPT ![t] = Idle]
  /\ IF Len(buffer) = Size \/ \E i \in DOMAIN buffer : buffer[i].key = sending[t].key
     THEN UNCHANGED <<buffer, slot, accepted>>
     ELSE /\ accepted' = accepted \cup {sending[t]}
          /\ Becomes(Append(buffer, [num |-> sending[t].num, key |-> sending[t].key, tries |-> 0]))
  /\ UNCHANGED <<counter, received, forsaken>>

\* The console names the first number it has not got; that may come late.
Missing == CHOOSE n \in Lowest .. Limit : n \notin received /\ Lowest .. n - 1 \subseteq received
\* chiaki_rudp_send_buffer_ack.
Covers(ack, x) == x = ack \/ SeqLt(x, ack)
InOrder(I) == CHOOSE f \in [1 .. Cardinality(I) -> I] : \A i, j \in DOMAIN f : i < j => f[i] < f[j]
Rest(ack) ==
  LET left == {i \in DOMAIN buffer : ~Covers(ack, buffer[i].key)}
  IN  [j \in 1 .. Cardinality(left) |-> buffer[InOrder(left)[j]]]
\* A message of an unknown type acknowledges 0 (ctrl.c:459).
Acked ==
  /\ ExchangeOver
  /\ \E ack \in {Wrap(n) : n \in Lowest .. Missing} \cup {0} : Becomes(Rest(ack))
  /\ UNCHANGED <<counter, sending, received, history>>

\* rudp_send_buffer_resend: of those that are due, what comes before the first
\* that was tried often enough is sent again; for that one the mutex is let go.
Spent(i) == buffer[i].tries = ResendTries
Scan ==
  /\ ExchangeOver /\ slot = Scanning
  /\ \E due \in SUBSET DOMAIN buffer :
       LET stop == {i \in due : Spent(i) /\ \A j \in due : j < i => ~Spent(j)}
           again == {i \in due : \A j \in due : j <= i => ~Spent(j)}
       IN /\ due # {}
          /\ buffer' = [i \in DOMAIN buffer |-> IF i \in again THEN [buffer[i] EXCEPT !.tries = @ + 1] ELSE buffer[i]]
          /\ \E some \in SUBSET again : received' = received \cup {buffer[i].num : i \in some}
          /\ IF stop = {} THEN UNCHANGED slot ELSE \E i \in stop : slot' = <<i, buffer[i].key>>
  /\ UNCHANGED <<counter, sending, history>>
\* It gives up on what it finds there then, and on all before.
Forsake ==
  /\ ExchangeOver /\ slot # Scanning /\ slot' = Scanning /\ buffer' = Rest(slot[2])
  /\ forsaken' = forsaken \cup {buffer[i].num : i \in {k \in DOMAIN buffer : Covers(slot[2], buffer[k].key)}}
  /\ UNCHANGED <<counter, sending, received, accepted>>

Exchanging == Send \/ Receive \/ NoAnswer \/ Exhausted
Sending == \E t \in Senders : Take(t) \/ SendMessage(t) \/ Push(t)
Next == Exchanging \/ Open \/ Console \/ Sending \/ Acked \/ Scan \/ Forsake
Spec == Init /\ [][Next]_uvars
-----------------------------------------------------------------------------
(* Type invariant: no key is in the buffer twice.                           *)
Keys == SeqNums \cup {-1}
TypeOK ==
  /\ upc \in {"exchange", "over", "ctrl", "failed"} /\ conn \in 1 .. Connections /\ step \in 1 .. 4
  /\ try \in 0 .. Tries /\ waiting \in BOOLEAN /\ counter \in Lowest .. Limit
  /\ sending \in [Senders -> [num : -1 .. Limit, key : Keys]]
  /\ Len(buffer) <= Size /\ slot[1] \in 0 .. Size /\ slot[2] \in SeqNums
  /\ received \subseteq Lowest .. Limit - 1
  /\ \A i, j \in DOMAIN buffer : buffer[i].key = buffer[j].key => i = j
  /\ forsaken \subseteq Lowest .. Limit - 1 /\ misled \in BOOLEAN

(* What the buffer took it holds until the console has it or it was given   *)
(* up: two threads may confuse their keys, but only upwards, and only the 0 *)
(* that a message of an unknown type stands for forgets keys of the upper   *)
(* half (rudp.c:214, rudpsendbuffer.c:193, ctrl.c:459).                     *)
Kept ==
  \A m \in accepted :
     \/ m.num \in received \cup forsaken
     \/ \E i \in DOMAIN buffer : buffer[i].num = m.num
     \/ Covers(0, m.key)

(* A connection never goes on with the answer to another step, or to one of *)
(* a connection before, though requests are repeated and answers late       *)
(* (rudp.c:482).                                                            *)
RudpSound == Kept /\ ~misled

(* Every connection is made or given up: the tries are counted, whatever    *)
(* comes in between (rudp.c:459).                                           *)
ExchangesEnded == upc # "exchange"
=============================================================================
