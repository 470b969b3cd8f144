--------------------------- MODULE TakionDelivery ---------------------------
(***************************************************************************)
(* Both ends of the data channel of a Takion connection (takion.c,         *)
(* takionsendbuffer.c) over a network that loses and reorders: numbered    *)
(* messages, sent again until a cumulative acknowledgement comes back.     *)
(* "way" is the direction; the two share nothing.                          *)
(*                                                                         *)
(* Our ends appear as what TakionSendBuffer and ReorderQueue do with whole *)
(* messages.  The console is an assumption: it sends again without end,    *)
(* queues without limit, and acknowledges whatever comes.  Numbers do not  *)
(* wrap around (SeqNum).                                                   *)
(***************************************************************************)
EXTENDS Naturals, FiniteSets, Functions

CONSTANTS
  Window,       \* slots of the data queue
  Room,         \* TAKION_SEND_BUFFER_SIZE
  ResendTries,  \* TAKION_DATA_RESEND_TRIES_MAX
  Last          \* bound: the messages that are sent

VARIABLES
  way,      \* "in", from the console to us, or "out"
  deserted, \* our re-send thread is over before its time (TakionSendBuffer)
  drawn,    \* the numbers given to messages: 1 .. drawn
  going,    \* those not yet sent for the first time
  pushing,  \* those sent, and not yet in the send buffer
  kept,     \* the sender's buffer: how often each was sent again
  air,      \* data packets on the network
  awaited, queued,   \* the receiver's queue: what pull waits for, what is ahead
  acks,     \* acknowledgements on the network
  dropped,  \* history: those that will not be sent again although not acknowledged
  unheard   \* history: the highest acknowledgement that was lost

route == <<way, deserted>>
sender == <<drawn, going, pushing, kept, dropped>>
receiver == <<awaited, queued>>
vars == <<route, sender, air, receiver, acks, unheard>>

Init ==
  /\ way \in {"in", "out"} /\ deserted = FALSE
  /\ drawn = 0 /\ going = {} /\ pushing = {} /\ kept = << >>
  /\ air = {} /\ awaited = 1 /\ queued = {} /\ acks = {} /\ dropped = {} /\ unheard = 0

Kept == DOMAIN kept
Forget(numbers) == kept' = Restrict(kept, Kept \ numbers)
Keep(n) == kept' = [m \in Kept \cup {n} |-> IF m = n THEN 0 ELSE kept[m]]
-----------------------------------------------------------------------------
(* chiaki_takion_send_message_data and _cont, of any thread: a number, the  *)
(* packet, and then the send buffer, all under locks of their own.          *)

Draw ==
  /\ way = "out" /\ drawn < Last /\ drawn' = drawn + 1 /\ going' = going \cup {drawn + 1}
  /\ UNCHANGED <<route, pushing, kept, dropped, air, receiver, acks, unheard>>
Send(n) ==
  /\ n \in going /\ going' = going \ {n}
  /\ \/ air' = air \cup {n} /\ pushing' = pushing \cup {n} /\ UNCHANGED dropped
     \/ dropped' = dropped \cup {n} /\ UNCHANGED <<air, pushing>>      \* send failed
  /\ UNCHANGED <<route, drawn, kept, receiver, acks, unheard>>
\* chiaki_takion_send_buffer_push, whose error nobody looks at.
Push(n) ==
  /\ n \in pushing /\ pushing' = pushing \ {n}
  /\ IF Cardinality(Kept) < Room THEN Keep(n) /\ UNCHANGED dropped
                                 ELSE dropped' = dropped \cup {n} /\ UNCHANGED kept
  /\ UNCHANGED <<route, drawn, going, air, receiver, acks, unheard>>

\* takion_send_buffer_resend.  Giving up is an acknowledgement of the number
\* in the slot, which another packet may have taken by then.
Resend(n) ==
  /\ way = "out" /\ ~deserted /\ n \in Kept /\ kept[n] < ResendTries
  /\ kept' = [kept EXCEPT ![n] = @ + 1] /\ air' = air \cup {n}
  /\ UNCHANGED <<route, drawn, going, pushing, dropped, receiver, acks, unheard>>
\* Mutant: nothing is given up.
GiveUpNot(n) ==
  /\ way = "out" /\ ~deserted /\ n \in Kept /\ kept[n] >= ResendTries
  /\ kept' = [kept EXCEPT ![n] = 0]
  /\ UNCHANGED <<route, drawn, going, pushing, dropped, air, receiver, acks, unheard>>
GiveUp(n) ==
  /\ way = "out" /\ ~deserted /\ n \in Kept /\ kept[n] >= ResendTries
  /\ \E last \in Kept :
       LET covered == {m \in Kept : m <= last}
       IN Forget(covered) /\ dropped' = dropped \cup covered
  /\ UNCHANGED <<route, drawn, going, pushing, air, receiver, acks, unheard>>

\* The deadline of its wait is refused: nothing is sent again or given up.
Desert ==
  /\ way = "out" /\ Kept # {} /\ deserted' = TRUE
  /\ UNCHANGED <<way, sender, air, receiver, acks, unheard>>

\* The console does as much, without failing.
ConsoleSends ==
  /\ way = "in" /\ drawn < Last
  /\ drawn' = drawn + 1 /\ Keep(drawn + 1) /\ air' = air \cup {drawn + 1}
  /\ UNCHANGED <<route, going, pushing, dropped, receiver, acks, unheard>>
ConsoleResends(n) ==
  /\ way = "in" /\ n \in Kept \ air /\ air' = air \cup {n}
  /\ UNCHANGED <<route, sender, receiver, acks, unheard>>
-----------------------------------------------------------------------------
(* The network.                                                             *)
Lose(n) == n \in air /\ air' = air \ {n} /\ UNCHANGED <<route, sender, receiver, acks, unheard>>
LoseAck(n) ==
  /\ n \in acks /\ acks' = acks \ {n} /\ unheard' = IF n > unheard THEN n ELSE unheard
  /\ UNCHANGED <<route, sender, air, receiver>>
-----------------------------------------------------------------------------
(* takion_handle_packet_message_data pushes into the data queue, and        *)
(* takion_flush_data_queue pulls from it.                                   *)

\* What pull waits for after the flush.
Pulled(in) ==
  CHOOSE m \in awaited .. Last + 1 : awaited .. m - 1 \subseteq in /\ m \notin in

\* Mutant: what came is acknowledged.
AcknowledgedReceived(n, upto) == acks' = acks \cup {n}
\* Only something that was pulled is acknowledged: not a message that came
\* once more.
Acknowledged(n, upto) ==
  acks' = acks \cup (IF way = "out" \/ upto > awaited THEN {upto - 1} \ {0} ELSE {})

Arrive(n) ==
  /\ n \in air /\ air' = air \ {n}
  /\ LET taken == IF way = "in" /\ n \notin awaited .. awaited + Window - 1
                    THEN queued ELSE queued \cup ({n} \ 1 .. awaited - 1)
         upto == Pulled(taken)
     IN awaited' = upto /\ queued' = {m \in taken : m > upto} /\ Acknowledged(n, upto)
  /\ UNCHANGED <<route, sender, unheard>>

\* takion_handle_packet_message_data_ack, with chiaki_takion_send_buffer_ack.
AckArrives(n) ==
  /\ n \in acks /\ acks' = acks \ {n} /\ Forget(1 .. n)
  /\ UNCHANGED <<route, drawn, going, pushing, dropped, air, receiver, unheard>>

Ours(n) == Send(n) \/ Push(n) \/ Resend(n) \/ GiveUp(n)
Carries(n) == AckArrives(n) \/ LoseAck(n)
Next ==
  \/ Draw \/ Desert \/ ConsoleSends
  \/ \E n \in 1 .. Last : Ours(n) \/ ConsoleResends(n) \/ Lose(n) \/ Arrive(n) \/ Carries(n)

(* Threads go on, the console sends what we wait for again and again, and   *)
(* then it is not lost every time.                                          *)
Fairness ==
  /\ WF_vars(\E n \in 1 .. Last : Ours(n))
  /\ WF_vars(\E n \in 1 .. Last : Carries(n))
  /\ WF_vars(ConsoleResends(awaited)) /\ SF_vars(Arrive(awaited))
Spec == Init /\ [][Next]_vars /\ Fairness
-----------------------------------------------------------------------------
(* Type invariant.                                                          *)
TypeOK ==
  /\ way \in {"in", "out"} /\ deserted \in BOOLEAN
  /\ drawn \in 0 .. Last /\ awaited \in 1 .. drawn + 1
  /\ going \cup pushing \cup air \cup queued \cup dropped \subseteq 1 .. drawn
  /\ Kept \subseteq 1 .. drawn /\ \A n \in Kept : kept[n] \in 0 .. ResendTries
  /\ way = "out" => Cardinality(Kept) <= Room
  /\ way = "in" => \A n \in queued : n < awaited + Window

(* No message gets lost on its way unnoticed: until the receiver has it in  *)
(* order, it is about to be sent or kept to be sent again, but for those    *)
(* whose send failed, that found the buffer full, or that were given up     *)
(* (takion.c:577, 579, takionsendbuffer.c:261).  The console gives none up, *)
(* so an acknowledgement never covers one that we have not pulled           *)
(* (takion.c:1177).                                                         *)
Carried ==
  /\ \A n \in 1 .. drawn :
       n < awaited \/ n \in going \cup pushing \cup Kept \cup dropped
  /\ way = "in" => dropped = {}

(* All the console sends is pulled, and the console knows in the end, unless *)
(* the last acknowledgement was lost: it is not sent again, however often    *)
(* the console repeats the message (takion.c:1177).  All that we send is     *)
(* acknowledged or given up, unless the thread that does it is over before   *)
(* its time (takionsendbuffer.c:231).                                        *)
Settled ==
  /\ going \cup pushing = {} /\ (way = "out" => Kept = {} \/ deserted)
  /\ way = "in" => awaited = drawn + 1 /\ (Kept # {} => unheard = awaited - 1)
=============================================================================
