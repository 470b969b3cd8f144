---------------------------- MODULE TakionThread ----------------------------
(***************************************************************************)
(* lib/src/takion.c: the receiving thread of a Takion connection, from the *)
(* handshake to the end of the connection.                                 *)
(*                                                                         *)
(* The connection starts without encryption.  The stream connection's      *)
(* callback switches it on (chiaki_takion_set_crypt) while it handles one  *)
(* particular data packet, the bang.  Until then control data is handled   *)
(* but audio and video packets are postponed.  The thread handles a packet *)
(* from the socket completely before it looks at the next one, so handling *)
(* is one step; the stop pipe can be written at any time.                  *)
(*                                                                         *)
(* The reorder queue appears as what ReorderQueue is proved to implement   *)
(* (ReorderWindow): next is the data number waited for, held those that    *)
(* are queued ahead of it.  Data packets are named by their number, audio  *)
(* and video packets by the order in which they arrive.                    *)
(***************************************************************************)
EXTENDS Integers, Sequences, FiniteSets

CONSTANTS
  Bang,          (* the data packet whose callback switches encryption on     *)
  QueueSize,     (* slots of the data queue                                   *)
  PostponeMax,   (* TAKION_POSTPONE_PACKETS_SIZE                              *)
  EnableCrypt,   (* enable_crypt of the connect info                          *)
  MaxData,       (* bound: data packets are numbered 0 .. MaxData - 1         *)
  MaxAV          (* bound: audio and video packets that arrive                *)

ASSUME EnvAssumption ==
  /\ Bang \in Nat /\ QueueSize \in Nat \ {0} /\ PostponeMax \in Nat
  /\ EnableCrypt \in BOOLEAN /\ MaxData \in Nat /\ MaxAV \in Nat

VARIABLES
  pc,          (* where the thread is                                        *)
  stopReq,     (* a byte is in the stop pipe                                 *)
  crypt,       (* gkcrypt_remote is set                                      *)
  cryptAvail,  (* crypt_available of the thread                              *)
  next, held,  (* the data queue                                             *)
  postponed,   (* postponed_packets: [id, ok]                                *)
  arrived,     (* audio and video packets received so far                    *)
  avOut,       (* history: the ids handed to the callback                    *)
  refused,     (* history: ids dropped because of a wrong MAC                *)
  lost,        (* history: ids there was no room to postpone                 *)
  live,        (* history: packet buffers allocated and not freed            *)
  events       (* history: CONNECTED and DISCONNECT events                   *)

queue == <<next, held>>
av == <<postponed, arrived, avOut, refused, lost>>
vars == <<pc, stopReq, crypt, cryptAvail, queue, av, live, events>>

Init ==
  /\ pc = "initAck" /\ stopReq = FALSE
  /\ crypt = FALSE /\ cryptAvail = FALSE
  /\ next = 0 /\ held = {}
  /\ postponed = << >> /\ arrived = 0 /\ avOut = << >> /\ refused = {} /\ lost = {}
  /\ live = 0 /\ events = << >>

-----------------------------------------------------------------------------
(* takion_recv: the stop pipe is looked at before the socket, and ends the  *)
(* thread wherever it waits; so do a timeout of the handshake and an error  *)
(* of the socket.                                                           *)

Waiting == pc \in {"initAck", "cookieAck", "cookieAckAgain", "recv"}
AfterFailure == IF pc = "recv" THEN "fini" ELSE "disconnect"

\* Mutant: the handshake does not look at the stop pipe.
CanceledLate ==
  /\ pc = "recv" /\ stopReq /\ pc' = "fini"
  /\ UNCHANGED <<stopReq, crypt, cryptAvail, queue, av, live, events>>

Canceled ==
  /\ Waiting /\ stopReq
  /\ pc' = AfterFailure
  /\ UNCHANGED <<stopReq, crypt, cryptAvail, queue, av, live, events>>

RecvFails ==
  /\ Waiting /\ ~stopReq
  /\ pc' = AfterFailure
  /\ UNCHANGED <<stopReq, crypt, cryptAvail, queue, av, live, events>>

Readable(where) == pc = where /\ ~stopReq

(* takion_handshake: INIT and COOKIE are sent once; the next packet has to  *)
(* be their acknowledgement, except that a second INIT_ACK is passed over.  *)
Connected ==
  /\ pc' = "loop"
  /\ events' = Append(events, "connected")
  /\ UNCHANGED <<stopReq, crypt, cryptAvail, queue, av, live>>

InitAck ==
  /\ \/ Readable("initAck") /\ pc' = "cookieAck"
     \/ Readable("cookieAck") /\ pc' = "cookieAckAgain"
  /\ UNCHANGED <<stopReq, crypt, cryptAvail, queue, av, live, events>>

CookieAck == (Readable("cookieAck") \/ Readable("cookieAckAgain")) /\ Connected

(* Anything else ends the connection, an early data packet for example.     *)
Unexpected ==
  /\ Readable("initAck") \/ Readable("cookieAck") \/ Readable("cookieAckAgain")
  /\ pc' = "disconnect"
  /\ UNCHANGED <<stopReq, crypt, cryptAvail, queue, av, live, events>>

-----------------------------------------------------------------------------
(* The top of the receive loop.                                             *)

Recheck == EnableCrypt /\ ~cryptAvail /\ crypt

(* Encryption has just become available: the queued packets' MACs should be *)
(* checked, but the queue is peeked with a null pointer for the number,     *)
(* which peek writes through as soon as there is a packet.                  *)
RecheckCrash ==
  /\ pc = "loop" /\ Recheck /\ held # {}
  /\ pc' = "crashed"
  /\ UNCHANGED <<stopReq, crypt, cryptAvail, queue, av, live, events>>

(* takion_handle_packet for the postponed packets, one after the other, once *)
(* encryption is on: a wrong MAC drops one.                                 *)
HandedOn(packets) ==
  LET upto[i \in 0 .. Len(packets)] ==
        IF i = 0 THEN << >>
        ELSE IF packets[i].ok THEN Append(upto[i - 1], packets[i].id) ELSE upto[i - 1]
  IN upto[Len(packets)]
Rejected(packets) == { packets[i].id : i \in { j \in 1 .. Len(packets) : ~packets[j].ok } }
IdSet(packets) == { packets[i].id : i \in 1 .. Len(packets) }

\* Mutant: the postponed packets are handed on last one first.
LoopTopReversed ==
  LET out == HandedOn(postponed)
  IN /\ pc = "loop" /\ ~(Recheck /\ held # {}) /\ pc' = "recv"
     /\ cryptAvail' = (cryptAvail \/ Recheck)
     /\ avOut' = IF crypt THEN avOut \o [i \in 1 .. Len(out) |-> out[Len(out) + 1 - i]] ELSE avOut
     /\ refused' = IF crypt THEN refused \cup Rejected(postponed) ELSE refused
     /\ postponed' = IF crypt THEN << >> ELSE postponed
     /\ live' = IF crypt THEN live - Len(postponed) ELSE live
     /\ UNCHANGED <<stopReq, crypt, queue, arrived, lost, events>>

\* Mutant: they wait for the round after the one that notices the crypt.
LoopTopLate ==
  /\ pc = "loop" /\ ~(Recheck /\ held # {}) /\ pc' = "recv"
  /\ cryptAvail' = (cryptAvail \/ Recheck)
  /\ ~cryptAvail
  /\ UNCHANGED <<avOut, refused, postponed, live, stopReq, crypt, queue, arrived, lost, events>>

LoopTop ==
  /\ pc = "loop" /\ ~(Recheck /\ held # {})
  /\ pc' = "recv"
  /\ cryptAvail' = (cryptAvail \/ Recheck)
  /\ IF crypt
     THEN /\ avOut' = avOut \o HandedOn(postponed)
          /\ refused' = refused \cup Rejected(postponed)
          /\ postponed' = << >>
          /\ live' = live - Len(postponed)
     ELSE UNCHANGED <<avOut, refused, postponed, live>>
  /\ UNCHANGED <<stopReq, crypt, queue, arrived, lost, events>>

-----------------------------------------------------------------------------
(* takion_handle_packet, for a packet just read into a new buffer.          *)

(* The console's packets carry a MAC once it has answered with the bang.    *)
Sealed(n) == n > Bang

(* takion_handle_packet_message_data pushes the packet and flushes the      *)
(* queue: what is in order is handed to the callback and freed.             *)
Run(from, in) == CHOOSE m \in from .. MaxData :
                   (\A k \in from .. m - 1 : k \in in) /\ m \notin in

RecvData(n) ==
  /\ Readable("recv")
  /\ pc' = "loop"
  /\ IF (crypt /\ ~Sealed(n)) \/ n \notin next .. next + QueueSize - 1 \/ n \in held
     THEN UNCHANGED <<queue, crypt, live>>                       \* dropped
     ELSE LET in == held \cup {n}
              upto == Run(next, in)
          IN /\ next' = upto
             /\ held' = { k \in in : k > upto }
             /\ live' = live + 1 - (upto - next)
             /\ crypt' = (crypt \/ Bang \in next .. upto - 1)
  /\ UNCHANGED <<stopReq, cryptAvail, av, events>>

\* Mutant: the postponed packets' array is taken to be endless.
RecvAVUnbounded(ok) ==
  /\ Readable("recv") /\ arrived < MaxAV /\ EnableCrypt /\ ~crypt
  /\ pc' = "loop" /\ arrived' = arrived + 1
  /\ postponed' = Append(postponed, [id |-> arrived, ok |-> ok]) /\ live' = live + 1
  /\ UNCHANGED <<avOut, refused, lost, stopReq, crypt, cryptAvail, queue, events>>

(* Postponed without encryption, as far as there is room; otherwise handed  *)
(* to the callback if its MAC is right, or if there is to be no encryption. *)
RecvAV(ok) ==
  /\ Readable("recv") /\ arrived < MaxAV
  /\ pc' = "loop"
  /\ arrived' = arrived + 1
  /\ \/ /\ EnableCrypt /\ ~crypt /\ Len(postponed) < PostponeMax
        /\ postponed' = Append(postponed, [id |-> arrived, ok |-> ok])
        /\ live' = live + 1
        /\ UNCHANGED <<avOut, refused, lost>>
     \/ /\ EnableCrypt /\ ~crypt /\ Len(postponed) >= PostponeMax
        /\ lost' = lost \cup {arrived}
        /\ live' = live + 1                                      \* and not freed
        /\ UNCHANGED <<postponed, avOut, refused>>
     \/ /\ crypt \/ ~EnableCrypt
        /\ IF crypt /\ ~ok
           THEN refused' = refused \cup {arrived} /\ avOut' = avOut
           ELSE avOut' = Append(avOut, arrived) /\ refused' = refused
        /\ UNCHANGED <<postponed, lost, live>>
  /\ UNCHANGED <<stopReq, crypt, cryptAvail, queue, events>>

-----------------------------------------------------------------------------
(* The end of the thread, and chiaki_takion_close, which asks for it.       *)

\* Mutant: the packets left in the data queue are not freed.
FiniLeak ==
  /\ pc = "fini" /\ pc' = "disconnect"
  /\ held' = {}
  /\ UNCHANGED <<stopReq, crypt, cryptAvail, next, av, live, events>>

Fini ==
  /\ pc = "fini" /\ pc' = "disconnect"
  /\ held' = {} /\ live' = live - Cardinality(held)
  /\ UNCHANGED <<stopReq, crypt, cryptAvail, next, av, events>>

Disconnect ==
  /\ pc = "disconnect" /\ pc' = "done"
  /\ events' = Append(events, "disconnect")
  /\ UNCHANGED <<stopReq, crypt, cryptAvail, queue, av, live>>

Close ==
  /\ ~stopReq /\ stopReq' = TRUE
  /\ UNCHANGED <<pc, crypt, cryptAvail, queue, av, live, events>>

Recv == (\E n \in 0 .. MaxData - 1 : RecvData(n)) \/ (\E ok \in BOOLEAN : RecvAV(ok))
Thread ==
  \/ Canceled \/ RecvFails \/ InitAck \/ CookieAck \/ Unexpected
  \/ RecheckCrash \/ LoopTop \/ Recv \/ Fini \/ Disconnect

Next == Thread \/ Close

(* The thread runs; the network owes it nothing.                            *)
Must == Canceled \/ RecheckCrash \/ LoopTop \/ Fini \/ Disconnect
Fairness == WF_vars(Must)

Spec == Init /\ [][Next]_vars
FairSpec == Spec /\ Fairness

-----------------------------------------------------------------------------
(* Properties.                                                              *)

(* Type invariant. *)
TypeOK ==
  /\ pc \in {"initAck", "cookieAck", "cookieAckAgain", "loop", "recv", "fini",
             "disconnect", "done", "crashed"}
  /\ stopReq \in BOOLEAN /\ crypt \in BOOLEAN /\ cryptAvail \in BOOLEAN
  /\ next \in 0 .. MaxData /\ held \subseteq next + 1 .. next + QueueSize - 1
  /\ postponed \in Seq([id : 0 .. MaxAV - 1, ok : BOOLEAN]) /\ Len(postponed) <= PostponeMax
  /\ arrived \in 0 .. MaxAV
  /\ avOut \in Seq(0 .. MaxAV - 1) /\ refused \cup lost \subseteq 0 .. MaxAV - 1
  /\ live \in Nat
  /\ events \in Seq({"connected", "disconnect"})

(* Postponing changes when audio and video packets are handed on, never in  *)
(* which order: the callback sees them as they arrived.                     *)
AVInOrder == \A i, j \in 1 .. Len(avOut) : i < j => avOut[i] < avOut[j]

(* When the thread blocks for the next packet, every packet that arrived    *)
(* was handed on, rejected, or is postponed because encryption is still     *)
(* missing: none waits for a packet that may never come.  Only a packet     *)
(* that found all postponed_packets taken is lost.                          *)
NothingForgotten ==
  pc = "recv" =>
    /\ crypt => postponed = << >>
    /\ IdSet(postponed) \cup refused \cup lost \cup { avOut[i] : i \in 1 .. Len(avOut) }
         = 0 .. arrived - 1

(* The owner hears CONNECTED at most once, then DISCONNECT exactly at the   *)
(* end, whatever way the thread ends.                                       *)
EventOrder ==
  /\ events \in {<< >>, <<"connected">>, <<"connected", "disconnect">>, <<"disconnect">>}
  /\ pc \in {"loop", "recv", "fini"} => events = <<"connected">>
  /\ pc = "done" <=> events # << >> /\ events[Len(events)] = "disconnect"

(* What the owner of the connection gets to see of it, in which order.      *)
CallbackOrder == AVInOrder /\ EventOrder

(* The log message of the loop, "Crypt has become available. Re-checking    *)
(* MACs of ... packets": the check of the queued packets can be carried out.*)
RecheckCompletes == pc # "crashed"

(* What takion_handle_packet does with "ownership of this buf": the buffer  *)
(* of a packet is in the data queue, or postponed, or it was freed, once.   *)
(* Those of the packets that found no room to be postponed leak; so do,     *)
(* when the thread ends without encryption, those still postponed.          *)
BuffersOwned ==
  pc # "crashed" => live = Cardinality(held) + Len(postponed) + Cardinality(lost)
=============================================================================
