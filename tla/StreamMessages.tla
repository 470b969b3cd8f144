--------------------------- MODULE StreamMessages ---------------------------
(***************************************************************************)
(* lib/src/streamconnection.c: two things it computes about messages.      *)
(*   stream_connection_send_big splits the BIG message, the first of the   *)
(* stream and the only one that can exceed the path's MTU, into packets.   *)
(*   stream_connection_takion_data_pad_info turns the console's pad info   *)
(* into events about what has changed since the last one.                  *)
(***************************************************************************)
EXTENDS Integers, Sequences

CONSTANTS
  Mtus,       (* the MTUs the measurement can leave, either way               *)
  Totals,     (* the sizes of an encoded BIG message                          *)
  Overhead,   (* 50: what the network adds to a packet                        *)
  HeadFirst, HeadRest,   (* 26 and 25: what Takion adds to a packet           *)
  Motions, Strengths     (* the values of a motion byte and of an intensity   *)

VARIABLES
  mtu, total, (* the split: the usable MTU and the size of the message        *)
  left, first,
  pieces,     (* the packets sent: [size, last, ok]                           *)
  result,     (* stream_connection_send_big's: none, ok, failed               *)
  motion,     (* motion_counter, the bytes in the order of memory             *)
  haptic, trigger,
  said,       (* the console's last pad info                                  *)
  told        (* what the last events of each kind said                       *)

split == <<mtu, total, left, first, pieces, result>>
pad == <<motion, haptic, trigger, said, told>>
vars == <<split, pad>>

Zero == <<0, 0, 0, 0>>
Strong == 0

Init ==
  /\ \E down, up \in Mtus : mtu = (IF down < up THEN down ELSE up) - Overhead
  /\ total \in Totals /\ left = total
  /\ first = TRUE /\ pieces = <<>> /\ result = "none"
  /\ motion = Zero /\ haptic = Strong /\ trigger = Strong
  /\ said = [motion |-> Zero, haptic |-> Strong, trigger |-> Strong]
  /\ told = [reset |-> FALSE, haptic |-> Strong, trigger |-> Strong]

-----------------------------------------------------------------------------
(* stream_connection_send_big *)

(* The first test is made for every piece: a rest of exactly mtu - HeadRest *)
(* still counts as too big, is sent as a middle piece, and leaves nothing.  *)
\* Mutant: the headers are left out of the test.
TooBigBare == mtu < left
TooBig == mtu < left + HeadFirst \/ (mtu < left + HeadRest /\ ~first)

Piece(size, last, ok) == pieces' = Append(pieces, [size |-> size, last |-> last, ok |-> ok])

(* A piece that cannot be sent does not end the loop. *)
SendPiece(ok) ==
  /\ result = "none" /\ TooBig
  /\ LET size == mtu - (IF first THEN HeadFirst ELSE HeadRest) IN
       /\ Piece(size, FALSE, ok)
       /\ left' = left - size
  /\ first' = FALSE
  /\ UNCHANGED <<mtu, total, result, pad>>

SendLast(ok) ==
  /\ result = "none" /\ ~TooBig
  /\ IF left > 0
       THEN Piece(left, TRUE, ok) /\ left' = 0 /\ result' = IF ok THEN "ok" ELSE "failed"
       ELSE result' = (IF pieces[Len(pieces)].ok THEN "ok" ELSE "failed") /\ UNCHANGED <<pieces, left>>
  /\ UNCHANGED <<mtu, total, first, pad>>

-----------------------------------------------------------------------------
(* stream_connection_takion_data_pad_info: the counter is kept in the       *)
(* host's byte order, so its bytes in memory are those of the message       *)
(* reversed.  (The comparison of the light bar's colour takes three of them *)
(* for the last colour, which they are not; no event of it is modelled.)    *)

InMemory(b) == <<b[4], b[3], b[2], b[1]>>

\* Mutant: any reset with another counter is taken for an update.
MotionNewsAlways(old, new) ==
  /\ ~(new # Zero /\ old # new)
  /\ ~(new = Zero /\ old = Zero)
MotionNews(old, new) ==
  /\ ~(new # Zero /\ old # Zero /\ old # new)
  /\ ~(new = Zero /\ old = Zero)

PadInfo(b, h, t) ==
  /\ result = "ok"
  /\ said' = [motion |-> b, haptic |-> h, trigger |-> t]
  /\ motion' = InMemory(b) /\ haptic' = h /\ trigger' = t
  /\ told' = [reset |-> IF MotionNews(motion, motion') THEN b # Zero ELSE told.reset,
              haptic |-> IF haptic # h THEN h ELSE told.haptic,
              trigger |-> IF trigger # t THEN t ELSE told.trigger]
  /\ UNCHANGED split

Next ==
  \/ \E ok \in BOOLEAN : SendPiece(ok) \/ SendLast(ok)
  \/ \E b \in [1 .. 4 -> Motions], h, t \in Strengths : PadInfo(b, h, t)

-----------------------------------------------------------------------------
SumOf(s) ==
  LET Upto[i \in 0 .. Len(s)] == IF i = 0 THEN 0 ELSE Upto[i - 1] + s[i].size
  IN Upto[Len(s)]

(* The types of the split and of the pad's state. *)
TypeOK ==
  /\ mtu \in Nat /\ total \in Totals /\ left \in 0 .. total /\ first \in BOOLEAN
  /\ pieces \in Seq([size : Nat, last : BOOLEAN, ok : BOOLEAN])
  /\ result \in {"none", "ok", "failed"}
  /\ motion \in [1 .. 4 -> Motions] /\ {haptic, trigger} \subseteq Strengths

(* Every packet of a split message fits the MTU of both directions with its *)
(* headers, the pieces are the message, and none but the last is marked so  *)
(* (the last one is not when it just fills a packet).                       *)
PiecesFit ==
  /\ \A i \in 1 .. Len(pieces) :
       /\ pieces[i].size > 0
       /\ pieces[i].size + (IF i = 1 THEN HeadFirst ELSE HeadRest) <= mtu
       /\ pieces[i].last => i = Len(pieces)
       /\ i = Len(pieces) /\ result # "none" => \/ pieces[i].last
                                                  \/ (i > 1 /\ pieces[i].size + HeadRest = mtu)
  /\ SumOf(pieces) + left = total
  /\ result # "none" => left = 0

(* After any pad info, the events so far tell the session what the console  *)
(* said last, though only changes are told: whether the motion is reset and *)
(* both intensities.                                                        *)
PadAgrees ==
  /\ told.reset <=> said.motion # Zero
  /\ told.haptic = said.haptic /\ told.trigger = said.trigger

MessagesSound == PiecesFit /\ PadAgrees
=============================================================================
