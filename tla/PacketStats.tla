----------------------------- MODULE PacketStats ----------------------------
(***************************************************************************)
(* lib/src/packetstats.c: what the receivers count and the congestion      *)
(* thread (lib/src/congestioncontrol.c) reports to the console.  The video *)
(* receiver pushes the units of a frame under the mutex; the audio         *)
(* receiver pushes sequence numbers without it, so that its increment of   *)
(* seq_received is a read and a write that a report may come between.      *)
(*                                                                         *)
(* The arithmetic keeps its widths: sequence numbers have 16 bits (SeqMod),*)
(* the difference of two of them is an int, and the counters have 64 bits  *)
(* (Word).  History: minU and maxU are seq_min and seq_max if the numbers  *)
(* never wrapped; diff and distance are the difference the last report     *)
(* computed and the one it stands for.                                     *)
(***************************************************************************)
EXTENDS SeqNum

CONSTANTS
  Word,         (* 2^64 in the code, at any rate a multiple of SeqMod        *)
  Units,        (* units of a video frame, with FEC                          *)
  MaxSeq        (* bound: audio packets above it never come                  *)

VARIABLES
  genReceived, genLost, seqMin, seqMax, seqReceived,
  pc,           (* of the audio receiver: where push_seq is                  *)
  seqNum,       (* unwrapped number of the packet it counts                  *)
  loaded,       (* seq_received as it read it                                *)
  report,       (* received and lost of the last congestion packet           *)
  minU, maxU, diff, distance

counters == <<genReceived, genLost, seqMin, seqMax, seqReceived, minU, maxU>>
reported == <<report, diff, distance>>
vars == <<counters, pc, seqNum, loaded, reported>>

Init ==
  /\ genReceived = 0 /\ genLost = 0
  /\ seqMin = 0 /\ seqMax = 0 /\ seqReceived = 0
  /\ pc = "idle" /\ seqNum = 0 /\ loaded = 0
  /\ report = [received |-> 0, lost |-> 0]
  /\ minU = 0 /\ maxU = 0 /\ diff = 0 /\ distance = 0

(* chiaki_packet_stats_push_generation: n of the units of a frame came.     *)
PushGeneration ==
  /\ pc = "idle"                         \* the same thread pushes both
  /\ \E n \in 0 .. Units :
       /\ genReceived' = (genReceived + n) % Word
       /\ genLost' = (genLost + Units - n) % Word
  /\ UNCHANGED <<seqMin, seqMax, seqReceived, minU, maxU, pc, seqNum, loaded, reported>>

(* The packets that can come before the next report: one every 200 ms keeps *)
(* the numbers between two reports far below half the sequence space.       *)
Near(n) == n > maxU - Half /\ n < minU + Half

(* chiaki_packet_stats_push_seq in its steps. *)
PushLoad ==
  /\ pc = "idle"
  /\ \E n \in 1 .. MaxSeq : Near(n) /\ seqNum' = n
  /\ loaded' = seqReceived
  /\ pc' = "store"
  /\ UNCHANGED <<counters, reported>>

PushStore ==
  /\ pc = "store" /\ pc' = "max"
  /\ seqReceived' = (loaded + 1) % Word
  /\ UNCHANGED <<genReceived, genLost, seqMin, seqMax, minU, maxU, seqNum, loaded, reported>>

PushMax ==
  /\ pc = "max" /\ pc' = "idle"
  /\ IF SeqGt(Wrap(seqNum), seqMax)
     THEN seqMax' = Wrap(seqNum) /\ maxU' = seqNum
     ELSE UNCHANGED <<seqMax, maxU>>
  /\ UNCHANGED <<genReceived, genLost, seqMin, seqReceived, minU, seqNum, loaded, reported>>

(* seq_diff: the 16 bit numbers are promoted to int before they are         *)
(* subtracted, and the result is converted to 64 bits.                      *)
SeqDiff == (seqMax - seqMin) % Word
SeqLost == IF seqReceived > SeqDiff THEN SeqDiff ELSE SeqDiff - seqReceived

(* chiaki_packet_stats_get with reset, from the congestion thread. *)
Get ==
  /\ report' = [received |-> (genReceived + seqReceived) % Word,
                lost |-> (genLost + SeqLost) % Word]
  /\ diff' = SeqDiff /\ distance' = maxU - minU
  /\ genReceived' = 0 /\ genLost' = 0
  /\ seqMin' = seqMax /\ minU' = maxU /\ seqReceived' = 0
  /\ UNCHANGED <<seqMax, maxU, pc, seqNum, loaded>>

Next == PushGeneration \/ PushLoad \/ PushStore \/ PushMax \/ Get

Spec == Init /\ [][Next]_vars

(* "overflow on purpose if max < min": when the numbers have wrapped around *)
(* since the last report, the difference is still how far they came.        *)
DiffIsDistance == diff = distance
=============================================================================
