----------------------------- MODULE AudioUnits -----------------------------
(***************************************************************************)
(* lib/src/audioreceiver.c, audiosender.c and the audio part of takion.c's *)
(* av_packet_parse: an audio packet carries Source frames of its own and   *)
(* repeats the Fec frames before them.  Indices on the wire are 16 bits; a *)
(* frame is handed on only when its index is newer than that of the last.  *)
(* The haptics receiver is a second instance of the same code.             *)
(*                                                                         *)
(* Frames are counted from 1 without wrapping; a frame's content is its    *)
(* number, and its index is that number modulo 2 * Half.                   *)
(***************************************************************************)
EXTENDS Integers, Sequences

CONSTANTS
  Half,       (* 1 << 15, half of the index space                             *)
  Source,     (* source units of a packet                                     *)
  Fec,        (* fec units of a packet                                        *)
  LastFrame,  (* bound: frames the console sends                              *)
  Lag,        (* bound: how far a late packet is behind the newest            *)
  Words       (* bound: microphone frames                                     *)

VARIABLES
  sent,       (* the first frame of the console's next packet                 *)
  air,        (* packets on their way, by their first frame                   *)
  arrived,    (* packets received                                             *)
  previous,   (* frame_index_prev                                             *)
  startup,    (* frame_index_startup                                          *)
  heard,      (* the frames given to the sink                                 *)
  spoken, frameA, frameB, voice   (* the microphone: frames encoded, the two  *)
                                  (* buffers, the last packet                 *)

receiver == <<arrived, previous, startup, heard>>
microphone == <<spoken, frameA, frameB, voice>>
vars == <<sent, air, receiver, microphone>>

Index(f) == f % (2 * Half)
Newer(a, b) == a # b /\ (a - b) % (2 * Half) < Half    \* chiaki_seq_num_16_gt
None == 0

Init ==
  /\ sent = 1 /\ air = {}
  /\ arrived = {} /\ previous = 0 /\ startup = TRUE /\ heard = <<>>
  /\ spoken = 0 /\ frameA = None /\ frameB = None /\ voice = <<>>

-----------------------------------------------------------------------------
(* The console and the network: packets are lost, late and repeated, but    *)
(* (a bound) no outage lasts half of the index space, minutes of sound.     *)

Latest == IF heard = <<>> THEN 0 ELSE heard[Len(heard)]
Short == sent + Source - Latest <= Half

Send ==
  /\ sent <= LastFrame /\ Short
  /\ air' = {p \in air \cup {sent} : sent - p <= Lag}
  /\ sent' = sent + Source
  /\ UNCHANGED <<receiver, microphone>>

(* chiaki_audio_receiver_av_packet: unit i of the packet that starts with   *)
(* frame p, its index as the receiver computes it and what it carries.      *)
\* Mutant: the repeated frames are numbered from the packet's own index on.
UnitLate(p, i) ==
  IF i <= Source THEN [index |-> Index(p + i - 1), frame |-> p + i - 1]
                 ELSE [index |-> Index(p + i - 1), frame |-> p - Fec + i - Source - 1]
Unit(p, i) ==
  IF i <= Source THEN [index |-> Index(p + i - 1), frame |-> p + i - 1]
                 ELSE [index |-> Index(p - Fec + i - Source - 1), frame |-> p - Fec + i - Source - 1]

Starting(p) == startup /\ Index(p) <= Half
Ignored(p, i) == i > Source /\ Starting(p) /\ Index(p) + (i - Source - 1) < Fec + 1

(* chiaki_audio_receiver_frame for the units up to the i-th.                *)
Handled(p) ==
  LET After[i \in 0 .. Source + Fec] ==
        IF i = 0 THEN [previous |-> previous, heard |-> heard]
        ELSE IF Ignored(p, i) \/ ~Newer(Unit(p, i).index, After[i - 1].previous)
          THEN After[i - 1]
          ELSE [previous |-> Unit(p, i).index,
                heard |-> Append(After[i - 1].heard, Unit(p, i).frame)]
  IN After[Source + Fec]

Arrives(p) ==
  /\ p \in air
  /\ air' \in {air, air \ {p}}
  /\ arrived' = arrived \cup {p}
  /\ startup' = Starting(p)
  /\ previous' = Handled(p).previous
  /\ heard' = Handled(p).heard
  /\ UNCHANGED <<sent, microphone>>

(* A packet whose sizes or codec do not fit is dropped whole; so is a lost one. *)
Dropped(p) ==
  /\ p \in air /\ air' = air \ {p}
  /\ Short \/ air # {p}
  /\ UNCHANGED <<sent, receiver, microphone>>

-----------------------------------------------------------------------------
(* chiaki_audio_sender_opus_data: the first two frames fill the buffers.    *)
(* The third copy overwrites the oldest frame's place in the packet.        *)

\* Mutant: the older buffer is taken over before the newer one is copied.
SpeakLate ==
  /\ spoken < Words
  /\ spoken' = spoken + 1
  /\ IF frameB = None THEN frameB' = spoken' /\ UNCHANGED <<frameA, voice>>
     ELSE IF frameA = None THEN frameA' = spoken' /\ UNCHANGED <<frameB, voice>>
     ELSE /\ frameA' = spoken' /\ frameB' = spoken'
          /\ voice' = <<spoken', spoken', spoken'>>
  /\ UNCHANGED <<sent, air, receiver>>
Speak ==
  /\ spoken < Words
  /\ spoken' = spoken + 1
  /\ IF frameB = None THEN frameB' = spoken' /\ UNCHANGED <<frameA, voice>>
     ELSE IF frameA = None THEN frameA' = spoken' /\ UNCHANGED <<frameB, voice>>
     ELSE /\ voice' = <<spoken', frameA, spoken'>>
          /\ frameA' = spoken' /\ frameB' = spoken'
  /\ UNCHANGED <<sent, air, receiver>>

Next == Send \/ Speak \/ \E p \in air : Arrives(p) \/ Dropped(p)

-----------------------------------------------------------------------------
(* The types of the audio receiver and the microphone sender. *)
TypeOK ==
  /\ sent \in 1 .. LastFrame + Source /\ air \subseteq 1 .. LastFrame
  /\ arrived \subseteq 1 .. LastFrame
  /\ previous \in 0 .. 2 * Half - 1 /\ startup \in BOOLEAN
  /\ heard \in Seq(1 .. LastFrame + Source)
  /\ {spoken, frameA, frameB} \subseteq 0 .. Words
  /\ voice = <<>> \/ voice \in Seq(1 .. Words)

(* The sink gets frames in their order and none twice, whatever is lost,    *)
(* repeated or late, across the wrap of the index; and only frames that a   *)
(* packet which arrived has as its own: the repeated ones come after newer  *)
(* ones in every packet and are never used, so they repair no loss.         *)
HeardInOrder == \A i \in 1 .. Len(heard) - 1 : heard[i] < heard[i + 1]
HeardOwn == \A i \in 1 .. Len(heard) : \E p \in arrived : heard[i] \in p .. p + Source - 1

(* A microphone packet carries the newest frame and the one before it.      *)
VoiceRepeats == voice # <<>> => voice = <<spoken, spoken - 1, spoken>>

UnitsSound == HeardInOrder /\ HeardOwn /\ VoiceRepeats
=============================================================================
