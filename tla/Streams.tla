------------------------------ MODULE Streams -------------------------------
(***************************************************************************)
(* What a stream's packets go through on their way in and out: the data    *)
(* packets are put in order (ReorderQueue), the units of video and audio   *)
(* become frames again (VideoReceiver, AudioUnits), messages are split and *)
(* pad info becomes events (StreamMessages), what is sent shares one key   *)
(* stream (TakionSend), and beside the stream the messages of the ctrl     *)
(* connection are taken apart and sent (CtrlMessages).  The app makes one  *)
(* controller state, which goes out with it all, of what the user does     *)
(* (ControllerInput).  "part" says which of them a behaviour is about.     *)
(***************************************************************************)
EXTENDS ReorderQueue

CONSTANTS
  VideoHalf, VideoSource, VideoFec, Refs, SwitchAt, MaxFrame, Gap,        \* VideoReceiver
  AudioHalf, Source, Fec, LastFrame, Lag, Words,                          \* AudioUnits
  Mtus, Totals, Overhead, HeadFirst, HeadRest, Motions, Strengths,        \* StreamMessages
  Threads, Block, Refresh, SizeMax, Sizes, Numbers,                       \* TakionSend
  Room, CtrlMax, Features, Doubles,                                       \* CtrlMessages
  Together, Waiting,                                                      \* ControllerInput
  Mixes       \* bound: of which kinds of ctrl messages a behaviour may be

\* 16 references and numbers modulo 2^16 allow for gaps of 4096 frames.
ASSUME VideoAssumption ==
  /\ VideoHalf \in Nat \ {0} /\ VideoSource \in Nat \ {0} /\ VideoFec \in Nat
  /\ SwitchAt \in Int /\ MaxFrame \in Nat
  /\ Refs \in Nat \ {0} /\ Refs < 2 * VideoHalf
  /\ Gap \in Nat \ {0} /\ Gap <= VideoHalf /\ Refs * (Gap - 1) <= 2 * VideoHalf

\* A packet has room beside its headers; only the first header is longer.
ASSUME MessageAssumption ==
  /\ HeadRest \in Nat /\ HeadFirst = HeadRest + 1 /\ Overhead \in Nat
  /\ Mtus \subseteq Nat /\ \A m \in Mtus : m > Overhead + HeadFirst
  /\ Totals \subseteq Nat \ {0}
  /\ 0 \in Motions /\ 0 \in Strengths

ASSUME InputAssumption == Waiting \in Nat

\* recv_buf holds a message of the smallest kind that has a payload.
ASSUME CtrlAssumption ==
  /\ Room \in Nat /\ Room >= 3 /\ CtrlMax \in Nat
  /\ Features \in Nat /\ Doubles \in Nat

\* The repeated and the late frames are in one half of the index space.
ASSUME AudioAssumption ==
  /\ AudioHalf \in Nat \ {0} /\ Source \in Nat \ {0} /\ Fec \in Nat
  /\ LastFrame \in Nat /\ Lag \in Nat /\ Words \in Nat
  /\ Source + Fec + Lag <= AudioHalf

VARIABLES
  part,
  rcv,
  sent, air, arrived, previous, startup, heard, spoken, frameA, frameB, voice,
  mtu, total, left, first, pieces, result, motion, haptic, trigger, said, told,
  crypt, position, seqNum, index, gmacKey, holder, step, packet, uses, wire,
  rudp, pc, kinds, net, buf, remote, handled, known, local, out, understood, clash, doubles,
  cantA, cantB, sink, shown,
  settings, pad, screen, page, view, controllerState, orphaned

Video == INSTANCE VideoReceiver WITH Half <- VideoHalf, Source <- VideoSource, Fec <- VideoFec
Audio == INSTANCE AudioUnits WITH Half <- AudioHalf
Messages == INSTANCE StreamMessages
Senders == INSTANCE TakionSend WITH MaxNum <- Numbers
Ctrl == INSTANCE CtrlMessages WITH Count <- CtrlMax, sent <- kinds, heard <- understood
Input == INSTANCE ControllerInput

ASSUME SendAssumption ==
  /\ Block \in Nat \ {0} /\ Refresh \in Nat \ {0} /\ SizeMax \in Nat
  /\ Sizes \subseteq Nat /\ Senders!Nobody \notin Threads

hearing == <<sent, air, arrived, previous, startup, heard, spoken, frameA, frameB, voice>>
talking == <<mtu, total, left, first, pieces, result, motion, haptic, trigger, said, told>>
sending == <<crypt, position, seqNum, index, gmacKey, holder, step, packet, uses, wire>>
steering == <<rudp, pc, kinds, net, buf, remote, handled, known, local, out, understood, clash,
              doubles, cantA, cantB, sink, shown>>
playing == <<settings, pad, screen, page, view, controllerState, orphaned>>
streams == <<part, vars, rcv, hearing, talking, sending, steering, playing>>

\* What a behaviour is not about stays at one initial state.
SomeSettings == CHOOSE s \in Input!Settings : Input!Allowed(s)
StreamsInit ==
  /\ part \in {"data", "video", "audio", "messages", "senders", "ctrl", "input"}
  /\ part # "data" => dropBegin = TRUE
  /\ part # "messages" => total = (CHOOSE n \in Totals : TRUE)
                            /\ mtu = (CHOOSE m \in Mtus : TRUE) - Overhead
  /\ part # "input" => settings = SomeSettings
  /\ IF part # "ctrl" THEN rudp = FALSE /\ sink = FALSE /\ kinds = [i \in 1 .. CtrlMax |-> "id"]
     ELSE \E mix \in Mixes : kinds \in [1 .. CtrlMax -> mix]
  /\ Init /\ Video!Init /\ Audio!Init /\ Messages!Init /\ Senders!Init /\ Ctrl!Init /\ Input!Init

DataOnly == part = "data" /\ UNCHANGED <<part, rcv, hearing, talking, sending, steering, playing>>
VideoOnly == part = "video" /\ UNCHANGED <<part, vars, hearing, talking, sending, steering, playing>>
AudioOnly == part = "audio" /\ UNCHANGED <<part, vars, rcv, talking, sending, steering, playing>>
MessagesOnly == part = "messages" /\ UNCHANGED <<part, vars, rcv, hearing, sending, steering, playing>>
SendersOnly == part = "senders" /\ UNCHANGED <<part, vars, rcv, hearing, talking, steering, playing>>
CtrlOnly == part = "ctrl" /\ UNCHANGED <<part, vars, rcv, hearing, talking, sending, playing>>
InputOnly == part = "input" /\ UNCHANGED <<part, vars, rcv, hearing, talking, sending, steering>>
StreamsNext ==
  \/ DataOnly /\ Next
  \/ VideoOnly /\ Video!Next
  \/ AudioOnly /\ Audio!Next
  \/ MessagesOnly /\ Messages!Next
  \/ SendersOnly /\ Senders!Next
  \/ CtrlOnly /\ Ctrl!Next
  \/ InputOnly /\ Input!Next
StreamsSpec == StreamsInit /\ [][StreamsNext]_streams
-----------------------------------------------------------------------------
(* What the video decoder is handed is a whole frame it can decode, the     *)
(* frame being built is not one that was handed, and the console is told of *)
(* exactly the frames that are missing or that the decoder refused          *)
(* (videoreceiver.c:92, 117, frameprocessor.c:229).                         *)
FramesSound ==
  part = "video" =>
    /\ Video!TypeOK /\ Video!FrameInProgress /\ Video!HandedDecodable
    /\ Video!NoSilentGap /\ Video!NoFalseAlarm

(* Sound comes out once and in order, and events tell what the console said *)
(* (audioreceiver.c:105, streamconnection.c:596).  Messages fit the path;   *)
(* however the threads' sends interleave, no byte of the key stream is used *)
(* twice and every MAC is made with the key of its position                 *)
(* (streamconnection.c:1151, takion.c:536).  Ctrl messages are deciphered   *)
(* on both sides as they were enciphered (ctrl.c:557, 688).  The controller *)
(* state shows nothing that the user no longer does (StreamView.java:607).  *)
UnitsSound ==
  CASE part = "audio" -> Audio!TypeOK /\ Audio!UnitsSound
    [] part = "messages" -> Messages!TypeOK /\ Messages!MessagesSound
    [] part = "senders" -> Senders!TypeOK /\ Senders!SendSound
    [] part = "ctrl" -> Ctrl!TypeOK /\ Ctrl!CtrlMessagesSound
    [] part = "input" -> Input!TypeOK /\ Input!InputSound
    [] OTHER -> TRUE
=============================================================================
