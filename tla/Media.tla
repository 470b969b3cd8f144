-------------------------------- MODULE Media -------------------------------
(***************************************************************************)
(* The threads between the console and the user's eyes and ears: the one   *)
(* that receives (TakionThread), with both ends of its data channel        *)
(* (TakionDelivery), those that decode and show the picture (VideoDecoder) *)
(* and play the sound (AudioPlayer), and the stream page with its surfaces *)
(* (Page).  Each only hands the next one packets, frames or a surface, all *)
(* of which the next one takes at any time: "part" says which of them a    *)
(* behaviour is about.                                                     *)
(***************************************************************************)
EXTENDS TakionThread

CONSTANTS
  Frames, In, Out, Limit, Calls,                                       \* VideoDecoder
  Sounds, FrameSize, Heads, Chunks, ChunkSize, Request, Headers, Switches,  \* AudioPlayer
  Pages, Changes,                                                      \* Player
  Window, Room, ResendTries, Last                                      \* TakionDelivery

(* There is nothing but the numbers to assume.                              *)
ASSUME DecoderAssumption == {Frames, In, Out, Calls} \subseteq Nat /\ Limit \in Nat \ {0}
ASSUME AudioAssumption ==
  /\ {Sounds, FrameSize, Heads, In, Request, Headers, Switches} \subseteq Nat
  /\ {Chunks, ChunkSize} \subseteq Nat \ {0}
ASSUME PageAssumption == {Pages, Changes} \subseteq Nat
ASSUME DeliveryAssumption == {Window, Room, ResendTries, Last} \subseteq Nat

VARIABLES
  part,
  codec, pacing, dropPending, shutOut, shutChor, outStarted, chorStarted, request, decoded,
  opc, use, paced, hand, kpc, posts, chand, spc, fed, apc, fini, calls, switched,
  inside, ready, released, shown, late,
  audioCodec, tpc, depth, todo, audioFed, headers, audioInside, audioPc, left, push, pushed, arr,
  full, free, callback, want, pop, remains, open, cached, freeing, switches, accepted, played,
  pages, page, outputs, timers, native, surface, external, where, activeSession, resumes, stops,
  display, presentation, blocks, news, changes, astray,
  way, deserted, drawn, going, pushing, kept, air, awaited, queued, acks, dropped, unheard

Decoder == INSTANCE VideoDecoder WITH queue <- decoded
Sound == INSTANCE AudioPlayer WITH Frames <- Sounds, codec <- audioCodec, fed <- audioFed,
                                   inside <- audioInside, opc <- audioPc, kpc <- callback,
                                   apc <- freeing
Page == INSTANCE Player WITH posts <- blocks
Delivery == INSTANCE TakionDelivery

decoding == <<codec, pacing, dropPending, shutOut, shutChor, outStarted, chorStarted, request,
              decoded, opc, use, paced, hand, kpc, posts, chand, spc, fed, apc, fini, calls,
              switched, inside, ready, released, shown, late>>
playing == <<audioCodec, tpc, depth, todo, audioFed, headers, audioInside, audioPc, left, push,
             pushed, arr, full, free, callback, want, pop, remains, open, cached, freeing,
             switches, accepted, played>>
paging == <<pages, page, outputs, timers, native, surface, external, where, activeSession,
            resumes, stops, display, presentation, blocks, news, changes, astray>>
carrying == <<way, deserted, drawn, going, pushing, kept, air, awaited, queued, acks, dropped,
              unheard>>
media == <<part, vars, decoding, playing, paging, carrying>>

\* What a behaviour is not about stays at one initial state.
MediaInit ==
  /\ part \in {"packets", "delivery", "decoder", "sound", "page"}
  /\ Init /\ Decoder!Init /\ Sound!Init /\ Page!Init /\ Delivery!Init
  /\ part # "page" => display
  /\ part # "delivery" => way = "in"

PacketsOnly == part = "packets" /\ UNCHANGED <<part, decoding, playing, paging, carrying>>
DeliveryOnly == part = "delivery" /\ UNCHANGED <<part, vars, decoding, playing, paging>>
DecoderOnly == part = "decoder" /\ UNCHANGED <<part, vars, playing, paging, carrying>>
SoundOnly == part = "sound" /\ UNCHANGED <<part, vars, decoding, paging, carrying>>
PageOnly == part = "page" /\ UNCHANGED <<part, vars, decoding, playing, carrying>>
MediaNext ==
  \/ PacketsOnly /\ Next
  \/ DeliveryOnly /\ Delivery!Next
  \/ DecoderOnly /\ Decoder!Next
  \/ SoundOnly /\ Sound!Next
  \/ PageOnly /\ Page!Next

(* The threads run.  The choreographer calls back at each vsync, and the    *)
(* codec's output thread, whose waits have a timeout, keeps finding a frame *)
(* or none, and one that is due; the audio codec's mutex is not always      *)
(* another thread's when its turn comes.  The network does not lose every   *)
(* repetition of the message that is waited for.                            *)
(* As a behaviour is about one part, a condition on a thread of one part    *)
(* may be stated together with those on a thread of each other part.        *)
MediaFairness ==
  /\ WF_media(\/ PacketsOnly /\ Must
              \/ DeliveryOnly /\ \E n \in 1 .. Last : Delivery!Ours(n)
              \/ DecoderOnly /\ Decoder!Kill
              \/ SoundOnly /\ Sound!Feeding)
  /\ WF_media(\/ DeliveryOnly /\ \E n \in 1 .. Last : Delivery!Carries(n)
              \/ DecoderOnly /\ (Decoder!SampleQueued \/ Decoder!SampleRefused)
              \/ SoundOnly /\ Sound!OutputThread)
  /\ WF_media(\/ DeliveryOnly /\ Delivery!ConsoleResends(awaited)
              \/ DecoderOnly /\ Decoder!OutputThread
              \/ SoundOnly /\ Sound!Callback)
  /\ WF_media(\/ DecoderOnly /\ Decoder!ChoreographerThread
              \/ SoundOnly /\ (Sound!FiniShut \/ Sound!FiniJoin))
  /\ SF_media(\/ DeliveryOnly /\ Delivery!Arrive(awaited)
              \/ DecoderOnly /\ Decoder!KFrame
              \/ SoundOnly /\ Sound!FiniFree)
  /\ SF_media(\/ DecoderOnly /\ Decoder!ODue
              \/ SoundOnly /\ Sound!HeaderSettings)
  /\ SF_media(DecoderOnly /\ (Decoder!ONothing \/ Decoder!ODequeue))
MediaSpec == MediaInit /\ [][MediaNext]_media /\ MediaFairness
-----------------------------------------------------------------------------
(* Type invariant: of the component the behaviour is about.                 *)
MediaTypeOK ==
  CASE part = "packets" -> TypeOK
    [] part = "delivery" -> Delivery!TypeOK
    [] part = "decoder" -> Decoder!TypeOK
    [] part = "sound" -> Sound!TypeOK
    [] part = "page" -> Page!TypeOK

(* A packet the thread takes from the socket is handed on in its order,     *)
(* between CONNECTED and DISCONNECT, kept or rejected, and its buffer is    *)
(* freed once; a message of the data channel is kept until the other side   *)
(* has it in order, or lost in one of three ways (takion.c:937, 1117, 577). *)
PacketsKept == CallbackOrder /\ NothingForgotten /\ BuffersOwned /\ Delivery!Carried

(* Sound and picture come out once and in order where there is a surface    *)
(* for them, and nobody uses a codec or a buffer that is gone               *)
(* (video-decoder.c:115, circular-buf.hpp:78, StreamSession.kt:550).        *)
OutputSound == Decoder!DecoderSound /\ Sound!AudioSound /\ Page!PlayerSound

(* The connection's thread ends when it is told to, messages arrive or are  *)
(* given up and both sides know, the video decoder can                      *)
(* be shut down at any time and shows or drops what it queued, and the      *)
(* audio player can be freed unless its mutex was left locked.              *)
MediaEnds ==
  []<>CASE part = "packets" -> stopReq => pc \in {"done", "crashed"}
        [] part = "delivery" -> Delivery!Settled
        [] part = "decoder" -> Decoder!Settled
        [] part = "sound" -> Sound!Freed
        [] OTHER -> TRUE
=============================================================================
