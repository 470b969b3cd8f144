---------------------------- MODULE VideoDecoder ----------------------------
(***************************************************************************)
(* android/app/src/main/cpp/video-decoder.c: the frames of the stream go    *)
(* through a MediaCodec to a surface.  Four threads meet under codec_mutex: *)
(* the Takion thread hands frames in, an output thread takes decoded ones   *)
(* out, a choreographer thread shows one at each vsync when the pacing is   *)
(* BALANCED, and the application's thread sets and removes the surface.     *)
(*                                                                         *)
(* Frames are numbers and fit into one input buffer.  "direct" stands for   *)
(* the three pacings without a queue, which differ in the time a frame is   *)
(* released for.  chiaki_mutex sections are atomic, but for the wait for an *)
(* input buffer, which holds the mutex (spc = "wait").  An error of the     *)
(* codec, a thread that cannot be created and a frame that is not due yet   *)
(* are choices.  End of stream is left out, as nothing signals it, and so   *)
(* are statistics and choreographer_looper, whose waking only shortens      *)
(* waits of 16 ms.  kill_decoder without a codec has nothing to do, because *)
(* there are no threads then (see NoOrphans).                               *)
(* History: released, the frames that were given back to the codec or       *)
(* refused; shown, the latest one on the surface; late, that an older one   *)
(* came after it; switched, that the pacing of a codec was changed.         *)
(***************************************************************************)
EXTENDS Naturals, Sequences, FiniteSets, Functions

CONSTANTS
  Frames,       (* bound: frames of the stream                               *)
  In, Out,      (* input and output buffers of the codec                     *)
  Limit,        (* OUTPUT_BUFFER_QUEUE_LIMIT                                 *)
  Calls         (* bound: how often a surface is set or removed              *)

VARIABLES
  codec, pacing, dropPending, shutOut, shutChor, outStarted, chorStarted, request, queue,
  opc,          (* the output thread                                         *)
  use, paced,   (* what it read of frame_pacing and choreographer_thread_started *)
  hand,         (* the output buffer it holds, or 0                          *)
  kpc, posts, chand,  (* the choreographer thread, its frame callbacks, its buffer *)
  spc, fed,     (* the Takion thread; frames so far                          *)
  apc, fini, calls, switched,   (* the application's thread                  *)
  inside, ready, released, shown, late

decoder == <<codec, pacing, dropPending, shutOut, shutChor, outStarted, chorStarted, request>>
output == <<opc, use, paced, hand>>
vsync == <<kpc, posts, chand>>
feed == <<spc, fed>>
app == <<apc, fini, calls, switched>>
buffers == <<inside, ready, released>>
screen == <<shown, late>>
vars == <<decoder, queue, output, vsync, feed, app, buffers, screen>>

(* android_chiaki_video_decoder_init *)
Init ==
  /\ codec = FALSE /\ pacing = "direct" /\ dropPending = FALSE
  /\ shutOut = FALSE /\ shutChor = FALSE /\ outStarted = FALSE /\ chorStarted = FALSE
  /\ request = FALSE /\ queue = << >>
  /\ opc = "off" /\ use = "direct" /\ paced = FALSE /\ hand = 0
  /\ kpc = "off" /\ posts = 0 /\ chand = 0
  /\ spc = "idle" /\ fed = 0
  /\ apc = "idle" /\ fini = FALSE /\ calls = 0 /\ switched = FALSE
  /\ inside = << >> /\ ready = << >> /\ released = {}
  /\ shown = 0 /\ late = FALSE

MutexFree == spc # "wait"

-----------------------------------------------------------------------------
(* The application: set_surface with and without a surface, and fini.       *)

Created ==
  /\ codec' = TRUE /\ outStarted' = TRUE /\ opc' = "top"
  /\ shutChor' = FALSE
  /\ \E ok \in BOOLEAN : chorStarted' = ok /\ kpc' = IF ok THEN "check" ELSE "off"

\* Mutant: what was decoded for the old pacing stays queued.
SurfaceKeeping(p) ==
  /\ pacing' = p /\ UNCHANGED dropPending
  /\ request' = (p = "balanced")

(* What set_surface does first, whether or not there is a codec.            *)
Surface(p) ==
  /\ pacing' = p /\ dropPending' = TRUE
  /\ request' = (p = "balanced")

SetSurface ==
  /\ apc = "idle" /\ calls < Calls /\ MutexFree
  /\ \E p \in {"balanced", "direct"} :
       /\ Surface(p)
       /\ switched' = (switched \/ (codec /\ p # pacing))
  /\ \/ ~codec /\ Created
     \/ UNCHANGED <<codec, outStarted, opc, shutChor, chorStarted, kpc>>
  /\ calls' = calls + 1
  /\ UNCHANGED <<shutOut, queue, use, paced, hand, posts, chand, feed, apc, fini, buffers, screen>>

KillBegin ==
  /\ apc = "idle" /\ MutexFree
  /\ \/ calls < Calls /\ fini' = FALSE
     \/ spc = "over" /\ fini' = TRUE
  /\ calls' = IF fini' THEN calls ELSE calls + 1
  /\ IF codec \/ outStarted \/ chorStarted
     THEN /\ shutOut' = TRUE /\ shutChor' = TRUE
          /\ request' = FALSE /\ dropPending' = TRUE
          /\ outStarted' = FALSE /\ chorStarted' = FALSE
          /\ apc' = "joinChor"
     ELSE /\ apc' = IF fini' THEN "gone" ELSE "idle"
          /\ UNCHANGED <<shutOut, shutChor, request, dropPending, outStarted, chorStarted>>
  /\ UNCHANGED <<codec, pacing, queue, output, vsync, feed, switched, buffers, screen>>

JoinChor ==
  /\ apc = "joinChor" /\ kpc \in {"off", "done"}
  /\ kpc' = "off" /\ apc' = "joinOut"
  /\ UNCHANGED <<decoder, queue, output, posts, chand, feed, fini, calls, switched, buffers, screen>>

JoinOut ==
  /\ apc = "joinOut" /\ opc \in {"off", "done"}
  /\ opc' = "off" /\ apc' = "end"
  /\ UNCHANGED <<decoder, queue, use, paced, hand, vsync, feed, fini, calls, switched, buffers,
                 screen>>

KillEnd ==
  /\ apc = "end" /\ MutexFree
  /\ codec' = FALSE
  /\ shutOut' = FALSE /\ shutChor' = FALSE /\ request' = FALSE /\ dropPending' = FALSE
  /\ released' = released \cup Range(queue) \cup Range(inside) \cup Range(ready)
  /\ queue' = << >> /\ inside' = << >> /\ ready' = << >>
  /\ apc' = IF fini THEN "gone" ELSE "idle"
  /\ UNCHANGED <<pacing, outStarted, chorStarted, output, vsync, feed, fini, calls, switched, screen>>

Kill == JoinChor \/ JoinOut \/ KillEnd
-----------------------------------------------------------------------------
(* The Takion thread: android_chiaki_video_decoder_video_sample; lost says  *)
(* that frames before this one are missing and it does not recover.         *)
Sample ==
  /\ spc = "idle" /\ fed < Frames
  /\ fed' = fed + 1
  /\ \E lost \in BOOLEAN : dropPending' = (dropPending \/ lost)
  /\ IF codec THEN spc' = "wait" /\ UNCHANGED released
     ELSE spc' = "idle" /\ released' = released \cup {fed'}
  /\ UNCHANGED <<codec, pacing, shutOut, shutChor, outStarted, chorStarted, request, queue,
                 output, vsync, app, inside, ready, screen>>

SampleQueued ==
  /\ spc = "wait" /\ Len(inside) < In
  /\ inside' = Append(inside, fed) /\ spc' = "idle"
  /\ UNCHANGED <<decoder, queue, output, vsync, fed, app, ready, released, screen>>

(* No input buffer became free in INPUT_BUFFER_TIMEOUT_MS, or the codec     *)
(* does not take it.                                                        *)
SampleRefused ==
  /\ spc = "wait"
  /\ released' = released \cup {fed} /\ spc' = "idle"
  /\ UNCHANGED <<decoder, queue, output, vsync, fed, app, inside, ready, screen>>

StreamEnds ==
  /\ spc = "idle" /\ spc' = "over"
  /\ UNCHANGED <<decoder, queue, output, vsync, fed, app, buffers, screen>>

Feeding == Sample \/ SampleQueued \/ SampleRefused
-----------------------------------------------------------------------------
(* The codec, which has Out buffers to decode into.                         *)
Holds(f) == IF f = 0 THEN {} ELSE {f}
Decoded == Range(ready) \cup Range(queue) \cup Holds(hand) \cup Holds(chand)
Decode ==
  /\ inside # << >> /\ Cardinality(Decoded) < Out
  /\ ready' = Append(ready, Head(inside)) /\ inside' = Tail(inside)
  /\ UNCHANGED <<decoder, queue, output, vsync, feed, app, released, screen>>

(* release_output_buffer with render.                                       *)
Show(f) ==
  /\ shown' = f /\ late' = (late \/ f < shown)
  /\ released' = released \cup {f}

-----------------------------------------------------------------------------
(* The output thread.                                                       *)
OTop ==
  /\ opc = "top" /\ MutexFree
  /\ use' = pacing /\ paced' = chorStarted /\ dropPending' = FALSE
  /\ opc' = IF shutOut THEN "exit" ELSE IF dropPending THEN "clear" ELSE "dequeue"
  /\ UNCHANGED <<codec, pacing, shutOut, shutChor, outStarted, chorStarted, request, queue,
                 hand, vsync, feed, app, buffers, screen>>

(* clear_output_queue: before the pending buffers are dropped, and at the   *)
(* end of the thread.                                                       *)
OClear ==
  /\ opc \in {"clear", "exit"} /\ MutexFree
  /\ released' = released \cup Range(queue) /\ queue' = << >>
  /\ opc' = IF opc = "clear" THEN "drop" ELSE "done"
  /\ UNCHANGED <<decoder, use, paced, hand, vsync, feed, app, inside, ready, screen>>

ODrop ==
  /\ opc = "drop"
  /\ IF ready = << >> THEN opc' = "dequeue" /\ UNCHANGED <<ready, released>>
     ELSE opc' = opc /\ ready' = Tail(ready) /\ released' = released \cup {Head(ready)}
  /\ UNCHANGED <<decoder, queue, use, paced, hand, vsync, feed, app, inside, screen>>

ODequeue ==
  /\ opc = "dequeue" /\ ready # << >>
  /\ hand' = Head(ready) /\ ready' = Tail(ready)
  /\ opc' = IF use = "balanced" THEN "push" ELSE "drain"
  /\ UNCHANGED <<decoder, queue, use, paced, vsync, feed, app, inside, released, screen>>

ONothing ==
  /\ opc = "dequeue"
  /\ opc' = IF use = "balanced" /\ ~paced THEN "pace" ELSE "top"
  /\ UNCHANGED <<decoder, queue, use, paced, hand, vsync, feed, app, buffers, screen>>

OError ==
  /\ opc = "dequeue" /\ MutexFree
  /\ opc' = IF shutOut THEN "exit" ELSE "top"
  /\ UNCHANGED <<decoder, queue, use, paced, hand, vsync, feed, app, buffers, screen>>

\* Mutant: the oldest buffer is overwritten but not given back.
PushedLeaking == queue' = Append(IF Len(queue) = Limit THEN Tail(queue) ELSE queue, hand)
                 /\ UNCHANGED released
(* push_output_queue_locked *)
Pushed ==
  IF Len(queue) = Limit
  THEN queue' = Append(Tail(queue), hand) /\ released' = released \cup {Head(queue)}
  ELSE queue' = Append(queue, hand) /\ UNCHANGED released

OPush ==
  /\ opc = "push" /\ MutexFree
  /\ Pushed /\ hand' = 0
  /\ opc' = IF paced THEN "top" ELSE "pace"
  /\ UNCHANGED <<decoder, use, paced, vsync, feed, app, inside, ready, screen>>

(* maybe_render_balanced_frame: a frame that is due is shown.               *)
ODue ==
  /\ opc = "pace" /\ MutexFree /\ queue # << >>
  /\ hand' = Head(queue) /\ queue' = Tail(queue) /\ opc' = "render"
  /\ UNCHANGED <<decoder, use, paced, vsync, feed, app, buffers, screen>>
OEarly ==
  /\ opc = "pace" /\ MutexFree /\ opc' = "top"
  /\ UNCHANGED <<decoder, queue, use, paced, hand, vsync, feed, app, buffers, screen>>

(* Of the frames that are decoded by now the latest is shown.               *)
ODrain ==
  /\ opc = "drain"
  /\ IF ready = << >> THEN opc' = "render" /\ UNCHANGED <<ready, released, hand>>
     ELSE /\ released' = released \cup {hand}
          /\ hand' = Head(ready) /\ ready' = Tail(ready) /\ opc' = opc
  /\ UNCHANGED <<decoder, queue, use, paced, vsync, feed, app, inside, screen>>

ORender ==
  /\ opc = "render" /\ Show(hand) /\ hand' = 0 /\ opc' = "top"
  /\ UNCHANGED <<decoder, queue, use, paced, vsync, feed, app, inside, ready>>

OutputThread ==
  \/ OTop \/ OClear \/ ODrop \/ ODequeue \/ ONothing \/ OError
  \/ OPush \/ ODue \/ OEarly \/ ODrain \/ ORender
-----------------------------------------------------------------------------
(* The choreographer thread and its frame callback.                         *)

KCheck ==
  /\ kpc = "check" /\ MutexFree
  /\ IF shutChor THEN kpc' = "done" /\ posts' = 0 /\ UNCHANGED request
     ELSE IF request /\ pacing = "balanced" /\ codec
     THEN kpc' = "post" /\ request' = FALSE /\ UNCHANGED posts
     ELSE kpc' = "poll" /\ UNCHANGED <<posts, request>>
  /\ UNCHANGED <<codec, pacing, dropPending, shutOut, shutChor, outStarted, chorStarted, queue,
                 output, chand, feed, app, buffers, screen>>

KPost ==
  /\ kpc \in {"post", "again"}
  /\ posts' = posts + 1
  /\ kpc' = IF kpc = "post" THEN "poll" ELSE "check"
  /\ UNCHANGED <<decoder, queue, output, chand, feed, app, buffers, screen>>

KPoll ==
  /\ kpc = "poll" /\ kpc' = "check"
  /\ UNCHANGED <<decoder, queue, output, posts, chand, feed, app, buffers, screen>>

KFrame ==
  /\ kpc = "poll" /\ posts > 0 /\ MutexFree
  /\ posts' = posts - 1
  /\ IF shutChor \/ pacing # "balanced" \/ ~codec THEN kpc' = "check" /\ UNCHANGED <<queue, chand>>
     ELSE IF queue = << >> THEN kpc' = "again" /\ UNCHANGED <<queue, chand>>
     ELSE kpc' = "show" /\ chand' = Head(queue) /\ queue' = Tail(queue)
  /\ UNCHANGED <<decoder, output, feed, app, buffers, screen>>

KShow ==
  /\ kpc = "show" /\ Show(chand) /\ chand' = 0 /\ kpc' = "again"
  /\ UNCHANGED <<decoder, queue, output, posts, feed, app, inside, ready>>

ChoreographerThread == KCheck \/ KPost \/ KPoll \/ KFrame \/ KShow

Next ==
  \/ SetSurface \/ KillBegin \/ Kill
  \/ Feeding \/ StreamEnds \/ Decode
  \/ OutputThread \/ ChoreographerThread
-----------------------------------------------------------------------------
(* Type invariant. *)
TypeOK ==
  /\ {codec, dropPending, shutOut, shutChor, outStarted, chorStarted, request, paced, fini,
      switched, late} \subseteq BOOLEAN
  /\ {pacing, use} \subseteq {"balanced", "direct"}
  /\ queue \in Seq(1 .. Frames) /\ Len(queue) <= Limit
  /\ opc \in {"off", "top", "clear", "drop", "dequeue", "push", "pace", "drain", "render",
              "exit", "done"}
  /\ kpc \in {"off", "check", "post", "poll", "show", "again", "done"}
  /\ posts \in 0 .. Calls
  /\ spc \in {"idle", "wait", "over"} /\ apc \in {"idle", "joinChor", "joinOut", "end", "gone"}
  /\ {fed, hand, chand, shown} \subseteq 0 .. Frames /\ calls \in 0 .. Calls
  /\ inside \in Seq(1 .. Frames) /\ ready \in Seq(1 .. Frames) /\ released \subseteq 1 .. Frames

(* A thread that uses the codec outlives it never: no codec, no thread, and *)
(* no buffer of it in anyone's hands.                                       *)
NoOrphans == ~codec => opc = "off" /\ kpc = "off" /\ Decoded = {}

Held(f) == IF f = 0 THEN << >> ELSE <<f>>
(* Every frame that came in is in one place until it is given back, once.   *)
EachOnce ==
  LET all == inside \o ready \o queue \o Held(hand) \o Held(chand)
  IN /\ IsInjective(all)
     /\ Range(all) \cap released = {}
     /\ Range(all) \cup released \cup (IF spc = "wait" THEN {fed} ELSE {}) = 1 .. fed

(* What was queued for the vsync is not kept when nobody pops it any more.  *)
StaleGone == pacing = "direct" /\ queue # << >> => dropPending \/ opc \in {"clear", "exit"}

(* As long as frames wait for the vsync, someone asks for the next one.     *)
VsyncAsked ==
  codec /\ pacing = "balanced" /\ chorStarted =>
    request \/ posts > 0 \/ kpc \in {"post", "show", "again"}

(* Frames are shown in order, but for the one that is in the choreographer's *)
(* hands when the pacing is switched.                                       *)
InOrder == late => switched

(* Every frame is given back to the codec once and shown in order, for as   *)
(* long as the codec is there (video-decoder.c:115, 241).                   *)
DecoderSound == NoOrphans /\ EachOnce /\ StaleGone /\ VsyncAsked /\ InOrder

(* The decoder can be shut down at any time, and no frame waits for ever.   *)
Settled == apc \in {"idle", "gone"} /\ queue = << >>
=============================================================================
