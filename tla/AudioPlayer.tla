----------------------------- MODULE AudioPlayer -----------------------------
(***************************************************************************)
(* android/app/src/main/cpp/audio-decoder.c, audio-output.cpp and the       *)
(* buffer between them (circular-buf.hpp, circular-fifo.hpp).  The Takion   *)
(* thread hands audio frames to a MediaCodec, an output thread pushes the   *)
(* samples into the buffer, and the callback of the audio stream pops them, *)
(* without a lock: chunks of the buffer go round through two queues.  The   *)
(* application's thread changes the output device and shuts all down.       *)
(*                                                                         *)
(* A step of the buffer ends at each access to a variable the other side    *)
(* reads: the copy of a piece of a chunk, the item of a queue, its index.   *)
(* Samples are numbers.  Frame 0 is the end of stream; the three pieces of  *)
(* the codec's configuration are Heads frames without samples.  The mutex   *)
(* of the decoder is recursive: depth counts the locks the Takion thread    *)
(* has left behind.  Closing the stream waits for a running callback.       *)
(* History: accepted, the samples there was room for; played.               *)
(***************************************************************************)
EXTENDS Naturals, Sequences, FiniteSets, Functions

CONSTANTS
  Frames, FrameSize,    \* bound: frames; samples of one
  Heads,                \* bound: pieces of the configuration, 3 in the code
  In,                   \* input buffers of the codec
  Chunks, ChunkSize,    \* BUFFER_CHUNKS_COUNT, BUFFER_CHUNK_SIZE
  Request,              \* samples a callback asks for
  Headers, Switches     \* bounds: headers of the stream, changes of the device

VARIABLES
  codec, tpc, depth, todo, fed, headers, inside,    \* the decoder and the Takion thread
  opc, left, push, pushed, arr,                     \* the output thread; contents of the chunks
  full, free,                                       \* the queues
  kpc, want, pop, remains,                          \* the callback
  open, cached, apc, switches,                      \* the stream; the application's thread
  accepted, played

feeding == <<codec, tpc, depth, todo, fed, headers, inside>>
pushing == <<opc, left, push, pushed, arr>>
popping == <<kpc, want, pop, remains>>
control == <<open, cached, apc, switches>>
history == <<accepted, played>>
vars == <<feeding, pushing, full, free, popping, control, history>>

NoChunk == 0
Slots == 0 .. Chunks                     \* Capacity is one more than Size
Fifo(items) == [head |-> 0, tail |-> Len(items),
                item |-> [i \in Slots |-> IF i < Len(items) THEN items[i + 1] ELSE NoChunk]]
Increment(i) == (i + 1) % (Chunks + 1)
Empty(q) == q.head = q.tail
Fits(q) == Increment(q.tail) # q.head
Put(q, c) == [q EXCEPT !.item[q.tail] = c]
Shown(q) == [q EXCEPT !.tail = Increment(@)]
Taken(q) == [q EXCEPT !.head = Increment(@)]
Content(q) ==
  [i \in 1 .. (q.tail + Chunks + 1 - q.head) % (Chunks + 1) |->
     q.item[(q.head + i - 1) % (Chunks + 1)]]

(* FlushChunks: the first chunk is pushed into, the others are free.        *)
Init ==
  /\ codec = FALSE /\ tpc = "idle" /\ depth = 0 /\ todo = 0 /\ fed = 0 /\ headers = 0
  /\ inside = << >>
  /\ opc = "off" /\ left = << >> /\ push = 1 /\ pushed = 0
  /\ arr = [c \in 1 .. Chunks |-> << >>]
  /\ full = Fifo(<< >>) /\ free = Fifo([i \in 1 .. Chunks - 1 |-> i + 1])
  /\ kpc = "idle" /\ want = 0 /\ pop = NoChunk /\ remains = 0
  /\ open = FALSE /\ cached = FALSE /\ apc = "idle" /\ switches = 0
  /\ accepted = << >> /\ played = << >>

-----------------------------------------------------------------------------
(* The Takion thread: android_chiaki_audio_decoder_header and _frame.       *)
EndOfStream == 0
Configuration == Frames + 1

Header ==
  /\ tpc = "idle" /\ headers < Headers
  /\ headers' = headers + 1
  /\ tpc' = IF codec THEN "shut" ELSE "create"
  /\ UNCHANGED <<codec, depth, todo, fed, inside, pushing, full, free, popping, control, history>>

(* shutdown_codec waits for an input buffer and then for the thread.  A     *)
(* codec that has failed gives none, and the thread, which nobody tells of  *)
(* the end, is waited for in vain.                                          *)
HeaderShut ==
  /\ tpc = "shut"
  /\ \/ Len(inside) < In /\ inside' = Append(inside, EndOfStream) /\ tpc' = "join"
     \/ tpc' = "stuck" /\ UNCHANGED inside
  /\ UNCHANGED <<codec, depth, todo, fed, headers, pushing, full, free, popping, control, history>>

HeaderJoin ==
  /\ tpc = "join" /\ opc = "done"
  /\ opc' = "off" /\ codec' = FALSE /\ inside' = << >> /\ tpc' = "create"
  /\ UNCHANGED <<depth, todo, fed, headers, left, push, pushed, arr, full, free, popping, control,
                 history>>

(* Without a codec there is no header either; without a thread the codec is *)
(* deleted, and the configuration is handed to nobody.                      *)
HeaderCreate ==
  /\ tpc = "create"
  /\ \/ codec' = TRUE /\ opc' = "wait" /\ todo' = Heads /\ tpc' = "configure"
     \/ tpc' \in {"idle", "settings"} /\ UNCHANGED <<codec, opc, todo>>
  /\ UNCHANGED <<depth, fed, headers, inside, left, push, pushed, arr, full, free, popping,
                 control, history>>


(* An input buffer for frame f, or none within INPUT_BUFFER_TIMEOUT_MS: the *)
(* call returns and leaves the mutex locked.                                *)
Refused(f) == depth' = depth + 1 /\ UNCHANGED inside
Queued(f) ==
  IF Len(inside) < In THEN inside' = Append(inside, f) /\ UNCHANGED depth ELSE Refused(f)

HeaderConfigure ==
  /\ tpc = "configure"
  /\ IF todo = 0 THEN tpc' = "settings" /\ UNCHANGED <<todo, inside, depth>>
     ELSE Queued(Configuration) /\ todo' = todo - 1 /\ UNCHANGED tpc
  /\ UNCHANGED <<codec, fed, headers, pushing, full, free, popping, control, history>>

(* android_chiaki_audio_output_settings *)
HeaderSettings ==
  /\ tpc = "settings" /\ kpc = "idle"
  /\ cached' = TRUE /\ open' \in BOOLEAN /\ tpc' = "idle"
  /\ UNCHANGED <<codec, depth, todo, fed, headers, inside, pushing, full, free, popping, apc,
                 switches, history>>

Frame ==
  /\ tpc = "idle" /\ fed < Frames
  /\ fed' = fed + 1
  /\ IF codec THEN Queued(fed') ELSE UNCHANGED <<inside, depth>>
  /\ UNCHANGED <<codec, tpc, todo, headers, pushing, full, free, popping, control, history>>

StreamEnds ==
  /\ tpc = "idle" /\ tpc' = "over"
  /\ UNCHANGED <<codec, depth, todo, fed, headers, inside, pushing, full, free, popping, control,
                 history>>

-----------------------------------------------------------------------------
(* The output thread: one frame at a time goes through                      *)
(* android_chiaki_audio_output_frame to CircularBuffer::Push.               *)
Samples(f) ==
  IF f \in 1 .. Frames THEN [i \in 1 .. FrameSize |-> (f - 1) * FrameSize + i] ELSE << >>

Output ==
  /\ opc = "wait" /\ inside # << >>
  /\ inside' = Tail(inside) /\ left' = Samples(Head(inside))
  /\ opc' = IF Head(inside) = EndOfStream THEN "done" ELSE "push"
  /\ UNCHANGED <<codec, tpc, depth, todo, fed, headers, push, pushed, arr, full, free, popping,
                 control, history>>

(* What there is no chunk for is lost.                                      *)
PushTake ==
  /\ opc = "push" /\ left # << >> /\ push = NoChunk
  /\ IF Empty(free) THEN opc' = "wait" /\ left' = << >> /\ UNCHANGED push
     ELSE opc' = "took" /\ push' = free.item[free.head] /\ UNCHANGED left
  /\ UNCHANGED <<feeding, pushed, arr, full, free, popping, control, history>>

PushTook ==
  /\ opc = "took" /\ free' = Taken(free) /\ opc' = "push" /\ pushed' = 0
  /\ UNCHANGED <<feeding, left, push, arr, full, popping, control, history>>

Piece == SubSeq(left, 1, IF Len(left) < ChunkSize - pushed THEN Len(left) ELSE ChunkSize - pushed)
PushCopy ==
  /\ opc = "push" /\ left # << >> /\ push # NoChunk
  /\ arr' = [arr EXCEPT ![push] = SubSeq(@, 1, pushed) \o Piece]
  /\ pushed' = pushed + Len(Piece)
  /\ left' = SubSeq(left, Len(Piece) + 1, Len(left))
  /\ accepted' = accepted \o Piece
  /\ opc' = IF pushed' = ChunkSize THEN "give" ELSE "push"
  /\ UNCHANGED <<feeding, push, full, free, popping, control, played>>

\* Mutant: the index is moved before the chunk is in its slot.
PushGiveEarly ==
  /\ opc = "give" /\ full' = Shown(full) /\ opc' = "gave"
  /\ UNCHANGED <<feeding, left, push, pushed, arr, free, popping, control, history>>
PushGive ==
  /\ opc = "give" /\ full' = Put(full, push) /\ opc' = "gave"
  /\ UNCHANGED <<feeding, left, push, pushed, arr, free, popping, control, history>>
PushGave ==
  /\ opc = "gave" /\ full' = Shown(full) /\ push' = NoChunk /\ opc' = "push"
  /\ UNCHANGED <<feeding, left, pushed, arr, free, popping, control, history>>

PushEnd ==
  /\ opc = "push" /\ left = << >> /\ opc' = "wait"
  /\ UNCHANGED <<feeding, left, push, pushed, arr, full, free, popping, control, history>>

OutputThread == Output \/ PushTake \/ PushTook \/ PushCopy \/ PushGive \/ PushGave \/ PushEnd
-----------------------------------------------------------------------------
(* The callback: AudioOutputCallback::onAudioReady, CircularBuffer::Pop.    *)
Ready ==
  /\ kpc = "idle" /\ open
  /\ kpc' = "pop" /\ want' = Request
  /\ UNCHANGED <<feeding, pushing, full, free, pop, remains, control, history>>

(* What is missing is silence.                                              *)
PopTake ==
  /\ kpc = "pop" /\ want > 0 /\ pop = NoChunk
  /\ IF Empty(full) THEN kpc' = "idle" /\ want' = 0 /\ UNCHANGED pop
     ELSE kpc' = "took" /\ pop' = full.item[full.head] /\ UNCHANGED want
  /\ UNCHANGED <<feeding, pushing, full, free, remains, control, history>>

PopTook ==
  /\ kpc = "took" /\ full' = Taken(full) /\ kpc' = "pop" /\ remains' = ChunkSize
  /\ UNCHANGED <<feeding, pushing, free, want, pop, control, history>>

PopCopy ==
  /\ kpc = "pop" /\ want > 0 /\ pop # NoChunk
  /\ LET n == IF want < remains THEN want ELSE remains
         from == ChunkSize - remains
     IN /\ played' = played \o SubSeq(arr[pop], from + 1, from + n)
        /\ remains' = remains - n /\ want' = want - n
  /\ kpc' = IF remains' = 0 THEN "give" ELSE "pop"
  /\ UNCHANGED <<feeding, pushing, full, free, pop, control, accepted>>

PopGive ==
  /\ kpc = "give" /\ free' = Put(free, pop) /\ kpc' = "gave"
  /\ UNCHANGED <<feeding, pushing, full, want, pop, remains, control, history>>
PopGave ==
  /\ kpc = "gave" /\ free' = Shown(free) /\ pop' = NoChunk /\ kpc' = "pop"
  /\ UNCHANGED <<feeding, pushing, full, want, remains, control, history>>

PopEnd ==
  /\ kpc = "pop" /\ want = 0 /\ kpc' = "idle"
  /\ UNCHANGED <<feeding, pushing, full, free, want, pop, remains, control, history>>

Callback == PopTake \/ PopTook \/ PopCopy \/ PopGive \/ PopGave \/ PopEnd
-----------------------------------------------------------------------------
(* The application's thread: android_chiaki_audio_output_set_device_id, and *)
(* sessionFree, which follows the end of the session.                       *)

(* Only a stream that is open is opened again; when that fails, nothing     *)
(* opens it before the next header.                                         *)
SetDevice ==
  /\ apc = "idle" /\ switches < Switches
  /\ switches' = switches + 1
  /\ IF open /\ cached THEN kpc = "idle" /\ open' \in BOOLEAN ELSE UNCHANGED open
  /\ UNCHANGED <<feeding, pushing, full, free, popping, cached, apc, history>>

Fini ==
  /\ apc = "idle" /\ tpc = "over"
  /\ apc' = IF codec THEN "shut" ELSE "free"
  /\ UNCHANGED <<feeding, pushing, full, free, popping, open, cached, switches, history>>

FiniShut ==
  /\ apc = "shut" /\ depth = 0
  /\ \/ Len(inside) < In /\ inside' = Append(inside, EndOfStream) /\ apc' = "join"
     \/ apc' = "stuck" /\ UNCHANGED inside
  /\ UNCHANGED <<codec, tpc, depth, todo, fed, headers, pushing, full, free, popping, open, cached,
                 switches, history>>

FiniJoin ==
  /\ apc = "join" /\ opc = "done" /\ opc' = "off"
  /\ codec' = FALSE /\ inside' = << >> /\ apc' = "free"
  /\ UNCHANGED <<tpc, depth, todo, fed, headers, left, push, pushed, arr, full, free, popping,
                 open, cached, switches, history>>

FiniFree ==
  /\ apc = "free" /\ kpc = "idle"
  /\ open' = FALSE /\ apc' = "gone"
  /\ UNCHANGED <<feeding, pushing, full, free, popping, cached, switches, history>>

Feeding == HeaderShut \/ HeaderJoin \/ HeaderCreate \/ HeaderConfigure \/ HeaderSettings
Freeing == FiniShut \/ FiniJoin \/ FiniFree

Next ==
  \/ Header \/ Feeding \/ Frame \/ StreamEnds
  \/ OutputThread \/ Ready \/ Callback
  \/ SetDevice \/ Fini \/ Freeing
-----------------------------------------------------------------------------
(* Type invariant. *)
TypeOK ==
  /\ {codec, open, cached} \subseteq BOOLEAN
  /\ tpc \in {"idle", "shut", "join", "create", "configure", "settings", "over", "stuck"}
  /\ depth \in Nat /\ todo \in 0 .. Heads /\ fed \in 0 .. Frames /\ headers \in 0 .. Headers
  /\ inside \in Seq(0 .. Frames + 1) /\ Len(inside) <= In
  /\ opc \in {"off", "wait", "push", "took", "give", "gave", "done"}
  /\ {push, pop} \subseteq 0 .. Chunks /\ {pushed, remains} \subseteq 0 .. ChunkSize
  /\ {full.head, full.tail, free.head, free.tail} \subseteq Slots
  /\ kpc \in {"idle", "pop", "took", "give", "gave"} /\ want \in 0 .. Request
  /\ apc \in {"idle", "shut", "join", "free", "gone", "stuck"} /\ switches \in 0 .. Switches

(* The chunks of the queues, but for one whose reader has it already.       *)
FullOnes == IF kpc = "took" THEN Tail(Content(full)) ELSE Content(full)
FreeOnes == IF opc = "took" THEN Tail(Content(free)) ELSE Content(free)
Held(c) == IF c = NoChunk THEN << >> ELSE <<c>>

(* A chunk belongs to one side at a time: to the one that fills it, to the  *)
(* one that plays it, or to one of the queues.                              *)
ChunksOwned ==
  LET all == FullOnes \o FreeOnes \o Held(push) \o Held(pop)
  IN Len(all) = Chunks /\ Range(all) = 1 .. Chunks

(* The queues have room for all chunks, as circular-buf.hpp:102 and :139    *)
(* assert.                                                                  *)
AlwaysRoom == (opc = "give" => Fits(full)) /\ (kpc = "give" => Fits(free))

(* What was accepted is played in order: each sample once, none that was    *)
(* written over in between.                                                 *)
Pending ==
  LET rest == IF pop = NoChunk \/ kpc \in {"took", "gave"} \/ remains = 0 THEN << >>
              ELSE SubSeq(arr[pop], ChunkSize - remains + 1, ChunkSize)
      now == IF kpc = "took" THEN arr[pop] ELSE rest
      last == IF push = NoChunk \/ opc = "took" THEN << >> ELSE SubSeq(arr[push], 1, pushed)
      all[i \in 0 .. Len(FullOnes)] == IF i = 0 THEN now ELSE all[i - 1] \o arr[FullOnes[i]]
  IN all[Len(FullOnes)] \o last
PlayedInOrder == played \o Pending = accepted

(* Nobody uses the codec or the buffer when they are gone.                  *)
NoneLeft ==
  /\ ~codec => opc = "off"
  /\ apc = "gone" => opc = "off" /\ kpc = "idle"

(* Audio goes through the buffer in order, without a lock, and every thread *)
(* lets go of it before it is freed (circular-buf.hpp:78, chiaki-jni.c:963). *)
AudioSound == ChunksOwned /\ AlwaysRoom /\ PlayedInOrder /\ NoneLeft

(* The session can be freed, unless a frame ever found no input buffer:     *)
(* then the decoder's mutex still belongs to a thread that has ended; or    *)
(* the codec has failed, so that its thread never ends                      *)
(* (audio-decoder.c:46).                                                    *)
Freed == apc \in {"idle", "gone", "stuck"} \/ depth > 0
=============================================================================
