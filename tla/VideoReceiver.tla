---------------------------- MODULE VideoReceiver ---------------------------
(***************************************************************************)
(* lib/src/videoreceiver.c with lib/src/frameprocessor.c: the units of     *)
(* video frames arrive lost, duplicated and out of order; a frame that can *)
(* be put together, with the help of its FEC units, goes to the decoder,   *)
(* and the console is told which frames are missing or cannot be decoded.  *)
(*                                                                         *)
(* A call of chiaki_video_receiver_av_packet is one action (the Takion     *)
(* thread is its only caller).  rcv is the ChiakiVideoReceiver with its    *)
(* frame processor: a function of rcv models each function of the code.    *)
(* The fields curU, completeU, told, accepted and last are history: the    *)
(* numbers behind frame_index_cur and frame_index_prev_complete if frames  *)
(* were not numbered modulo 2^16, the frames reported corrupt, those the   *)
(* decoder accepted, and the frame it was handed last.                     *)
(*                                                                         *)
(* Packets are well formed, and every frame has the same number of units.  *)
(* What a unit contains is left out but for the reference of the slice and *)
(* how the decoder takes it, which are choices.                            *)
(***************************************************************************)
EXTENDS SeqNum, Sequences, FiniteSets, Functions

CONSTANTS
  Source, Fec,  (* source and FEC units of every frame                       *)
  Refs,         (* length of reference_frames, 16 in the code                *)
  SwitchAt,     (* the first frame of the second profile                     *)
  Gap,          (* bound: fewer frames in a row are lost or refused          *)
  MaxFrame      (* bound: frames above it never come                         *)

VARIABLE rcv

-----------------------------------------------------------------------------
FecSlots == IF Fec < 1 THEN 1 ELSE Fec
SlotIds == 0 .. Source + FecSlots - 1
UnitIds == 0 .. Source + Fec - 1         \* unit_index of the packets
Empty == -1                              \* a slot with data_size 0
None == -1                               \* reference_frame 0xff: no reference
ProfileOf(n) == IF n < SwitchAt THEN 0 ELSE 1

Init ==
  rcv = [cur |-> -1, prev |-> -1, complete |-> 0, profile |-> -1,
         lost |-> 0, refs |-> << >>,
         units |-> [i \in SlotIds |-> Empty], nsource |-> 0, nfec |-> 0,
         curU |-> 0, completeU |-> 0, told |-> {}, accepted |-> {},
         last |-> [frame |-> 0, ref |-> None, profile |-> 0, whole |-> TRUE]]

(* stream_connection_send_corrupt_frame for the wrapped frames from .. to.  *)
Tell(r, from, to) ==
  [r EXCEPT !.told = @ \cup
     { r.completeU + ((from - r.complete) % SeqMod) + i : i \in 0 .. (to - from) % SeqMod }]

\* Mutant: the last complete frame is reported, too.
ExpectedAgain(r) == r.complete
(* next_frame_expected *)
Expected(r) == Wrap(r.complete + 1)

-----------------------------------------------------------------------------
(* The frame processor.                                                     *)

Alloc(r) == [r EXCEPT !.nsource = 0, !.nfec = 0, !.units = [i \in SlotIds |-> Empty]]

(* chiaki_frame_processor_put_unit; the slot remembers whose unit it holds. *)
Put(r, n, i) ==
  IF r.units[i] # Empty THEN r           \* duplicate
  ELSE IF i < Source
       THEN [r EXCEPT !.units[i] = n, !.nsource = @ + 1]
       ELSE [r EXCEPT !.units[i] = n, !.nfec = @ + 1]

\* Mutant: FEC units do not count.
FlushPossibleSource(r) == r.nsource >= Source
FlushPossible(r) == r.nsource + r.nfec >= Source

(* chiaki_fec_decode, called unless all source units are there, restores    *)
(* them if no more slots are empty than there are FEC slots.                *)
Decodable(r) ==
  \/ r.nsource >= Source
  \/ Cardinality({ i \in SlotIds : r.units[i] = Empty }) <= FecSlots

Restored(r) ==
  [r EXCEPT !.units = [i \in SlotIds |-> IF i < Source /\ @[i] = Empty THEN r.curU ELSE @[i]]]

-----------------------------------------------------------------------------
(* chiaki_video_receiver_flush_frame: the results it can have.              *)

HaveRef(r, d) == Wrap(r.cur - d - 1) \in Range(r.refs)

\* Mutant: the list of references never drops one.
AddRefForever(r) == [r EXCEPT !.refs = <<r.cur>> \o @]

(* add_ref_frame: newest first; the array is filled from its far end.       *)
AddRef(r) ==
  [r EXCEPT !.refs = SubSeq(<<r.cur>> \o @, 1, IF Len(@) < Refs THEN Len(@) + 1 ELSE Refs)]

(* FEC failed: everything since the last complete frame is corrupt.         *)
Failed(r) ==
  [Tell(r, Expected(r), r.cur) EXCEPT !.lost = @ + r.cur - Expected(r) + 1, !.prev = r.cur]

(* No frame it refers to is there, or its slice could not be rewritten.     *)
Unfit(r) == [r EXCEPT !.lost = @ + 1, !.prev = r.cur]

\* Mutant: a frame the decoder refused becomes a reference.
HandedRef(r, d, takes) ==
  LET h == [r EXCEPT !.lost = 0, !.prev = r.cur,
                     !.last = [frame |-> r.curU, profile |-> r.profile,
                               ref |-> IF d = None THEN None ELSE r.curU - d - 1,
                               whole |-> \A i \in SlotIds : i < Source => r.units[i] = r.curU]]
  IN IF takes THEN [AddRef(h) EXCEPT !.complete = r.cur, !.completeU = r.curU,
                                     !.accepted = @ \cup {r.curU}]
              ELSE AddRef(h)

(* The frame goes to video_sample_cb with its reference d frames further    *)
(* back than the one before it; the decoder takes it or not.                *)
Handed(r, d, takes) ==
  LET h == [r EXCEPT !.lost = 0, !.prev = r.cur,
                     !.last = [frame |-> r.curU, profile |-> r.profile,
                               ref |-> IF d = None THEN None ELSE r.curU - d - 1,
                               whole |-> \A i \in SlotIds : i < Source => r.units[i] = r.curU]]
  IN IF takes THEN [AddRef(h) EXCEPT !.complete = r.cur, !.completeU = r.curU,
                                     !.accepted = @ \cup {r.curU}]
              ELSE h

(* The reference a slice that names d is decoded with: d itself or the      *)
(* nearest one further back that is there.                                  *)
Usable(r, d) ==
  IF d = None \/ HaveRef(r, d) THEN {d}
  ELSE LET older == { e \in d + 1 .. Refs - 1 : HaveRef(r, e) }
       IN { e \in older : \A f \in older : e <= f }

Flushes(r) ==
  IF ~Decodable(r) THEN {Failed(r)}
  ELSE LET w == Restored(r)
       IN UNION { { Handed(w, e, takes) : e \in Usable(w, d), takes \in BOOLEAN }
                    \cup (IF d \in Usable(w, d) THEN {} ELSE {Unfit(w)})
                  : d \in {None} \cup 0 .. Refs }

-----------------------------------------------------------------------------
(* chiaki_video_receiver_av_packet for unit i of frame n.                   *)

Old(r, n) == r.cur >= 0 /\ SeqLt(Wrap(n), r.cur)

(* Switch to the profile of the packet; its header goes to the decoder.     *)
WithProfile(r, n) == [r EXCEPT !.profile = ProfileOf(n)]

NextFrame(r, n) == r.cur < 0 \/ SeqGt(Wrap(n), r.cur)

LateFlush(r) == IF r.cur >= 0 /\ r.prev # r.cur THEN Flushes(r) ELSE {r}

\* Mutant: only the frames since the last one are reported.
BegunFromCur(r, n) ==
  LET s == Wrap(n)
      m == IF r.cur >= 0 /\ SeqGt(s, Wrap(r.cur + 1)) THEN Tell(r, Wrap(r.cur + 1), s - 1) ELSE r
  IN Alloc([m EXCEPT !.cur = s, !.curU = n])

(* The frames missing before n are reported, and n becomes the frame being  *)
(* built.  The report is skipped for frame 1 when it is the first.          *)
Begun(r, n) ==
  LET s == Wrap(n)
      gap == SeqGt(s, Expected(r)) /\ ~(s = 1 /\ r.cur < 0)
      m == IF gap THEN Tell(r, Expected(r), s - 1) ELSE r
  IN Alloc([m EXCEPT !.cur = s, !.curU = n])

Entered(r, n) ==
  IF NextFrame(r, n) THEN { Begun(f, n) : f \in LateFlush(r) } ELSE {r}

Flushed(r, i) ==
  IF r.cur # r.prev /\ (FlushPossible(r) \/ i = Source + Fec - 1) THEN Flushes(r) ELSE {r}

AVPacket(n, i) ==
  /\ ~Old(rcv, n)
  /\ \E r \in Entered(WithProfile(rcv, n), n) : rcv' \in Flushed(Put(r, n, i), i)

OldPacket(n) == Old(rcv, n) /\ UNCHANGED rcv

(* The frames that can arrive: their wrapped numbers are unambiguous as     *)
(* long as the last complete frame is less than half the space behind, and  *)
(* those of the references as long as all of them together are in it.       *)
Near(n) ==
  /\ n - rcv.completeU < Gap
  /\ n > rcv.curU - Half

Next ==
  \E n \in 1 .. MaxFrame, i \in UnitIds : Near(n) /\ (AVPacket(n, i) \/ OldPacket(n))

Spec == Init /\ [][Next]_rcv

-----------------------------------------------------------------------------
(* Properties.                                                              *)

(* Type invariant; among others reference_frames never holds more frames    *)
(* than it has room for.                                                    *)
TypeOK ==
  /\ rcv.cur \in SeqNums \cup {-1} /\ rcv.prev \in SeqNums \cup {-1}
  /\ rcv.complete \in SeqNums /\ rcv.profile \in {-1, 0, 1}
  /\ rcv.lost \in Int
  /\ Range(rcv.refs) \subseteq SeqNums /\ Len(rcv.refs) \in 0 .. Refs
  /\ rcv.units \in [SlotIds -> {Empty} \cup 1 .. MaxFrame]
  /\ rcv.nsource \in 0 .. Source /\ rcv.nfec \in 0 .. FecSlots
  /\ rcv.told \subseteq 0 .. MaxFrame /\ rcv.accepted \subseteq 1 .. MaxFrame

Building == rcv.cur # rcv.prev

(* The counters of the frame being built are the number of its filled       *)
(* slots: what frameprocessor.c:229 asserts and the size of the array of    *)
(* erasures relies on.                                                      *)
CountsRight ==
  Building => rcv.nsource + rcv.nfec = Cardinality({ i \in SlotIds : rcv.units[i] # Empty })

(* A frame goes to the decoder as soon as enough of its units are there: it *)
(* is not being built any more then.  Hence the late flush of a frame whose *)
(* successor has begun never has a frame to hand.                           *)
EnoughFlushed == Building => rcv.nsource + rcv.nfec < Source

(* A frame handed to the decoder is not built, and not handed, again.       *)
HandedOnce == Building => rcv.last.frame # rcv.curU

(* The frame being built: its counters are right, it lacks units, and it    *)
(* was not handed to the decoder yet.                                       *)
FrameInProgress == CountsRight /\ EnoughFlushed /\ HandedOnce

(* What the decoder is handed consists of units of that frame only,         *)
(* whatever old or duplicate units came in between.                         *)
FrameWhole == rcv.last.whole

(* The decoder has the header of the profile a frame was encoded with: no   *)
(* frame of the old profile follows the header of the new one.              *)
HeaderMatches == rcv.last.profile = ProfileOf(rcv.last.frame) \/ rcv.last.frame = 0

(* The reference a handed frame is decoded with is a frame the decoder has  *)
(* accepted, also when the slice was rewritten to refer to another one.     *)
DecodableRef == rcv.last.ref # None => rcv.last.ref \in rcv.accepted

(* What the decoder is handed it can decode. *)
HandedDecodable == FrameWhole /\ HeaderMatches /\ DecodableRef

(* Every frame between the last complete one and the current one has been   *)
(* reported to the console, so that it will send a frame to recover with.   *)
NoSilentGap == rcv.completeU + 1 .. rcv.curU - 1 \subseteq rcv.told

(* No frame the decoder accepted is ever reported corrupt.                  *)
NoFalseAlarm == rcv.told \cap rcv.accepted = {}
=============================================================================
