-------------------------- MODULE PacketKeysProofs --------------------------
(* From the position of a packet to its key stream: positions are completed *)
(* right, the ring holds the key stream it says, and so packets are         *)
(* decrypted right, for every width of the low half of a position, chunk    *)
(* size, number of chunks and sequence of requests.                         *)
EXTENDS PacketKeys, TLAPS

-----------------------------------------------------------------------------
(* Remainders.                                                              *)

(* The quotient and the remainder of a division. *)
LEMMA DivMod ==
  ASSUME NEW a \in Int, NEW b \in Nat \ {0}
  PROVE  /\ a \div b \in Int
         /\ a % b \in 0 .. b - 1
         /\ a = (a \div b) * b + (a % b)
OBVIOUS

(* Distinct multiples of b are at least b apart. *)
LEMMA MultipleGap ==
  ASSUME NEW p \in Int, NEW q \in Int, NEW b \in Nat \ {0}, p < q
  PROVE  p * b + b <= q * b
<1>1. PICK d \in Nat : q = p + 1 + d
  <2>1. q - p - 1 \in Nat
    OBVIOUS
  <2>. QED  BY <2>1
<1>2. q * b = p * b + b + d * b
  BY <1>1
<1>3. d * b >= 0
  BY <1>1
<1>. QED  BY <1>2, <1>3

(* The remainder is the only number of its range that differs from a by a   *)
(* multiple of b.                                                           *)
LEMMA RemainderUnique ==
  ASSUME NEW a \in Int, NEW b \in Nat \ {0},
         NEW q \in Int, NEW r \in 0 .. b - 1, a = q * b + r
  PROVE  a % b = r /\ a \div b = q
<1> DEFINE q2 == a \div b
           r2 == a % b
<1>1. q2 \in Int /\ r2 \in 0 .. b - 1 /\ a = q2 * b + r2
  BY DivMod
<1> HIDE DEF q2, r2
<1>2. CASE q = q2
  BY <1>1, <1>2 DEF r2, q2
<1>3. CASE q2 < q
  <2>1. q2 * b + b <= q * b
    BY <1>1, <1>3, MultipleGap
  <2>. QED  BY <1>1, <2>1
<1>4. CASE q < q2
  <2>1. q * b + b <= q2 * b
    BY <1>1, <1>4, MultipleGap
  <2>. QED  BY <1>1, <2>1
<1>. QED  BY <1>1, <1>2, <1>3, <1>4

(* The size of the number space. *)
LEMMA SeqModType == SeqMod \in Nat \ {0} /\ SeqMod = Half + Half
BY HalfAssumption DEF SeqMod

-----------------------------------------------------------------------------
(* The ring of key stream.                                                  *)

(* An index into the ring wraps at most once. *)
LEMMA RingIndex ==
  ASSUME NEW n \in Nat \ {0}, NEW a \in 0 .. n + n - 1
  PROVE  a % n = IF a < n THEN a ELSE a - n
OBVIOUS

(* The inductive invariant: the populated slots hold their chunks, there is *)
(* room for one more while one is being generated, and once it is written   *)
(* it is the one that populated is about to be extended with.               *)
TypeInv ==
  /\ min \in Nat /\ start \in Slots /\ populated \in 0 .. Chunks /\ last \in Nat
  /\ ring \in [Slots -> Nat \cup {Junk}]
WrittenIsNext == gpc = "written" => ring[NextSlot] = NextChunk
IInv == TypeInv /\ PopulatedIsKeyStream /\ RoomForChunk /\ WrittenIsNext

(* The slots of two indices of the ring are different, and slots exist.     *)
LEMMA SlotsDiffer ==
  ASSUME NEW s \in Slots, NEW i \in Slots, NEW j \in 0 .. Chunks
  PROVE  /\ (s + i) % Chunks \in Slots /\ (s + j) % Chunks \in Slots
         /\ i < j /\ j < Chunks => (s + i) % Chunks # (s + j) % Chunks
<1>1. Chunks \in Nat \ {0}
  BY ChunkAssumption
<1>2. PICK a \in 0 .. Chunks + Chunks - 1 : a = s + i
  BY <1>1 DEF Slots
<1>3. PICK b \in 0 .. Chunks + Chunks - 1 : b = s + j
  BY <1>1 DEF Slots
<1>4. a % Chunks = (IF a < Chunks THEN a ELSE a - Chunks)
  BY <1>1, RingIndex
<1>5. b % Chunks = (IF b < Chunks THEN b ELSE b - Chunks)
  BY <1>1, RingIndex
<1> QED
  BY <1>1, <1>2, <1>3, <1>4, <1>5 DEF Slots

(* Advancing start by one slot shifts the indices by one.                   *)
LEMMA SlotShift ==
  ASSUME NEW s \in Slots, NEW i \in 0 .. Chunks - 1
  PROVE  (((s + 1) % Chunks) + i) % Chunks = (s + (i + 1)) % Chunks
<1>1. Chunks \in Nat \ {0}
  BY ChunkAssumption
<1>2. PICK a \in 0 .. Chunks + Chunks - 1 : a = s + 1
  BY <1>1 DEF Slots
<1>3. PICK b \in 0 .. Chunks + Chunks - 1 : b = s + (i + 1)
  BY <1>1 DEF Slots
<1>4. a % Chunks = (IF a < Chunks THEN a ELSE a - Chunks)
  BY <1>1, RingIndex
<1>5. b % Chunks = (IF b < Chunks THEN b ELSE b - Chunks)
  BY <1>1, RingIndex
<1>6. PICK c \in 0 .. Chunks + Chunks - 1 : c = (a % Chunks) + i
  BY SMTT(30), <1>1, <1>2, <1>4 DEF Slots
<1>7. c % Chunks = (IF c < Chunks THEN c ELSE c - Chunks)
  BY <1>1, RingIndex
<1>8. c % Chunks = b % Chunks
  BY <1>1, <1>2, <1>3, <1>4, <1>5, <1>6, <1>7 DEF Slots
<1> QED
  BY <1>2, <1>3, <1>6, <1>8

(* The first p slots of ring r from slot s on hold the chunks from m on.    *)
Holding(m, s, p, r) == \A i \in 0 .. p - 1 : r[(s + i) % Chunks] = m + i

(* Overwriting the slot after the populated ones leaves those alone.        *)
LEMMA WriteKeeps ==
  ASSUME NEW m, NEW s \in Slots, NEW p \in 0 .. Chunks, p < Chunks,
         NEW r \in [Slots -> Nat \cup {Junk}], NEW v,
         Holding(m, s, p, r), NEW r2, r2 = [r EXCEPT ![(s + p) % Chunks] = v]
  PROVE  Holding(m, s, p, r2) /\ r2[(s + p) % Chunks] = v
<1>1. Chunks \in Nat \ {0}
  BY ChunkAssumption
<1>2. ASSUME NEW i \in 0 .. p - 1
      PROVE  /\ i \in Slots /\ i < p
             /\ (s + i) % Chunks \in Slots /\ (s + i) % Chunks # (s + p) % Chunks
  <2>1. i \in Slots /\ i < p
    BY <1>1 DEF Slots
  <2> QED
    BY <2>1, SlotsDiffer
<1>3. (s + p) % Chunks \in Slots
  <2>1. p \in Slots
    BY <1>1 DEF Slots
  <2> QED
    BY <2>1, SlotsDiffer
<1> QED
  BY <1>2, <1>3 DEF Holding

(* The generator's decision and the start of its write.                     *)
LEMMA GenBeginInv == IInv /\ GenBegin => IInv'
<1> SUFFICES ASSUME IInv, GenBegin PROVE IInv'
  OBVIOUS
<1>1. Chunks \in Nat \ {0} /\ Chunk \in Nat \ {0}
  BY ChunkAssumption
<1>2. /\ min' \in Nat /\ start' \in Slots /\ populated' \in 0 .. Chunks /\ populated' < Chunks
      /\ \A i \in 0 .. populated' - 1 : ring[(start' + i) % Chunks] = min' + i
  <2>1. CASE SkipAhead
    <3>1. last \div Chunk \in Nat
      BY <1>1 DEF IInv, TypeInv
    <3> QED
      BY <1>1, <2>1, <3>1 DEF SkipAhead, Slots
  <2>2. CASE Advance
    <3>1. start' \in Slots
      <4>1. Chunks = 1 \/ 1 \in Slots
        BY <1>1 DEF Slots
      <4>2. CASE 1 \in Slots
        BY <2>2, <4>2, SlotsDiffer, <1>1 DEF Advance, IInv, TypeInv
      <4>3. CASE Chunks = 1
        BY <2>2, <4>3 DEF Advance, IInv, TypeInv, Slots
      <4> QED
        BY <4>1, <4>2, <4>3
    <3>2. ASSUME NEW i \in 0 .. populated - 2
          PROVE  ring[(start' + i) % Chunks] = min' + i
      <4>1. i \in 0 .. Chunks - 1 /\ i + 1 \in 0 .. populated - 1
        BY <1>1 DEF IInv, TypeInv
      <4>2. (start' + i) % Chunks = (start + (i + 1)) % Chunks
        BY <2>2, <4>1, SlotShift DEF Advance, IInv, TypeInv
      <4>3. ring[(start + (i + 1)) % Chunks] = min + (i + 1)
        BY <4>1 DEF IInv, PopulatedIsKeyStream
      <4> QED
        BY <2>2, <4>2, <4>3 DEF Advance, IInv, TypeInv
    <3> QED
      BY <1>1, <2>2, <3>1, <3>2 DEF Advance, IInv, TypeInv
  <2>3. CASE last <= Top /\ populated < Chunks /\ UNCHANGED <<min, start, populated>>
    BY <2>3 DEF IInv, TypeInv, PopulatedIsKeyStream
  <2> QED
    BY <2>1, <2>2, <2>3 DEF GenBegin
<1>3. \A i \in 0 .. populated' - 1 : ring'[(start' + i) % Chunks] = min' + i
  <2>1. ring' = [ring EXCEPT ![(start' + populated') % Chunks] = Junk]
    BY DEF GenBegin, NextSlot
  <2>2. ring \in [Slots -> Nat \cup {Junk}]
    BY DEF IInv, TypeInv
  <2>3. Holding(min', start', populated', ring)
    BY <1>2 DEF Holding
  <2>4. Holding(min', start', populated', ring')
    BY <1>2, <2>1, <2>2, <2>3, WriteKeeps
  <2> QED
    BY <2>4 DEF Holding
<1>4. ring' \in [Slots -> Nat \cup {Junk}] /\ last' \in Nat
  BY DEF GenBegin, IInv, TypeInv
<1> QED
  BY <1>2, <1>3, <1>4 DEF IInv, TypeInv, PopulatedIsKeyStream, RoomForChunk, WrittenIsNext, GenBegin

(* The write without the mutex touches no populated slot.                   *)
LEMMA GenWriteInv == IInv /\ GenWrite => IInv'
<1> SUFFICES ASSUME IInv, GenWrite PROVE IInv'
  OBVIOUS
<1>1. populated < Chunks /\ NextChunk \in Nat
  BY ChunkAssumption DEF IInv, TypeInv, RoomForChunk, GenWrite, NextChunk
<1>2. /\ \A i \in 0 .. populated - 1 : ring'[(start + i) % Chunks] = min + i
      /\ ring'[NextSlot] = NextChunk
  <2>1. ring' = [ring EXCEPT ![(start + populated) % Chunks] = NextChunk]
    BY DEF GenWrite, NextSlot
  <2>2. /\ ring \in [Slots -> Nat \cup {Junk}] /\ start \in Slots /\ populated \in 0 .. Chunks
        /\ Holding(min, start, populated, ring)
    BY DEF IInv, TypeInv, PopulatedIsKeyStream, Holding
  <2>3. Holding(min, start, populated, ring')
    BY <1>1, <2>1, <2>2, WriteKeeps
  <2>4. (start + populated) % Chunks \in Slots
    BY <1>1, <2>2, ChunkAssumption, SlotsDiffer DEF Slots
  <2>5. ring'[(start + populated) % Chunks] = NextChunk
    BY <2>1, <2>2, <2>4
  <2> QED
    BY <2>3, <2>5 DEF NextSlot, Holding
<1>3. ring' \in [Slots -> Nat \cup {Junk}]
  BY <1>1 DEF GenWrite, IInv, TypeInv
<1> QED
  BY <1>1, <1>2, <1>3 DEF IInv, TypeInv, PopulatedIsKeyStream, RoomForChunk, WrittenIsNext, GenWrite,
     NextSlot, NextChunk

(* Committing the chunk makes it populated.                                 *)
LEMMA GenCommitInv == IInv /\ GenCommit => IInv'
<1> SUFFICES ASSUME IInv, GenCommit PROVE IInv'
  OBVIOUS
<1>1. populated' \in 0 .. Chunks
  BY ChunkAssumption DEF IInv, TypeInv, RoomForChunk, GenCommit
<1>2. ASSUME NEW i \in 0 .. populated' - 1
      PROVE  ring[(start + i) % Chunks] = min + i
  <2>1. i = populated \/ i \in 0 .. populated - 1
    BY DEF GenCommit, IInv, TypeInv
  <2> QED
    BY <2>1 DEF IInv, PopulatedIsKeyStream, WrittenIsNext, GenCommit, NextSlot, NextChunk
<1> QED
  BY <1>1, <1>2 DEF IInv, TypeInv, PopulatedIsKeyStream, RoomForChunk, WrittenIsNext, GenCommit

(* Every step of the generator and of the users keeps the invariant.        *)
LEMMA StepInv == IInv /\ [Next]_vars => IInv'
<1> SUFFICES ASSUME IInv, [Next]_vars PROVE IInv'
  OBVIOUS
<1> USE DEF IInv, TypeInv, PopulatedIsKeyStream, RoomForChunk, WrittenIsNext, NextSlot, NextChunk, buffer
<1>1. CASE Generator
  BY <1>1, GenBeginInv, GenWriteInv, GenCommitInv DEF Generator, GenSleep, GenStop
<1>2. CASE GenFail
  BY <1>2 DEF GenFail
<1>3. ASSUME NEW r \in Requests, Get(r[1], r[2]) PROVE IInv'
  <2>1. r[1] \in Nat /\ r[2] \in Nat
    BY BoundAssumption DEF Requests
  <2> QED
    BY <1>3, <2>1 DEF Get
<1>4. CASE Signal \/ FiniStop \/ FiniSignal \/ FiniJoin
  BY <1>4 DEF Signal, FiniStop, FiniSignal, FiniJoin, Woken
<1>5. CASE UNCHANGED vars
  BY <1>5 DEF vars
<1> QED
  BY <1>1, <1>2, <1>3, <1>4, <1>5 DEF Next, User

(* The invariant holds from the empty buffer on. *)
LEMMA InitInv == Init => IInv
  BY ChunkAssumption DEF Init, IInv, TypeInv, PopulatedIsKeyStream, RoomForChunk, WrittenIsNext, Slots, Junk

(* The part of the ring that chiaki_gkcrypt_get_key_stream copies from is   *)
(* the key stream from key_buf_key_pos_min on, although the generator       *)
(* writes to the ring without the mutex; and the assertion of               *)
(* gkcrypt_generate_next_chunk that there is room never fails.              *)
THEOREM BufferIsKeyStream == Spec => []BufferSound
<1>1. IInv => BufferSound
  BY DEF IInv, BufferSound
<1> QED
  BY <1>1, InitInv, StepInv, PTL DEF Spec

-----------------------------------------------------------------------------
(* Positions.                                                               *)

(* Completing the low half of a position less than half the low range away  *)
(* from the last authentic one gives that position.                         *)
LEMMA RequestPosRight ==
  ASSUME NEW a \in Nat, NEW p \in Nat, p - a < Half, a - p < Half
  PROVE  RequestPos(a, Low(p)) = p
<1> DEFINE M == SeqMod
           q == a \div SeqMod
           r == a % SeqMod
           q2 == p \div SeqMod
           r2 == p % SeqMod
<1>1. M \in Nat \ {0} /\ M = Half + Half /\ Half \in Nat /\ a \in Int /\ p \in Int
  BY SeqModType, HalfAssumption
<1>2. q \in Int /\ r \in 0 .. M - 1 /\ a = q * M + r
  BY <1>1, SeqModType, DivMod
<1>3. q2 \in Int /\ r2 \in 0 .. M - 1 /\ p = q2 * M + r2
  BY <1>1, SeqModType, DivMod
<1>4. q2 >= 0
  <2>1. CASE q2 < 0
    <3>1. q2 * M + M <= 0 * M
      BY <1>1, <1>3, <2>1, MultipleGap
    <3> QED
      BY <1>1, <1>3, <3>1
  <2> QED
    BY <1>3, <2>1
<1>5. RequestPos(a, Low(p)) =
        (IF SeqGt(r2, r) /\ r2 < r THEN q + 1
         ELSE IF SeqLt(r2, r) /\ r2 > r /\ q # 0 THEN q - 1 ELSE q) * M + r2
  BY DEF RequestPos, Low, High, Wrap, SeqMod, SeqGt, SeqLt
<1> HIDE DEF M, q, r, q2, r2
<1>6. CASE q2 = q
  <2>1. p - a = r2 - r
    BY <1>1, <1>2, <1>3, <1>6
  <2>2. ~(SeqGt(r2, r) /\ r2 < r) /\ ~(SeqLt(r2, r) /\ r2 > r)
    BY <1>1, <1>2, <1>3, <2>1 DEF SeqGt, SeqLt
  <2> QED
    BY <1>3, <1>5, <1>6, <2>2
<1>7. CASE q2 = q + 1
  <2>1. p - a = M + r2 - r
    BY <1>1, <1>2, <1>3, <1>7
  <2>2. SeqGt(r2, r) /\ r2 < r
    BY <1>1, <1>2, <1>3, <2>1 DEF SeqGt
  <2> QED
    BY <1>3, <1>5, <1>7, <2>2
<1>8. CASE q2 = q - 1
  <2>1. a - p = M + r - r2
    BY <1>1, <1>2, <1>3, <1>8
  <2>2. SeqLt(r2, r) /\ r2 > r /\ q # 0
    BY <1>1, <1>2, <1>3, <1>4, <1>8, <2>1 DEF SeqLt
  <2> QED
    BY <1>1, <1>2, <1>3, <1>5, <1>8, <2>2
<1>9. CASE q + 1 < q2
  <2>1. (q + 1) * M + M <= q2 * M
    BY <1>1, <1>2, <1>3, <1>9, MultipleGap
  <2>2. (q + 1) * M = q * M + M
    BY <1>1, <1>2
  <2> QED
    BY <1>1, <1>2, <1>3, <2>1, <2>2
<1>10. CASE q2 + 1 < q
  <2>1. (q2 + 1) * M + M <= q * M
    BY <1>1, <1>2, <1>3, <1>10, MultipleGap
  <2>2. (q2 + 1) * M = q2 * M + M
    BY <1>1, <1>3
  <2> QED
    BY <1>1, <1>2, <1>3, <2>1, <2>2
<1> QED
  BY <1>2, <1>3, <1>6, <1>7, <1>8, <1>9, <1>10

(* What can still arrive, and what was committed last, is less than half    *)
(* the low range behind the console.                                        *)
Recent(q) == q <= sent /\ sent - q < Half
PosInv == PositionsTyped /\ \A q \in flight \cup {prev} : Recent(q)

(* Under the invariant every packet of the network is completed right.      *)
LEMMA PositionRight ==
  ASSUME PosInv, NEW p \in flight
  PROVE  p \in Nat /\ RequestPos(prev, Low(p)) = p
<1>1. p \in Nat /\ prev \in Nat /\ p - prev < Half /\ prev - p < Half
  BY HalfAssumption DEF PosInv, PositionsTyped, Recent
<1> QED
  BY <1>1, RequestPosRight

(* Every step of the console, the network and the Takion thread keeps it.   *)
LEMMA PosEmit == ASSUME PosInv, NEW p \in 1 .. MaxSent, Emit(p) PROVE PosInv'
BY HalfAssumption, PacketAssumption DEF PosInv, PositionsTyped, Recent, Emit

LEMMA PosLose == ASSUME PosInv, NEW p \in flight, Lose(p) PROVE PosInv'
BY DEF PosInv, PositionsTyped, Recent, Lose

LEMMA PosReceive == ASSUME PosInv, NEW p \in flight, Receive(p) PROVE PosInv'
<1>1. p \in Nat /\ RequestPos(prev, Low(p)) = p
  BY PositionRight
<1>2. RequestPos(p, Low(p)) = p
  BY <1>1, RequestPosRight, HalfAssumption
<1>3. prev' = p
  BY <1>1, <1>2 DEF Receive
<1> QED
  BY <1>1, <1>3 DEF PosInv, PositionsTyped, Recent, Receive

LEMMA PosCorrupt == ASSUME PosInv, NEW low, ReceiveCorrupt(low) PROVE PosInv'
BY DEF PosInv, PositionsTyped, Recent, ReceiveCorrupt

LEMMA PosKept == ASSUME PosInv, UNCHANGED keys PROVE PosInv'
BY DEF PosInv, PositionsTyped, Recent, keys

(* chiaki_key_state_request_pos gives every packet its own position, for as *)
(* long as the network delays no packet for half the range of the low part; *)
(* this is so of the positions alone, whatever is done with them.           *)
THEOREM EveryPositionRight == KeysSpec => []Reconstructs
<1>1. KeysInit => PosInv
  BY HalfAssumption DEF KeysInit, PosInv, PositionsTyped, Recent
<1>2. PosInv /\ [KeysNext]_keys => PosInv'
  BY PosEmit, PosLose, PosReceive, PosCorrupt, PosKept DEF KeysNext, keys
<1>3. PosInv => Reconstructs
  BY PositionRight DEF Reconstructs
<1> QED
  BY <1>1, <1>2, <1>3, PTL DEF KeysSpec

-----------------------------------------------------------------------------
(* The invariant of the composition.                                        *)

PInv == IInv /\ PosInv

LEMMA PInitInv == PInit => PInv
  BY InitInv, HalfAssumption
  DEF PInit, PInv, KeysInit, PosInv, PositionsTyped, Recent

(* A step of PacketKeys in the buffer. *)
LEMMA BufferInv == PInv /\ [PNext]_all => IInv'
<1> SUFFICES ASSUME PInv, [PNext]_all PROVE IInv'
  OBVIOUS
<1>1. CASE UNCHANGED vars
  BY <1>1, StepInv DEF PInv
<1>2. CASE DecryptPacket
  <2>1. PICK p \in flight, len \in 1 .. MaxLen : Get(Position(p) + Block, len)
    BY <1>2 DEF DecryptPacket
  <2>2. PICK q \in Nat : q = Position(p) + Block
    BY PositionRight, PacketAssumption DEF PInv, Position
  <2>3. Get(q, len) /\ len \in Nat
    BY <2>1, <2>2, BoundAssumption
  <2> QED
    BY <2>3 DEF Get, PInv, IInv, TypeInv, PopulatedIsKeyStream, RoomForChunk, WrittenIsNext,
                NextSlot, NextChunk, buffer
<1>3. CASE BufferStep
  BY <1>3, StepInv DEF BufferStep, PInv, Next, User
<1> QED
  BY <1>1, <1>2, <1>3 DEF PNext, Network, PlainPacket, all

LEMMA PStepInv == PInv /\ [PNext]_all => PInv'
<1> SUFFICES ASSUME PInv, [PNext]_all PROVE PInv'
  OBVIOUS
<1>1. PosInv'
  BY PosEmit, PosLose, PosReceive, PosCorrupt, PosKept
  DEF PInv, PNext, Network, DecryptPacket, PlainPacket, all, keys
<1> QED
  BY <1>1, BufferInv DEF PInv

LEMMA PInvHolds == PSpec => []PInv
  BY PInitInv, PStepInv, PTL DEF PSpec

-----------------------------------------------------------------------------
(* Where the generator and the user are.                                    *)
Places ==
  /\ stop \in BOOLEAN
  /\ gpc \in {"test", "asleep", "writing", "written", "done"}
  /\ upc \in {"idle", "signal", "stopping", "joining", "freed"}

LEMMA PlacesStep == Places /\ [PNext]_all => Places'
<1> SUFFICES ASSUME Places, [PNext]_all PROVE Places'
  OBVIOUS
<1> USE DEF Places
<1>1. CASE Generator \/ GenFail
  BY <1>1 DEF Generator, GenSleep, GenStop, GenBegin, GenWrite, GenCommit, GenFail
<1>2. CASE Signal \/ FiniStop \/ FiniSignal \/ FiniJoin
  BY <1>2 DEF Signal, FiniStop, FiniSignal, FiniJoin, Woken
<1>3. CASE DecryptPacket
  BY <1>3 DEF DecryptPacket, Get
<1>4. CASE UNCHANGED vars
  BY <1>4 DEF vars
<1> QED
  BY <1>1, <1>2, <1>3, <1>4 DEF PNext, BufferStep, Network, PlainPacket, all

(* The ring, its counters and its threads are of their types.               *)
THEOREM TypeCorrect == PSpec => []TypeOK
<1>1. PInit => Places
  BY DEF PInit, Init, Places
<1>2. PInv /\ Places => TypeOK
  BY DEF PInv, IInv, TypeInv, Places, TypeOK
<1> QED
  BY <1>1, <1>2, PlacesStep, PInvHolds, PTL DEF PSpec

(* Every packet that can arrive gets its own position, whatever the buffer  *)
(* of key stream and its generator do meanwhile.                            *)
THEOREM PositionsRight == PSpec => []Reconstructs
<1>1. PInv => Reconstructs
  BY PositionRight DEF PInv, Reconstructs, Position
<1> QED
  BY <1>1, PInvHolds, PTL

(* The ring stays sound with the requests that packets make.                *)
THEOREM BufferIsSound == PSpec => []BufferSound
<1>1. PInv => BufferSound
  BY DEF PInv, IInv, BufferSound
<1> QED
  BY <1>1, PInvHolds, PTL

-----------------------------------------------------------------------------
(* Decryption.                                                              *)

(* The unit of the ring that stands for position min * Chunk + t, at its    *)
(* offset x, which is taken modulo the ring's size.                         *)
LEMMA UnitRight ==
  ASSUME IInv, NEW t \in Nat, t < populated * Chunk, NEW x \in Nat, x < Chunks * Chunk,
         x = t + start * Chunk \/ x = t + start * Chunk - Chunks * Chunk
  PROVE  UnitAt(x) = min * Chunk + t
<1> DEFINE q == t \div Chunk
           r == t % Chunk
<1>1. /\ Chunk \in Nat \ {0} /\ Chunks \in Nat \ {0}
      /\ start \in 0 .. Chunks - 1 /\ populated \in 0 .. Chunks /\ min \in Nat
  BY ChunkAssumption DEF IInv, TypeInv, Slots
<1>2. q \in Int /\ r \in 0 .. Chunk - 1 /\ t = q * Chunk + r
  BY <1>1, DivMod
<1> HIDE DEF q, r
<1>3. q >= 0
  <2>1. CASE q < 0
    <3>1. q * Chunk + Chunk <= 0 * Chunk
      BY <1>1, <1>2, <2>1, MultipleGap
    <3> QED
      BY <1>1, <1>2, <3>1
  <2> QED
    BY <1>2, <2>1
<1>4. q < populated
  <2>1. CASE populated = q
    BY <1>1, <1>2, <2>1
  <2>2. CASE populated < q
    <3>1. populated * Chunk + Chunk <= q * Chunk
      BY <1>1, <1>2, <2>2, MultipleGap
    <3>2. populated * Chunk \in Int /\ q * Chunk \in Int
      BY <1>1, <1>2
    <3> QED
      BY <1>1, <1>2, <3>1, <3>2
  <2> QED
    BY <1>1, <1>2, <2>1, <2>2
<1>5. PICK k \in Int : /\ k = start + q \/ k = start + q - Chunks
                       /\ x = k * Chunk + r
  <2>1. (start + q) * Chunk = start * Chunk + q * Chunk
    BY <1>1, <1>2
  <2>2. (start + q - Chunks) * Chunk = start * Chunk + q * Chunk - Chunks * Chunk
    BY <1>1, <1>2
  <2>3. start * Chunk \in Int /\ q * Chunk \in Int /\ Chunks * Chunk \in Int
    BY <1>1, <1>2
  <2>4. CASE x = t + start * Chunk
    <3>1. x = (start + q) * Chunk + r /\ start + q \in Int
      BY <1>1, <1>2, <2>1, <2>3, <2>4
    <3> QED
      BY <3>1
  <2>5. CASE x = t + start * Chunk - Chunks * Chunk
    <3>1. x = (start + q - Chunks) * Chunk + r /\ start + q - Chunks \in Int
      BY <1>1, <1>2, <2>2, <2>3, <2>5
    <3> QED
      BY <3>1
  <2> QED
    BY <2>4, <2>5
<1>6. x \div Chunk = k /\ x % Chunk = r
  BY <1>1, <1>2, <1>5, RemainderUnique
<1>7. 0 <= k /\ k < Chunks
  <2>1. CASE k < 0
    <3>1. k * Chunk + Chunk <= 0 * Chunk
      BY <1>1, <1>5, <2>1, MultipleGap
    <3>2. k * Chunk \in Int
      BY <1>1, <1>5
    <3> QED
      BY <1>1, <1>2, <1>5, <3>1, <3>2
  <2>2. CASE Chunks = k
    <3>1. k * Chunk \in Int
      BY <1>1, <1>5
    <3> QED
      BY <1>1, <1>2, <1>5, <2>2, <3>1
  <2>3. CASE Chunks < k
    <3>1. Chunks * Chunk + Chunk <= k * Chunk
      BY <1>1, <1>5, <2>3, MultipleGap
    <3>2. k * Chunk \in Int /\ Chunks * Chunk \in Int
      BY <1>1, <1>5
    <3> QED
      BY <1>1, <1>2, <1>5, <3>1, <3>2
  <2> QED
    BY <1>1, <1>5, <2>1, <2>2, <2>3
<1>8. (start + q) % Chunks = k
  <2>1. PICK a \in 0 .. Chunks + Chunks - 1 : a = start + q
    BY <1>1, <1>2, <1>3, <1>4
  <2>2. a % Chunks = IF a < Chunks THEN a ELSE a - Chunks
    BY <1>1, RingIndex
  <2>3. k = IF a < Chunks THEN a ELSE a - Chunks
    BY <1>1, <1>2, <1>5, <1>7, <2>1
  <2> QED
    BY <2>1, <2>2, <2>3
<1>9. ring[k] = min + q
  BY <1>1, <1>2, <1>3, <1>4, <1>8 DEF IInv, PopulatedIsKeyStream
<1>10. (min + q) * Chunk = min * Chunk + q * Chunk
  BY <1>1, <1>2
<1>11. min * Chunk \in Int /\ q * Chunk \in Int
  BY <1>1, <1>2
<1> QED
  BY <1>1, <1>2, <1>6, <1>9, <1>10, <1>11 DEF UnitAt

(* Two runs of key stream one after the other. *)
LEMMA RunsJoin ==
  ASSUME NEW n \in Nat, NEW m \in Nat, NEW p \in Nat
  PROVE  [i \in 1 .. n |-> p + i - 1] \o [i \in 1 .. m |-> (p + n) + i - 1]
           = [i \in 1 .. n + m |-> p + i - 1]
<1> DEFINE s == [i \in 1 .. n |-> p + i - 1]
           t == [i \in 1 .. m |-> (p + n) + i - 1]
           u == [i \in 1 .. n + m |-> p + i - 1]
<1>1. s \in Seq(Int) /\ t \in Seq(Int) /\ u \in Seq(Int)
  OBVIOUS
<1>2. Len(s) = n /\ Len(t) = m /\ Len(u) = n + m
  OBVIOUS
<1>3. ASSUME NEW i \in 1 .. n + m PROVE (s \o t)[i] = u[i]
  <2>1. CASE i <= n
    BY <1>1, <1>2, <2>1
  <2>2. CASE n < i
    <3>1. i - n \in 1 .. m /\ (s \o t)[i] = t[i - n]
      BY <1>1, <1>2, <2>2
    <3> QED
      BY <3>1
  <2> QED
    BY <2>1, <2>2
<1>4. s \o t \in Seq(Int) /\ Len(s \o t) = n + m
  BY <1>1, <1>2
<1> QED
  BY <1>1, <1>2, <1>3, <1>4

(* A copy out of the populated part, in one piece or in two, is the key     *)
(* stream of the requested positions.                                       *)
LEMMA CopyRight ==
  ASSUME IInv, NEW pos \in Nat, NEW len \in Nat, ~Missing(pos, len)
  PROVE  Copied(pos, len) = Generated(pos, len)
<1> DEFINE R == Chunks * Chunk
           S == start * Chunk
           M == min * Chunk
           P == populated * Chunk
           d == pos - M
           offset == (d + S) % R
           excess == IF offset + len > R THEN offset + len - R ELSE 0
<1>1. /\ Chunk \in Nat \ {0} /\ Chunks \in Nat \ {0}
      /\ start \in 0 .. Chunks - 1 /\ populated \in 0 .. Chunks /\ min \in Nat
  BY ChunkAssumption DEF IInv, TypeInv, Slots
<1>2. R \in Nat \ {0} /\ S \in Nat /\ M \in Nat /\ P \in Nat
  BY <1>1
<1>3. S + Chunk <= R
  BY <1>1, MultipleGap
<1>4. P <= R
  <2>1. CASE populated < Chunks
    BY <1>1, <1>2, <2>1, MultipleGap
  <2> QED
    BY <1>1, <2>1
<1>5. d \in Nat /\ d + len < P
  <2>1. Top = M + P
    BY <1>1 DEF Top
  <2> QED
    BY <1>2, <2>1 DEF Missing
<1>6. Copied(pos, len)
        = [i \in 1 .. len - excess |-> UnitAt(offset + i - 1)]
            \o [i \in 1 .. excess |-> UnitAt(0 + i - 1)]
  BY DEF Copied, RingSize
<1>7. ASSUME NEW t \in Nat, t < P, NEW x \in Nat, x < R, x = t + S \/ x = t + S - R
      PROVE  UnitAt(x) = M + t
  BY <1>7, UnitRight
<1>20. d = pos - M
  OBVIOUS
<1>21. offset = (d + S) % R
  OBVIOUS
<1> HIDE DEF R, S, M, P, d, offset
<1>8. offset = IF d + S < R THEN d + S ELSE d + S - R
  <2>1. PICK a \in 0 .. R + R - 1 : a = d + S
    BY <1>1, <1>2, <1>3, <1>4, <1>5
  <2>2. a % R = IF a < R THEN a ELSE a - R
    BY <1>2, RingIndex
  <2>3. offset = a % R
    BY <1>21, <2>1
  <2>4. CASE a < R
    BY <1>2, <1>5, <2>1, <2>2, <2>3, <2>4
  <2>5. CASE ~(a < R)
    BY <1>2, <1>5, <2>1, <2>2, <2>3, <2>5
  <2> QED
    BY <2>4, <2>5
<1>22. excess = IF offset + len > R THEN offset + len - R ELSE 0
  OBVIOUS
<1> HIDE DEF excess
<1>9. excess \in Nat /\ len - excess \in Nat /\ offset \in Nat /\ offset < R
  BY <1>1, <1>2, <1>3, <1>4, <1>5, <1>8, <1>22
<1>10. PICK n \in Nat, m \in Nat : n = len - excess /\ m = excess /\ n + m = len
  BY <1>9
<1>11. ASSUME NEW i \in 1 .. n PROVE UnitAt(offset + i - 1) = pos + i - 1
  <2>1. PICK x \in Nat, t \in Nat : x = offset + i - 1 /\ t = d + i - 1
    BY <1>5, <1>9
  <2>2. t < P /\ x < R /\ (x = t + S \/ x = t + S - R)
    BY <1>2, <1>5, <1>8, <1>9, <1>10, <1>22, <2>1
  <2>3. UnitAt(x) = M + t
    BY <1>7, <2>2
  <2> QED
    BY <1>2, <1>5, <1>20, <2>1, <2>3
<1>12. ASSUME NEW i \in 1 .. m PROVE UnitAt(0 + i - 1) = (pos + n) + i - 1
  <2>1. PICK x \in Nat, t \in Nat : x = 0 + i - 1 /\ t = d + n + i - 1
    BY <1>5
  <2>2. t < P /\ x < R
    BY <1>2, <1>4, <1>5, <1>9, <1>10, <1>22, <2>1
  <2>3. x = t + S - R
    <3>1. m = offset + len - R
      BY <1>2, <1>9, <1>10, <1>22
    <3>2. n = R - offset
      BY <1>2, <1>9, <1>10, <3>1
    <3>3. CASE offset = d + S
      BY <1>2, <1>5, <1>9, <2>1, <3>2, <3>3
    <3>4. CASE offset = d + S - R
      BY <1>1, <1>2, <1>3, <1>4, <1>5, <1>9, <2>1, <2>2, <3>2, <3>4
    <3> QED
      BY <1>8, <3>3, <3>4
  <2>4. UnitAt(x) = M + t
    BY <1>7, <2>2, <2>3
  <2> QED
    BY <1>2, <1>5, <1>20, <2>1, <2>4
<1>13. Copied(pos, len) = [i \in 1 .. n |-> UnitAt(offset + i - 1)]
                            \o [i \in 1 .. m |-> UnitAt(0 + i - 1)]
  BY <1>6, <1>10
<1>14. /\ [i \in 1 .. n |-> UnitAt(offset + i - 1)] = [i \in 1 .. n |-> pos + i - 1]
       /\ [i \in 1 .. m |-> UnitAt(0 + i - 1)] = [i \in 1 .. m |-> (pos + n) + i - 1]
  BY <1>11, <1>12
<1>15. Copied(pos, len) = [i \in 1 .. n + m |-> pos + i - 1]
  <2>1. [i \in 1 .. n |-> pos + i - 1] \o [i \in 1 .. m |-> (pos + n) + i - 1]
          = [i \in 1 .. n + m |-> pos + i - 1]
    BY RunsJoin
  <2>2. Copied(pos, len) = [i \in 1 .. n |-> pos + i - 1] \o [i \in 1 .. m |-> (pos + n) + i - 1]
    BY <1>13, <1>14, Zenon
  <2> QED
    BY <2>1, <2>2, Zenon
<1> QED
  BY <1>10, <1>15 DEF Generated

(* Every authentic packet is decrypted with the key stream of its position, *)
(* for every size of the ring, of its chunks and of the low half of a       *)
(* position, whatever the network and the generator have done before.       *)
THEOREM DecryptionRight == PSpec => []DecryptsRight
<1>1. PInv => DecryptsRight
  <2> SUFFICES ASSUME PInv, NEW p \in flight, NEW len \in 1 .. MaxLen
               PROVE  KeyStream(Position(p) + Block, len) = Generated(p + Block, len)
    BY DEF DecryptsRight
  <2>1. Position(p) = p /\ p + Block \in Nat
    BY PositionRight, PacketAssumption DEF PInv, Position
  <2>2. len \in Nat
    BY BoundAssumption
  <2>3. CASE Missing(p + Block, len)
    BY <2>1, <2>3 DEF KeyStream
  <2>4. CASE ~Missing(p + Block, len)
    <3>1. Copied(p + Block, len) = Generated(p + Block, len)
      BY <2>1, <2>2, <2>4, CopyRight DEF PInv
    <3> QED
      BY <2>1, <2>4, <3>1 DEF KeyStream
  <2> QED
    BY <2>3, <2>4
<1> QED
  BY <1>1, PInvHolds, PTL
=============================================================================
