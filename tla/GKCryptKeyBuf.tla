---------------------------- MODULE GKCryptKeyBuf ----------------------------
(***************************************************************************)
(* lib/src/gkcrypt.c: the ring buffer of key stream that a thread of each  *)
(* ChiakiGKCrypt generates ahead of use.  The thread writes a chunk with   *)
(* the mutex released while chiaki_gkcrypt_get_key_stream copies out of    *)
(* the part that is populated.                                             *)
(*                                                                         *)
(* The thread moves the buffer by whole chunks of KEY_BUF_CHUNK_SIZE, so   *)
(* min, start and populated (key_buf_key_pos_min, key_buf_start_offset,    *)
(* key_buf_populated) count chunks here; key positions count units, Chunk  *)
(* of them to a chunk.  The key stream at position u is written u itself.  *)
(***************************************************************************)
EXTENDS Integers, Sequences

CONSTANTS
  Chunk,      (* KEY_BUF_CHUNK_SIZE, in units                                 *)
  Chunks,     (* key_buf_chunks: the ring's size                              *)
  MaxPos,     (* bound: positions from here on are never asked for            *)
  MaxLen      (* bound: length of one request                                 *)

ASSUME ChunkAssumption == Chunk \in Nat \ {0} /\ Chunks \in Nat \ {0}
ASSUME BoundAssumption == MaxPos \in Nat /\ MaxLen \in Nat

VARIABLES
  min, start, populated, last,   (* last is last_key_pos                     *)
  ring,      (* ring[i]: the chunk of the key stream that is in slot i        *)
  stop,      (* key_buf_thread_stop                                           *)
  gpc,       (* generator: test, asleep, writing, written, done               *)
  upc        (* user: idle, signal, then the steps of fini                    *)

buffer == <<min, start, populated, ring>>
vars == <<min, start, populated, last, ring, stop, gpc, upc>>

Slots == 0 .. Chunks - 1
Junk == -1                       \* a slot not generated, or half overwritten
RingSize == Chunks * Chunk       \* key_buf_size
Top == (min + populated) * Chunk \* first position past the populated part

Init ==
  /\ min = 0 /\ start = 0 /\ populated = 0 /\ last = 0
  /\ ring = [i \in Slots |-> Junk]
  /\ stop = FALSE /\ gpc = "test"
  /\ upc = "idle"

(* gkcrypt_key_buf_should_generate *)
ShouldGenerate == last > min * Chunk + (populated * Chunk) \div 2

-----------------------------------------------------------------------------
(* chiaki_gkcrypt_get_key_stream: the Takion thread for the remote's        *)
(* crypt; whoever holds gkcrypt_local_mutex for the local one.              *)

UnitAt(offset) == (ring[offset \div Chunk] * Chunk) + (offset % Chunk)

(* What a request gets: a copy out of the ring, in two pieces where it      *)
(* passes the end, or, for a request outside the buffer, a fresh generation. *)
Missing(pos, len) == pos < min * Chunk \/ pos + len >= Top
Generated(pos, len) == [i \in 1 .. len |-> pos + i - 1]
\* Mutant: the ring is read as if it started at its first slot.
CopiedFromZero(pos, len) ==
  LET offset == (pos - min * Chunk) % RingSize
      excess == IF offset + len > RingSize THEN offset + len - RingSize ELSE 0
      piece(from, n) == [i \in 1 .. n |-> UnitAt(from + i - 1)]
  IN piece(offset, len - excess) \o piece(0, excess)

Copied(pos, len) ==
  LET offset == (pos - min * Chunk + start * Chunk) % RingSize
      excess == IF offset + len > RingSize THEN offset + len - RingSize ELSE 0
      piece(from, n) == [i \in 1 .. n |-> UnitAt(from + i - 1)]
  IN piece(offset, len - excess) \o piece(0, excess)
KeyStream(pos, len) == IF Missing(pos, len) THEN Generated(pos, len) ELSE Copied(pos, len)

Requests == { r \in (0 .. MaxPos - 1) \X (1 .. MaxLen) : r[1] + r[2] <= MaxPos }

(* The copy is made under the mutex; the generator is signalled afterwards  *)
(* if there should be a chunk to make.                                      *)
Get(pos, len) ==
  /\ upc = "idle"
  /\ UNCHANGED <<buffer, stop, gpc>>
  /\ last' = IF pos + len > last THEN pos + len ELSE last
  /\ upc' = IF ShouldGenerate' THEN "signal" ELSE "idle"

Woken == IF gpc = "asleep" THEN "test" ELSE gpc

Signal ==
  /\ upc = "signal" /\ upc' = "idle"
  /\ gpc' = Woken
  /\ UNCHANGED <<buffer, last, stop>>

(* chiaki_gkcrypt_fini, by whoever drops the crypt. *)
FiniStop ==
  /\ upc = "idle" /\ upc' = "stopping"
  /\ stop' = TRUE
  /\ UNCHANGED <<buffer, last, gpc>>

FiniSignal ==
  /\ upc = "stopping" /\ upc' = "joining"
  /\ gpc' = Woken
  /\ UNCHANGED <<buffer, last, stop>>

FiniJoin ==
  /\ upc = "joining" /\ gpc = "done"
  /\ upc' = "freed"
  /\ UNCHANGED <<buffer, last, stop, gpc>>

-----------------------------------------------------------------------------
(* gkcrypt_thread_func.                                                     *)

(* The slot and the chunk that gkcrypt_generate_next_chunk generates.       *)
NextSlot == (start + populated) % Chunks
NextChunk == min + populated

\* Mutant: the generator sleeps although the buffer is not full.
GenSleepEarly ==
  /\ gpc = "test" /\ gpc' = "asleep"
  /\ ~stop /\ ~ShouldGenerate
  /\ UNCHANGED <<buffer, last, stop, upc>>

(* Both the wait's predicate and what follows it run under the mutex.       *)
GenSleep ==
  /\ gpc = "test" /\ gpc' = "asleep"
  /\ ~stop /\ populated = Chunks /\ ~ShouldGenerate
  /\ UNCHANGED <<buffer, last, stop, upc>>

GenStop ==
  /\ gpc = "test" /\ gpc' = "done"
  /\ stop
  /\ UNCHANGED <<buffer, last, stop, upc>>

\* Mutant: the old chunks stay counted.
SkipAheadPopulated ==
  /\ last > Top
  /\ min' = last \div Chunk
  /\ start' = 0 /\ populated' = populated

(* The user is already beyond the buffer: restart it at the user.           *)
SkipAhead ==
  /\ last > Top
  /\ min' = last \div Chunk
  /\ start' = 0 /\ populated' = 0

\* Mutant: the start offset does not wrap.
AdvanceNoWrap ==
  /\ last <= Top /\ populated = Chunks
  /\ start' = start + 1 /\ min' = min + 1 /\ populated' = populated - 1

(* The buffer is full: give up its oldest chunk.                            *)
Advance ==
  /\ last <= Top /\ populated = Chunks
  /\ start' = (start + 1) % Chunks
  /\ min' = min + 1
  /\ populated' = populated - 1

GenBegin ==
  /\ gpc = "test" /\ gpc' = "writing"
  /\ ~stop /\ (populated < Chunks \/ ShouldGenerate)
  /\ \/ SkipAhead
     \/ Advance
     \/ last <= Top /\ populated < Chunks /\ UNCHANGED <<min, start, populated>>
  /\ ring' = [ring EXCEPT ![NextSlot'] = Junk]
  /\ UNCHANGED <<last, stop, upc>>

(* chiaki_gkcrypt_gen_key_stream, without the mutex. *)
GenWrite ==
  /\ gpc = "writing" /\ gpc' = "written"
  /\ ring' = [ring EXCEPT ![NextSlot] = NextChunk]
  /\ UNCHANGED <<min, start, populated, last, stop, upc>>

GenCommit ==
  /\ gpc = "written" /\ gpc' = "test"
  /\ populated' = populated + 1
  /\ UNCHANGED <<min, start, ring, last, stop, upc>>

(* Generation fails in the crypto library: the thread ends.                 *)
GenFail ==
  /\ gpc = "writing" /\ gpc' = "done"
  /\ UNCHANGED <<buffer, last, stop, upc>>

Generator == GenSleep \/ GenStop \/ GenBegin \/ GenWrite \/ GenCommit
User ==
  \/ \E r \in Requests : Get(r[1], r[2])
  \/ Signal \/ FiniStop \/ FiniSignal \/ FiniJoin

Next == Generator \/ GenFail \/ User

Spec == Init /\ [][Next]_vars

-----------------------------------------------------------------------------
(* Properties.                                                              *)

(* Type invariant. *)
TypeOK ==
  /\ min \in Nat /\ start \in Slots /\ populated \in 0 .. Chunks
  /\ last \in Nat
  /\ ring \in [Slots -> Nat \cup {Junk}]
  /\ stop \in BOOLEAN
  /\ gpc \in {"test", "asleep", "writing", "written", "done"}
  /\ upc \in {"idle", "signal", "stopping", "joining", "freed"}

(* The populated part of the ring is the key stream from key_buf_key_pos_   *)
(* min on, while the thread writes to the ring without the mutex and        *)
(* whatever jumps the requests make.                                        *)
PopulatedIsKeyStream ==
  \A i \in 0 .. populated - 1 : ring[(start + i) % Chunks] = min + i

(* gkcrypt_generate_next_chunk's assertion: there is room for a chunk.      *)
RoomForChunk == gpc \in {"writing", "written"} => populated < Chunks

(* The ring and its counters, with the generator anywhere in its loop.      *)
BufferSound == PopulatedIsKeyStream /\ RoomForChunk

(* Once requests get no further, the generator gets ahead of the user and  *)
(* stays there: a full buffer with the user in its first half.              *)
GetsAhead == <>[](gpc = "done" \/ (populated = Chunks /\ ~ShouldGenerate))

(* chiaki_gkcrypt_fini always gets its thread back. *)
FiniEnds == upc = "stopping" ~> upc = "freed"

(* The generator's sleep: it wakes for the user, and for fini.              *)
GeneratorWakes == GetsAhead /\ FiniEnds
=============================================================================
