----------------------------- MODULE TakionSend -----------------------------
(***************************************************************************)
(* lib/src/takion.c and gkcrypt.c: how the threads of a stream share the   *)
(* local key stream when they send.  A control or congestion packet takes  *)
(* its key position in one critical section of gkcrypt_local_mutex and its *)
(* MAC in another, with its sequence number taken in between under a mutex *)
(* of its own, so packets are sealed and sent in another order than that   *)
(* of their positions.  A feedback or microphone packet does all of it,    *)
(* and its encryption, under one (recursive) lock.                         *)
(*                                                                         *)
(* Content is left out: a packet is its key position, the key its MAC is   *)
(* made with, and the bytes of the key stream its payload is mixed with.   *)
(***************************************************************************)
EXTENDS Integers

CONSTANTS
  Threads,    (* the callers: Takion, stream connection, congestion, feedback *)
  Block,      (* CHIAKI_GKCRYPT_BLOCK_SIZE                                    *)
  Refresh,    (* CHIAKI_GKCRYPT_GMAC_KEY_REFRESH_KEY_POS                      *)
  SizeMax,    (* SIZE_MAX, where the position would overflow                  *)
  Sizes,      (* bound: the sizes of the payloads sent                        *)
  MaxNum      (* bound: sequence numbers taken                                *)

VARIABLES
  crypt,      (* gkcrypt_local is set                                         *)
  position,   (* key_pos_local                                                *)
  seqNum,     (* seq_num_local, counted from the first                        *)
  index,      (* key_gmac_index_current                                       *)
  gmacKey,    (* the period that key_gmac_current was generated for           *)
  holder,     (* who holds gkcrypt_local_mutex between two steps              *)
  step,       (* per thread: idle, number, seal, raw, encrypt                 *)
  packet,     (* per thread: its packet                                       *)
  uses,       (* per byte of the key stream: how many payload bytes it masked *)
  wire        (* the sealed packets on the network                            *)

vars == <<crypt, position, seqNum, index, gmacKey, holder, step, packet,
          uses, wire>>

Nobody == "nobody"
Blank == [pos |-> 0, size |-> 0, num |-> 0, key |-> 0]
Bytes == 0 .. SizeMax

Init ==
  /\ crypt = FALSE /\ position = 0 /\ seqNum = 0
  /\ index = 0 /\ gmacKey = 0
  /\ holder = Nobody
  /\ step = [t \in Threads |-> "idle"]
  /\ packet = [t \in Threads |-> Blank]
  /\ uses = [b \in Bytes |-> 0]
  /\ wire = {}

(* chiaki_takion_set_crypt: the Takion thread, in the handler of the        *)
(* console's bang, without the mutex.                                       *)
SetCrypt ==
  /\ ~crypt /\ crypt' = TRUE
  /\ UNCHANGED <<position, seqNum, index, gmacKey, holder, step, packet, uses, wire>>

(* chiaki_takion_crypt_advance_key_pos *)
\* Mutant: the size is replaced by what is missing to a block.
AdvanceRest(n) == n % Block
Advance(n) == n + (n % Block)
Overflows(n) == crypt /\ SizeMax - position < Advance(n)
Advanced(n) == IF crypt THEN position + Advance(n) ELSE position
Taken == IF crypt THEN position ELSE 0

-----------------------------------------------------------------------------
(* chiaki_takion_send_message_data and _cont, with a sequence number;       *)
(* chiaki_takion_send_message_data_ack and chiaki_takion_send_congestion,   *)
(* without one.                                                             *)

TakePosition(t, n, numbered) ==
  /\ step[t] = "idle" /\ holder = Nobody
  /\ ~Overflows(n)
  /\ packet' = [packet EXCEPT ![t] = [Blank EXCEPT !.pos = Taken, !.size = n]]
  /\ position' = Advanced(n)
  /\ step' = [step EXCEPT ![t] = IF numbered THEN "number" ELSE "seal"]
  /\ UNCHANGED <<crypt, seqNum, index, gmacKey, holder, uses, wire>>

TakeNumber(t) ==
  /\ step[t] = "number" /\ seqNum < MaxNum
  /\ packet' = [packet EXCEPT ![t].num = seqNum]
  /\ seqNum' = seqNum + 1
  /\ step' = [step EXCEPT ![t] = "seal"]
  /\ UNCHANGED <<crypt, position, index, gmacKey, holder, uses, wire>>

(* chiaki_gkcrypt_gmac: the key of the packet's period is the current one,  *)
(* becomes it when it is later, or is made for this packet only.            *)
PeriodOf(pos) == (IF pos > 0 THEN pos - 1 ELSE 0) \div Refresh
\* Mutant: a packet of an earlier period is sealed with the current key.
KeyForCurrent(pos) == IF PeriodOf(pos) > index THEN PeriodOf(pos) ELSE gmacKey
KeyFor(pos) == IF PeriodOf(pos) = index THEN gmacKey ELSE PeriodOf(pos)

Gmac(pos) ==
  IF PeriodOf(pos) > index
    THEN index' = PeriodOf(pos) /\ gmacKey' = PeriodOf(pos)
    ELSE UNCHANGED <<index, gmacKey>>

(* chiaki_takion_send: without a crypt the MAC stays zero.                  *)
Seal(t) ==
  /\ step[t] = "seal" /\ holder = Nobody
  /\ IF crypt THEN /\ packet' = [packet EXCEPT ![t].key = KeyFor(packet[t].pos)]
                   /\ Gmac(packet[t].pos)
              ELSE UNCHANGED <<packet, index, gmacKey>>
  /\ step' = [step EXCEPT ![t] = "raw"]
  /\ UNCHANGED <<crypt, position, seqNum, holder, uses, wire>>

(* The cipher fails: a numbered packet's number is used up.                 *)
SealFails(t) ==
  /\ step[t] = "seal" /\ holder = Nobody /\ crypt
  /\ Gmac(packet[t].pos)
  /\ step' = [step EXCEPT ![t] = "idle"]
  /\ UNCHANGED <<crypt, position, seqNum, holder, packet, uses, wire>>

Sealed(t) == [pos |-> packet[t].pos, key |-> packet[t].key]

(* chiaki_takion_send_raw, with no lock, before a numbered packet goes to   *)
(* the send buffer (TakionSendBuffer).  send may fail: then the packet is   *)
(* freed and the console never sees its number.                             *)
SendRaw(t) ==
  /\ step[t] = "raw"
  /\ wire' = wire \cup {Sealed(t)}
  /\ step' = [step EXCEPT ![t] = "idle"]
  /\ UNCHANGED <<crypt, position, seqNum, index, gmacKey, holder, packet, uses>>

SendFails(t) ==
  /\ step[t] = "raw"
  /\ step' = [step EXCEPT ![t] = "idle"]
  /\ UNCHANGED <<crypt, position, seqNum, index, gmacKey, holder, packet, uses, wire>>

-----------------------------------------------------------------------------
(* takion_send_feedback_packet and chiaki_takion_send_mic_packet: the       *)
(* feedback sender starts after the crypt is there.                         *)

Reserved(n) == n + Block

TakeLocked(t, n) ==
  /\ step[t] = "idle" /\ holder = Nobody /\ crypt
  /\ ~Overflows(Reserved(n))
  /\ packet' = [packet EXCEPT ![t] = [Blank EXCEPT !.pos = Taken, !.size = n]]
  /\ position' = Advanced(Reserved(n))
  /\ holder' = t
  /\ step' = [step EXCEPT ![t] = "encrypt"]
  /\ UNCHANGED <<crypt, seqNum, index, gmacKey, uses, wire>>

(* The payload is mixed with the key stream one block after the position.   *)
Masked(t) == packet[t].pos + Block .. packet[t].pos + Block + packet[t].size - 1
Mask(t) == uses' = [b \in Bytes |-> IF b \in Masked(t) THEN uses[b] + 1 ELSE uses[b]]

EncryptAndSend(t) ==
  /\ step[t] = "encrypt"
  /\ Mask(t)
  /\ Gmac(packet[t].pos)
  /\ wire' = wire \cup {[pos |-> packet[t].pos, key |-> KeyFor(packet[t].pos)]}
  /\ holder' = Nobody
  /\ step' = [step EXCEPT ![t] = "idle"]
  /\ UNCHANGED <<crypt, position, seqNum, packet>>

(* chiaki_gkcrypt_encrypt fails, or the MAC or the network after it.        *)
EncryptFails(t) ==
  /\ step[t] = "encrypt"
  /\ \/ UNCHANGED <<uses, index, gmacKey>>
     \/ Mask(t) /\ Gmac(packet[t].pos)
  /\ holder' = Nobody
  /\ step' = [step EXCEPT ![t] = "idle"]
  /\ UNCHANGED <<crypt, position, seqNum, packet, wire>>

Next ==
  \/ SetCrypt
  \/ \E t \in Threads :
       \/ \E n \in Sizes : \/ \E numbered \in BOOLEAN : TakePosition(t, n, numbered)
                           \/ TakeLocked(t, n)
       \/ TakeNumber(t) \/ Seal(t) \/ SealFails(t)
       \/ SendRaw(t) \/ SendFails(t)
       \/ EncryptAndSend(t) \/ EncryptFails(t)

Spec == Init /\ [][Next]_vars

-----------------------------------------------------------------------------
Packet == [pos : Nat, size : Nat, num : Nat, key : Nat]

(* The types of the senders' state. *)
TypeOK ==
  /\ crypt \in BOOLEAN /\ position \in Nat /\ seqNum \in Nat
  /\ index \in Nat /\ gmacKey \in Nat
  /\ holder \in Threads \cup {Nobody}
  /\ step \in [Threads -> {"idle", "number", "seal", "raw", "encrypt"}]
  /\ packet \in [Threads -> Packet]
  /\ uses \in [Bytes -> Nat]
  /\ wire \subseteq [pos : Nat, key : Nat]

(* Whatever the order in which the threads' sends run, a byte of the key    *)
(* stream masks at most one byte of payload.                                *)
KeyStreamOnce == \A b \in Bytes : uses[b] <= 1

(* Every packet on the network is sealed with the key of the period its own *)
(* position is in, though a send of a later period may have moved the       *)
(* current key on between taking the position and sealing.                  *)
MacRight == \A p \in wire : p.key = PeriodOf(p.pos)

SendSound == KeyStreamOnce /\ MacRight
=============================================================================
