----------------------------- MODULE PacketKeys -----------------------------
(***************************************************************************)
(* The way of a packet's key in the Takion thread: packets carry only the  *)
(* low half of the position in the key stream that their MAC and           *)
(* encryption use; ChiakiKeyState of lib/src/gkcrypt.c completes it with   *)
(* the last position that was authentic, and the payload is decrypted with *)
(* the key stream at that position, out of the buffer that another thread  *)
(* fills (GKCryptKeyBuf).                                                  *)
(*                                                                         *)
(* The Takion thread handles one packet at a time (takion_handle_packet).  *)
(* The network, and the console's positions, are the environment: sent is  *)
(* the highest position used, flight the positions of packets that may     *)
(* still arrive, out of order, more than once, or never.                   *)
(***************************************************************************)
EXTENDS GKCryptKeyBuf, SeqNum

CONSTANTS
  Block,      (* CHIAKI_GKCRYPT_BLOCK_SIZE, in units: the payload's key stream
                 begins one block after the packet's position                 *)
  MaxSent     (* bound: the console uses no position above it                 *)

ASSUME PacketAssumption == Block \in Nat /\ MaxSent \in Nat

VARIABLES
  prev,      (* ChiakiKeyState.prev                                           *)
  sent,      (* environment: the highest position the console has used       *)
  flight     (* environment: positions of packets in the network             *)

keys == <<prev, sent, flight>>
all == <<vars, keys>>

-----------------------------------------------------------------------------
(* The position of a packet.                                                *)

Low(p) == Wrap(p)                       \* (uint32_t)p
High(p) == p \div SeqMod                \* (uint32_t)(p >> 32)

(* chiaki_key_state_request_pos *)
RequestPos(p, low) ==
  LET high == IF SeqGt(low, Low(p)) /\ low < Low(p) THEN High(p) + 1
              ELSE IF SeqLt(low, Low(p)) /\ low > Low(p) /\ High(p) # 0 THEN High(p) - 1
              ELSE High(p)
  IN high * SeqMod + low

KeysInit == prev = 0 /\ sent = 0 /\ flight = {}

(* The console sends at a later position.  The half space of positions that *)
(* the low part can tell apart is never exceeded: no packet is delayed, and *)
(* nothing authentic stays away, for as long as that (2^31 bytes of stream).*)
Emit(p) ==
  /\ p > sent
  /\ \A q \in flight \cup {prev} : p - q < Half
  /\ sent' = p /\ flight' = flight \cup {p}
  /\ UNCHANGED prev

Lose(p) == flight' = flight \ {p} /\ UNCHANGED <<prev, sent>>

(* takion_handle_packet for a packet whose MAC is right: the position is    *)
(* requested to compute the MAC and committed (takion_handle_packet_mac),   *)
(* and requested again, remembering it, when the packet is parsed.          *)
Receive(p) ==
  /\ LET pos == RequestPos(prev, Low(p)) IN prev' = RequestPos(pos, Low(p))
  /\ \E rest \in {flight, flight \ {p}} : flight' = rest
  /\ UNCHANGED sent

\* Mutant: the position is remembered before the MAC is known to be right.
ReceiveCorruptCommits(low) == prev' = RequestPos(prev, low) /\ UNCHANGED <<sent, flight>>

(* A packet whose MAC is wrong, whatever its position says: dropped before  *)
(* anything is committed.                                                   *)
ReceiveCorrupt(low) == prev' = prev /\ UNCHANGED <<sent, flight>>

KeysNext ==
  \/ \E p \in 1 .. MaxSent : Emit(p)
  \/ \E p \in flight : Lose(p) \/ Receive(p)
  \/ \E low \in SeqNums : ReceiveCorrupt(low)

\* The positions alone, whatever is done with them.
KeysSpec == KeysInit /\ [][KeysNext]_keys

-----------------------------------------------------------------------------
(* The packet and the buffer.                                               *)

PInit == Init /\ KeysInit

(* What the console sends, what is lost, and packets with a wrong MAC.      *)
Network ==
  /\ \/ \E p \in 1 .. MaxSent : Emit(p)
     \/ \E p \in flight : Lose(p)
     \/ \E low \in SeqNums : ReceiveCorrupt(low)
  /\ UNCHANGED vars

(* chiaki_key_state_request_pos of the packet sent at p *)
Position(p) == RequestPos(prev, Low(p))

(* An authentic audio or video packet: takion_handle_packet, then            *)
(* chiaki_gkcrypt_decrypt by stream_connection_takion_av.                   *)
DecryptPacket ==
  \E p \in flight, len \in 1 .. MaxLen :
     Receive(p) /\ Get(Position(p) + Block, len)

(* Any other authentic packet: only its MAC is checked.                     *)
PlainPacket == \E p \in flight : upc = "idle" /\ Receive(p) /\ UNCHANGED vars

BufferStep == Generator \/ GenFail \/ Signal \/ FiniStop \/ FiniSignal \/ FiniJoin

PNext ==
  \/ Network
  \/ DecryptPacket
  \/ PlainPacket
  \/ BufferStep /\ UNCHANGED keys

(* The generator and whoever signals it or waits for its end go on; packets *)
(* need not come, and the crypt need not be dropped.                        *)
PFairness ==
  /\ WF_all(Generator /\ UNCHANGED keys)
  /\ WF_all(Signal /\ UNCHANGED keys)
  /\ WF_all((FiniSignal \/ FiniJoin) /\ UNCHANGED keys)

PSpec == PInit /\ [][PNext]_all /\ PFairness

-----------------------------------------------------------------------------
(* Properties.                                                              *)

(* Positions are numbers. *)
PositionsTyped == prev \in Nat /\ sent \in Nat /\ flight \subseteq Nat

(* Every packet that can arrive is completed to the position the console    *)
(* used (chiaki_key_state_request_pos), however often the low half has      *)
(* wrapped since, in whatever order the packets come, and with corrupt      *)
(* packets in between.                                                      *)
Reconstructs == \A p \in flight : RequestPos(prev, Low(p)) = p

(* Whichever packet comes next, its payload is decrypted with the key       *)
(* stream the console encrypted it with: the position may jump ahead of the *)
(* buffer, fall behind it, or lie across the ring's end while the generator *)
(* is in the middle of a chunk.                                             *)
DecryptsRight ==
  upc = "idle" =>
    \A p \in flight, len \in 1 .. MaxLen :
       KeyStream(Position(p) + Block, len) = Generated(p + Block, len)
=============================================================================
