-------------------------- MODULE TakionSendBuffer --------------------------
(***************************************************************************)
(* lib/src/takionsendbuffer.c: the retransmission buffer of a Takion       *)
(* connection.  Sender threads push the data packets they have sent, the   *)
(* Takion thread removes what the console acknowledges and finally tears   *)
(* the buffer down, and a thread of the buffer's own re-sends.             *)
(*                                                                         *)
(* packets[0 .. count - 1] is the array of the code, gaps closed with the  *)
(* code's own shifting; slots from count on keep their old contents, which *)
(* matters because the re-send thread looks at a slot without the mutex.   *)
(* Push and ack run under the mutex from beginning to end and are one step *)
(* each; the re-send thread is modelled with a program counter.  A packet  *)
(* is named by its sequence number: fewer than SeqMod are ever sent.       *)
(***************************************************************************)
EXTENDS SeqNum, FiniteSets, Sequences

CONSTANTS
  Size,       (* packets_size, TAKION_SEND_BUFFER_SIZE                       *)
  MaxTries,   (* TAKION_DATA_RESEND_TRIES_MAX                                *)
  Senders,    (* threads that call chiaki_takion_send_message_data           *)
  NoSeq,      (* the sender is not between sending and pushing               *)
  FirstSeq,   (* seq_num_local after the handshake                           *)
  MaxSends    (* bound: data packets sent over the whole run                 *)

ASSUME SizeAssumption == Size \in Nat \ {0} /\ MaxTries \in Nat
ASSUME SeqAssumption == FirstSeq \in SeqNums /\ NoSeq \notin SeqNums
ASSUME SendsAssumption == MaxSends \in Nat /\ MaxSends <= Half

VARIABLES
  packets, count,   (* the array                                             *)
  shouldStop,
  mutex,            (* "free", or "resend": held by the re-send thread       *)
  rpc, ri, rseq,    (* re-send thread: position, loop index, give-up number  *)
  woken,            (* the re-send thread's sleep has been signalled         *)
  tpc,              (* Takion thread: "running", then the steps of fini      *)
  sent,             (* number of data packets sent so far                    *)
  unpushed,         (* what each sender has sent and not pushed yet          *)
  live,             (* history: packets whose memory the buffer owns         *)
  unacked,          (* history: packets taken and not acknowledged since     *)
  gaveUp            (* history: a packet has hit the maximum of tries        *)

array == <<packets, count>>
resender == <<rpc, ri, rseq>>
history == <<live, unacked, gaveUp>>
vars == <<packets, count, shouldStop, mutex, rpc, ri, rseq, woken, tpc, sent,
          unpushed, live, unacked, gaveUp>>

Slots == 0 .. Size - 1
SeqOf(k) == SeqAdd(FirstSeq, k)                \* of the packet sent as number k
SentSeqs == { SeqOf(k) : k \in 0 .. sent - 1 }
Covers(s, x) == x = s \/ SeqLt(x, s)           \* acknowledging s covers x
Held == { packets[i].seq : i \in 0 .. count - 1 }

Asleep == rpc \in {"timed", "untimed"}
Unlocked == rpc \in {"giveUp", "ackIt", "relock"}      \* in the middle of a scan

Init ==
  /\ packets = [i \in Slots |-> [seq |-> 0, tries |-> 0, last |-> "recent"]]
  /\ count = 0
  /\ shouldStop = FALSE /\ mutex = "free"
  /\ rpc = "start" /\ ri = 0 /\ rseq = 0 /\ woken = FALSE
  /\ tpc = "running"
  /\ sent = 0 /\ unpushed = [t \in Senders |-> NoSeq]
  /\ live = {} /\ unacked = {} /\ gaveUp = FALSE

-----------------------------------------------------------------------------
(* Sender threads: chiaki_takion_send_message_data takes the next number    *)
(* and sends the packet; it pushes it into the buffer afterwards.           *)

Send(t) ==
  /\ tpc # "freed" /\ sent < MaxSends /\ unpushed[t] = NoSeq
  /\ \/ unpushed' = [unpushed EXCEPT ![t] = SeqOf(sent)]
     \/ unpushed' = unpushed                   \* sending failed: dropped
  /\ sent' = sent + 1
  /\ UNCHANGED <<array, shouldStop, mutex, resender, woken, tpc, history>>

\* Mutant: the re-send thread is not signalled.
PushSilent(t) ==
  /\ tpc # "freed" /\ mutex = "free" /\ unpushed[t] # NoSeq
  /\ unpushed' = [unpushed EXCEPT ![t] = NoSeq]
  /\ count < Size /\ unpushed[t] \notin Held
  /\ packets' = [packets EXCEPT ![count] = [seq |-> unpushed[t], tries |-> 0, last |-> "recent"]]
  /\ count' = count + 1
  /\ live' = live \cup {unpushed[t]} /\ unacked' = unacked \cup {unpushed[t]}
  /\ UNCHANGED <<woken, shouldStop, mutex, resender, tpc, sent, gaveUp>>

(* chiaki_takion_send_buffer_push; a full buffer or a duplicate number only *)
(* frees the packet, and the sender ignores the error.  A packet pushed     *)
(* while a scan has the mutex released can be stamped after the scan's now. *)
Push(t) ==
  /\ tpc # "freed" /\ mutex = "free" /\ unpushed[t] # NoSeq
  /\ unpushed' = [unpushed EXCEPT ![t] = NoSeq]
  /\ IF count >= Size \/ unpushed[t] \in Held
     THEN UNCHANGED <<array, woken, live, unacked>>
     ELSE /\ \E l \in IF Unlocked THEN {"recent", "ahead"} ELSE {"recent"} :
               packets' = [packets EXCEPT ![count] = [seq |-> unpushed[t], tries |-> 0, last |-> l]]
          /\ count' = count + 1
          /\ live' = live \cup {unpushed[t]} /\ unacked' = unacked \cup {unpushed[t]}
          /\ woken' = (woken \/ (count = 0 /\ Asleep))
  /\ UNCHANGED <<shouldStop, mutex, resender, tpc, sent, gaveUp>>

-----------------------------------------------------------------------------
(* chiaki_takion_send_buffer_ack: one pass over the array that closes each  *)
(* gap of covered packets when the next gap, or the end, is reached.        *)

NoShift == -1
\* Mutant: the packet moves, its retry state stays behind.
MovedPacketOnly(a, dst, src, len) ==
  [j \in Slots |-> IF j \in dst .. dst + len - 1
                   THEN [a[j] EXCEPT !.seq = a[j - dst + src].seq] ELSE a[j]]

Moved(a, dst, src, len) ==                     \* memmove of len slots
  [j \in Slots |-> IF j \in dst .. dst + len - 1 THEN a[j - dst + src] ELSE a[j]]

Closing(s) ==
  LET pass[i \in 0 .. count] ==
        IF i = 0 THEN [a |-> packets, start |-> NoShift, shift |-> 0]
        ELSE LET p == pass[i - 1]
                 k == i - 1
             IN IF ~Covers(s, p.a[k].seq) THEN p
                ELSE IF p.start = NoShift THEN [p EXCEPT !.start = k, !.shift = 1]
                ELSE IF p.start + p.shift = k THEN [p EXCEPT !.shift = @ + 1]
                ELSE [a |-> Moved(p.a, p.start, p.start + p.shift, k - (p.start + p.shift)),
                      start |-> k - p.shift, shift |-> p.shift + 1]
  IN pass[count]

\* Mutant: the part behind the last gap is not moved up.
AckArrayNoTail(s) ==
  /\ packets' = Closing(s).a /\ count' = count - Closing(s).shift
  /\ live' = live \ { x \in Held : Covers(s, x) }

\* Mutant: the packet after the acknowledged one goes as well.
AckArrayOneMore(s) ==
  LET p == Closing(SeqAdd(s, 1))
      from == p.start + p.shift
  IN /\ packets' = IF p.start # NoShift /\ from < count
                   THEN Moved(p.a, p.start, from, count - from) ELSE p.a
     /\ count' = count - p.shift
     /\ live' = live \ { x \in Held : Covers(SeqAdd(s, 1), x) }

AckArray(s) ==
  LET p == Closing(s)
      from == p.start + p.shift
  IN /\ packets' = IF p.start # NoShift /\ from < count
                   THEN Moved(p.a, p.start, from, count - from) ELSE p.a
     /\ count' = count - p.shift
     /\ live' = live \ { x \in Held : Covers(s, x) }

(* The Takion thread handles an acknowledgement from the console, which can *)
(* only name a packet that was sent.                                        *)
Ack(s) ==
  /\ tpc = "running" /\ mutex = "free" /\ s \in SentSeqs
  /\ AckArray(s)
  /\ unacked' = { x \in unacked : ~Covers(s, x) }
  /\ UNCHANGED <<shouldStop, mutex, resender, woken, tpc, sent, unpushed, gaveUp>>

(* chiaki_takion_send_buffer_fini, called by the Takion thread on its way   *)
(* out: the flag is set and the condition signalled without the mutex.      *)
FiniSetStop ==
  /\ tpc = "running"
  /\ tpc' = "stopSet" /\ shouldStop' = TRUE
  /\ UNCHANGED <<array, mutex, resender, woken, sent, unpushed, history>>

FiniSignal ==
  /\ tpc = "stopSet"
  /\ tpc' = "joining" /\ woken' = (woken \/ Asleep)
  /\ UNCHANGED <<array, shouldStop, mutex, resender, sent, unpushed, history>>

FiniJoin ==
  /\ tpc = "joining" /\ rpc = "done"
  /\ tpc' = "freed" /\ live' = live \ Held
  /\ UNCHANGED <<array, shouldStop, mutex, resender, woken, sent, unpushed, unacked, gaveUp>>

-----------------------------------------------------------------------------
(* The re-send thread: takion_send_buffer_thread_func.                      *)

Resender(from, to) == rpc = from /\ rpc' = to

RLock ==
  /\ Resender("start", "top") /\ mutex = "free" /\ mutex' = "resend"
  /\ UNCHANGED <<array, shouldStop, ri, rseq, woken, tpc, sent, unpushed, history>>

(* The waits test their predicate first; with packets the wait has a        *)
(* timeout, without it has none.                                            *)
RTop ==
  /\ \/ shouldStop /\ Resender("top", "after")
     \/ ~shouldStop /\ count # 0 /\ Resender("top", "toTimed")
     \/ ~shouldStop /\ count = 0 /\ Resender("top", "toUntimed")
  /\ UNCHANGED <<array, shouldStop, mutex, ri, rseq, woken, tpc, sent, unpushed, history>>

(* pthread_cond_wait gives up the mutex and sleeps. *)
RSleep ==
  /\ Resender("toTimed", "timed") \/ Resender("toUntimed", "untimed")
  /\ mutex' = "free" /\ woken' = FALSE
  /\ UNCHANGED <<array, shouldStop, ri, rseq, tpc, sent, unpushed, history>>

(* A signalled sleeper takes the mutex and tests the predicate again. *)
RWake ==
  /\ woken /\ mutex = "free"
  /\ \/ shouldStop /\ Asleep /\ rpc' = "after"
     \/ ~shouldStop /\ Resender("timed", "toTimed")
     \/ ~shouldStop /\ count # 0 /\ Resender("untimed", "after")
     \/ ~shouldStop /\ count = 0 /\ Resender("untimed", "toUntimed")
  /\ mutex' = "resend" /\ woken' = FALSE
  /\ UNCHANGED <<array, shouldStop, ri, rseq, tpc, sent, unpushed, history>>

RTimeout ==
  /\ Resender("timed", "after") /\ mutex = "free"
  /\ mutex' = "resend" /\ woken' = FALSE
  /\ UNCHANGED <<array, shouldStop, ri, rseq, tpc, sent, unpushed, history>>

(* set_timeout leaves a deadline of exactly one second in nanoseconds as it *)
(* is, and the wait returns at once with an error, holding the mutex: the   *)
(* thread ends although nobody stopped it, and the buffer goes on without.  *)
RRefused ==
  /\ Resender("toTimed", "done") /\ mutex' = "free"
  /\ UNCHANGED <<array, shouldStop, ri, rseq, woken, tpc, sent, unpushed, history>>

RAfter ==
  /\ \/ shouldStop /\ Resender("after", "done") /\ mutex' = "free"
     \/ ~shouldStop /\ Resender("after", "scan") /\ mutex' = mutex
  /\ ri' = 0
  /\ packets' = [i \in Slots |-> [packets[i] EXCEPT !.last = IF @ = "ahead" THEN "recent" ELSE @]]
  /\ UNCHANGED <<count, shouldStop, rseq, woken, tpc, sent, unpushed, history>>

(* takion_send_buffer_resend, one packet of the loop per step.  The clock   *)
(* is read once per scan, and now - last_send_ms is unsigned: a packet      *)
(* stamped after that reading counts as overdue until the next scan.        *)
Due(i) == packets[i].last # "recent"

RScanEnd ==
  /\ Resender("scan", "top") /\ ri >= count
  /\ UNCHANGED <<array, shouldStop, mutex, ri, rseq, woken, tpc, sent, unpushed, history>>

\* Mutant: one try more than the maximum.
RScanPacketOnceMore ==
  /\ Resender("scan", "scan") /\ ri < count
  /\ \/ ~Due(ri) /\ UNCHANGED packets
     \/ /\ Due(ri) /\ packets[ri].tries <= MaxTries
        /\ packets' = [packets EXCEPT ![ri].tries = @ + 1, ![ri].last = "recent"]
  /\ ri' = ri + 1
  /\ UNCHANGED <<count, shouldStop, mutex, rseq, woken, tpc, sent, unpushed, history>>

\* Mutant: the tries are not counted.
RScanPacketUncounted ==
  /\ Resender("scan", "scan") /\ ri < count
  /\ \/ ~Due(ri) /\ UNCHANGED packets
     \/ Due(ri) /\ packets' = [packets EXCEPT ![ri].last = "recent"]
  /\ ri' = ri + 1
  /\ UNCHANGED <<count, shouldStop, mutex, rseq, woken, tpc, sent, unpushed, history>>

RScanPacket ==
  /\ Resender("scan", "scan") /\ ri < count
  /\ \/ ~Due(ri) /\ UNCHANGED packets
     \/ /\ Due(ri) /\ packets[ri].tries < MaxTries
        /\ packets' = [packets EXCEPT ![ri].tries = @ + 1, ![ri].last = "recent"]
  /\ ri' = ri + 1
  /\ UNCHANGED <<count, shouldStop, mutex, rseq, woken, tpc, sent, unpushed, history>>

(* Giving up: the mutex is released, the packet's number is read from its   *)
(* slot, and the ordinary ack is called with it.                            *)
RGiveUp ==
  /\ Resender("scan", "giveUp") /\ ri < count
  /\ Due(ri) /\ packets[ri].tries >= MaxTries
  /\ gaveUp' = TRUE
  /\ mutex' = "free"
  /\ UNCHANGED <<array, shouldStop, ri, rseq, woken, tpc, sent, unpushed, live, unacked>>

RReadSeq ==
  /\ Resender("giveUp", "ackIt")
  /\ rseq' = packets[ri].seq
  /\ UNCHANGED <<array, shouldStop, mutex, ri, woken, tpc, sent, unpushed, history>>

RAckIt ==
  /\ Resender("ackIt", "relock") /\ mutex = "free"
  /\ AckArray(rseq)
  /\ UNCHANGED <<shouldStop, mutex, ri, rseq, woken, tpc, sent, unpushed, unacked, gaveUp>>

(* The loop index steps back and is then advanced by the loop, or, at the   *)
(* first packet, only advanced.                                             *)
RRelock ==
  /\ Resender("relock", "scan") /\ mutex = "free" /\ mutex' = "resend"
  /\ ri' = IF ri > 0 THEN ri ELSE 1
  /\ UNCHANGED <<array, shouldStop, rseq, woken, tpc, sent, unpushed, history>>

(* A packet's last transmission is TAKION_DATA_RESEND_TIMEOUT_MS ago.  A   *)
(* scan in progress does not see it: its now is fixed.                      *)
Age(i) ==
  /\ rpc # "scan" /\ ~Unlocked
  /\ i < count /\ packets[i].last = "recent"
  /\ packets' = [packets EXCEPT ![i].last = "old"]
  /\ UNCHANGED <<count, shouldStop, mutex, resender, woken, tpc, sent, unpushed, history>>

ResendThread ==
  \/ RLock \/ RTop \/ RSleep \/ RWake \/ RTimeout \/ RRefused \/ RAfter
  \/ RScanEnd \/ RScanPacket \/ RGiveUp \/ RReadSeq \/ RAckIt \/ RRelock
Fini == FiniSetStop \/ FiniSignal \/ FiniJoin

Next ==
  \/ \E t \in Senders : Send(t) \/ Push(t)
  \/ \E s \in SentSeqs : Ack(s)
  \/ Fini
  \/ ResendThread
  \/ \E i \in Slots : Age(i)

(* The threads keep running; nobody has to send, acknowledge or stop.  Time *)
(* passes whatever they do: a packet that can age again and again, between  *)
(* the scans, does.                                                         *)
Fairness ==
  /\ WF_vars(ResendThread)
  /\ WF_vars(FiniSignal) /\ WF_vars(FiniJoin)
  /\ \A t \in Senders : WF_vars(Push(t))
  /\ \A i \in Slots : SF_vars(Age(i))

Spec == Init /\ [][Next]_vars
FairSpec == Spec /\ Fairness

-----------------------------------------------------------------------------
(* Properties.                                                              *)

(* Type invariant. *)
TypeOK ==
  /\ packets \in [Slots -> [seq : SeqNums, tries : 0 .. MaxTries, last : {"recent", "old", "ahead"}]]
  /\ count \in 0 .. Size
  /\ shouldStop \in BOOLEAN /\ woken \in BOOLEAN
  /\ mutex \in {"free", "resend"}
  /\ rpc \in {"start", "top", "toTimed", "toUntimed", "timed", "untimed", "after",
              "scan", "giveUp", "ackIt", "relock", "done"}
  /\ ri \in 0 .. Size /\ rseq \in SeqNums
  /\ tpc \in {"running", "stopSet", "joining", "freed"}
  /\ sent \in 0 .. MaxSends
  /\ unpushed \in [Senders -> SeqNums \cup {NoSeq}]
  /\ live \subseteq SentSeqs /\ unacked \subseteq SentSeqs /\ gaveUp \in BOOLEAN

(* Every packet buffer has exactly one owner: the packets in the array are  *)
(* those whose memory has not been freed, none twice, and the teardown      *)
(* frees what is left.                                                      *)
OwnedOnce ==
  IF tpc = "freed" THEN live = {} ELSE live = Held /\ Cardinality(Held) = count

(* The in-place compaction of ack: whenever the buffer shrinks, exactly the *)
(* packets some sequence number covers are gone and the others keep their   *)
(* order and their retry state.                                             *)
Contents == [i \in 1 .. count |-> packets[i - 1]]
ShrinksByAck ==
  [][count' < count =>
       \E s \in SeqNums : Contents' = SelectSeq(Contents, LAMBDA p : ~Covers(s, p.seq))]_vars

(* A packet that was pushed stays in the buffer to be re-sent until the      *)
(* console acknowledges it, as long as no packet has exhausted its tries:   *)
(* giving up is cumulative and takes every older packet with it.            *)
KeptWhileTrying ==
  tpc # "freed" /\ ~gaveUp => unacked \subseteq live

(* A packet is in the buffer once, for as long as the console may need it.  *)
BufferKept == OwnedOnce /\ KeptWhileTrying

(* Nothing stays in the buffer for good, even if the console never answers: *)
(* it is acknowledged, given up or freed with the buffer, unless the thread *)
(* is over before its time (takionsendbuffer.c:231).                        *)
Deserted == rpc = "done" /\ ~shouldStop
EventuallyReleased ==
  \A k \in 0 .. MaxSends - 1 : SeqOf(k) \in live ~> SeqOf(k) \notin live \/ Deserted

(* A push into the empty buffer reaches the re-send thread however its wait *)
(* interleaves: it never sleeps without a timeout beside unsent packets.    *)
PushWakes == rpc = "untimed" /\ count # 0 => woken

(* With packets in the buffer the re-send thread waits with a timeout, so   *)
(* that the teardown ends even if its signal comes when nobody waits.       *)
FiniWithPackets == tpc = "joining" /\ count # 0 ~> tpc = "freed"

(* Neither a packet nor the teardown is stuck.                              *)
BufferDrains == EventuallyReleased /\ FiniWithPackets
=============================================================================
