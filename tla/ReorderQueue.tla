---------------------------- MODULE ReorderQueue ----------------------------
(***************************************************************************)
(* lib/src/reorderqueue.c: the circular buffer that puts packets which     *)
(* arrive out of order back into sequence.  The queue covers the sequence  *)
(* numbers begin, begin + 1, ..., begin + count - 1 (modulo SeqMod) and    *)
(* keeps the packet with number s in slot s % Size.                        *)
(*                                                                         *)
(* begin, count, slot and dropBegin are fields of ChiakiReorderQueue.  The *)
(* other variables are history: pos is the number begin would be if        *)
(* sequence numbers never wrapped, memory says which packet pointers are   *)
(* allocated (and the unwrapped number of the packet they point to),       *)
(* delivered lists the unwrapped numbers of the packets handed to the      *)
(* caller of pull, and open turns FALSE when the queue is destroyed.       *)
(*                                                                         *)
(* chiaki_reorder_queue_drop is left out: its one caller (takion.c:915)    *)
(* gets there only past a peek that TakionThread finds it cannot survive.  *)
(***************************************************************************)
EXTENDS SeqNum, Sequences

CONSTANTS
  Size,         (* 2^size_exp, the number of slots                           *)
  Users,        (* the packet pointers that can be allocated                 *)
  NoUser,       (* NULL                                                      *)
  Start,        (* seq_num_start of chiaki_reorder_queue_init                *)
  MaxNum        (* bound: packets with unwrapped numbers above it never come *)

(* The code's sizes (16 slots, a space of 2^32) leave the window far        *)
(* smaller than half the sequence space, and a power of two divides both.   *)
ASSUME SizeAssumption ==
  /\ Size \in Nat \ {0}
  /\ Size < Half
  /\ SeqMod % Size = 0
ASSUME UserAssumption == NoUser \notin Users
ASSUME NumAssumption == Start \in Nat /\ MaxNum \in Nat

VARIABLES
  begin, count, slot,
  dropBegin,    (* drop_strategy: TRUE for DROP_STRATEGY_BEGIN, FALSE for END  *)
  pos, memory, delivered, open

vars == <<begin, count, slot, dropBegin, pos, memory, delivered, open>>

-----------------------------------------------------------------------------
Idx(s) == s % Size
SlotAt(i) == Idx(SeqAdd(begin, i))       \* the slot of index i of the queue

-----------------------------------------------------------------------------
Free == -1                               \* memory[u] of an unallocated u

Init ==
  /\ begin = Wrap(Start)
  /\ count = 0
  /\ slot = [i \in 0 .. Size - 1 |-> [set |-> FALSE, user |-> NoUser]]
  /\ dropBegin \in BOOLEAN
  /\ pos = Start
  /\ memory = [u \in Users |-> Free]
  /\ delivered = << >>
  /\ open = TRUE

(* A packet pointer handed to drop_cb is freed by it (takion_data_drop).    *)
Freed(us) == memory' = [u \in Users |-> IF u \in us THEN Free ELSE memory[u]]

(* chiaki_reorder_queue_push, the caller having just allocated u for the    *)
(* packet with unwrapped number n.                                          *)

Inside(s) == SeqGe(s, begin) /\ SeqLt(s, SeqAdd(begin, count))
Before(s) == SeqLt(s, begin)
\* Mutant: one slot more than there are.
OverflowsLate(s) == SeqLt(SeqAdd(begin, Size + 1), SeqAdd(s, 1))

Overflows(s) == SeqLt(SeqAdd(begin, Size), SeqAdd(s, 1))

(* The number lies in the window and its slot is still free.                *)
PushInside(n, u) ==
  LET s == Wrap(n)
  IN /\ Inside(s)
     /\ ~slot[Idx(s)].set
     /\ slot' = [slot EXCEPT ![Idx(s)] = [set |-> TRUE, user |-> u]]
     /\ memory' = [memory EXCEPT ![u] = n]
     /\ UNCHANGED <<begin, count, pos, delivered, open, dropBegin>>

(* A duplicate, a packet from before the window, or (with DROP_END) one     *)
(* past what the buffer can hold: the new packet goes to drop_cb, which     *)
(* frees it, so that u is unallocated again when push returns.              *)
PushRefused(n, u) ==
  LET s == Wrap(n)
  IN /\ \/ Inside(s) /\ slot[Idx(s)].set
        \/ ~Inside(s) /\ Before(s)
        \/ ~Inside(s) /\ ~Before(s) /\ Overflows(s) /\ ~dropBegin
     /\ UNCHANGED vars

\* Mutant: the slots moved over keep the flag of the previous lap.
ExtendedStale(b, c, s, u) ==
  /\ count' = ((s - b) % SeqMod) + 1
  /\ slot' = [slot EXCEPT ![Idx(s)] = [set |-> TRUE, user |-> u]]

(* The window's end moves up to the packet; the slots it moves over are     *)
(* marked empty before the packet is stored in the last of them.            *)
Extended(b, c, s, u) ==
  LET last == (s - b) % SeqMod
      fresh == { Idx(SeqAdd(b, i)) : i \in c .. last }
  IN /\ count' = last + 1
     /\ slot' = [i \in 0 .. Size - 1 |->
                   IF i = Idx(s) THEN [set |-> TRUE, user |-> u]
                   ELSE IF i \in fresh THEN [set |-> FALSE, user |-> slot[i].user]
                   ELSE slot[i]]

PushBeyond(n, u) ==
  LET s == Wrap(n)
  IN /\ ~Inside(s) /\ ~Before(s)
     /\ ~Overflows(s)
     /\ Extended(begin, count, s, u)
     /\ memory' = [memory EXCEPT ![u] = n]
     /\ UNCHANGED <<begin, pos, delivered, open, dropBegin>>

\* Mutant: eviction under DROP_STRATEGY_END too.
PushEvictingAlways(n, u) ==
  LET s == Wrap(n)
  IN /\ count = 0 /\ ~Inside(s) /\ ~Before(s) /\ Overflows(s)
     /\ begin' = s /\ pos' = n
     /\ Extended(s, 0, s, u)
     /\ memory' = [memory EXCEPT ![u] = n]
     /\ UNCHANGED <<delivered, open, dropBegin>>

\* Mutant: one entry more is evicted than has to be.
PushEvictingMore(n, u) ==
  LET s == Wrap(n)
      excess == ((SeqAdd(s, 1) - SeqAdd(begin, Size)) % SeqMod) + 1
      k == IF excess < count THEN excess ELSE count
      b == IF k = count THEN s ELSE SeqAdd(begin, k)
      evicted == { slot[SlotAt(i)].user : i \in { j \in 0 .. k - 1 : slot[SlotAt(j)].set } }
  IN /\ dropBegin /\ ~Inside(s) /\ ~Before(s) /\ Overflows(s)
     /\ begin' = b /\ pos' = IF k = count THEN n ELSE pos + k
     /\ Extended(b, count - k, s, u)
     /\ memory' = [v \in Users |-> IF v = u THEN n
                                   ELSE IF v \in evicted THEN Free ELSE memory[v]]
     /\ UNCHANGED <<delivered, open, dropBegin>>

(* With DROP_BEGIN the oldest entries make room; once none is left, the     *)
(* window restarts at the packet.                                           *)
PushEvicting(n, u) ==
  LET s == Wrap(n)
      excess == (SeqAdd(s, 1) - SeqAdd(begin, Size)) % SeqMod
      k == IF excess < count THEN excess ELSE count
      b == IF k = count THEN s ELSE SeqAdd(begin, k)
      evicted == { slot[SlotAt(i)].user : i \in { j \in 0 .. k - 1 : slot[SlotAt(j)].set } }
  IN /\ dropBegin
     /\ ~Inside(s) /\ ~Before(s)
     /\ Overflows(s)
     /\ begin' = b
     /\ pos' = IF k = count THEN n ELSE pos + k
     /\ Extended(b, count - k, s, u)
     /\ memory' = [v \in Users |-> IF v = u THEN n
                                   ELSE IF v \in evicted THEN Free ELSE memory[v]]
     /\ UNCHANGED <<delivered, open, dropBegin>>

Push(n, u) ==
  /\ memory[u] = Free
  /\ PushInside(n, u) \/ PushRefused(n, u) \/ PushBeyond(n, u) \/ PushEvicting(n, u)

(* chiaki_reorder_queue_pull: the caller consumes the packet and frees it.  *)
(* The slot stays marked; it is cleared when the window's end moves over it.*)
Pull ==
  LET e == slot[SlotAt(0)]
  IN /\ count > 0 /\ e.set
     /\ begin' = SeqAdd(begin, 1)
     /\ count' = count - 1
     /\ pos' = pos + 1
     /\ delivered' = Append(delivered, memory[e.user])
     /\ Freed({e.user})
     /\ UNCHANGED <<slot, open, dropBegin>>

(* Index i of the queue holds a packet. *)
Holds(i) == i \in 0 .. count - 1 /\ slot[SlotAt(i)].set

(* chiaki_reorder_queue_fini hands what is left in the window to drop_cb.   *)
Fini ==
  /\ Freed({ slot[SlotAt(i)].user : i \in { j \in 0 .. Size - 1 : Holds(j) } })
  /\ open' = FALSE
  /\ UNCHANGED <<begin, count, slot, pos, delivered, dropBegin>>

(* The packets that can arrive: the numbering is unambiguous as long as     *)
(* they are less than half the sequence space away from the window.         *)
Near(n) == n > pos - Half /\ n < pos + Half

Next ==
  /\ open
  /\ \/ \E n \in 0 .. MaxNum, u \in Users : Near(n) /\ Push(n, u)
     \/ Pull
     \/ Fini

Spec == Init /\ [][Next]_vars

-----------------------------------------------------------------------------
(* Properties.                                                              *)

(* Type invariant. *)
TypeOK ==
  /\ begin \in SeqNums
  /\ count \in 0 .. Size
  /\ slot \in [0 .. Size - 1 -> [set : BOOLEAN, user : Users \cup {NoUser}]]
  /\ pos \in Nat
  /\ memory \in [Users -> Nat \cup {Free}]
  /\ delivered \in Seq(Nat \cup {Free})
  /\ open \in BOOLEAN /\ dropBegin \in BOOLEAN

(* An entry that pull or peek can return is an allocated packet, and the    *)
(* one whose number the index stands for: no entry left over from a         *)
(* previous lap of the ring and no pointer that drop_cb has freed.          *)
EntriesAlive ==
  open => \A i \in 0 .. Size - 1 : Holds(i) => memory[slot[SlotAt(i)].user] = pos + i

(* No packet leaks: every allocated packet is an entry of the window, and   *)
(* none is allocated once the queue is destroyed.                           *)
NoLeak ==
  \A u \in Users : memory[u] # Free =>
    open /\ \E i \in 0 .. Size - 1 : Holds(i) /\ slot[SlotAt(i)].user = u

(* The caller of pull sees each number at most once and in increasing       *)
(* order, however the packets were reordered or duplicated.                 *)
DeliveredInOrder ==
  /\ \A i \in 1 .. Len(delivered) : delivered[i] < pos
  /\ \A i, j \in 1 .. Len(delivered) : i < j => delivered[i] < delivered[j]

(* With DROP_STRATEGY_END, the strategy of the Takion data queue, delivery  *)
(* is gapless: exactly the numbers from Start up to begin were pulled.      *)
DeliveredGapless ==
  ~dropBegin => /\ Len(delivered) = pos - Start
                /\ \A i \in 1 .. Len(delivered) : delivered[i] = Start + i - 1

(* Who owns what the queue was given, and what its caller gets from it.     *)
Ownership == EntriesAlive /\ NoLeak
Delivery == DeliveredInOrder /\ DeliveredGapless

(* The numbers the window holds, and the abstract reordering it implements. *)
HeldNums == { pos + i : i \in { j \in 0 .. Size - 1 : Holds(j) } }
Window == INSTANCE ReorderWindow WITH next <- pos, held <- HeldNums
WindowSpec == Window!Spec
=============================================================================
