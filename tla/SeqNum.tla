------------------------------- MODULE SeqNum -------------------------------
(***************************************************************************)
(* Serial number arithmetic (RFC 1982): lib/include/chiaki/seqnum.h and    *)
(* the helpers of lib/src/reorderqueue.c built on it.  The code has the    *)
(* widths 16 and 32; here half the sequence space is a parameter.          *)
(***************************************************************************)
EXTENDS Integers

CONSTANT Half                            \* 2^15 or 2^31 in the code

ASSUME HalfAssumption == Half \in Nat \ {0}

SeqMod == 2 * Half
SeqNums == 0 .. SeqMod - 1

SeqLt(a, b) == \/ a < b /\ b - a < Half
               \/ a > b /\ a - b > Half
SeqGt(a, b) == \/ a < b /\ b - a > Half
               \/ a > b /\ a - b < Half
SeqGe(a, b) == a = b \/ SeqGt(a, b)
SeqAdd(a, b) == (a + b) % SeqMod

(* The wrapped form of an unbounded number. *)
Wrap(n) == n % SeqMod
=============================================================================
