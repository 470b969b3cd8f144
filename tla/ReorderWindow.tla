--------------------------- MODULE ReorderWindow ----------------------------
(***************************************************************************)
(* What the reorder queue promises, without rings, wrapping numbers or     *)
(* pointers: next is the number pull waits for, held the numbers that have *)
(* arrived ahead of it, delivered what pull has returned.                  *)
(***************************************************************************)
EXTENDS Integers, Sequences

CONSTANTS Size, Start

VARIABLES
  next, held, delivered,
  dropBegin                (* the strategy, chosen once                       *)

wvars == <<next, held, delivered, dropBegin>>

Init ==
  /\ next = Start
  /\ held = {}
  /\ delivered = << >>
  /\ dropBegin \in BOOLEAN

(* A number within the window that has not arrived yet is kept. *)
Accept ==
  /\ \E n \in next .. next + Size - 1 : n \notin held /\ held' = held \cup {n}
  /\ UNCHANGED <<next, delivered, dropBegin>>

(* Too far ahead, under DROP_STRATEGY_BEGIN: the window slides, just far    *)
(* enough or, when nothing would be left in it, to the number itself.       *)
Slide ==
  /\ dropBegin
  /\ next' > next
  /\ \E n \in {next' + Size - 1, next'} :
       /\ n >= next + Size
       /\ held' = { m \in held : m >= next' } \cup {n}
  /\ UNCHANGED <<delivered, dropBegin>>

Deliver ==
  /\ next \in held
  /\ next' = next + 1
  /\ held' = held \ {next}
  /\ delivered' = Append(delivered, next)
  /\ UNCHANGED dropBegin

Next == Accept \/ Slide \/ Deliver

Spec == Init /\ [][Next]_wvars
=============================================================================
