------------------------------ MODULE StunPorts ------------------------------
(***************************************************************************)
(* src/lib/src/remote/stun.h and the ports that                             *)
(* holepunch_session_create_offer offers: the external address is asked of  *)
(* STUN servers, one after the other on the socket of the hole, and from    *)
(* the ports they saw the next one of the NAT is predicted.  The ctrl hole  *)
(* asks until four servers answered, the data hole until one did.           *)
(***************************************************************************)
EXTENDS Integers, Sequences

CONSTANTS
  Width,     \* ports are below it; 2^16 in the code
  Servers,   \* how many can be asked: those of the list and the built in ones
  Addrs,     \* external addresses of the NAT
  Steps,     \* by how much a NAT counts up or down from one destination to the next
  Delay,     \* an answer comes during this many requests, or never
  Rounds     \* no more than so many offers are made: ctrl, data, data again ...

VARIABLES
  spc, round, asked,
  sock,      \* the socket is still valid
  mapped,    \* <<address, port>> the NAT gave each request on this socket
  late,      \* requests whose answer is still under way
  inbox,     \* and those whose answer waits in the socket
  answers,   \* addr1, port1, addr2, ... of the allocation test
  inc,       \* session->stun_allocation_increment
  random,    \* session->stun_random_allocation
  offer,     \* the ports of the candidates of type STUN
  last,      \* the port the NAT gave last
  step       \* of this NAT

svars == <<spc, round, asked, sock, mapped, late, inbox, answers, inc, random, offer, last, step>>

Ports == 1 .. Width - 1
Unsigned(x) == x % Width
\* Division of int in C.
Quot(a, b) == IF a >= 0 THEN a \div b ELSE -((-a) \div b)

Init ==
  /\ spc = "idle" /\ round = 0 /\ asked = 0 /\ sock = FALSE /\ mapped = <<>> /\ late = {}
  /\ inbox = <<>> /\ answers = <<>> /\ inc = -1 /\ random = FALSE /\ offer = {}
  /\ last = Width - 8 /\ step \in Steps \cup {-s : s \in Steps}
-----------------------------------------------------------------------------
(* Asking.                                                                  *)

\* An increment of -1 means that there was no test yet.
Needed == IF inc = -1 THEN 4 ELSE 1
Asking == spc = "asking" /\ sock /\ asked < Servers /\ Len(answers) < Needed
NextPort(port) == ((port - 1 + step) % (Width - 1)) + 1

\* A mapping of the gateway makes STUN unnecessary.
Begin ==
  /\ spc = "idle" /\ round < Rounds /\ round' = round + 1
  /\ spc' \in {"asking", "idle"}
  /\ sock' = TRUE /\ asked' = 0 /\ mapped' = <<>> /\ late' = {} /\ inbox' = <<>>
  /\ answers' = <<>> /\ offer' = {}
  /\ UNCHANGED <<inc, random, last, step>>

Unresolved ==
  /\ Asking /\ asked' = asked + 1
  /\ UNCHANGED <<spc, round, sock, mapped, late, inbox, answers, inc, random, offer, last, step>>
SendFails ==
  /\ Asking /\ asked' = asked + 1 /\ sock' = FALSE
  /\ UNCHANGED <<spc, round, mapped, late, inbox, answers, inc, random, offer, last, step>>
Request ==
  /\ Asking /\ spc' = "waiting" /\ asked' = asked + 1 /\ last' = NextPort(last)
  /\ \E a \in Addrs : mapped' = Append(mapped, <<a, last'>>)
  /\ late' = {i \in late : i + Delay > Len(mapped)} \cup {Len(mapped')}
  /\ UNCHANGED <<round, sock, inbox, answers, inc, random, offer, step>>

Arrives ==
  /\ spc = "waiting" /\ inbox = <<>>
  /\ \E i \in late : inbox' = Append(inbox, i) /\ late' = late \ {i}
  /\ UNCHANGED <<spc, round, asked, sock, mapped, answers, inc, random, offer, last, step>>

\* Mutant: the transaction is not looked at.
Answered(i) == answers' = Append(answers, mapped[i])
\* One datagram is looked at: an answer to an earlier request is a failure of
\* this one, whose own answer is left for the next.
Accepted(i) ==
  answers' = IF i = Len(mapped) THEN Append(answers, mapped[i]) ELSE answers
Receive ==
  /\ spc = "waiting" /\ inbox # <<>> /\ spc' = "asking" /\ inbox' = Tail(inbox)
  /\ Accepted(Head(inbox))
  /\ UNCHANGED <<round, asked, sock, mapped, late, inc, random, offer, last, step>>
NoReply ==
  /\ spc = "waiting" /\ inbox = <<>> /\ spc' = "asking"
  /\ UNCHANGED <<round, asked, sock, mapped, late, inbox, answers, inc, random, offer, last, step>>
-----------------------------------------------------------------------------
(* stun_port_allocation_test: what the answers say of the NAT.              *)

Sure(d) == [inc |-> d, random |-> random]
Compare(d, e) == [inc |-> IF d = 0 THEN e ELSE d, random |-> random \/ d # e]
\* Two of three equal 16 bit differences decide.
Majority(d, e, f) ==
  IF d \in {e, f} THEN Sure(d) ELSE IF e = f THEN Sure(e)
  ELSE [inc |-> IF d # 0 THEN d ELSE e, random |-> TRUE]

Same(i, j) == answers[i][1] = answers[j][1]
Diff(i, j) == answers[j][2] - answers[i][2]
Halved(i, j) == Quot(Diff(i, j), 2)
Quarter(i, j) == Quot(Diff(i, j), 4)

FromThree ==
  IF Same(1, 2) THEN (IF Same(1, 3) THEN Compare(Diff(1, 2), Diff(2, 3)) ELSE Sure(Diff(1, 2)))
  ELSE Sure(IF Same(1, 3) THEN Halved(1, 3) ELSE IF Same(2, 3) THEN Diff(2, 3) ELSE 0)
FromFour ==
  IF Same(1, 2)
  THEN IF Same(2, 3)
       THEN IF Same(3, 4)
            THEN Majority(Unsigned(Diff(1, 2)), Unsigned(Diff(2, 3)), Unsigned(Diff(3, 4)))
            ELSE Compare(Diff(1, 2), Diff(2, 3))
       ELSE IF Same(2, 4) THEN Compare(Diff(1, 2), Halved(2, 4)) ELSE Sure(Diff(1, 2))
  ELSE IF Same(1, 3)
       THEN IF Same(1, 4) THEN Compare(Diff(3, 4), Halved(1, 3)) ELSE Sure(Halved(1, 3))
  ELSE IF Same(2, 3) /\ ~Same(1, 4)
       THEN IF Same(2, 4) THEN Compare(Diff(3, 4), Diff(2, 3)) ELSE Sure(Halved(1, 3))
  ELSE Sure(IF Same(1, 4) \/ Same(2, 4) THEN Quarter(1, 4)
            ELSE IF Same(3, 4) THEN Diff(4, 3) ELSE 0)

Tested ==
  CASE Len(answers) = 1 -> Sure(0)
    [] Len(answers) = 2 -> Sure(IF Same(1, 2) THEN Diff(1, 2) ELSE 0)
    [] Len(answers) = 3 -> FromThree
    [] Len(answers) = 4 -> FromFour
\* The servers that did not answer are thought to have advanced the NAT, too.
Port(d) ==
  LET p == answers[Len(answers)][2] IN
  CASE Len(answers) \in {1, 4} -> p
    [] Len(answers) = 2 -> Unsigned(p + 2 * d)
    [] Len(answers) = 3 -> Unsigned(p + d)
-----------------------------------------------------------------------------
(* holepunch_session_create_offer: the candidates.                          *)

\* Mutant: nothing is done about the end of the range.
SecondPortPast(port, d, isRandom) == port + (IF isRandom THEN 1 ELSE d)
\* The second candidate: the next port of the NAT.
SecondPort(port, d, isRandom) ==
  LET sum == port + (IF isRandom THEN 1 ELSE d)
      up == IF sum <= 0 THEN sum + (Width - 1) ELSE sum
      down == IF up > Width - 1 THEN up - (Width - 1) ELSE up
  IN IF down = 0 THEN 1 ELSE down

Offered(port, d, isRandom) ==
  IF d # 0 \/ isRandom THEN {port, SecondPort(port, d, isRandom)} ELSE {port}

\* What still comes is for check_candidates.
AskedAll == spc = "asking" /\ (~sock \/ asked = Servers \/ Len(answers) = Needed)
Offer ==
  /\ AskedAll /\ spc' = "idle"
  /\ IF answers = <<>> THEN UNCHANGED <<inc, random, offer>>
     ELSE /\ IF Needed = 1 THEN UNCHANGED <<inc, random>>
             ELSE inc' = Tested.inc /\ random' = Tested.random
          /\ offer' = IF ~sock THEN {}
                      ELSE Offered(IF Needed = 1 THEN answers[1][2] ELSE Port(inc'), inc', random')
  /\ late' = {} /\ inbox' = <<>> /\ asked' = 0
  /\ UNCHANGED <<round, sock, mapped, answers, last, step>>

Next ==
  \/ Begin \/ Unresolved \/ SendFails \/ Request \/ Arrives \/ Receive \/ NoReply \/ Offer
Spec == Init /\ [][Next]_svars
-----------------------------------------------------------------------------
(* Type invariant.                                                          *)
TypeOK ==
  /\ spc \in {"idle", "asking", "waiting"} /\ round \in 0 .. Rounds /\ asked \in 0 .. Servers
  /\ sock \in BOOLEAN /\ random \in BOOLEAN /\ inc \in -(Width - 1) .. Width - 1
  /\ Len(answers) <= Needed \/ spc = "idle"
  /\ late \subseteq 1 .. Len(mapped) /\ offer \subseteq 0 .. Width - 1 /\ last \in Ports

(* The port the NAT will give the request to the console is offered: to a   *)
(* NAT with one address that counts up, after four answers, even if one     *)
(* server between them was silent, as long as the ports do not start over,  *)
(* and also across their start if none was; and for the data hole, which    *)
(* asks only once, by what the ctrl hole learned (stun.h:434,               *)
(* holepunch.c:2594).  A late answer, which the request that reads it       *)
(* refuses and goes without its own, must not matter.                       *)
Distance == IF mapped = <<>> THEN 0 ELSE last - mapped[1][2]
Regular ==
  /\ step >= 0 /\ \A i \in DOMAIN mapped : mapped[i][1] = mapped[1][1]
  /\ \/ Len(answers) = 4 /\ Len(mapped) = 4
     \/ Len(answers) = 4 /\ Len(mapped) = 5 /\ Distance = 4 * step
     \/ Len(answers) = 1 /\ inc = step /\ ~random
PortPredicted ==
  spc = "idle" /\ offer # {} /\ Regular => NextPort(last) \in offer

=============================================================================
