----------------------------- MODULE Candidates -----------------------------
(***************************************************************************)
(* check_candidates of src/lib/src/remote/holepunch.c: requests go out to   *)
(* every address the console offered, and to those it is heard from; the    *)
(* address whose answer comes first is chosen, and what the console still   *)
(* asks on it is answered.  Behind a NAT without a pattern many sockets     *)
(* guess its ports; here they are one.                                      *)
(* CHECK_CANDIDATES_REQUEST_NUMBER is 1: the branches for more are dead.    *)
(***************************************************************************)
EXTENDS Naturals, FiniteSets

CONSTANTS
  Received,  \* addresses the console offered
  Public,    \* those of them of type STATIC or STUN
  Others,    \* addresses it is heard from, too
  Six,       \* which of them are of IPv6
  Extra,     \* EXTRA_CANDIDATE_ADDRESSES, 3 in the code
  Retries,   \* SELECT_CANDIDATE_TRIES, 20 in the code
  Packets    \* no more than so many datagrams come

VARIABLES
  cpc,
  guesses,   \* session->stun_random_allocation
  open,      \* the sockets
  watched,   \* fds: select leaves only what is ready, a timeout restores it
  asked,     \* <<socket, address>> our request went out
  extra,     \* candidates of type DERIVED
  retries,
  responded, \* a request of the console was answered, here ...
  received,  \* ... or on the selected socket
  heard,     \* <<socket, address>> an answer of this call came
  selected, result,
  packets

net == <<asked, heard, packets>>
loop == <<watched, extra, retries, responded>>
chosen == <<selected, received>>
cvars == <<cpc, guesses, open, loop, chosen, net, result>>

None == <<"none", "none">>
Sockets == <<"v4", "v6", "random">>
Pair == {"v4", "v6"}

Init ==
  /\ cpc = "start" /\ guesses \in BOOLEAN /\ open \in {{"v4"}, Pair} /\ watched = open /\ asked = {}
  /\ extra = {} /\ retries = 0 /\ responded = FALSE /\ received = FALSE /\ heard = {}
  /\ selected = None /\ result = "none" /\ packets = 0

Ends(how, left) == cpc' = "done" /\ result' = how /\ open' = left
Fails == Ends("failed", {})
Stays == UNCHANGED <<cpc, open, result>>
-----------------------------------------------------------------------------
(* The requests.                                                            *)

\* A socket that guesses may fail; an address may not resolve, or sending fails.
Start ==
  /\ cpc = "start"
  /\ \E guessing \in {{}} \cup (IF guesses THEN {{"random"}} ELSE {}), got \in SUBSET Received :
       /\ asked' = {"v4"} \X got \cup guessing \X (got \cap Public)
       /\ watched' = watched \cup guessing
       /\ IF got = {} THEN Fails ELSE cpc' = "waiting" /\ open' = open \cup guessing /\ UNCHANGED result
  /\ UNCHANGED <<guesses, extra, retries, responded, chosen, heard, packets>>

\* All is watched again; what guesses only with a request to a public address.
Watch(got) == IF guesses /\ got \cap Public # {} THEN open ELSE open \cap Pair
SocketFor(a) == IF a \in Six THEN "v6" ELSE "v4"
TimedOut ==
  /\ cpc = "waiting"
  /\ IF retries = Retries THEN Fails /\ UNCHANGED <<asked, watched, retries>>
     ELSE \E got \in SUBSET (Received \cup extra) :
            /\ retries' = retries + 1 /\ watched' = Watch(got) /\ Stays
            /\ asked' = asked \cup {<<SocketFor(a), a>> : a \in got}
  /\ UNCHANGED <<guesses, extra, responded, chosen, heard, packets>>

\* select, or making a socket's packets go far.
Breaks ==
  /\ cpc \in {"waiting", "confirm"} /\ Fails
  /\ UNCHANGED <<guesses, loop, chosen, net>>
-----------------------------------------------------------------------------
(* A datagram.                                                              *)

First(ready) == Sockets[CHOOSE i \in 1 .. 3 :
                          /\ Sockets[i] \in ready /\ \A j \in 1 .. i - 1 : Sockets[j] \notin ready]
From(s) == IF s = "v6" THEN Six ELSE (Received \cup Others) \ Six
Kinds == {"request", "answer", "stale", "junk"}
\* The console answers what it was asked, from any of its addresses.
Possible(s, kind) == kind # "answer" \/ \E b \in Received \cup Others : <<s, b>> \in asked

\* Mutant: another id is taken for ours.
OurAnswerAny(kind) == kind \in {"answer", "stale"}
OurAnswer(kind) == kind = "answer"

\* Too short, or of no known type: only an address it was heard from is forgiven.
Junk(derived) ==
  /\ IF derived THEN Stays ELSE Fails
  /\ UNCHANGED <<asked, responded, selected>>

\* Its request is answered, and it is asked back where that did not happen.  If
\* only the latter fails, the call returns CHIAKI_ERR_SUCCESS without a socket.
Request(s, a, derived) ==
  LET back == derived \/ guesses IN
  /\ responded' = TRUE /\ UNCHANGED selected
  /\ \/ Stays /\ asked' = asked \cup (IF back THEN {<<s, a>>} ELSE {})
     \/ ~derived /\ Fails /\ UNCHANGED asked
     \/ back /\ Ends("hollow", {}) /\ UNCHANGED asked
     \/ derived /\ Fails /\ UNCHANGED asked

\* The address is chosen, and all other sockets are closed.
Answer(s, a) ==
  /\ selected' = <<s, a>> /\ UNCHANGED <<asked, responded>>
  /\ Fails \/ (cpc' = "confirm" /\ open' = {s} /\ UNCHANGED result)

Handle(s, a, kind, derived) ==
  \/ kind = "junk" /\ Junk(derived)
  \/ kind = "request" /\ Request(s, a, derived)
  \/ OurAnswer(kind) /\ Answer(s, a)
  \/ kind \in {"answer", "stale"} /\ ~OurAnswer(kind) /\ Stays /\ UNCHANGED <<asked, responded, selected>>

\* An unknown address becomes a candidate while there is room.
Datagram ==
  /\ cpc = "waiting" /\ packets < Packets /\ packets' = packets + 1
  /\ \E ready \in SUBSET watched : ready # {} /\ watched' = ready /\
       LET s == First(ready) IN
       \E a \in From(s), kind \in Kinds :
         LET known == a \in Received \cup extra IN
         /\ Possible(s, kind)
         /\ heard' = heard \cup (IF kind = "answer" THEN {<<s, a>>} ELSE {})
         /\ \/ ~known /\ Cardinality(extra) >= Extra /\ Stays
               /\ UNCHANGED <<extra, asked, responded, selected>>
            \/ /\ known \/ Cardinality(extra) < Extra
               /\ extra' = extra \cup ({a} \ Received)
               /\ Handle(s, a, kind, a \notin Received)
  /\ UNCHANGED <<guesses, retries, received>>
-----------------------------------------------------------------------------
(* receive_request_send_response_ps on the chosen socket.                   *)

ConfirmRequest ==
  /\ cpc = "confirm" /\ packets < Packets /\ packets' = packets + 1
  /\ received' = TRUE /\ (Stays \/ Fails)
  /\ UNCHANGED <<guesses, loop, selected, asked, heard>>
\* A late answer is passed over, anything else ends it.
ConfirmOther ==
  /\ cpc = "confirm" /\ packets < Packets /\ packets' = packets + 1 /\ (Stays \/ Fails)
  /\ UNCHANGED <<guesses, loop, chosen, asked, heard>>

\* When nothing more comes: the console has asked here, or before.
Confirmed == received \/ responded
ConfirmTimedOut ==
  /\ cpc = "confirm" /\ IF Confirmed THEN Ends("ok", open) ELSE Fails
  /\ UNCHANGED <<guesses, loop, chosen, net>>

Step == Start \/ TimedOut \/ ConfirmTimedOut
Next == Step \/ Breaks \/ Datagram \/ ConfirmRequest \/ ConfirmOther
Spec == Init /\ [][Next]_cvars
-----------------------------------------------------------------------------
(* Type invariant: the arrays have room for the candidates there are.       *)
TypeOK ==
  /\ cpc \in {"start", "waiting", "confirm", "done"}
  /\ {guesses, responded, received} \subseteq BOOLEAN
  /\ open \subseteq Pair \cup {"random"} /\ watched \subseteq Pair \cup {"random"}
  /\ extra \subseteq Others /\ Cardinality(extra) <= Extra /\ retries \in 0 .. Retries
  /\ result \in {"none", "ok", "hollow", "failed"} /\ packets \in 0 .. Packets

(* A hole works both ways: the chosen address answered a request of this    *)
(* call on the socket that is handed over, which had sent one, and a        *)
(* request of the console was answered (holepunch.c:4187, 4253).            *)
BothWays ==
  result = "ok" => /\ selected \in heard /\ \E a \in Received \cup Others : <<selected[1], a>> \in asked
                   /\ responded \/ received
(* No socket is lost: the chosen one is left in the end, and none after a   *)
(* failure (holepunch.c:4228, 4312).                                        *)
NoneLeft == cpc = "done" => open = IF result = "ok" THEN {selected[1]} ELSE {}
CandidatesSound == BothWays /\ NoneLeft

(* The call ends if datagrams cease.                                        *)
CheckEnded == cpc = "done"
=============================================================================
