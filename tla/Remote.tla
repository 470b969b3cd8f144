------------------------------- MODULE Remote -------------------------------
(***************************************************************************)
(* How a console is found and reached: discovery, registration, and over    *)
(* the internet the punched holes with the ports that are predicted for     *)
(* them, the candidates that are tried, and the datagram protocol on top;   *)
(* the creation of what a session is made of, and the request for one.  The *)
(* components share no state: "part" says which of them a behaviour is about. *)
(***************************************************************************)
EXTENDS Integers, FiniteSets

CONSTANTS
  Ids, Details, HostsMax, DropPings,                          \* Discovery
  Half, Connections, RudpTries, Size, ResendTries, Senders, Lowest, Limit,
  Width, Servers, Addrs, Steps, Delay, Rounds,                \* StunPorts
  Received, Public, Others, Six, Extra, Retries, Packets,     \* Candidates
  Attempts, Tries, Repeats, InFlight,                         \* Holepunch
  HostAddrs,                                                  \* SessionRequest
  PunchAttempts                                               \* Creation

ASSUME ServiceAssumption == HostsMax \in Nat /\ DropPings \in Nat
\* Fewer than half of the numbers are used: the first is below 0x6000 (rudp.c:80),
\* so none has started over by then.
ASSUME LinkAssumption ==
  /\ {Connections, Half} \subseteq Nat \ {0} /\ {RudpTries, Size, ResendTries} \subseteq Nat
  /\ {Lowest, Limit} \subseteq Nat /\ Lowest <= Limit /\ Limit < 2 * Half /\ Limit - Lowest < Half
\* The ports of a NAT start over at most once while it is asked, and not so that
\* a difference of -1 is measured, which stands for a test that was not made.
ASSUME PortsAssumption ==
  /\ {Width, Servers, Delay, Rounds} \subseteq Nat /\ Width > 8
  /\ Steps \subseteq Nat /\ \A s \in Steps : Servers * s < Width - 4
ASSUME TriedAssumption ==
  /\ {Extra, Retries, Packets} \subseteq Nat /\ Public \subseteq Received
  /\ IsFiniteSet(Others) /\ Six \subseteq Received \cup Others
ASSUME HolesAssumption ==
  {Attempts, Tries} \subseteq Nat \ {0} /\ {Repeats, InFlight} \subseteq Nat
ASSUME CreationAssumption == HostAddrs \in Nat /\ PunchAttempts \in Nat \ {0}

VARIABLES
  part,
  servicePc, dpc, stop, fini, hosts, listed, air, quit,
  psn, auto, rpc, held, outcome, reported, granted, stopped, upc, asked, succeeded,
  rudpPc, conn, stage, try, waiting, socket, requests, misled, counter, sending, buffer,
  slot, arrived, accepted, forsaken,
  spc, round, servers, sock, mapped, late, replies, answers, inc, random, offer, last, step,
  cpc, guesses, open, watched, requested, extra, retries, responded, confirmed, heard, selected,
  result, packets,
  mpc, port, attempt, reqId, ours, pair, taken, tries, flags, locked, ws, note, wsOpen, queue,
  wire, told, sent, repeats,
  qpc, overHole, ps5, server, versions, addr, requestSock, why, quitting, named,
  object, at, things, releasing, knows, failed, attempts, over, uses

Hosts == INSTANCE Discovery WITH spc <- servicePc, reported <- listed
Keys == INSTANCE Regist
Link == INSTANCE Rudp WITH upc <- rudpPc, step <- stage, inbox <- socket, asked <- requests,
                           received <- arrived, Tries <- RudpTries
Ports == INSTANCE StunPorts WITH asked <- servers, inbox <- replies
Tried == INSTANCE Candidates WITH asked <- requested, received <- confirmed
Holes == INSTANCE Holepunch
Request == INSTANCE SessionRequest WITH rudp <- overHole, asked <- versions, sock <- requestSock,
                                        stop <- quitting, Addrs <- HostAddrs
Made == INSTANCE Creation WITH held <- things, told <- knows

hosting == <<servicePc, dpc, stop, fini, hosts, listed, air, quit>>
keying == <<psn, auto, rpc, held, outcome, reported, granted, stopped, upc, asked, succeeded>>
linking == <<rudpPc, conn, stage, try, waiting, socket, requests, misled, counter, sending,
             buffer, slot, arrived, accepted, forsaken>>
predicting == <<spc, round, servers, sock, mapped, late, replies, answers, inc, random, offer,
                last, step>>
trying == <<cpc, guesses, open, watched, requested, extra, retries, responded, confirmed, heard,
            selected, result, packets>>
punching == <<mpc, port, attempt, reqId, ours, pair, taken, tries, flags, locked, ws, note,
              wsOpen, queue, wire, told, sent, repeats>>
asking == <<qpc, overHole, ps5, server, versions, addr, requestSock, why, quitting, named>>
making == <<object, at, things, releasing, knows, failed, attempts, over, uses>>
reaching == <<hosting, keying, linking, predicting, trying, punching>>
parts == <<part, reaching, asking, making>>

\* What a behaviour is not about stays at one initial state.
Parts == {"hosts", "keys", "link", "ports", "tried", "holes", "request", "creation"}
Init ==
  /\ part \in Parts
  /\ Hosts!Init /\ Keys!Init /\ Link!Init /\ Ports!Init /\ Tried!Init /\ Holes!Init
  /\ Request!Init /\ Made!Init
  /\ part # "keys" => psn = FALSE /\ auto = FALSE
  /\ part # "ports" => step = CHOOSE s \in Steps : TRUE
  /\ part # "tried" => guesses = FALSE /\ open = {"v4"}
  /\ part # "request" => overHole = FALSE /\ ps5 = FALSE
  /\ part # "creation" => object = "session"

HostsOnly ==
  part = "hosts" /\ UNCHANGED <<part, keying, linking, predicting, trying, punching, asking, making>>
KeysOnly ==
  part = "keys" /\ UNCHANGED <<part, hosting, linking, predicting, trying, punching, asking, making>>
LinkOnly ==
  part = "link" /\ UNCHANGED <<part, hosting, keying, predicting, trying, punching, asking, making>>
PortsOnly ==
  part = "ports" /\ UNCHANGED <<part, hosting, keying, linking, trying, punching, asking, making>>
TriedOnly ==
  part = "tried" /\ UNCHANGED <<part, hosting, keying, linking, predicting, punching, asking, making>>
HolesOnly ==
  part = "holes" /\ UNCHANGED <<part, hosting, keying, linking, predicting, trying, asking, making>>
RequestOnly == part = "request" /\ UNCHANGED <<part, reaching, making>>
CreationOnly == part = "creation" /\ UNCHANGED <<part, reaching, asking>>
Next ==
  \/ HostsOnly /\ Hosts!Next
  \/ KeysOnly /\ Keys!Next
  \/ LinkOnly /\ Link!Next
  \/ PortsOnly /\ Ports!Next
  \/ TriedOnly /\ Tried!Next
  \/ HolesOnly /\ Holes!Next
  \/ RequestOnly /\ Request!Next
  \/ CreationOnly /\ Made!Next

(* Threads go on, and waits that have a timeout end.                        *)
Fairness ==
  /\ WF_keying(part = "keys" /\ Keys!Must)
  /\ WF_linking(part = "link" /\ Link!Exchanging)
  /\ WF_trying(part = "tried" /\ Tried!Step)
  /\ WF_punching(part = "holes" /\ Holes!Main)
  /\ WF_punching(part = "holes" /\ Holes!Ws)
  /\ WF_asking(part = "request" /\ Request!Thread)
Spec == Init /\ [][Next]_parts /\ Fairness
-----------------------------------------------------------------------------
(* Type invariant: of the component the behaviour is about.                 *)
TypeOK ==
  CASE part = "hosts" -> Hosts!TypeOK
    [] part = "keys" -> Keys!TypeOK
    [] part = "link" -> Link!TypeOK
    [] part = "ports" -> Ports!TypeOK
    [] part = "tried" -> Tried!TypeOK
    [] part = "holes" -> Holes!TypeOK
    [] part = "request" -> Request!TypeOK
    [] part = "creation" -> Made!TypeOK

(* The application sees the consoles there are, registers at one, what it   *)
(* sends to one arrives, both agree on a version, and what a session is made *)
(* of is created whole or not at all                                        *)
(* (discoveryservice.c:273, regist.c:412, rudp.c:214, session.c:573, 346).  *)
PeersSound ==
  /\ Hosts!DiscoverySound /\ Keys!RegistSound /\ Link!RudpSound
  /\ Request!RequestSound /\ Made!CreationSound

(* The ports that are offered are those the NAT will give, the address that *)
(* is chosen works both ways, and both sides accepted the hole              *)
(* (stun.h:434, holepunch.c:4187, 1666).                                    *)
HolesSound == Ports!PortPredicted /\ Tried!CandidatesSound /\ Holes!HolepunchSound

(* All of it comes to an end, however the other side behaves, but in the    *)
(* ways that Regist and Holepunch name (holepunch.c:883, 4916).             *)
ConnectEnds ==
  []<>CASE part = "keys" -> Keys!RegistEnded
        [] part = "link" -> Link!ExchangesEnded
        [] part = "tried" -> Tried!CheckEnded
        [] part = "holes" -> Holes!PunchEnded
        [] part = "request" -> Request!RequestEnded
        [] OTHER -> TRUE
=============================================================================
