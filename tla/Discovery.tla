------------------------------ MODULE Discovery ------------------------------
(***************************************************************************)
(* src/lib/src/discoveryservice.c and discovery.c: a service thread pings   *)
(* the network at intervals and forgets hosts that missed too many pings;   *)
(* a discovery thread hands over the answers; the application is told the   *)
(* list of hosts whenever it changes, and ends the service.                 *)
(*                                                                          *)
(* Hosts are known by their id.  What else a host tells (its state, names,  *)
(* the running game) is one value, "details".  Instead of ping_index and    *)
(* last_ping_index a host carries their difference.                         *)
(***************************************************************************)
EXTENDS Naturals, Sequences, FiniteSets

CONSTANTS Ids, Details, HostsMax, DropPings

VARIABLES
  spc,       \* the service thread: "off", "waiting", "stopping", "done"
  dpc,       \* the discovery thread: "off", "running", "done"
  stop,      \* stop_cond's predicate
  fini,      \* chiaki_discovery_service_fini: "no", "joining", "done"
  hosts,     \* the list: records of id, details and missed pings
  reported,  \* what the application was told last
  air,       \* an answer under way, or none
  quit       \* a wait of the service thread failed

dvars == <<spc, dpc, stop, fini, hosts, reported, air, quit>>

Hosts == [id : Ids, details : Details, missed : 0 .. DropPings + 2]
Shown(hs) == [i \in 1 .. Len(hs) |-> [id |-> hs[i].id, details |-> hs[i].details]]

Init ==
  /\ spc = "off" /\ dpc = "off" /\ stop = FALSE /\ fini = "no" /\ hosts = <<>>
  /\ reported = <<>> /\ air = {} /\ quit = FALSE

\* The service thread starts the discovery thread, or fails to.
Start ==
  /\ spc = "off" /\ fini # "done"
  /\ \/ spc' = "waiting" /\ dpc' = "running"
     \/ spc' = "done" /\ UNCHANGED dpc
  /\ UNCHANGED <<stop, fini, hosts, reported, air, quit>>

\* discovery_service_drop_old_hosts: the scan goes back by one after each host
\* it drops, except from the first, whose successor it passes over.
Fresh(h) == h.missed <= DropPings
InOrder(I) == CHOOSE f \in [1 .. Cardinality(I) -> I] : \A i, j \in DOMAIN f : i < j => f[i] < f[j]
At(hs, I) == [j \in 1 .. Cardinality(I) |-> hs[InOrder(I)[j]]]
\* Mutant: the scan never goes back.
KeptSkipping(hs) ==
  At(hs, {i \in 1 .. Len(hs) : Fresh(hs[i]) \/ (i > 1 /\ i = Len(hs) /\ ~Fresh(hs[i - 1]))})
Kept(hs) == At(hs, {i \in 1 .. Len(hs) : Fresh(hs[i]) \/ (i = 2 /\ ~Fresh(hs[1]))})
\* discovery_service_ping, when a wait timed out: hosts that missed too many
\* pings are dropped, and the ping is sent; consoles that hear it answer.
Ping ==
  /\ spc = "waiting" /\ ~stop
  /\ LET aged == [i \in 1 .. Len(hosts) |-> [hosts[i] EXCEPT !.missed = @ + 1]]
     IN  /\ hosts' = Kept(aged)
         /\ reported' = IF hosts' # aged THEN Shown(hosts') ELSE reported
  /\ UNCHANGED <<spc, dpc, stop, fini, air, quit>>

\* The loop ends for a stop, and for a wait that fails (thread.c:241: a
\* deadline of exactly one second); the discovery thread is stopped.
LoopEnds ==
  /\ spc = "waiting" /\ spc' = "stopping" /\ quit' = (quit \/ ~stop)
  /\ UNCHANGED <<dpc, stop, fini, hosts, reported, air>>
ServiceDone ==
  /\ spc = "stopping" /\ dpc = "done" /\ spc' = "done"
  /\ UNCHANGED <<dpc, stop, fini, hosts, reported, air, quit>>

\* A console answers, or its answer is lost.
Respond ==
  /\ dpc = "running" /\ air = {}
  /\ \E id \in Ids, d \in Details : air' = {[id |-> id, details |-> d, missed |-> 0]}
  /\ UNCHANGED <<spc, dpc, stop, fini, hosts, reported, quit>>

\* discovery_service_host_received, for an answer that parses and has an id:
\* a known host is updated, a new one added while there is room.
Index(id) == {i \in 1 .. Len(hosts) : hosts[i].id = id}
HostReceived ==
  /\ dpc = "running" /\ air' = {}
  /\ \E h \in air :
       /\ hosts' = IF Index(h.id) # {} THEN [i \in 1 .. Len(hosts) |-> IF i \in Index(h.id) THEN h ELSE hosts[i]]
                   ELSE IF Len(hosts) = HostsMax THEN hosts
                   ELSE Append(hosts, h)
       /\ reported' = IF Shown(hosts') # Shown(hosts) THEN Shown(hosts') ELSE reported
  /\ UNCHANGED <<spc, dpc, stop, fini, quit>>

\* The discovery thread ends when its stop pipe is signaled, or when its
\* socket fails; the service goes on pinging then.
DiscoveryDone ==
  /\ dpc = "running" /\ dpc' = "done" /\ air' = {}
  /\ UNCHANGED <<spc, stop, fini, hosts, reported, quit>>

\* chiaki_discovery_service_fini.
FiniStop ==
  /\ fini = "no" /\ fini' = "joining" /\ stop' = TRUE
  /\ UNCHANGED <<spc, dpc, hosts, reported, air, quit>>
FiniJoin ==
  /\ fini = "joining" /\ spc = "done" /\ fini' = "done" /\ hosts' = <<>> /\ reported' = <<>>
  /\ UNCHANGED <<spc, dpc, stop, air, quit>>

Next == Start \/ Ping \/ LoopEnds \/ ServiceDone \/ Respond \/ HostReceived \/ DiscoveryDone
        \/ FiniStop \/ FiniJoin
Spec == Init /\ [][Next]_dvars

-----------------------------------------------------------------------------
(* Type invariant.                                                          *)
TypeOK ==
  /\ spc \in {"off", "waiting", "stopping", "done"} /\ dpc \in {"off", "running", "done"}
  /\ stop \in BOOLEAN /\ quit \in BOOLEAN /\ fini \in {"no", "joining", "done"}
  /\ hosts \in Seq(Hosts) /\ Len(hosts) <= HostsMax /\ air \subseteq Hosts

(* A host is listed once, and what the application was told last is the     *)
(* list as it is, though two threads change it (discoveryservice.c:300, 377).*)
ListReported ==
  /\ Cardinality({hosts[i].id : i \in 1 .. Len(hosts)}) = Len(hosts)
  /\ reported = Shown(hosts)

(* A console that went silent is dropped: whoever missed more pings than    *)
(* allowed is at the head of the list, and late by one ping only            *)
(* (discoveryservice.c:273, 295).                                           *)
SilentDropped ==
  \A i \in 1 .. Len(hosts) :
     hosts[i].missed <= DropPings + (IF i = 1 THEN 1 ELSE 0)

(* No thread is left that could call back when the lists are freed, and the *)
(* service went on until it was told to stop, unless a wait failed.         *)
EndsClean == /\ fini = "done" => spc = "done" /\ dpc \in {"off", "done"}
             /\ spc = "stopping" => stop \/ quit
DiscoverySound == ListReported /\ SilentDropped /\ EndsClean
=============================================================================
