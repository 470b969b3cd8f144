------------------------------ MODULE StreamRun ------------------------------
(***************************************************************************)
(* What chiaki_stream_connection_run promises its caller, the session       *)
(* thread: it runs, it may report that the stream is connected, and it ends *)
(* once with a result.  Before the stream is connected it may fail; after   *)
(* that it ends only because it was stopped or the console disconnected.    *)
(***************************************************************************)
VARIABLES
  phase,       \* "idle", "running", "connected", "over"
  stop,        \* chiaki_stream_connection_stop was called
  remote,      \* the console sent a disconnect message
  result       \* what run returned

vars == <<phase, stop, remote, result>>

Results == {"none", "success", "canceled", "disconnected", "failed"}
Active == phase \in {"running", "connected"}

Init == phase = "idle" /\ stop = FALSE /\ remote = FALSE /\ result = "none"

Start == phase = "idle" /\ phase' = "running" /\ UNCHANGED <<stop, remote, result>>
Connect == phase = "running" /\ phase' = "connected" /\ UNCHANGED <<stop, remote, result>>
Stop == stop' = TRUE /\ UNCHANGED <<phase, remote, result>>
RemoteDisconnect == Active /\ remote' = TRUE /\ UNCHANGED <<phase, stop, result>>

Allowed(r) ==
  \/ r = "failed" /\ phase = "running"
  \/ r \in {"success", "canceled"} /\ stop
  \/ r = "disconnected" /\ remote
Return(r) ==
  /\ Active /\ Allowed(r)
  /\ result' = r /\ phase' = "over" /\ UNCHANGED <<stop, remote>>
LateDisconnect == phase = "over" /\ remote' = TRUE /\ UNCHANGED <<phase, stop, result>>

Next == Start \/ Connect \/ Stop \/ RemoteDisconnect \/ LateDisconnect
        \/ \E r \in Results : Return(r)
Spec == Init /\ [][Next]_vars
=============================================================================
