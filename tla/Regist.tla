------------------------------- MODULE Regist -------------------------------
(***************************************************************************)
(* src/lib/src/regist.c, the registration at a console, with its callers.   *)
(* Over the local network it is asked for by the JNI bridge                 *)
(* (chiaki-jni.c:1238), which may stop it and frees it; over PSN by the     *)
(* session thread (session.c:543), which waits for ten seconds and holds    *)
(* state_mutex when it joins, while the callback takes it.                  *)
(***************************************************************************)
EXTENDS Naturals, Sequences

VARIABLES
  psn,       \* info.holepunch_info is there
  auto,      \* session->auto_regist
  rpc,       \* where the registration thread is
  held,      \* what it has to give back
  outcome,   \* what it will report; "interrupted" is told as canceled
  reported,  \* the events of the callback
  granted,   \* the console answered the request with what is needed
  stopped,   \* the stop pipe is signaled, for good
  upc,       \* where the caller is
  asked,     \* session->should_stop
  succeeded  \* session->psn_regist_succeeded

thread == <<rpc, held, outcome, granted>>
caller == <<upc, stopped>>
rvars == <<psn, auto, thread, reported, caller, asked, succeeded>>

Init ==
  /\ psn \in BOOLEAN /\ auto \in BOOLEAN /\ (auto => psn) /\ rpc = "off" /\ held = {} /\ outcome = "failed"
  /\ reported = <<>> /\ granted = FALSE /\ stopped = FALSE /\ upc = "start" /\ asked = FALSE
  /\ succeeded = FALSE

\* The session thread holds state_mutex but in its wait.
StateFree == ~psn \/ upc \in {"waiting", "done"}
-----------------------------------------------------------------------------
(* regist_thread_func.                                                      *)

ThreadOnly == UNCHANGED <<psn, auto, reported, caller, asked, succeeded>>
\* On to the next place, or out with what is held given back.
Goes(to) == rpc' = to /\ UNCHANGED outcome
Out(how) == rpc' = "report" /\ outcome' = how /\ held' = {} /\ UNCHANGED granted
Moves(from, to, what) == rpc = from /\ Goes(to) /\ held' = what /\ UNCHANGED granted

\* The key, the payload, the header; an address to search at.
Prepare ==
  /\ \/ rpc = "prepare" /\ Out("failed")
     \/ psn /\ Moves("prepare", "init", {})
     \/ ~psn /\ Moves("prepare", "search", {"addrinfos", "udp"})
  /\ ThreadOnly

\* INIT, COOKIE and the request itself, with three tries each.
Exchange ==
  /\ \/ Moves("init", "cookie", {})
     \/ Moves("cookie", "response", {})
     \/ rpc \in {"init", "cookie"} /\ Out("failed")
  /\ ThreadOnly

\* regist_search: until its deadline, what is no answer is passed over.
Search ==
  /\ \/ Moves("search", "settle", {"addrinfos"})
     \/ rpc = "search" /\ Out("failed")
     \/ rpc = "search" /\ stopped /\ Out("canceled")
  /\ ThreadOnly
\* A pause, which a stop ends, or an error of the wait that is taken for one;
\* the connection then is not stopped.
Settle ==
  /\ \/ ~stopped /\ Moves("settle", "connect", held)
     \/ rpc = "settle" /\ stopped /\ Out("canceled")
     \/ rpc = "settle" /\ Out("interrupted")
  /\ ThreadOnly
Connect ==
  /\ \/ Moves("connect", "response", held \cup {"tcp"})
     \/ rpc = "connect" /\ Out("failed")
  /\ ThreadOnly

\* Mutant: any response will do.
RespondedAny ==
  /\ rpc = "response" /\ Goes("content") /\ granted' \in BOOLEAN /\ UNCHANGED held /\ ThreadOnly
\* regist_recv_response: the header, with code 200 and a length that fits.  Only
\* the local wait looks at the stop pipe.
Responded ==
  /\ rpc = "response" /\ Goes("content") /\ granted' = TRUE /\ UNCHANGED held /\ ThreadOnly
ResponseFails ==
  /\ \/ rpc \in {"response", "content"} /\ Out("failed")
     \/ rpc \in {"response", "content"} /\ ~psn /\ stopped /\ Out("canceled")
  /\ ThreadOnly
\* The content, decrypted, has the keys and the MAC.  Over PSN it came with the
\* header, and a FINISH that does not come is ignored.
Parsed ==
  /\ rpc = "content" /\ Out("success") /\ ThreadOnly

\* The callback.  That of the session takes state_mutex after a success has
\* given it the keys, and a failure stops the session.
Report ==
  /\ rpc = "report" /\ StateFree /\ rpc' = "over" /\ reported' = Append(reported, outcome)
  /\ IF psn THEN /\ succeeded' = (outcome = "success")
                 /\ asked' = (asked \/ outcome # "success")
     ELSE UNCHANGED <<asked, succeeded>>
  /\ UNCHANGED <<psn, auto, held, outcome, granted, caller>>

Thread == Prepare \/ Exchange \/ Search \/ Settle \/ Connect \/ Responded \/ ResponseFails \/ Parsed
          \/ Report
-----------------------------------------------------------------------------
(* The callers.                                                             *)

CallerOnly == UNCHANGED <<psn, auto, held, outcome, granted, reported, succeeded>>

Start ==
  /\ upc = "start" /\ upc' = "waiting" /\ rpc' = "prepare"
  /\ UNCHANGED <<stopped, asked>> /\ CallerOnly

\* registStop, and chiaki_session_stop.
Stop ==
  /\ upc = "waiting"
  /\ IF psn THEN asked' = TRUE /\ UNCHANGED stopped ELSE stopped' = TRUE /\ UNCHANGED asked
  /\ UNCHANGED <<rpc, upc>> /\ CallerOnly

\* The session has waited until it was stopped, there was a success, or ten
\* seconds went by; the application frees whenever it likes.
Waited ==
  /\ upc = "waiting" /\ upc' = "joining" /\ stopped' = (stopped \/ psn)
  /\ UNCHANGED <<rpc, asked>> /\ CallerOnly
Joined == upc = "joining" /\ rpc = "over" /\ UNCHANGED rpc
\* chiaki_regist_fini, after which a session that was not stopped and is not
\* there to register only asks for a session with the keys.
Fini ==
  /\ Joined
  /\ upc' = IF psn /\ ~asked /\ ~auto THEN "request" ELSE "done"
  /\ UNCHANGED <<stopped, asked>> /\ CallerOnly

Next == Thread \/ Start \/ Stop \/ Waited \/ Fini
Must == Thread \/ Start \/ Fini
Spec == Init /\ [][Next]_rvars /\ WF_rvars(Must)
-----------------------------------------------------------------------------
(* Type invariant.                                                          *)
TypeOK ==
  /\ {psn, auto, granted, stopped, asked, succeeded} \subseteq BOOLEAN
  /\ rpc \in {"off", "prepare", "init", "cookie", "search", "settle", "connect", "response",
              "content", "report", "over"}
  /\ held \subseteq {"addrinfos", "udp", "tcp"}
  /\ outcome \in {"failed", "interrupted", "canceled", "success"}
  /\ upc \in {"start", "waiting", "joining", "request", "done"}

(* The caller hears exactly once, after everything was given back, and what *)
(* it hears is true: a success was granted, and a cancel was asked for, but *)
(* for a pause that failed (regist.c:333, 412).  Nothing of the thread is   *)
(* left when it is freed, and a session goes on only with the keys it got   *)
(* (session.c:560).                                                         *)
RegistSound ==
  /\ Len(reported) = IF rpc = "over" THEN 1 ELSE 0
  /\ rpc \in {"report", "over"} => /\ held = {} /\ (outcome = "success" => granted)
                                   /\ outcome = "canceled" => stopped
  /\ upc \in {"request", "done"} => rpc = "over"
  /\ upc = "request" => succeeded /\ granted

(* Whoever frees a registration gets it freed: the bridge always; "PSN      *)
(* regist was canceled, exiting..." (session.c:1195), the session with it.  *)
RegistEnded == psn \/ upc # "joining"
=============================================================================
