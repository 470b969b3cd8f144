--------------------------- MODULE SessionRequest ---------------------------
(***************************************************************************)
(* src/lib/src/session.c: the request for a session that opens every        *)
(* connection, sent up to three times in the version of the protocol that   *)
(* the console asks for, each time to one address after the other; over a   *)
(* punched hole the exchanges of Rudp take the place of the addresses.      *)
(* Session has one step for all of it.  Where the request is prepared,      *)
(* state_mutex is held; it is free while the thread waits on a socket.      *)
(***************************************************************************)
EXTENDS Naturals, Sequences

CONSTANT Addrs   \* how many addresses the host has

VARIABLES
  qpc,        \* "connect", "send", "reply", "granted" or "failed"
  rudp, ps5,  \* there is a punched hole; the console is a PS5
  server,     \* server_target
  asked,      \* the versions of the requests, session->target that of the last
  addr,       \* addresses tried for this one
  sock,       \* session_sock is open
  why,        \* session->quit_reason
  stop,       \* session->should_stop, with the stop pipe
  named       \* the RP-Version the console answered with last

qvars == <<qpc, rudp, ps5, server, asked, addr, sock, why, stop, named>>

\* chiaki_rp_version_parse; a console that names "5.0" is asked in 9.0.
Known == IF ps5 THEN {"ps5_1"} ELSE {"ps4_8", "ps4_9", "ps4_10"}
Version(name) == IF name \in Known THEN name ELSE IF name = "5.0" THEN "ps4_9" ELSE "unknown"
target == asked[Len(asked)]

Init ==
  /\ qpc = "connect" /\ rudp \in BOOLEAN /\ ps5 \in BOOLEAN /\ server = "unknown"
  /\ asked = <<IF ps5 THEN "ps5_1" ELSE "ps4_10">> /\ addr = 0 /\ sock = FALSE
  /\ why = "none" /\ stop = FALSE /\ named = "none"
-----------------------------------------------------------------------------
(* What session_thread_func makes of the outcome of a request.  Only the    *)
(* first two of them report a mismatch; server_target keeps what an earlier *)
(* one stored in it.                                                        *)

Fails(r) ==
  /\ qpc' = "failed" /\ why' = r /\ sock' = FALSE /\ UNCHANGED <<server, asked, addr>>
\* Mutant: the request is repeated in the version it had.
AgainAsBefore(version) ==
  /\ qpc' = "connect" /\ sock' = FALSE /\ addr' = 0 /\ asked' = Append(asked, target)
Again(version) ==
  /\ qpc' = "connect" /\ sock' = FALSE /\ addr' = 0 /\ asked' = Append(asked, version)
Mismatched(version, r) ==
  IF Len(asked) < 3 /\ version # "unknown"
  THEN Again(version) /\ server' = version /\ why' = r
  ELSE Fails(r)
-----------------------------------------------------------------------------
(* session_thread_request_session.                                          *)

\* On to the next place, or what is said of the session's end before.
Goes(to) == qpc' = to /\ UNCHANGED <<server, asked, addr, sock, why>>
NoAnswer == UNCHANGED <<rudp, ps5, stop, named>>

\* An address of another family, or without a socket, is passed over.
Connect ==
  /\ qpc = "connect" /\ ~rudp /\ addr < Addrs
  /\ \/ /\ addr' = addr + 1 /\ why' \in {why, "refused", "none"}
        /\ UNCHANGED <<qpc, server, asked, sock>>
     \/ stop /\ Fails("stopped")
     \/ qpc' = "send" /\ sock' = TRUE /\ UNCHANGED <<server, asked, addr, why>>
  /\ NoAnswer
NoAddress ==
  /\ qpc = "connect" /\ ~rudp /\ addr = Addrs
  /\ Fails(IF why = "none" THEN "unknown" ELSE why) /\ NoAnswer
\* The INIT and COOKIE exchanges; no reason is given when they fail.
RudpOpen == qpc = "connect" /\ rudp /\ (Fails(why) \/ Goes("send")) /\ NoAnswer

Send == qpc = "send" /\ ((~rudp /\ Fails("unknown")) \/ Goes("reply")) /\ NoAnswer

\* No answer in time, none that can be read, or the stop pipe, which the
\* exchange over a hole does not look at.
NoReply ==
  /\ qpc = "reply" /\ (Fails("unknown") \/ (stop /\ ~rudp /\ Fails("stopped"))) /\ NoAnswer
Granted ==
  /\ qpc = "reply" /\ qpc' = "granted" /\ sock' = FALSE /\ UNCHANGED <<server, asked, addr, why>>
  /\ NoAnswer
\* A nonce that cannot be used, an application reason, or a version that is
\* refused without naming another one, so that an earlier one is taken again.
Refused ==
  /\ qpc = "reply" /\ ((\E r \in {"unknown", "inUse", "crash"} : Fails(r))
                       \/ Mismatched(server, "version"))
  /\ NoAnswer
\* A version that differs is reported, but in the last request an error.
OtherVersion ==
  /\ qpc = "reply"
  /\ \E name \in (Known \cup {"5.0", "other"}) \ {target} :
       /\ named' = name
       /\ IF Len(asked) = 3 THEN \E r \in {"unknown", "version"} : Fails(r)
          ELSE Mismatched(Version(name), IF Version(name) = "unknown" THEN "version" ELSE why)
  /\ UNCHANGED <<rudp, ps5, stop>>

\* chiaki_session_stop.
Stop ==
  /\ ~stop /\ stop' = TRUE
  /\ UNCHANGED <<qpc, rudp, ps5, server, asked, addr, sock, why, named>>

Thread == Connect \/ NoAddress \/ RudpOpen \/ Send \/ NoReply \/ Granted \/ Refused
          \/ OtherVersion
Next == Thread \/ Stop
Spec == Init /\ [][Next]_qvars /\ WF_qvars(Thread)
-----------------------------------------------------------------------------
(* Type invariant.                                                          *)
TypeOK ==
  /\ qpc \in {"connect", "send", "reply", "granted", "failed"}
  /\ {rudp, ps5, sock, stop} \subseteq BOOLEAN /\ addr \in 0 .. Addrs
  /\ {asked[i] : i \in DOMAIN asked} \subseteq Known \cup {"ps4_9"} /\ Len(asked) \in 1 .. 3
  /\ server \in Known \cup {"ps4_9", "unknown"} /\ named \in Known \cup {"none", "5.0", "other"}
  /\ why \in {"none", "refused", "stopped", "unknown", "inUse", "crash", "version"}

(* Each repetition, and so the session, is in the version the console named *)
(* last, though server_target outlives the answer that stored it:           *)
(* "Attempting to re-request session with Server's RP-Version"              *)
(* (session.c:573).                                                         *)
VersionAgreed == Len(asked) > 1 /\ qpc # "failed" => target = Version(named)

(* A request that fails leaves no socket and says why, though not over a    *)
(* hole; "stopped" is said only of a session that was; and one that is      *)
(* granted leaves no other reason than Session knows of (session.c:898).    *)
ReasonGiven ==
  /\ qpc \in {"granted", "failed"} => ~sock
  /\ qpc = "failed" /\ ~rudp => why # "none"
  /\ why = "stopped" => stop /\ qpc = "failed"
  /\ qpc = "granted" => why \in {"none", "refused", "version"}
RequestSound == VersionAgreed /\ ReasonGiven

(* However the console answers, there are three requests at most, and an    *)
(* end.                                                                     *)
RequestEnded == qpc \in {"granted", "failed"}
=============================================================================
