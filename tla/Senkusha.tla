------------------------------- MODULE Senkusha -------------------------------
(***************************************************************************)
(* src/lib/src/senkusha.c: before the stream starts, the session measures   *)
(* the round trip time and the largest packets that pass in each direction, *)
(* over a Takion connection of its own.  chiaki_senkusha_run holds          *)
(* state_mutex from one wait to the next, so a step is what it does between *)
(* two waits; callbacks of the Takion thread come while it waits.           *)
(*                                                                          *)
(* Answers of the console may come, be lost, or come during the next wait;  *)
(* ids grow with each request, so that two values that alternate tell an    *)
(* answer to the request before from one to the present request.            *)
(* The deadline of a wait is computed by set_timeout of thread.c, which     *)
(* leaves a deadline of exactly one second in nanoseconds as it is;         *)
(* pthread_cond_timedwait refuses it, and the wait returns at once.         *)
(* state_failed is left out, as nothing reads it, and so is should_stop,    *)
(* which nothing sets.  Random tags of pings are taken to be distinct.      *)
(***************************************************************************)
EXTENDS Naturals, FiniteSets

CONSTANTS
  MinMtu, MaxMtu,   (* 576 and 1454                                           *)
  Retries,          (* attempts for one size                                  *)
  Pings,            (* SENKUSHA_PING_COUNT_DEFAULT                            *)
  Paths,            (* largest packets the network may pass                   *)
  Second,           (* one second, in ticks of the clock                      *)
  MtuTimeouts       (* what mtu_timeout_ms may be, in ticks                   *)

VARIABLES
  pc,        \* which wait the thread is in, or where it is on its way out
  want,      \* what ends the wait: the kind of an answer and its id
  finished,  \* state_finished
  air,       \* answers that may still come
  n,         \* the id drawn last: request_id, seq_num, or a random tag
  ping, pongs,         \* pings sent before this one, and answered
  lo, hi, cur, tries,  \* min, max, cur and attempt of the search for an MTU
  mtuIn, mtuOut,       \* the results, 0 while there is none
  err,       \* what run returns
  pathIn, pathOut,     \* what the network passes
  lossy,     \* a size that passes was tried and not answered in time
  refused    \* a wait was refused for its deadline

search == <<lo, hi, cur, tries>>
svars == <<pc, want, finished, air, n, ping, pongs, search, mtuIn, mtuOut, err, pathIn,
           pathOut, lossy, refused>>

Waits == {"connect", "version", "bang", "echoOn", "ping", "echoOff", "mtuIn", "clientMtu",
          "mtuOut", "final"}
Kinds == {"none", "connected", "protocolAck", "bang", "ack", "pong", "mtu", "clientMtu"}

\* set_timeout: the nanoseconds of a deadline, and whether the wait takes it.
Nanoseconds(t) == IF t > Second THEN t % Second ELSE t
DeadlineRefused(timeout) ==
  \E now \in 0 .. Second - 1 : Nanoseconds(now + (timeout % Second)) >= Second
TimedOut == {"timeout"} \cup
  (IF pc \in {"mtuIn", "mtuOut"} /\ \E t \in MtuTimeouts : DeadlineRefused(t)
   THEN {"unknown"} ELSE {})

\* Mutant: the wait has no timeout.
WokenByAnswer(e) == finished /\ e = "success"
\* What chiaki_cond_timedwait_pred returned: a timeout may race the answer.
Woken(e) == IF finished THEN e \in {"success", "timeout"} ELSE e \in TimedOut

Init ==
  /\ pc = "off" /\ want = <<"none", 0>> /\ finished = FALSE /\ air = {} /\ n = 0
  /\ ping = 0 /\ pongs = 0 /\ lo = 0 /\ hi = 0 /\ cur = 0 /\ tries = 0
  /\ mtuIn = 0 /\ mtuOut = 0 /\ err = "none" /\ lossy = FALSE /\ refused = FALSE
  /\ pathIn \in Paths /\ pathOut \in Paths

\* A request is sent and its answer waited for; the console may answer one
\* that reached it, and the answer to the request before may still be under way.
Ask(p, kind, id, reached) ==
  /\ pc' = p /\ want' = <<kind, id>> /\ finished' = FALSE
  /\ \E answer \in {{}} \cup (IF reached THEN {{<<kind, id>>}} ELSE {}),
        late \in {{}, air \cap {want}} : air' = answer \cup late
Leave(p, e) == pc' = p /\ err' = e /\ UNCHANGED <<want, finished, air, n>>

Fresh == 1 - n
\* One probe of the search: the MTU command, or a ping of that size.
ProbeIn(size) == Ask("mtuIn", "mtu", Fresh, size <= pathIn) /\ n' = Fresh
ProbeOut(size) == Ask("mtuOut", "pong", Fresh, size <= pathOut) /\ n' = Fresh
AskAcked(p) == Ask(p, "ack", Fresh, TRUE) /\ n' = Fresh
-----------------------------------------------------------------------------
(* chiaki_senkusha_run, up to the BANG.                                     *)

results == <<ping, pongs, search, mtuIn, mtuOut, pathIn, pathOut, lossy, refused>>

Connect ==
  /\ pc = "off"
  /\ \/ Ask("connect", "connected", 0, TRUE) /\ UNCHANGED <<n, err>>
     \/ Leave("done", "failed")
  /\ UNCHANGED results

\* What follows a handshake wait: the next message, whose sending may fail.
Handshake ==
  /\ pc \in {"connect", "version", "bang"}
  /\ \E e \in {"success", "timeout"} :
       /\ Woken(e)
       /\ \/ ~finished /\ Leave("close", e)
          \/ /\ finished /\ UNCHANGED err
             /\ CASE pc = "connect" -> Ask("version", "protocolAck", 0, TRUE) /\ UNCHANGED n
                  [] pc = "version" -> Ask("bang", "bang", 0, TRUE) /\ UNCHANGED n
                  [] OTHER -> AskAcked("echoOn")
          \/ finished /\ Leave(IF pc = "bang" THEN "disconnect" ELSE "close", "failed")
  /\ UNCHANGED results
-----------------------------------------------------------------------------
(* senkusha_run_rtt_test.                                                   *)

SendPing == Ask("ping", "pong", Fresh, TRUE) /\ n' = Fresh

\* senkusha_send_data_wait_for_ack reports a timeout even if the ack came.
EchoOn ==
  /\ pc = "echoOn" /\ ping' = 0 /\ pongs' = 0
  /\ \E e \in {"success", "timeout"} :
       /\ Woken(e)
       /\ \/ e = "success" /\ SendPing /\ UNCHANGED err
          \/ Leave("disconnect", IF e = "success" THEN "failed" ELSE e)
  /\ UNCHANGED <<search, mtuIn, mtuOut, pathIn, pathOut, lossy, refused>>

Pong ==
  /\ pc = "ping" /\ \E e \in {"success", "timeout"} : Woken(e)
  /\ ping' = ping + 1
  /\ pongs' = IF finished THEN pongs + 1 ELSE pongs
  /\ \/ ping + 1 < Pings /\ SendPing /\ UNCHANGED err
     \/ ping + 1 = Pings /\ AskAcked("echoOff") /\ UNCHANGED err
     \/ Leave("disconnect", "failed")
  /\ UNCHANGED <<search, mtuIn, mtuOut, pathIn, pathOut, lossy, refused>>

EchoOff ==
  /\ pc = "echoOff"
  /\ \E e \in {"success", "timeout"} :
       /\ Woken(e)
       /\ \/ /\ e = "success" /\ pongs > 0 /\ UNCHANGED err
             /\ lo' = MinMtu /\ hi' = MaxMtu /\ cur' = MaxMtu /\ tries' = 0
             /\ ProbeIn(MaxMtu)
          \/ Leave("disconnect", IF e = "success" THEN "failed" ELSE e) /\ UNCHANGED search
  /\ ping' = 0 /\ pongs' = 0
  /\ UNCHANGED <<mtuIn, mtuOut, pathIn, pathOut, lossy, refused>>
-----------------------------------------------------------------------------
(* senkusha_run_mtu_in_test and senkusha_run_mtu_out_test: bisections that  *)
(* try each size up to Retries times.                                       *)

\* The attempt is over: answered, or the wait failed otherwise than by timeout.
Counted(e) == finished \/ e # "timeout"
TriedAgain(e) == ~Counted(e) /\ tries + 1 < Retries
\* The size works, or was tried often enough: the search goes on with another.
Narrowed(e) ==
  /\ lo' = IF Counted(e) THEN cur ELSE lo
  /\ hi' = IF Counted(e) THEN hi ELSE cur
  /\ cur' = lo' + (hi' - lo') \div 2
  /\ tries' = 0
Searching == hi' > lo' + 1
Noted(e, passes) ==
  /\ lossy' = (lossy \/ (~finished /\ e = "timeout" /\ passes))
  /\ refused' = (refused \/ e = "unknown")

MtuIn ==
  /\ pc = "mtuIn"
  /\ \E e \in {"success", "timeout", "unknown"} :
       /\ Woken(e) /\ Noted(e, cur <= pathIn)
       /\ \/ /\ TriedAgain(e) /\ tries' = tries + 1 /\ ProbeIn(cur)
             /\ UNCHANGED <<lo, hi, cur, mtuIn, err>>
          \/ /\ ~TriedAgain(e) /\ Narrowed(e) /\ Searching /\ ProbeIn(cur')
             /\ UNCHANGED <<mtuIn, err>>
          \/ /\ ~TriedAgain(e) /\ Narrowed(e) /\ ~Searching
             /\ mtuIn' = lo' /\ Ask("clientMtu", "clientMtu", 1, TRUE) /\ UNCHANGED <<n, err>>
          \/ Leave("disconnect", "failed") /\ UNCHANGED <<search, mtuIn>>
  /\ UNCHANGED <<ping, pongs, mtuOut, pathIn, pathOut>>

\* The console answers the first client MTU command; pings follow, the first
\* of the size found inbound, and in the end the second command.
ClientMtu ==
  /\ pc = "clientMtu"
  /\ \E e \in {"success", "timeout"} :
       /\ Woken(e)
       /\ \/ /\ finished /\ UNCHANGED err
             /\ lo' = MinMtu /\ hi' = MaxMtu /\ cur' = mtuIn /\ tries' = 0
             /\ ProbeOut(mtuIn)
          \/ ~finished /\ Leave("disconnect", e) /\ UNCHANGED search
  /\ UNCHANGED <<ping, pongs, mtuIn, mtuOut, pathIn, pathOut, lossy, refused>>

\* A ping that cannot be sent counts as one that timed out.
MtuOut ==
  /\ pc = "mtuOut"
  /\ \E e \in {"success", "timeout", "unknown"} :
       /\ Woken(e) /\ Noted(e, cur <= pathOut)
       /\ \/ /\ TriedAgain(e) /\ tries' = tries + 1 /\ ProbeOut(cur)
             /\ UNCHANGED <<lo, hi, cur, mtuOut>>
          \/ /\ ~TriedAgain(e) /\ Narrowed(e) /\ Searching /\ ProbeOut(cur')
             /\ UNCHANGED mtuOut
          \/ ~TriedAgain(e) /\ Narrowed(e) /\ ~Searching /\ mtuOut' = lo' /\ AskAcked("final")
  /\ UNCHANGED <<ping, pongs, mtuIn, pathIn, pathOut, err>>

Final ==
  /\ pc = "final" /\ \E e \in {"success", "timeout"} : Woken(e) /\ Leave("disconnect", e)
  /\ UNCHANGED results

\* The disconnect message; then chiaki_takion_close joins the Takion thread.
Disconnect == pc = "disconnect" /\ Leave("close", err) /\ UNCHANGED results
Close == pc = "close" /\ Leave("done", err) /\ UNCHANGED results

Run == Connect \/ Handshake \/ EchoOn \/ Pong \/ EchoOff \/ MtuIn \/ ClientMtu \/ MtuOut
       \/ Final \/ Disconnect \/ Close
-----------------------------------------------------------------------------
(* senkusha_takion_cb.                                                      *)

\* Mutant: any answer of the kind will do.
FinishesAnyId(a) == a[1] = want[1]
\* An answer ends the wait only if it is the one the wait is for: ids of MTU
\* commands, tags of pings and numbers of acknowledged messages are compared.
Finishes(a) == a = want
Answer ==
  /\ pc \in Waits
  /\ \E a \in air : air' = air \ {a} /\ finished' = (finished \/ Finishes(a))
  /\ UNCHANGED <<pc, want, n, err, results>>

\* Takion gives up: while it connects this undoes a CONNECTED not yet seen.
TakionDisconnect ==
  /\ pc = "connect" /\ finished /\ finished' = FALSE
  /\ UNCHANGED <<pc, want, air, n, err, results>>

Next == Run \/ Answer \/ TakionDisconnect
Spec == Init /\ [][Next]_svars
-----------------------------------------------------------------------------
(* Type invariant.                                                          *)
TypeOK ==
  /\ pc \in Waits \cup {"off", "disconnect", "close", "done"}
  /\ want \in Kinds \X {0, 1} /\ air \subseteq Kinds \X {0, 1} /\ n \in {0, 1}
  /\ {finished, lossy, refused} \subseteq BOOLEAN
  /\ pongs <= ping /\ ping <= Pings
  /\ {lo, hi, cur} \subseteq 0 .. MaxMtu /\ lo <= cur /\ cur <= hi /\ tries \in 0 .. Retries
  /\ err \in {"none", "success", "timeout", "failed"}

Largest(path) == IF path < MinMtu THEN MinMtu ELSE IF path > MaxMtu THEN MaxMtu ELSE path
\* The search for the outbound MTU begins with the inbound one and never tries
\* MaxMtu itself unless that was the inbound one.
LargestOut == IF mtuIn < MaxMtu /\ pathOut >= MaxMtu THEN MaxMtu - 1 ELSE Largest(pathOut)

(* A size is taken for one that passes only if it does: an answer to an     *)
(* earlier attempt, late, must not speak for the present one                *)
(* (senkusha.c:404, 757, :524, :739).                                       *)
MtuPasses ==
  ~refused => /\ mtuIn <= Largest(pathIn) /\ mtuOut <= Largest(pathOut)
              /\ pc = "mtuIn" => lo <= Largest(pathIn)
              /\ pc = "mtuOut" => lo <= Largest(pathOut)

(* As long as no probe was lost, the bisection finds the largest size.      *)
MtuExact ==
  ~refused /\ ~lossy => /\ mtuIn # 0 => mtuIn = Largest(pathIn)
                        /\ mtuOut # 0 => mtuOut = LargestOut

(* "assert(err == CHIAKI_ERR_SUCCESS || err == CHIAKI_ERR_TIMEOUT)"         *)
(* (senkusha.c:421, :560): no wait ends in another way.  What follows the   *)
(* assertion takes such an end for an answer.                               *)
WaitsTimely == ~refused
===============================================================================
