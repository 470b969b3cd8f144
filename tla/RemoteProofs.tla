---------------------------- MODULE RemoteProofs ----------------------------
(***************************************************************************)
(* Proofs about Remote and what it is made of.                             *)
(***************************************************************************)
EXTENDS Remote, FiniteSetTheorems, SequenceTheorems, TLAPS

-----------------------------------------------------------------------------
(* A non-empty set of naturals has a least element, and what follows from   *)
(* it: induction, and the functions that loops compute.                     *)
LEMMA LeastNat ==
  ASSUME NEW T, T \subseteq Nat, T # {}
  PROVE  \E x \in T : \A y \in T : x <= y
<1> DEFINE R == {ss \in Nat \X Nat : ss[1] < ss[2]}
<1>1. IsWellFoundedOn(R, Nat)
  BY NatLessThanWellFounded DEF OpToRel
<1> HIDE DEF R
<1>2. PICK x \in T : \A y \in T : <<y, x>> \notin R
  BY <1>1, WFMin
<1>3. \A y \in T : y < x => <<y, x>> \in R
  BY DEF R
<1>4. ASSUME NEW y \in T PROVE x <= y
  <2>1. ~(y < x)
    BY <1>2, <1>3
  <2>. QED  BY <2>1
<1>. QED  BY <1>4

(* Induction on a set: the library's theorem takes the formula as an        *)
(* operator, which the provers cannot instantiate.                          *)
LEMMA SetInduction ==
  ASSUME NEW S, 0 \in S, \A n \in Nat : n \in S => n + 1 \in S
  PROVE  Nat \subseteq S
<1> SUFFICES ASSUME NEW m \in Nat, m \notin S PROVE FALSE
  OBVIOUS
<1> DEFINE T == Nat \ S
<1>1. PICK x \in T : \A y \in T : x <= y
  <2>1. T \subseteq Nat /\ T # {}
    OBVIOUS
  <2> HIDE DEF T
  <2>. QED  BY <2>1, LeastNat
<1>2. x # 0 /\ x \in Nat
  OBVIOUS
<1>3. x - 1 \in Nat /\ x - 1 \notin T
  BY <1>1, <1>2
<1>4. x - 1 \in S
  BY <1>3
<1>. QED  BY <1>2, <1>3, <1>4

-----------------------------------------------------------------------------
(* Registration (Regist).                                                   *)

(* The callback is called once, at the end; the console's answer is what a  *)
(* success rests on, and the session that goes on has seen it.              *)
KeysInv ==
  /\ Keys!TypeOK
  /\ reported = IF rpc = "over" THEN <<outcome>> ELSE <<>>
  /\ rpc \in {"report", "over"} => /\ held = {} /\ (outcome = "success" => granted)
                                   /\ outcome = "canceled" => stopped
  /\ rpc = "content" => granted
  /\ upc = "start" => rpc = "off"
  /\ upc \in {"request", "done"} => rpc = "over"
  /\ rpc = "over" /\ psn /\ ~asked => succeeded /\ granted
  /\ upc = "request" => succeeded /\ granted

LEMMA KeysSafe == KeysInv => Keys!TypeOK /\ Keys!RegistSound
<1> SUFFICES ASSUME KeysInv PROVE Keys!TypeOK /\ Keys!RegistSound OBVIOUS
<1>1. Len(reported) = IF rpc = "over" THEN 1 ELSE 0
  BY DEF KeysInv
<1> QED BY <1>1 DEF KeysInv, Keys!RegistSound

LEMMA KeysStart == Keys!Init => KeysInv
BY DEF Keys!Init, KeysInv, Keys!TypeOK

LEMMA KeysStep == KeysInv /\ Keys!Next => KeysInv'
<1> SUFFICES ASSUME KeysInv, Keys!Next PROVE KeysInv' OBVIOUS
<1> USE DEF KeysInv, Keys!TypeOK
<1>1. ASSUME Keys!Prepare \/ Keys!Exchange \/ Keys!Search \/ Keys!Settle \/ Keys!Connect PROVE KeysInv'
  <2>1. UNCHANGED <<psn, auto, reported, upc, stopped, asked, succeeded>>
    BY <1>1 DEF Keys!Prepare, Keys!Exchange, Keys!Search, Keys!Settle, Keys!Connect,
                Keys!ThreadOnly, Keys!caller
  <2>2. /\ rpc' \in {"init", "search", "cookie", "response", "settle", "connect", "report"}
        /\ rpc \in {"prepare", "init", "cookie", "search", "settle", "connect"}
        /\ granted' = granted
    BY <1>1 DEF Keys!Prepare, Keys!Exchange, Keys!Search, Keys!Settle, Keys!Connect,
                Keys!Moves, Keys!Goes, Keys!Out
  <2>3. /\ held' \subseteq {"addrinfos", "udp", "tcp"}
        /\ IF rpc' = "report" THEN held' = {} /\ (outcome' \in {"failed", "interrupted"} \/ (outcome' = "canceled" /\ stopped))
           ELSE outcome' = outcome
    BY <1>1 DEF Keys!Prepare, Keys!Exchange, Keys!Search, Keys!Settle, Keys!Connect,
                Keys!Moves, Keys!Goes, Keys!Out
  <2> QED BY <2>1, <2>2, <2>3
<1>2. ASSUME Keys!Responded \/ Keys!ResponseFails \/ Keys!Parsed PROVE KeysInv'
  BY <1>2 DEF Keys!Responded, Keys!ResponseFails, Keys!Parsed, Keys!ThreadOnly, Keys!Goes, Keys!Out,
              Keys!caller
<1>3. ASSUME Keys!Report PROVE KeysInv'
  <2>1. reported' = <<outcome>>
    BY <1>3 DEF Keys!Report
  <2> QED BY <1>3, <2>1 DEF Keys!Report, Keys!caller
<1>4. ASSUME Keys!Start PROVE KeysInv'
  BY <1>4 DEF Keys!Start, Keys!CallerOnly
<1>6. ASSUME Keys!Stop \/ Keys!Waited PROVE KeysInv'
  <2>1. /\ UNCHANGED <<psn, auto, rpc, held, outcome, granted, reported, succeeded>>
        /\ upc = "waiting" /\ upc' \in {"waiting", "joining"}
    BY <1>6 DEF Keys!Stop, Keys!Waited, Keys!CallerOnly
  <2>2. /\ asked' \in BOOLEAN /\ stopped' \in BOOLEAN
        /\ (asked => asked') /\ (stopped => stopped')
    <3>1. psn \in BOOLEAN /\ stopped \in BOOLEAN /\ asked \in BOOLEAN
      OBVIOUS
    <3>2. CASE Keys!Stop
      BY <3>1, <3>2, Zenon DEF Keys!Stop
    <3>3. CASE Keys!Waited
      <4>1. stopped' = (stopped \/ psn) /\ asked' = asked
        BY <3>3 DEF Keys!Waited
      <4> QED BY <3>1, <4>1, Zenon
    <3> QED BY <1>6, <3>2, <3>3
  <2>3. Keys!TypeOK'
    BY <2>1, <2>2
  <2>4. (rpc = "over" /\ psn /\ ~asked => succeeded /\ granted)'
    BY <2>1, <2>2
  <2>5. (rpc \in {"report", "over"} => /\ held = {} /\ (outcome = "success" => granted)
                                       /\ outcome = "canceled" => stopped)'
    BY <2>1, <2>2
  <2> QED BY <2>1, <2>3, <2>4, <2>5
<1>5. ASSUME Keys!Fini PROVE KeysInv'
  BY <1>5 DEF Keys!Fini, Keys!Joined, Keys!CallerOnly
<1> QED BY <1>1, <1>2, <1>3, <1>4, <1>5, <1>6 DEF Keys!Next, Keys!Thread

LEMMA KeysStays == KeysInv /\ UNCHANGED keying => KeysInv'
BY DEF KeysInv, Keys!TypeOK, keying

-----------------------------------------------------------------------------
(* The request for a session (SessionRequest).                              *)

Asked == Request!Known \cup {"ps4_9"}

(* What an earlier answer stored in server_target is what the console named *)
(* last, for as long as another request may follow.                         *)
RequestInv ==
  /\ qpc \in {"connect", "send", "reply", "granted", "failed"}
  /\ overHole \in BOOLEAN /\ ps5 \in BOOLEAN /\ requestSock \in BOOLEAN /\ quitting \in BOOLEAN
  /\ addr \in 0 .. HostAddrs
  /\ versions \in Seq(Asked) /\ Len(versions) \in 1 .. 3
  /\ server \in Asked \cup {"unknown"}
  /\ named \in Request!Known \cup {"none", "5.0", "other"}
  /\ why \in {"none", "refused", "stopped", "unknown", "inUse", "crash", "version"}
  /\ qpc # "failed" => /\ why \in {"none", "refused", "version"}
                       /\ server # "unknown" => server = Request!Version(named)
                       /\ Len(versions) > 1 => versions[Len(versions)] = Request!Version(named)
  /\ qpc = "failed" => (~overHole => why # "none") /\ (why = "stopped" => quitting)
  /\ qpc \in {"granted", "failed"} => ~requestSock

LEMMA RequestSafe == RequestInv => Request!TypeOK /\ Request!RequestSound
<1> SUFFICES ASSUME RequestInv PROVE Request!TypeOK /\ Request!RequestSound OBVIOUS
<1>1. {versions[i] : i \in DOMAIN versions} \subseteq Asked
  BY ElementOfSeq, LenProperties DEF RequestInv
<1>2. Request!TypeOK
  BY <1>1 DEF RequestInv, Request!TypeOK, Asked
<1>3. Request!VersionAgreed
  BY DEF RequestInv, Request!VersionAgreed, Request!target
<1>4. Request!ReasonGiven
  BY DEF RequestInv, Request!ReasonGiven
<1> QED BY <1>2, <1>3, <1>4 DEF Request!RequestSound

LEMMA RequestStart == Request!Init => RequestInv
<1> SUFFICES ASSUME Request!Init PROVE RequestInv OBVIOUS
<1>1. PICK v \in Asked : versions = <<v>>
  BY DEF Request!Init, Asked, Request!Known
<1>2. versions \in Seq(Asked) /\ Len(versions) = 1
  BY <1>1
<1>3. server = "unknown" /\ named = "none" /\ addr \in 0 .. HostAddrs
  BY CreationAssumption DEF Request!Init
<1>4. server \in Asked \cup {"unknown"} /\ named \in Request!Known \cup {"none", "5.0", "other"}
  BY <1>3
<1>5. qpc = "connect" /\ why = "none" /\ requestSock = FALSE
      /\ {overHole, ps5, requestSock, quitting} \subseteq BOOLEAN
  BY DEF Request!Init
<1> QED BY <1>2, <1>3, <1>4, <1>5 DEF RequestInv

LEMMA VersionIs ==
  ASSUME NEW name \in Request!Known \cup {"none", "5.0", "other"}
  PROVE  Request!Version(name) \in Asked \cup {"unknown"}
BY DEF Request!Version, Asked

(* A request that fails: the reason is one that may be given.               *)
LEMMA RequestFails ==
  ASSUME RequestInv, UNCHANGED <<overHole, ps5, quitting>>,
         named' \in Request!Known \cup {"none", "5.0", "other"},
         NEW r, Request!Fails(r),
         \/ r \in {"refused", "unknown", "inUse", "crash", "version"}
         \/ r = "stopped" /\ quitting
         \/ r = why /\ overHole /\ qpc # "failed"
  PROVE  RequestInv'
<1>1. /\ qpc' = "failed" /\ why' = r /\ requestSock' = FALSE /\ UNCHANGED <<server, versions, addr>>
  BY DEF Request!Fails
<1>2. Request!Known' = Request!Known /\ Asked' = Asked
  BY DEF Asked, Request!Known
<1>3. r \in {"none", "refused", "stopped", "unknown", "inUse", "crash", "version"}
      /\ (~overHole => r # "none") /\ (r = "stopped" => quitting)
  BY DEF RequestInv
<1> QED BY <1>1, <1>2, <1>3 DEF RequestInv

(* A request that is repeated, in a version the console knows.              *)
LEMMA RequestAgain ==
  ASSUME RequestInv, UNCHANGED <<overHole, ps5, quitting>>,
         named' \in Request!Known \cup {"none", "5.0", "other"}, qpc # "failed",
         NEW v \in Asked, NEW r \in {"none", "refused", "version"},
         v = Request!Version(named'), Len(versions) < 3,
         Request!Again(v), server' = v, why' = r
  PROVE  RequestInv'
<1>1. /\ qpc' = "connect" /\ requestSock' = FALSE /\ addr' = 0 /\ versions' = Append(versions, v)
  BY DEF Request!Again
<1>2. Request!Known' = Request!Known /\ Asked' = Asked
  BY DEF Asked, Request!Known
<1>3. versions' \in Seq(Asked) /\ Len(versions') = Len(versions) + 1 /\ versions'[Len(versions')] = v
  BY <1>1, AppendProperties DEF RequestInv
<1>4. Request!Version(named)' = v
  BY <1>2 DEF Request!Version
<1> HIDE DEF Asked
<1>5. Len(versions') \in 1 .. 3 /\ addr' \in 0 .. HostAddrs
  BY <1>1, <1>3, CreationAssumption DEF RequestInv
<1> QED BY <1>1, <1>2, <1>3, <1>4, <1>5 DEF RequestInv

LEMMA RequestStep == RequestInv /\ Request!Next => RequestInv'
<1> SUFFICES ASSUME RequestInv, Request!Next PROVE RequestInv' OBVIOUS
<1>0. /\ (ps5' = ps5 => Request!Known' = Request!Known /\ Asked' = Asked)
      /\ (ps5' = ps5 /\ named' = named => Request!Version(named)' = Request!Version(named))
  BY DEF Asked, Request!Known, Request!Version
\* The session goes on, and nothing is asked anew.
<1>1. ASSUME UNCHANGED <<overHole, ps5, quitting, named, server, versions>>, qpc # "failed",
             qpc' \in {"connect", "send", "reply", "granted"}, addr' \in 0 .. HostAddrs,
             requestSock' \in BOOLEAN, qpc' = "granted" => ~requestSock',
             why' \in {"none", "refused", "version"}
      PROVE  RequestInv'
  BY <1>0, <1>1 DEF RequestInv
<1>2. ASSUME Request!Connect PROVE RequestInv'
  <2>0. /\ qpc = "connect" /\ ~overHole /\ addr < HostAddrs /\ UNCHANGED <<overHole, ps5, quitting, named>>
    BY <1>2 DEF Request!Connect, Request!NoAnswer
  <2>1. CASE addr' = addr + 1 /\ why' \in {why, "refused", "none"}
             /\ UNCHANGED <<qpc, server, versions, requestSock>>
    BY <2>0, <2>1, <1>1, CreationAssumption DEF RequestInv
  <2>2. CASE quitting /\ Request!Fails("stopped")
    BY <2>0, <2>2, RequestFails DEF RequestInv
  <2>3. CASE qpc' = "send" /\ requestSock' = TRUE /\ UNCHANGED <<server, versions, addr, why>>
    BY <2>0, <2>3, <1>1 DEF RequestInv
  <2> QED BY <1>2, <2>1, <2>2, <2>3 DEF Request!Connect
<1>3. ASSUME Request!NoAddress PROVE RequestInv'
  <2>1. PICK r : r = (IF why = "none" THEN "unknown" ELSE why)
    OBVIOUS
  <2>2. Request!Fails(r) /\ UNCHANGED <<overHole, ps5, quitting, named>> /\ qpc = "connect"
    BY <1>3, <2>1 DEF Request!NoAddress, Request!NoAnswer
  <2>3. r \in {"refused", "unknown", "version"}
    BY <2>1, <2>2 DEF RequestInv
  <2> QED BY <2>2, <2>3, RequestFails DEF RequestInv
<1>4. ASSUME Request!RudpOpen PROVE RequestInv'
  <2>0. qpc = "connect" /\ overHole /\ UNCHANGED <<overHole, ps5, quitting, named>>
    BY <1>4 DEF Request!RudpOpen, Request!NoAnswer
  <2>1. CASE Request!Fails(why)
    BY <2>0, <2>1, RequestFails DEF RequestInv
  <2>2. CASE Request!Goes("send")
    BY <2>0, <2>2, <1>1 DEF RequestInv, Request!Goes
  <2> QED BY <1>4, <2>1, <2>2 DEF Request!RudpOpen
<1>5. ASSUME Request!Send PROVE RequestInv'
  <2>0. qpc = "send" /\ UNCHANGED <<overHole, ps5, quitting, named>>
    BY <1>5 DEF Request!Send, Request!NoAnswer
  <2>1. CASE Request!Fails("unknown")
    BY <2>0, <2>1, RequestFails DEF RequestInv
  <2>2. CASE Request!Goes("reply")
    BY <2>0, <2>2, <1>1 DEF RequestInv, Request!Goes
  <2> QED BY <1>5, <2>1, <2>2 DEF Request!Send
<1>6. ASSUME Request!NoReply PROVE RequestInv'
  <2>0. qpc = "reply" /\ UNCHANGED <<overHole, ps5, quitting, named>>
    BY <1>6 DEF Request!NoReply, Request!NoAnswer
  <2>1. CASE Request!Fails("unknown")
    BY <2>0, <2>1, RequestFails DEF RequestInv
  <2>2. CASE quitting /\ Request!Fails("stopped")
    BY <2>0, <2>2, RequestFails DEF RequestInv
  <2> QED BY <1>6, <2>1, <2>2 DEF Request!NoReply
<1>7. ASSUME Request!Granted PROVE RequestInv'
  BY <1>7, <1>1 DEF RequestInv, Request!Granted, Request!NoAnswer
<1>8. ASSUME Request!Refused PROVE RequestInv'
  <2>0. qpc = "reply" /\ UNCHANGED <<overHole, ps5, quitting, named>>
    BY <1>8 DEF Request!Refused, Request!NoAnswer
  <2>1. ASSUME NEW r \in {"unknown", "inUse", "crash"}, Request!Fails(r) PROVE RequestInv'
    BY <2>0, <2>1, RequestFails DEF RequestInv
  <2>2. CASE Request!Mismatched(server, "version")
    <3>1. CASE Len(versions) < 3 /\ server # "unknown"
      <4>1. Request!Again(server) /\ server' = server /\ why' = "version"
        BY <2>2, <3>1 DEF Request!Mismatched
      <4>2. server \in Asked /\ server = Request!Version(named') /\ named' = named
            /\ named \in Request!Known \cup {"none", "5.0", "other"}
        BY <2>0, <3>1 DEF RequestInv
      <4> QED BY <2>0, <3>1, <4>1, <4>2, RequestAgain
    <3>2. CASE ~(Len(versions) < 3 /\ server # "unknown")
      <4>1. Request!Fails("version")
        BY <2>2, <3>2 DEF Request!Mismatched
      <4> QED BY <2>0, <4>1, RequestFails DEF RequestInv
    <3> QED BY <3>1, <3>2
  <2> QED BY <1>8, <2>1, <2>2 DEF Request!Refused
<1>9. ASSUME Request!OtherVersion PROVE RequestInv'
  <2>0. qpc = "reply" /\ UNCHANGED <<overHole, ps5, quitting>>
    BY <1>9 DEF Request!OtherVersion
  <2>1. PICK name \in (Request!Known \cup {"5.0", "other"}) :
          /\ named' = name
          /\ IF Len(versions) = 3 THEN \E r \in {"unknown", "version"} : Request!Fails(r)
             ELSE Request!Mismatched(Request!Version(name),
                                     IF Request!Version(name) = "unknown" THEN "version" ELSE why)
    BY <1>9 DEF Request!OtherVersion
  <2>2. ASSUME NEW r \in {"unknown", "version"}, Request!Fails(r) PROVE RequestInv'
    BY <2>0, <2>1, <2>2, RequestFails
  <2>3. PICK v : v = Request!Version(name)
    OBVIOUS
  <2>4. CASE Len(versions) # 3 /\ v # "unknown"
    <3>1. Len(versions) < 3
      BY <2>4 DEF RequestInv
    <3>2. Request!Again(v) /\ server' = v /\ why' = why
      BY <2>1, <2>3, <2>4, <3>1 DEF Request!Mismatched
    <3>3. v \in Asked /\ v = Request!Version(named') /\ why \in {"none", "refused", "version"}
      BY <2>0, <2>1, <2>3, <2>4, VersionIs DEF RequestInv
    <3> QED BY <2>0, <2>1, <3>1, <3>2, <3>3, RequestAgain
  <2>5. CASE Len(versions) # 3 /\ v = "unknown"
    <3>1. Request!Fails("version")
      BY <2>1, <2>3, <2>5 DEF Request!Mismatched
    <3> QED BY <2>0, <2>1, <3>1, RequestFails
  <2> QED BY <2>1, <2>2, <2>4, <2>5
<1>10. ASSUME Request!Stop PROVE RequestInv'
  BY <1>10, <1>0 DEF RequestInv, Request!Stop
<1> QED BY <1>2, <1>3, <1>4, <1>5, <1>6, <1>7, <1>8, <1>9, <1>10 DEF Request!Next, Request!Thread

LEMMA RequestStays == RequestInv /\ UNCHANGED asking => RequestInv'
BY DEF RequestInv, asking, Asked, Request!Known, Request!Version

-----------------------------------------------------------------------------
(* The candidates of a hole (Candidates).                                   *)

(* The instance's operator is the library's.                                *)
LEMMA TriedSize == \A S : Tried!Cardinality(S) = Cardinality(S)
BY DEF Cardinality, Tried!Cardinality

(* Once an address is chosen it has answered, on the socket that is left.   *)
Chosen ==
  /\ selected \in heard /\ open = {selected[1]}
  /\ \E a \in Received \cup Others : <<selected[1], a>> \in requested
TriedInv ==
  /\ Tried!TypeOK
  /\ cpc = "confirm" => Chosen
  /\ cpc = "done" <=> result # "none"
  /\ result = "ok" => Chosen /\ (responded \/ confirmed)
  /\ result \in {"failed", "hollow"} => open = {}

LEMMA TriedSafe == TriedInv => Tried!TypeOK /\ Tried!CandidatesSound
<1> SUFFICES ASSUME TriedInv PROVE Tried!TypeOK /\ Tried!CandidatesSound OBVIOUS
<1>1. Tried!BothWays
  BY DEF TriedInv, Chosen, Tried!BothWays
<1>2. Tried!NoneLeft
  BY TriedSize DEF TriedInv, Chosen, Tried!NoneLeft, Tried!TypeOK
<1> QED BY <1>1, <1>2 DEF TriedInv, Tried!CandidatesSound

LEMMA TriedStart == Tried!Init => TriedInv
<1> SUFFICES ASSUME Tried!Init PROVE TriedInv OBVIOUS
<1>1. Cardinality(extra) <= Extra
  BY FS_EmptySet, TriedAssumption DEF Tried!Init
<1>2. open \subseteq {"v4", "v6"} /\ watched = open /\ extra = {} /\ cpc = "start" /\ result = "none"
  BY DEF Tried!Init, Tried!Pair
<1>3. 0 \in 0 .. Retries /\ 0 \in 0 .. Packets
  BY TriedAssumption
<1>4. Tried!TypeOK
  BY <1>1, <1>2, <1>3, TriedSize DEF Tried!Init, Tried!TypeOK, Tried!Pair
<1> QED BY <1>2, <1>4 DEF TriedInv

(* A datagram is read from one of the sockets that are ready.               *)
LEMMA FirstReady ==
  ASSUME NEW ready, ready \subseteq {"v4", "v6", "random"}, ready # {}
  PROVE  Tried!First(ready) \in ready
<1> DEFINE names == <<"v4", "v6", "random">>
           P(i) == names[i] \in ready /\ \A j \in 1 .. i - 1 : names[j] \notin ready
<1>1. \E i \in 1 .. 3 : P(i)
  <2>1. CASE "v4" \in ready
    <3>1. P(1) /\ 1 \in 1 .. 3
      BY <2>1
    <3> QED BY <3>1
  <2>2. CASE "v4" \notin ready /\ "v6" \in ready
    <3>1. P(2) /\ 2 \in 1 .. 3
      BY <2>2
    <3> QED BY <3>1
  <2>3. CASE "v4" \notin ready /\ "v6" \notin ready
    <3>0. "random" \in ready
      BY <2>3
    <3>1. names[3] \in ready
      BY <3>0
    <3>2. ASSUME NEW j \in 1 .. 2 PROVE names[j] \notin ready
      <4>1. j = 1 \/ j = 2
        OBVIOUS
      <4> QED BY <4>1, <2>3
    <3>3. P(3) /\ 3 \in 1 .. 3
      BY <3>1, <3>2
    <3> QED BY <3>3
  <2> QED BY <2>1, <2>2, <2>3
<1> DEFINE c == CHOOSE i \in 1 .. 3 : P(i)
<1>2. P(c)
  BY <1>1
<1>3. Tried!First(ready) = names[c]
  BY DEF Tried!First, Tried!Sockets
<1> QED BY <1>2, <1>3

(* The call that ends without a socket.                                     *)
LEMMA TriedFails ==
  ASSUME TriedInv, Tried!Ends(result', {}), result' \in {"failed", "hollow"}, UNCHANGED guesses,
         {responded', confirmed'} \subseteq BOOLEAN, watched' \subseteq Tried!Pair \cup {"random"},
         extra' \subseteq Others, Cardinality(extra') <= Extra,
         retries' \in 0 .. Retries, packets' \in 0 .. Packets
  PROVE  TriedInv'
<1>1. cpc' = "done" /\ open' = {}
  BY DEF Tried!Ends
<1>2. Tried!TypeOK'
  BY <1>1, TriedSize DEF TriedInv, Tried!TypeOK, Tried!Pair
<1> QED BY <1>1, <1>2 DEF TriedInv

LEMMA TriedStep == TriedInv /\ Tried!Next => TriedInv'
<1> SUFFICES ASSUME TriedInv, Tried!Next PROVE TriedInv' OBVIOUS
<1>0. /\ cpc \in {"start", "waiting", "confirm", "done"}
      /\ {guesses, responded, confirmed} \subseteq BOOLEAN
      /\ open \subseteq {"v4", "v6", "random"} /\ watched \subseteq {"v4", "v6", "random"}
      /\ extra \subseteq Others /\ Cardinality(extra) <= Extra /\ retries \in 0 .. Retries
      /\ result \in {"none", "ok", "hollow", "failed"} /\ packets \in 0 .. Packets
  BY TriedSize DEF TriedInv, Tried!TypeOK, Tried!Pair
<1>1. Tried!Pair \cup {"random"} = {"v4", "v6", "random"}
  BY DEF Tried!Pair
<1>2. ASSUME Tried!Start PROVE TriedInv'
  <2>0. cpc = "start" /\ result = "none"
        /\ UNCHANGED <<guesses, extra, retries, responded, selected, confirmed, heard, packets>>
    BY <1>2, <1>0 DEF Tried!Start, Tried!chosen, TriedInv
  <2>1. PICK guessing \in {{}} \cup (IF guesses THEN {{"random"}} ELSE {}) : \E got \in SUBSET Received :
          /\ watched' = watched \cup guessing
          /\ IF got = {} THEN Tried!Fails
             ELSE cpc' = "waiting" /\ open' = open \cup guessing /\ UNCHANGED result
    BY <1>2 DEF Tried!Start
  <2>2. guessing \subseteq {"random"}
    OBVIOUS
  <2>3. watched' \subseteq {"v4", "v6", "random"} /\ open \cup guessing \subseteq {"v4", "v6", "random"}
    BY <2>1, <2>2, <1>0
  <2>4. CASE Tried!Fails
    <3>1. Tried!Ends(result', {}) /\ result' = "failed"
      BY <2>4 DEF Tried!Fails, Tried!Ends
    <3> QED BY <3>1, <2>0, <2>3, <1>0, <1>1, TriedFails
  <2>5. CASE cpc' = "waiting" /\ open' = open \cup guessing /\ UNCHANGED result
    <3>1. Tried!TypeOK'
      BY <2>5, <2>0, <2>3, <1>0, <1>1, TriedSize DEF Tried!TypeOK
    <3> QED BY <3>1, <2>5, <2>0 DEF TriedInv
  <2> QED BY <2>1, <2>4, <2>5
<1>3. ASSUME Tried!TimedOut PROVE TriedInv'
  <2>0. cpc = "waiting" /\ result = "none"
        /\ UNCHANGED <<guesses, extra, responded, selected, confirmed, heard, packets>>
    BY <1>3, <1>0 DEF Tried!TimedOut, Tried!chosen, TriedInv
  <2>1. CASE Tried!Fails /\ UNCHANGED <<requested, watched, retries>>
    <3>1. Tried!Ends(result', {}) /\ result' = "failed"
      BY <2>1 DEF Tried!Fails, Tried!Ends
    <3> QED BY <3>1, <2>0, <2>1, <1>0, <1>1, TriedFails
  <2>2. ASSUME retries # Retries, NEW got, retries' = retries + 1, watched' = Tried!Watch(got), Tried!Stays
        PROVE  TriedInv'
    <3>1. watched' \subseteq open /\ UNCHANGED <<cpc, open, result>>
      BY <2>2 DEF Tried!Watch, Tried!Stays
    <3>2. retries' \in 0 .. Retries
      BY <2>2, <1>0, TriedAssumption
    <3>3. Tried!TypeOK'
      BY <3>1, <3>2, <2>0, <1>0, <1>1, TriedSize DEF Tried!TypeOK
    <3> QED BY <3>1, <3>3, <2>0 DEF TriedInv
  <2> QED BY <1>3, <2>1, <2>2 DEF Tried!TimedOut
<1>4. ASSUME Tried!Breaks PROVE TriedInv'
  <2>1. Tried!Ends(result', {}) /\ result' = "failed"
        /\ UNCHANGED <<guesses, watched, extra, retries, responded, confirmed, packets>>
    BY <1>4 DEF Tried!Breaks, Tried!Fails, Tried!Ends, Tried!loop, Tried!chosen, Tried!net
  <2> QED BY <2>1, <1>0, <1>1, TriedFails
<1>5. ASSUME Tried!Datagram PROVE TriedInv'
  <2>0. cpc = "waiting" /\ result = "none" /\ UNCHANGED <<guesses, retries, confirmed>>
        /\ packets' \in 0 .. Packets
    <3>1. cpc = "waiting" /\ packets < Packets /\ packets' = packets + 1
          /\ UNCHANGED <<guesses, retries, confirmed>>
      BY <1>5 DEF Tried!Datagram
    <3> QED BY <3>1, <1>0, TriedAssumption DEF TriedInv
  <2>1. PICK ready \in SUBSET watched : ready # {} /\ watched' = ready /\
          LET s == Tried!First(ready) IN
          \E a \in Tried!From(s), kind \in Tried!Kinds :
            LET known == a \in Received \cup extra IN
            /\ Tried!Possible(s, kind)
            /\ heard' = heard \cup (IF kind = "answer" THEN {<<s, a>>} ELSE {})
            /\ \/ ~known /\ Cardinality(extra) >= Extra /\ Tried!Stays
                  /\ UNCHANGED <<extra, requested, responded, selected>>
               \/ /\ known \/ Cardinality(extra) < Extra
                  /\ extra' = extra \cup ({a} \ Received)
                  /\ Tried!Handle(s, a, kind, a \notin Received)
    BY <1>5, TriedSize DEF Tried!Datagram
  <2>2. PICK s : s = Tried!First(ready)
    OBVIOUS
  <2>3. s \in {"v4", "v6", "random"} /\ watched' \subseteq {"v4", "v6", "random"}
    BY <2>1, <2>2, <1>0, FirstReady
  <2>4. PICK a \in Tried!From(s), kind \in Tried!Kinds :
            /\ Tried!Possible(s, kind)
            /\ heard' = heard \cup (IF kind = "answer" THEN {<<s, a>>} ELSE {})
            /\ \/ ~(a \in Received \cup extra) /\ Cardinality(extra) >= Extra /\ Tried!Stays
                  /\ UNCHANGED <<extra, requested, responded, selected>>
               \/ /\ a \in Received \cup extra \/ Cardinality(extra) < Extra
                  /\ extra' = extra \cup ({a} \ Received)
                  /\ Tried!Handle(s, a, kind, a \notin Received)
    BY <2>1, <2>2
  \* A candidate that is added is one of few.
  <2>5. ASSUME a \in Received \cup extra \/ Cardinality(extra) < Extra,
               extra' = extra \cup ({a} \ Received)
        PROVE  extra' \subseteq Others /\ Cardinality(extra') <= Extra
    <3>1. a \in Received \cup Others
      BY <2>4, TriedAssumption DEF Tried!From
    <3>2. IsFiniteSet(extra)
      BY <1>0, FS_Subset, TriedAssumption
    <3>3. CASE a \in Received \cup extra
      <4>1. extra' = extra
        BY <2>5, <3>3
      <4> QED BY <4>1, <1>0
    <3>4. CASE a \notin Received \cup extra
      <4>1. extra' = extra \cup {a}
        BY <2>5, <3>4
      <4>2. Cardinality(extra') = Cardinality(extra) + 1 /\ Cardinality(extra) \in Nat
        BY <4>1, <3>2, <3>4, FS_AddElement, FS_CardinalityType
      <4>3. Cardinality(extra) < Extra
        BY <2>5, <3>4
      <4> QED BY <4>1, <4>2, <4>3, <3>1, <3>4, <1>0, TriedAssumption
    <3> QED BY <3>3, <3>4
  <2>6. ASSUME extra' \subseteq Others, Cardinality(extra') <= Extra, responded' \in BOOLEAN,
               Tried!Stays
        PROVE  TriedInv'
    <3>1. UNCHANGED <<cpc, open, result>>
      BY <2>6 DEF Tried!Stays
    <3>2. Tried!TypeOK'
      BY <3>1, <2>6, <2>0, <2>3, <1>0, <1>1, TriedSize DEF Tried!TypeOK
    <3> QED BY <3>1, <3>2, <2>0 DEF TriedInv
  <2>7. ASSUME extra' \subseteq Others, Cardinality(extra') <= Extra, responded' \in BOOLEAN,
               Tried!Fails \/ Tried!Ends("hollow", {})
        PROVE  TriedInv'
    <3>1. Tried!Ends(result', {}) /\ result' \in {"failed", "hollow"}
      BY <2>7 DEF Tried!Fails, Tried!Ends
    <3> QED BY <3>1, <2>7, <2>0, <2>3, <1>0, <1>1, TriedFails
  <2>8. CASE Tried!Stays /\ UNCHANGED <<extra, requested, responded, selected>>
    BY <2>8, <2>6, <1>0
  <2>9. ASSUME a \in Received \cup extra \/ Cardinality(extra) < Extra,
               extra' = extra \cup ({a} \ Received),
               Tried!Handle(s, a, kind, a \notin Received)
        PROVE  TriedInv'
    <3>0. extra' \subseteq Others /\ Cardinality(extra') <= Extra
      BY <2>5, <2>9
    <3>1. CASE Tried!Junk(a \notin Received)
      <4>1. responded' = responded /\ (Tried!Stays \/ Tried!Fails)
        BY <3>1 DEF Tried!Junk
      <4> QED BY <4>1, <3>0, <2>6, <2>7, <1>0
    <3>2. CASE Tried!Request(s, a, a \notin Received)
      <4>1. responded' = TRUE /\ (Tried!Stays \/ Tried!Fails \/ Tried!Ends("hollow", {}))
        BY <3>2 DEF Tried!Request
      <4> QED BY <4>1, <3>0, <2>6, <2>7
    <3>3. CASE kind = "answer" /\ Tried!Answer(s, a)
      <4>1. selected' = <<s, a>> /\ UNCHANGED <<requested, responded>>
        BY <3>3 DEF Tried!Answer
      <4>2. CASE Tried!Fails
        BY <4>1, <4>2, <3>0, <2>7, <1>0
      <4>3. CASE cpc' = "confirm" /\ open' = {s} /\ UNCHANGED result
        <5>1. <<s, a>> \in heard' /\ \E b \in Received \cup Others : <<s, b>> \in requested'
          BY <4>1, <3>3, <2>4 DEF Tried!Possible
        <5>2. selected'[1] = s
          BY <4>1
        <5>3. Chosen'
          BY <5>1, <5>2, <4>1, <4>3 DEF Chosen
        <5>4. Tried!TypeOK'
          BY <4>1, <4>3, <3>0, <2>0, <2>3, <1>0, <1>1, TriedSize DEF Tried!TypeOK
        <5> QED BY <5>3, <5>4, <4>3, <2>0 DEF TriedInv
      <4> QED BY <3>3, <4>2, <4>3 DEF Tried!Answer
    <3>4. CASE Tried!Stays /\ UNCHANGED <<requested, responded, selected>>
      BY <3>4, <3>0, <2>6, <1>0
    <3> QED BY <2>9, <3>1, <3>2, <3>3, <3>4 DEF Tried!Handle, Tried!OurAnswer
  <2> QED BY <2>4, <2>8, <2>9
<1>6. ASSUME Tried!ConfirmRequest \/ Tried!ConfirmOther PROVE TriedInv'
  <2>1. /\ cpc = "confirm" /\ packets < Packets /\ packets' = packets + 1
        /\ UNCHANGED <<guesses, watched, extra, retries, responded, selected, requested, heard>>
        /\ confirmed' \in {TRUE, confirmed} /\ (Tried!Stays \/ Tried!Fails)
    BY <1>6 DEF Tried!ConfirmRequest, Tried!ConfirmOther, Tried!loop, Tried!chosen
  <2>2. packets' \in 0 .. Packets /\ confirmed' \in BOOLEAN
    <3>1. packets' \in 0 .. Packets
      BY <2>1, <1>0, TriedAssumption
    <3>2. confirmed \in BOOLEAN
      BY <1>0
    <3>3. confirmed' \in BOOLEAN
      BY <2>1, <3>2, Zenon
    <3> QED BY <3>1, <3>3
  <2>3. CASE Tried!Stays
    <3>1. UNCHANGED <<cpc, open, result>> /\ result = "none"
      BY <2>1, <2>3, <1>0 DEF Tried!Stays, TriedInv
    <3>2. Tried!TypeOK'
      BY <3>1, <2>1, <2>2, <1>0, <1>1, TriedSize DEF Tried!TypeOK
    <3>3. Chosen'
      BY <3>1, <2>1 DEF Chosen, TriedInv
    <3> QED BY <3>1, <3>2, <3>3, <2>1 DEF TriedInv
  <2>4. CASE Tried!Fails
    <3>1. Tried!Ends(result', {}) /\ result' = "failed"
      BY <2>4 DEF Tried!Fails, Tried!Ends
    <3> QED BY <3>1, <2>1, <2>2, <1>0, <1>1, TriedFails
  <2> QED BY <2>1, <2>3, <2>4
<1>7. ASSUME Tried!ConfirmTimedOut PROVE TriedInv'
  <2>1. /\ cpc = "confirm" /\ IF confirmed \/ responded THEN Tried!Ends("ok", open) ELSE Tried!Fails
        /\ UNCHANGED <<guesses, watched, extra, retries, responded, confirmed, selected, requested,
                       heard, packets>>
    BY <1>7 DEF Tried!ConfirmTimedOut, Tried!Confirmed, Tried!loop, Tried!chosen, Tried!net
  <2>2. CASE Tried!Fails
    <3>1. Tried!Ends(result', {}) /\ result' = "failed"
      BY <2>2 DEF Tried!Fails, Tried!Ends
    <3> QED BY <3>1, <2>1, <1>0, <1>1, TriedFails
  <2>3. CASE (confirmed \/ responded) /\ Tried!Ends("ok", open)
    <3>1. cpc' = "done" /\ result' = "ok" /\ open' = open
      BY <2>3 DEF Tried!Ends
    <3>2. Tried!TypeOK'
      BY <3>1, <2>1, <1>0, <1>1, TriedSize DEF Tried!TypeOK
    <3>3. Chosen'
      BY <3>1, <2>1 DEF Chosen, TriedInv
    <3>4. (responded \/ confirmed)'
      BY <2>1, <2>3
    <3> QED BY <3>1, <3>2, <3>3, <3>4 DEF TriedInv
  <2> QED BY <2>1, <2>2, <2>3
<1> QED BY <1>2, <1>3, <1>4, <1>5, <1>6, <1>7 DEF Tried!Next, Tried!Step

LEMMA TriedStays == TriedInv /\ UNCHANGED trying => TriedInv'
<1> SUFFICES ASSUME TriedInv, UNCHANGED trying PROVE TriedInv' OBVIOUS
<1>1. UNCHANGED <<cpc, guesses, open, watched, requested, extra, retries, responded, confirmed, heard,
                  selected, result, packets>>
  BY DEF trying
<1> QED BY <1>1, TriedSize DEF TriedInv, Chosen, Tried!TypeOK

-----------------------------------------------------------------------------
(* The holes that are punched through PSN (Holepunch).                      *)

OfferOf(p) == <<"offer", p, 0>>
AcceptOf(p) == <<"accept", p, 0>>
AckOf(p) == <<"ack", p, 0>>

Waits == {"joining", "starting", "offer", "result", "accept", "deleting"}
MainPlaces ==
  Waits \cup {"create", "wsWait", "httpCreate", "offering", "start", "precheck", "ackOffer", "send",
              "check", "retry", "sendAccept", "ackAccept", "established", "between", "streaming",
              "failed", "left", "fini", "stopWs", "joinWs", "freed", "crashed"}

(* How many ids of requests were taken, by the place of the main thread.    *)
Ids1(places, n) == port = 1 /\ mpc \in places => reqId <= n
Ids2(places, n) == port = 2 /\ mpc \in places => reqId <= n
IdsTaken ==
  /\ Ids1({"create", "wsWait", "httpCreate", "joining", "offering"}, 1)
  /\ Ids1({"start", "starting", "precheck", "offer", "ackOffer", "send"}, 2)
  /\ Ids1({"result", "check", "sendAccept"}, 3)
  /\ Ids1({"accept", "ackAccept", "established", "between"}, 4)
  /\ Ids2({"offering"}, 4)
  /\ Ids2({"precheck", "offer", "ackOffer"}, 5)
  /\ Ids2({"send"}, 3 + 2 * attempt)
  /\ Ids2({"result", "check", "retry", "sendAccept"}, 4 + 2 * attempt)
  /\ Ids2({"accept", "ackAccept", "established"}, 5 + 2 * attempt)
HolesTypes ==
  /\ mpc \in MainPlaces
  /\ ours \in BOOLEAN /\ pair \in BOOLEAN /\ locked \in BOOLEAN /\ wsOpen \in BOOLEAN
  /\ port \in {1, 2} /\ attempt \in 0 .. Attempts /\ taken \in 0 .. 2 /\ tries \in 1 .. Tries
  /\ repeats \in 0 .. Repeats
  /\ reqId \in 1 .. 6 + 2 * Attempts
  /\ IdsTaken
  /\ flags \subseteq {"open", "created", "member", "console", "custom", "ctrlOffer", "dataOffer",
                      "ctrl", "data", "deleted"}
  /\ ws \in {"off", "connecting", "running", "ack", "enqueue", "done"}
  /\ mpc \in {"create", "wsWait", "httpCreate", "joining", "start", "starting", "between"} => port = 1
  /\ mpc = "retry" => port = 2 /\ attempt < Attempts
  /\ mpc \in {"send", "result", "check", "retry", "sendAccept"} => attempt >= 1

(* While the websocket is connecting the main thread waits for it; when it  *)
(* is open its thread runs.  The sockets are closed before others are made. *)
HolesThreads ==
  /\ mpc = "create" => ws = "off" /\ flags = {}
  /\ ws = "connecting" => mpc = "wsWait" /\ "open" \notin flags
  /\ ws \in {"running", "ack", "enqueue"} => wsOpen
  /\ mpc = "freed" => ws \in {"off", "done"}
  /\ mpc \in {"create", "wsWait", "httpCreate", "joining", "offering", "retry", "sendAccept", "accept",
              "ackAccept", "established", "between"} => ~pair

(* Before our OFFER goes out the console has nothing to accept.             *)
Unoffered ==
  port = 1 /\ mpc \in {"create", "wsWait", "httpCreate", "joining", "offering", "start", "starting",
                       "precheck", "offer", "ackOffer", "send"}

(* What is under way was sent, and what was sent has its cause.             *)
Underway ==
  /\ queue \in Seq(sent) /\ wire \in Seq(sent)
  /\ ws \in {"ack", "enqueue"} => note \in sent /\ note[1] = "offer"
  /\ \A m \in sent : /\ m[1] = "offer" => m \in {OfferOf(1), OfferOf(2)}
                     /\ m[1] = "accept" => m \in {AcceptOf(1), AcceptOf(2)}
Caused ==
  /\ Unoffered => /\ \A m \in told : m[1] \notin {"offer", "accept"}
                  /\ {AcceptOf(1), OfferOf(2)} \cap sent = {}
  /\ port = 1 => (\A m \in told : m[1] = "offer" => m[2] = 1) /\ AcceptOf(2) \notin sent
  /\ (\E m \in told : m[1] = "offer" /\ m[2] = 1) => OfferOf(1) \in sent /\ AckOf(1) \in told
  /\ AcceptOf(1) \in sent => OfferOf(1) \in sent /\ AckOf(1) \in told
  /\ mpc \in {"ackOffer", "send", "result", "check", "retry", "sendAccept"}
       => taken = port /\ OfferOf(port) \in sent
  /\ mpc \in {"send", "result", "check", "retry", "sendAccept"} => AckOf(port) \in told
  /\ mpc \in {"accept", "ackAccept", "established"} => AcceptOf(port) \in told
  /\ mpc \in {"ackAccept", "established"} => AcceptOf(port) \in sent
  /\ port = 2 \/ mpc = "between" => "ctrl" \in flags
  /\ Holes!BothAccepted
HolesSent == Underway /\ Caused

OnceIn(s, x) == \A i, j \in DOMAIN s : s[i] = x /\ s[j] = x => i = j
NotIn(s, x) == \A i \in DOMAIN s : s[i] # x
NotBehind(s, x, y) == \A i, j \in DOMAIN s : i < j /\ s[i] = x => s[j] # y
OfferNoted == ws \in {"ack", "enqueue"} /\ note = OfferOf(1)

(* The OFFERs for ctrl come before the ACCEPT of that hole, which comes     *)
(* once; when it is taken nothing of ctrl is under way, and it is what the  *)
(* wait for the next OFFER passes over first.                               *)
HolesOrder ==
  /\ OnceIn(queue, AcceptOf(1)) /\ OnceIn(wire, AcceptOf(1))
  /\ NotIn(queue, AcceptOf(1)) \/ NotIn(wire, AcceptOf(1))
  /\ NotBehind(queue, AcceptOf(1), OfferOf(1)) /\ NotBehind(wire, AcceptOf(1), OfferOf(1))
  /\ NotIn(queue, AcceptOf(1)) \/ (NotIn(wire, OfferOf(1)) /\ ~OfferNoted)
Past == port = 2 \/ mpc \in {"ackAccept", "established", "between"}
Front ==
  \/ port = 1 /\ mpc \in {"ackAccept", "established", "between"}
  \/ port = 2 /\ mpc \in {"offering", "precheck", "offer"}
Gone == port = 2 /\ mpc \in {"ackOffer", "send", "result", "check", "retry", "sendAccept", "accept"}
AtFront(s) == \A i \in DOMAIN s : s[i] = AcceptOf(1) => \A j \in 1 .. i - 1 : s[j][1] \notin Holes!Messages
Over1 ==
  /\ AckOf(1) \in told /\ AcceptOf(1) \in sent /\ OfferOf(1) \in sent
  /\ NotIn(queue, OfferOf(1)) /\ NotIn(wire, OfferOf(1)) /\ NotIn(wire, AcceptOf(1)) /\ ~OfferNoted
HolesLater ==
  /\ Past => Over1
  /\ Front => AtFront(queue)
  /\ Gone => NotIn(queue, AcceptOf(1))

HolesInv == HolesTypes /\ HolesThreads /\ HolesSent /\ HolesOrder /\ HolesLater

(* What the waits of the main thread are for.                               *)
LEMMA WaitsAre ==
  /\ DOMAIN Holes!Wanted = Waits
  /\ Holes!Messages = {"offer", "result", "accept", "terminate"}
  /\ Holes!Wanted["joining"] = {"created", "member"} /\ Holes!Wanted["starting"] = {"member", "custom"}
  /\ Holes!Wanted["offer"] = Holes!Messages /\ Holes!Wanted["result"] = Holes!Messages
  /\ Holes!Wanted["accept"] = Holes!Messages
  /\ Holes!Wanted["deleting"] = {"gone", "deleted"}
BY DEF Holes!Wanted, Holes!Messages, Waits

(* The first notification that fits, and what is left behind it.            *)
LEMMA FirstIs ==
  ASSUME queue \in Seq(sent)
  PROVE  /\ Holes!First \in 0 .. Len(queue)
         /\ Holes!First # 0 => /\ mpc \in Waits /\ queue[Holes!First][1] \in Holes!Wanted[mpc]
                               /\ Holes!Found = queue[Holes!First] /\ Holes!Found \in sent
                               /\ \A i \in 1 .. Holes!First - 1 : queue[i][1] \notin Holes!Wanted[mpc]
<1>0. Len(queue) \in Nat /\ \A i \in 1 .. Len(queue) : queue[i] \in sent
  BY ElementOfSeq, LenProperties
<1> DEFINE I == {i \in 1 .. Len(queue) : queue[i][1] \in Holes!Wanted[mpc]}
<1>1. CASE mpc \notin Waits
  BY <1>0, <1>1, WaitsAre DEF Holes!First
<1>2. CASE mpc \in Waits
  <2>1. Holes!First = IF I # {} THEN CHOOSE x \in I : \A y \in I : x <= y ELSE 0
    BY <1>2, WaitsAre DEF Holes!First, Holes!SelectInSeq, Holes!Min
  <2>2. CASE I = {}
    BY <2>1, <2>2, <1>0
  <2>3. CASE I # {}
    <3>1. I \subseteq Nat
      OBVIOUS
    <3>2. \E x \in I : \A y \in I : x <= y
      <4> HIDE DEF I
      <4> QED BY <3>1, <2>3, LeastNat
    <3>3. Holes!First \in I /\ \A y \in I : Holes!First <= y
      BY <2>1, <2>3, <3>2
    <3>4. \A i \in 1 .. Holes!First - 1 : queue[i][1] \notin Holes!Wanted[mpc]
      BY <3>3, <1>0
    <3>5. Holes!First # 0 /\ Holes!First \in 0 .. Len(queue)
      BY <3>3, <1>0
    <3>6. Holes!Found = queue[Holes!First] /\ Holes!Found \in sent
      BY <3>3, <3>5, <1>0 DEF Holes!Found
    <3> QED BY <3>3, <3>4, <3>5, <3>6, <1>2
  <2> QED BY <2>2, <2>3
<1> QED BY <1>1, <1>2

(* What is cleared is the head of the queue.                                *)
LEMMA ClearedIs ==
  ASSUME queue \in Seq(sent)
  PROVE  /\ Holes!Cleared \in Seq(sent) /\ Len(Holes!Cleared) = Len(queue) - Holes!First
         /\ DOMAIN Holes!Cleared = 1 .. Len(queue) - Holes!First
         /\ \A i \in DOMAIN Holes!Cleared :
              Holes!First + i \in DOMAIN queue /\ Holes!Cleared[i] = queue[Holes!First + i]
<1>0. Holes!First \in 0 .. Len(queue)
  BY FirstIs
<1>1. Len(queue) \in Nat /\ DOMAIN queue = 1 .. Len(queue) /\ \A i \in 1 .. Len(queue) : queue[i] \in sent
  BY ElementOfSeq, LenProperties
<1>2. PICK k \in 0 .. Len(queue) : k = Holes!First
  BY <1>0
<1>3. Holes!Cleared = SubSeq(queue, k + 1, Len(queue))
  BY <1>2 DEF Holes!Cleared
<1>4. \A i \in k + 1 .. Len(queue) : queue[i] \in sent
  BY <1>1
<1>5. PICK n \in Nat : n = Len(queue)
  BY <1>1
<1>6. /\ SubSeq(queue, k + 1, n) \in Seq(sent)
      /\ Len(SubSeq(queue, k + 1, n)) = IF k + 1 <= n THEN n - (k + 1) + 1 ELSE 0
      /\ \A i \in 1 .. n - (k + 1) + 1 : SubSeq(queue, k + 1, n)[i] = queue[(k + 1) + i - 1]
  BY <1>4, <1>5, SubSeqProperties
<1>7. Holes!Cleared \in Seq(sent) /\ Len(Holes!Cleared) = n - k
  BY <1>3, <1>5, <1>6
<1>8. DOMAIN Holes!Cleared = 1 .. n - k
  BY <1>7, LenProperties
<1>9. ASSUME NEW i \in 1 .. n - k
      PROVE  k + i \in 1 .. n /\ Holes!Cleared[i] = queue[k + i]
  <2>1. (k + 1) + i - 1 = k + i /\ i \in 1 .. n - (k + 1) + 1
    BY <1>5
  <2>2. SubSeq(queue, k + 1, n)[i] = queue[k + i]
    BY <1>6, <2>1
  <2> QED BY <2>2, <1>3, <1>5
<1> QED BY <1>1, <1>2, <1>5, <1>7, <1>8, <1>9

(* Every place of the main thread, and how many ids it took.                *)
LEMMA HolesTypesStep == HolesTypes /\ Underway /\ Holes!Next => HolesTypes'
<1> SUFFICES ASSUME HolesTypes, Underway, Holes!Next PROVE HolesTypes' OBVIOUS
<1> DEFINE cleared == Holes!Cleared
           first == Holes!First
<1> USE DEF Holes!main, Holes!wst, Holes!psn, Holes!Ctrl, Holes!Data, Holes!PunchUnchanged, Holes!MainOnly,
            Holes!GoesTo, Holes!Fails, Holes!PunchFails
<1>0. /\ Attempts \in Nat \ {0} /\ Tries \in Nat \ {0} /\ Repeats \in Nat /\ attempt \in Nat /\ reqId \in Nat
      /\ attempt <= Attempts
  BY HolesAssumption DEF HolesTypes
<1>1. ASSUME Holes!Create \/ Holes!WsWaited \/ Holes!HttpCreate \/ Holes!HttpStart PROVE HolesTypes'
  <2>1. /\ UNCHANGED <<port, attempt, reqId, ours, pair, taken, tries, flags, locked, wsOpen, repeats>>
        /\ ws' \in {ws, "connecting"}
    BY <1>1 DEF Holes!Create, Holes!WsWaited, Holes!HttpCreate, Holes!HttpStart, Holes!Request
  <2>2. /\ mpc \in {"create", "wsWait", "httpCreate"} => mpc' \in {"failed", "wsWait", "httpCreate", "joining"}
        /\ mpc = "start" => mpc' \in {"failed", "starting"}
        /\ mpc \in {"create", "wsWait", "httpCreate", "start"}
    BY <1>1 DEF Holes!Create, Holes!WsWaited, Holes!HttpCreate, Holes!HttpStart, Holes!Request
  <2> QED BY <1>0, <2>1, <2>2 DEF HolesTypes, IdsTaken, Ids1, Ids2, MainPlaces, Waits
<1>2. ASSUME Holes!TimedOut PROVE HolesTypes'
  <2>1. mpc \in Waits /\ Holes!WaitFails
        /\ UNCHANGED <<port, attempt, reqId, taken, tries, flags, locked, ws, note, wsOpen, queue, told,
                       wire, sent, repeats>>
    BY <1>2, WaitsAre DEF Holes!TimedOut
  <2>2. mpc' \in {"failed", "stopWs"} /\ pair' \in BOOLEAN /\ ours' \in BOOLEAN
    BY <2>1 DEF Holes!WaitFails, HolesTypes
  <2> QED BY <1>0, <2>1, <2>2 DEF HolesTypes, IdsTaken, Ids1, Ids2, MainPlaces, Waits
<1>3. ASSUME Holes!Joined \/ Holes!Started PROVE HolesTypes'
  <2>1. /\ mpc \in {"joining", "starting"}
        /\ UNCHANGED <<port, attempt, reqId, ours, pair, taken, tries, ws, note, wsOpen, told, wire, sent,
                       repeats>>
        /\ locked' \in BOOLEAN
        /\ mpc = "joining" => mpc' \in {"failed", "offering", "joining"}
        /\ mpc = "starting" => mpc' \in {"failed", "precheck", "starting"}
        /\ flags' \subseteq flags \cup {"created", "member", "console", "custom"}
    BY <1>3 DEF HolesTypes, Holes!Joined, Holes!Started
  <2> QED BY <1>0, <2>1 DEF HolesTypes, IdsTaken, Ids1, Ids2, MainPlaces, Waits
<1>4. ASSUME Holes!CreateOffer PROVE HolesTypes'
  <2>1. /\ mpc = "offering" /\ ours' \in BOOLEAN /\ pair' \in BOOLEAN /\ reqId' \in {reqId, reqId + 1}
        /\ mpc' = (IF port = 2 THEN "precheck" ELSE IF ours' THEN "start" ELSE "failed")
        /\ UNCHANGED <<port, attempt, taken, tries, flags, locked, ws, note, wsOpen, queue, told, wire,
                       sent, repeats>>
    BY <1>4 DEF HolesTypes, Holes!CreateOffer, Holes!OfferMade
  <2> QED BY <1>0, <2>1 DEF HolesTypes, IdsTaken, Ids1, Ids2, MainPlaces, Waits
<1>5. ASSUME Holes!Precheck PROVE HolesTypes'
  <2>1. /\ UNCHANGED <<port, attempt, reqId, taken, tries, flags, locked, ws, wsOpen, repeats>>
        /\ mpc = "precheck" /\ mpc' \in {"failed", "offer"} /\ pair' \in BOOLEAN /\ ours' \in BOOLEAN
    BY <1>5 DEF HolesTypes, Holes!Precheck
  <2> QED BY <1>0, <2>1 DEF HolesTypes, IdsTaken, Ids1, Ids2, MainPlaces, Waits
<1>6. ASSUME Holes!MessagePassed PROVE HolesTypes'
  <2>1. /\ mpc \in Waits
        /\ UNCHANGED <<attempt, reqId, taken, flags, told, port, tries, locked, ws, note, wsOpen, wire,
                       sent, repeats>>
        /\ Holes!WaitFails \/ UNCHANGED <<mpc, pair, ours>>
    <3>1. PICK kind \in Holes!Messages : /\ Holes!Finds(kind)
             /\ \/ kind = "terminate" /\ Holes!WaitFails /\ UNCHANGED queue
                \/ /\ kind \notin {"terminate", mpc} /\ queue' = Holes!Cleared
                   /\ UNCHANGED <<mpc, pair, ours>>
      BY <1>6 DEF Holes!MessagePassed
    <3>2. mpc \in Waits
      BY <3>1, FirstIs DEF Holes!Finds, Underway
    <3> QED BY <1>6, <3>1, <3>2 DEF Holes!MessagePassed
  <2>2. CASE UNCHANGED <<mpc, pair, ours>>
    BY <2>1, <2>2 DEF HolesTypes, IdsTaken, Ids1, Ids2
  <2>3. CASE Holes!WaitFails
    <3>1. mpc' \in {"failed", "stopWs"} /\ pair' \in BOOLEAN /\ ours' \in BOOLEAN
      BY <2>1, <2>3 DEF Holes!WaitFails, HolesTypes
    <3> QED BY <1>0, <2>1, <3>1 DEF HolesTypes, IdsTaken, Ids1, Ids2, MainPlaces, Waits
  <2> QED BY <2>1, <2>2, <2>3
<1>7. ASSUME Holes!TakeOffer PROVE HolesTypes'
  <2>1. taken' = Holes!Found[2] /\ Holes!First # 0 /\ Holes!Found[1] = "offer"
    BY <1>7 DEF Holes!TakeOffer, Holes!Takes, Holes!Finds
  <2>2. taken' \in 0 .. 2
    BY <2>1, FirstIs DEF Underway, OfferOf
  <2>3. /\ mpc = "offer" /\ mpc' = "ackOffer"
        /\ flags' \subseteq flags \cup {"ctrlOffer", "dataOffer"}
        /\ UNCHANGED <<attempt, reqId, ours, pair, told, port, tries, locked, ws, note, wsOpen, wire,
                       sent, repeats>>
    BY <1>7 DEF Holes!TakeOffer, Holes!Takes
  <2> QED BY <1>0, <2>2, <2>3 DEF HolesTypes, IdsTaken, Ids1, Ids2, MainPlaces, Waits
<1>8. ASSUME Holes!AckOffer PROVE HolesTypes'
  <2>1. /\ mpc = "ackOffer" /\ mpc' \in {"failed", "send"} /\ pair' \in BOOLEAN /\ ours' \in BOOLEAN
        /\ attempt' = 1
        /\ UNCHANGED <<reqId, taken, flags, queue, port, tries, locked, ws, note, wsOpen, wire, sent,
                       repeats>>
    BY <1>8 DEF HolesTypes, Holes!AckOffer, Holes!Ack
  <2> QED BY <1>0, <2>1 DEF HolesTypes, IdsTaken, Ids1, Ids2, MainPlaces, Waits
<1>9. ASSUME Holes!SendOffer PROVE HolesTypes'
  <2>1. /\ mpc = "send" /\ mpc' \in {"result", "crashed"} /\ reqId' = reqId + 1
        /\ UNCHANGED <<attempt, ours, pair, taken, flags, queue, port, tries, locked, ws, note, wsOpen,
                       wire, sent, repeats>>
    BY <1>9 DEF Holes!SendOffer
  <2> QED BY <1>0, <2>1 DEF HolesTypes, IdsTaken, Ids1, Ids2, MainPlaces, Waits
<1>10. ASSUME Holes!TakeResult \/ Holes!TakeAccept PROVE HolesTypes'
  <2>1. /\ \/ mpc = "result" /\ mpc' = "check"
           \/ mpc = "accept" /\ mpc' = "ackAccept"
        /\ UNCHANGED <<attempt, reqId, ours, pair, taken, flags, told, port, tries, locked, ws, note,
                       wsOpen, wire, sent, repeats>>
    BY <1>10 DEF Holes!TakeResult, Holes!TakeAccept, Holes!Takes
  <2> QED BY <1>0, <2>1 DEF HolesTypes, IdsTaken, Ids1, Ids2, MainPlaces, Waits
<1>11. ASSUME Holes!Check PROVE HolesTypes'
  <2>1. /\ UNCHANGED <<port, attempt, reqId, taken, tries, flags, locked, ws, wsOpen, repeats>>
        /\ mpc = "check" /\ pair' = FALSE /\ ours' \in {FALSE, ours}
        /\ \/ mpc' \in {"failed", "sendAccept"}
           \/ mpc' = "retry" /\ port = 2 /\ attempt < Attempts
    BY <1>11 DEF Holes!Check
  <2>2. pair' \in BOOLEAN /\ ours' \in BOOLEAN
    BY <2>1 DEF HolesTypes
  <2> QED BY <1>0, <2>1, <2>2 DEF HolesTypes, IdsTaken, Ids1, Ids2, MainPlaces, Waits
<1>12. ASSUME Holes!Retry PROVE HolesTypes'
  <2>1. /\ mpc = "retry" /\ mpc' \in {"failed", "send"} /\ reqId' \in {reqId, reqId + 1}
        /\ pair' \in BOOLEAN /\ ours' \in BOOLEAN /\ attempt' = attempt + 1
        /\ UNCHANGED <<taken, flags, queue, told, port, tries, locked, ws, note, wsOpen, wire, sent,
                       repeats>>
    BY <1>12 DEF HolesTypes, Holes!Retry
  <2> QED BY <1>0, <2>1 DEF HolesTypes, IdsTaken, Ids1, Ids2, MainPlaces, Waits
<1>13. ASSUME Holes!SendAccept PROVE HolesTypes'
  <2>1. /\ mpc = "sendAccept" /\ \/ mpc' = "failed" /\ reqId' = reqId
                                 \/ mpc' = "accept" /\ reqId' = reqId + 1
        /\ pair' \in BOOLEAN /\ ours' \in BOOLEAN
        /\ UNCHANGED <<attempt, taken, flags, queue, port, tries, locked, ws, note, wsOpen, wire, sent,
                       repeats>>
    BY <1>13 DEF HolesTypes, Holes!SendAccept
  <2> QED BY <1>0, <2>1 DEF HolesTypes, IdsTaken, Ids1, Ids2, MainPlaces, Waits
<1>14. ASSUME Holes!AckAccept \/ Holes!Established PROVE HolesTypes'
  <2>1. /\ \/ mpc = "ackAccept" /\ mpc' \in {"failed", "established"}
           \/ mpc = "established" /\ mpc' \in {"failed", IF port = 1 THEN "between" ELSE "streaming"}
        /\ pair' \in BOOLEAN /\ ours' \in BOOLEAN /\ flags' \subseteq flags \cup {"ctrl", "data"}
        /\ UNCHANGED <<attempt, reqId, taken, queue, port, tries, locked, ws, note, wsOpen, wire, sent,
                       repeats>>
    BY <1>14 DEF HolesTypes, Holes!AckAccept, Holes!Established, Holes!Ack
  <2> QED BY <1>0, <2>1 DEF HolesTypes, IdsTaken, Ids1, Ids2, MainPlaces, Waits
<1>15. ASSUME Holes!Fini \/ Holes!Deleted \/ Holes!StopWs \/ Holes!JoinWs \/ Holes!Failed
       PROVE  HolesTypes'
  <2>1. /\ mpc' \in {"deleting", "freed", "stopWs", "joinWs", "fini", "left"} /\ flags' \subseteq flags \cup {"deleted"}
        /\ UNCHANGED <<port, attempt, reqId, ours, pair, taken, tries, locked, ws, note, wsOpen, wire,
                       sent, repeats>>
    BY <1>15 DEF Holes!Fini, Holes!Deleted, Holes!StopWs, Holes!JoinWs, Holes!Failed
  <2> QED BY <1>0, <2>1 DEF HolesTypes, IdsTaken, Ids1, Ids2, MainPlaces, Waits
<1>16. ASSUME Holes!Again PROVE HolesTypes'
  <2>1. tries' \in 1 .. Tries
    BY <1>0, <1>16 DEF HolesTypes, Holes!Again
  <2>2. /\ mpc' = "create" /\ port' = 1 /\ attempt' = 0 /\ reqId' = 1
        /\ ours' = FALSE /\ pair' = FALSE /\ taken' = 0 /\ flags' = {} /\ locked' = FALSE
        /\ ws' = "off" /\ wsOpen' = FALSE /\ repeats' = 0
    BY <1>16 DEF Holes!Again
  <2>3. reqId' \in 1 .. 6 + 2 * Attempts /\ attempt' \in 0 .. Attempts /\ repeats' \in 0 .. Repeats
    BY <1>0, <2>2
  <2>4. IdsTaken'
    BY <2>2 DEF IdsTaken, Ids1, Ids2
  <2>5. (mpc = "retry" => port = 2 /\ attempt < Attempts)' /\ mpc' \in MainPlaces
        /\ (mpc \in {"send", "result", "check", "retry", "sendAccept"} => attempt >= 1)'
    BY <2>2 DEF MainPlaces, Waits
  <2>6. (ours \in BOOLEAN /\ pair \in BOOLEAN /\ locked \in BOOLEAN /\ wsOpen \in BOOLEAN)'
    BY <2>2
  <2> QED BY <2>1, <2>2, <2>3, <2>4, <2>5, <2>6 DEF HolesTypes
<1>17. ASSUME Holes!ToData PROVE HolesTypes'
  BY <1>0, <1>17 DEF HolesTypes, IdsTaken, Ids1, Ids2, MainPlaces, Waits, Holes!ToData
<1>18. ASSUME Holes!Ws \/ Holes!WsEnds \/ Holes!WsReceives \/ Holes!Sends PROVE HolesTypes'
  <2>1. /\ UNCHANGED <<mpc, port, attempt, reqId, ours, pair, taken, tries, locked>>
        /\ ws' \in {"running", "done", "ack", "enqueue", ws}
    BY <1>18 DEF Holes!Ws, Holes!WsEnds, Holes!WsReceives, Holes!Sends, Holes!WsOpen, Holes!WsAcks,
       Holes!WsEnqueues, Holes!WsUnchanged, Holes!Queued
  <2>2. wsOpen' \in {TRUE, FALSE, wsOpen} /\ flags' \subseteq flags \cup {"open"}
    BY <1>18 DEF Holes!Ws, Holes!WsEnds, Holes!WsReceives, Holes!Sends, Holes!WsOpen, Holes!WsAcks,
       Holes!WsEnqueues, Holes!WsUnchanged, Holes!Queued
  <2>3. repeats' \in 0 .. Repeats
    <3>1. repeats' = repeats \/ (repeats < Repeats /\ repeats' = repeats + 1)
      BY <1>18 DEF Holes!Ws, Holes!WsEnds, Holes!WsReceives, Holes!Sends, Holes!WsOpen, Holes!WsAcks,
         Holes!WsEnqueues, Holes!WsUnchanged, Holes!Queued
    <3> QED BY <3>1, <1>0 DEF HolesTypes
  <2>4. wsOpen' \in BOOLEAN
    BY <2>2 DEF HolesTypes
  <2> QED BY <2>1, <2>2, <2>3, <2>4 DEF HolesTypes, IdsTaken, Ids1, Ids2
<1> QED BY <1>1, <1>2, <1>3, <1>4, <1>5, <1>6, <1>7, <1>8, <1>9, <1>10, <1>11, <1>12, <1>13, <1>14,
           <1>15, <1>16, <1>17, <1>18 DEF Holes!Next, Holes!Main

(* The threads, and the sockets of the pair.                                *)
Unpaired ==
  {"create", "wsWait", "httpCreate", "joining", "offering", "retry", "sendAccept", "accept",
   "ackAccept", "established", "between"}
LEMMA HolesThreadsStep ==
  HolesTypes /\ HolesThreads /\ Underway /\ Holes!Next => HolesThreads'
<1> SUFFICES ASSUME HolesTypes, HolesThreads, Underway, Holes!Next PROVE HolesThreads' OBVIOUS
<1> USE DEF Holes!main, Holes!wst, Holes!psn, Holes!Ctrl, Holes!Data, Holes!PunchUnchanged, Holes!MainOnly,
            Holes!GoesTo, Holes!Fails, Holes!PunchFails
<1>0. pair \in BOOLEAN /\ wsOpen \in BOOLEAN /\ (mpc \in Unpaired => ~pair)
  BY DEF HolesTypes, HolesThreads, Unpaired
<1>1. ASSUME Holes!Create PROVE HolesThreads'
  <2>1. /\ mpc = "create" /\ UNCHANGED <<flags, wsOpen, pair>>
        /\ \/ mpc' = "failed" /\ ws' = ws
           \/ mpc' = "wsWait" /\ ws' = "connecting"
    BY <1>1 DEF Holes!Create
  <2>2. "open" \notin flags /\ ws = "off" /\ ~pair
    BY <2>1 DEF HolesThreads
  <2> QED BY <2>1, <2>2 DEF HolesThreads
<1>2. ASSUME UNCHANGED <<ws, wsOpen>>, mpc' \notin {"create", "freed", "wsWait"},
             mpc \notin {"create", "wsWait"}, mpc' \in Unpaired => ~pair'
      PROVE  HolesThreads'
  BY <1>2 DEF HolesThreads, Unpaired
<1>3. ASSUME Holes!WsWaited PROVE HolesThreads'
  <2>1. mpc = "wsWait" /\ mpc' = "httpCreate" /\ "open" \in flags /\ UNCHANGED <<ws, wsOpen, flags, pair>>
    BY <1>3 DEF Holes!WsWaited
  <2> QED BY <2>1 DEF HolesThreads
<1>4. ASSUME Holes!HttpCreate \/ Holes!HttpStart PROVE HolesThreads'
  <2>1. /\ UNCHANGED <<ws, wsOpen, pair>> /\ mpc' \in {"failed", "joining", "starting"}
        /\ mpc \in {"httpCreate", "start"} /\ (mpc' = "joining" => mpc = "httpCreate")
    BY <1>4 DEF Holes!HttpCreate, Holes!HttpStart, Holes!Request
  <2> QED BY <2>1, <1>0, <1>2 DEF Unpaired
<1>5. ASSUME Holes!TimedOut \/ Holes!MessagePassed PROVE HolesThreads'
  <2>1. mpc \in Waits /\ UNCHANGED <<ws, wsOpen>>
    <3>1. CASE Holes!TimedOut
      BY <3>1, WaitsAre DEF Holes!TimedOut
    <3>2. CASE Holes!MessagePassed
      <4>1. \E kind \in Holes!Messages : Holes!Finds(kind)
        BY <3>2 DEF Holes!MessagePassed
      <4>2. mpc \in Waits
        BY <4>1, FirstIs DEF Holes!Finds, Underway
      <4> QED BY <3>2, <4>2 DEF Holes!MessagePassed
    <3> QED BY <1>5, <3>1, <3>2
  <2>2. Holes!WaitFails \/ UNCHANGED <<mpc, pair>>
    BY <1>5 DEF Holes!TimedOut, Holes!MessagePassed
  <2>3. CASE Holes!WaitFails
    <3>1. mpc' \in {"failed", "stopWs"}
      BY <2>3 DEF Holes!WaitFails
    <3> QED BY <3>1, <2>1, <1>2 DEF Waits, Unpaired
  <2>4. CASE UNCHANGED <<mpc, pair>>
    BY <2>4, <2>1, <1>0, <1>2 DEF Waits
  <2> QED BY <2>2, <2>3, <2>4
<1>6. ASSUME Holes!Joined \/ Holes!Started PROVE HolesThreads'
  <2>1. /\ UNCHANGED <<ws, wsOpen, pair>>
        /\ \/ mpc = "joining" /\ mpc' \in {"failed", "offering", "joining"}
           \/ mpc = "starting" /\ mpc' \in {"failed", "precheck", "starting"}
    BY <1>6 DEF Holes!Joined, Holes!Started
  <2> QED BY <2>1, <1>0, <1>2 DEF Unpaired
<1>7. ASSUME Holes!CreateOffer \/ Holes!Precheck \/ Holes!TakeOffer \/ Holes!AckOffer \/ Holes!SendOffer
             \/ Holes!TakeResult
      PROVE  HolesThreads'
  <2>1. /\ UNCHANGED <<ws, wsOpen>>
        /\ mpc \in {"offering", "precheck", "offer", "ackOffer", "send", "result"}
        /\ mpc' \in {"precheck", "start", "failed", "offer", "ackOffer", "send", "result", "crashed", "check"}
    BY <1>7 DEF Holes!CreateOffer, Holes!Precheck, Holes!TakeOffer, Holes!AckOffer, Holes!Ack,
       Holes!SendOffer, Holes!TakeResult, Holes!Takes
  <2> QED BY <2>1, <1>2 DEF Unpaired
<1>8. ASSUME Holes!Check PROVE HolesThreads'
  <2>1. UNCHANGED <<ws, wsOpen>> /\ mpc = "check" /\ pair' = FALSE
        /\ mpc' \in {"sendAccept", "retry", "failed"}
    BY <1>8 DEF Holes!Check
  <2> QED BY <2>1, <1>2
<1>9. ASSUME Holes!Retry PROVE HolesThreads'
  <2>1. UNCHANGED <<ws, wsOpen>> /\ mpc = "retry" /\ mpc' \in {"send", "failed"}
    BY <1>9 DEF Holes!Retry
  <2> QED BY <2>1, <1>2 DEF Unpaired
<1>10. ASSUME Holes!SendAccept \/ Holes!TakeAccept \/ Holes!AckAccept \/ Holes!Established
       PROVE  HolesThreads'
  <2>1. /\ UNCHANGED <<ws, wsOpen>> /\ mpc \in {"sendAccept", "accept", "ackAccept", "established"}
        /\ mpc' \in {"failed", "accept", "ackAccept", "established", "between", "streaming"}
        /\ mpc' = "failed" \/ UNCHANGED pair
    BY <1>10 DEF Holes!SendAccept, Holes!TakeAccept, Holes!Takes, Holes!AckAccept, Holes!Ack,
       Holes!Established
  <2> QED BY <2>1, <1>0, <1>2 DEF Unpaired
<1>11. ASSUME Holes!Fini PROVE HolesThreads'
  <2>1. /\ UNCHANGED <<ws, wsOpen, flags, pair>> /\ mpc = "fini"
        /\ IF wsOpen THEN mpc' = "deleting" ELSE mpc' = "freed"
    BY <1>11 DEF Holes!Fini
  <2>2. ws \notin {"connecting"} /\ (~wsOpen => ws \notin {"running", "ack", "enqueue"})
    BY <2>1 DEF HolesThreads
  <2>3. ~wsOpen => ws \in {"off", "done"}
    BY <2>2 DEF HolesTypes
  <2> QED BY <2>1, <2>2, <2>3, <1>0 DEF HolesThreads
<1>12. ASSUME Holes!Deleted \/ Holes!StopWs \/ Holes!Failed PROVE HolesThreads'
  <2>1. /\ UNCHANGED <<ws, wsOpen>> /\ mpc \in {"deleting", "stopWs", "failed"}
        /\ mpc' \in {"stopWs", "joinWs", "fini", "left"}
    BY <1>12 DEF Holes!Deleted, Holes!StopWs, Holes!Failed
  <2> QED BY <2>1, <1>2 DEF Unpaired
<1>13. ASSUME Holes!JoinWs PROVE HolesThreads'
  <2>1. UNCHANGED <<ws, wsOpen, flags, pair>> /\ mpc = "joinWs" /\ ws = "done" /\ mpc' = "freed"
    BY <1>13 DEF Holes!JoinWs
  <2> QED BY <2>1 DEF HolesThreads
<1>14. ASSUME Holes!Again PROVE HolesThreads'
  <2>1. mpc' = "create" /\ ws' = "off" /\ pair' = FALSE
    BY <1>14 DEF Holes!Again
  <2>2. flags' = {}
    BY <1>14 DEF Holes!Again
  <2> QED BY <2>1, <2>2 DEF HolesThreads
<1>15. ASSUME Holes!ToData PROVE HolesThreads'
  <2>1. /\ UNCHANGED <<ws, wsOpen, pair>>
        /\ \/ mpc = "between" /\ mpc' = "offering"
           \/ mpc \in {"between", "streaming"} /\ mpc' = "fini"
    BY <1>15 DEF Holes!ToData
  <2> QED BY <2>1, <1>0, <1>2 DEF Unpaired
\* The websocket thread.
<1>16. ASSUME Holes!WsOpen PROVE HolesThreads'
  <2>1. /\ UNCHANGED <<mpc, pair>> /\ ws = "connecting"
        /\ \/ ws' = "done" /\ UNCHANGED wsOpen
           \/ ws' = "running" /\ wsOpen' = TRUE
    BY <1>16 DEF Holes!WsOpen, Holes!WsUnchanged
  <2>2. mpc = "wsWait" /\ ~pair /\ "open" \notin flags
    BY <2>1 DEF HolesThreads
  <2> QED BY <2>1, <2>2 DEF HolesThreads
<1>17. ASSUME Holes!WsEnds \/ Holes!WsAcks \/ Holes!WsEnqueues \/ Holes!WsReceives PROVE HolesThreads'
  <2>1. /\ UNCHANGED <<mpc, pair>> /\ ws \in {"running", "ack", "enqueue"}
        /\ \/ ws' = "done"
           \/ ws' \in {"running", "ack", "enqueue"} /\ UNCHANGED wsOpen
    BY <1>17 DEF Holes!WsEnds, Holes!WsAcks, Holes!WsEnqueues, Holes!WsReceives, Holes!Queued,
       Holes!WsUnchanged
  <2>2. mpc \notin {"create", "freed"} /\ wsOpen
    BY <2>1 DEF HolesThreads
  <2> QED BY <2>1, <2>2, <1>0 DEF HolesThreads, Unpaired
<1>18. ASSUME Holes!Sends PROVE HolesThreads'
  <2>1. UNCHANGED <<mpc, pair, ws, wsOpen, flags>>
    BY <1>18 DEF Holes!Sends
  <2> QED BY <2>1 DEF HolesThreads
<1> QED BY <1>1, <1>3, <1>4, <1>5, <1>6, <1>7, <1>8, <1>9, <1>10, <1>11, <1>12, <1>13, <1>14,
           <1>15, <1>16, <1>17, <1>18 DEF Holes!Next, Holes!Main, Holes!Ws

(* A step of the main thread leaves what is under way, or the rest of it.   *)
QueueKept == /\ queue' \in {queue, Holes!Cleared} /\ UNCHANGED <<wire, sent, note>>
             /\ UNCHANGED ws \/ ws' = "connecting"
LEMMA MainQueue ==
  Holes!Main => QueueKept \/ Holes!Again
<1> USE DEF Holes!main, Holes!wst, Holes!psn, Holes!PunchUnchanged, Holes!MainOnly, QueueKept
<1>1. Holes!TimedOut \/ Holes!Create \/ Holes!WsWaited \/ Holes!HttpCreate \/ Holes!CreateOffer \/ Holes!HttpStart
      => QueueKept
  BY DEF Holes!TimedOut, Holes!Create, Holes!WsWaited, Holes!HttpCreate, Holes!HttpStart, Holes!Request,
     Holes!CreateOffer
<1>2. Holes!Joined \/ Holes!Started \/ Holes!MessagePassed \/ Holes!Deleted => QueueKept
  BY DEF Holes!Joined, Holes!Started, Holes!MessagePassed, Holes!Deleted
<1>3. Holes!Precheck \/ Holes!TakeOffer \/ Holes!AckOffer \/ Holes!SendOffer \/ Holes!TakeResult \/ Holes!Check
      => QueueKept
  BY DEF Holes!Precheck, Holes!TakeOffer, Holes!AckOffer, Holes!Ack, Holes!SendOffer, Holes!TakeResult,
     Holes!Takes, Holes!Check
<1>4. Holes!Retry \/ Holes!SendAccept \/ Holes!TakeAccept \/ Holes!AckAccept \/ Holes!Established => QueueKept
  BY DEF Holes!Retry, Holes!SendAccept, Holes!TakeAccept, Holes!Takes, Holes!AckAccept, Holes!Ack,
     Holes!Established
<1>5. Holes!Fini \/ Holes!StopWs \/ Holes!JoinWs \/ Holes!Failed => QueueKept
  BY DEF Holes!Fini, Holes!StopWs, Holes!JoinWs, Holes!Failed
<1> QED BY <1>1, <1>2, <1>3, <1>4, <1>5 DEF Holes!Main

LEMMA UnderwayStep == Underway /\ Holes!Next => Underway'
<1> SUFFICES ASSUME Underway, Holes!Next PROVE Underway' OBVIOUS
<1> USE DEF Holes!main, Holes!wst, Holes!psn, Holes!Ctrl, Holes!Data
<1>1. CASE QueueKept
  <2>1. queue' \in Seq(sent')
    BY <1>1, ClearedIs DEF Underway, QueueKept
  <2> QED BY <1>1, <2>1 DEF Underway, QueueKept
<1>2. CASE Holes!Again
  <2>1. queue' = <<>> /\ wire' = <<>> /\ sent' = {} /\ ws' = "off"
    BY <1>2 DEF Holes!Again
  <2>2. queue' \in Seq(sent') /\ wire' \in Seq(sent')
    BY <2>1, EmptySeq
  <2> QED BY <2>1, <2>2 DEF Underway
<1>3. CASE Holes!ToData \/ Holes!WsOpen \/ Holes!WsEnds
  BY <1>3 DEF Underway, Holes!ToData, Holes!WsOpen, Holes!WsEnds, Holes!WsUnchanged
<1>4. CASE Holes!WsAcks
  BY <1>4 DEF Underway, Holes!WsAcks, Holes!WsUnchanged
<1>5. CASE Holes!WsEnqueues
  <2>1. queue' = Append(queue, note) /\ UNCHANGED <<wire, sent>> /\ ws' \notin {"ack", "enqueue"}
        /\ note \in sent
    BY <1>5 DEF Underway, Holes!WsEnqueues, Holes!WsUnchanged, Holes!Queued
  <2>2. queue' \in Seq(sent')
    BY <2>1, AppendProperties DEF Underway
  <2> QED BY <2>1, <2>2 DEF Underway
<1>6. CASE Holes!WsReceives
  <2>1. /\ wire # <<>> /\ note' = Head(wire) /\ wire' = Tail(wire) /\ UNCHANGED sent
        /\ \/ queue' = queue /\ note'[1] = "offer"
           \/ queue' = Append(queue, note') /\ ws' \notin {"ack", "enqueue"}
    BY <1>6 DEF Holes!WsReceives, Holes!WsUnchanged, Holes!Queued
  <2>2. note' \in sent /\ wire' \in Seq(sent)
    BY <2>1, HeadTailProperties DEF Underway
  <2>3. queue' \in Seq(sent)
    <3>1. PICK n \in sent : n = note'
      BY <2>2
    <3>2. Append(queue, n) \in Seq(sent) /\ queue \in Seq(sent)
      BY AppendProperties DEF Underway
    <3> QED BY <2>1, <3>1, <3>2
  <2> QED BY <2>1, <2>2, <2>3 DEF Underway
<1>7. CASE Holes!Sends
  <2>1. PICK m \in Holes!Sendable : wire' = Append(wire, m) /\ sent' = sent \cup {m}
    BY <1>7 DEF Holes!Sends
  <2>2. UNCHANGED <<queue, ws, note>>
    BY <1>7 DEF Holes!Sends
  <2>3. queue' \in Seq(sent') /\ wire \in Seq(sent')
    <3>1. \A T : sent \subseteq T => Seq(sent) \subseteq Seq(T)
      OBVIOUS
    <3> QED BY <2>1, <2>2, <3>1 DEF Underway
  <2>4. wire' \in Seq(sent')
    BY <2>1, <2>3, AppendProperties
  <2>5. /\ m[1] = "offer" => m \in {OfferOf(1), OfferOf(2)}
        /\ m[1] = "accept" => m \in {AcceptOf(1), AcceptOf(2)}
    BY DEF Holes!Sendable, OfferOf, AcceptOf
  <2>6. /\ \A x \in sent' : /\ x[1] = "offer" => x \in {OfferOf(1), OfferOf(2)}
                            /\ x[1] = "accept" => x \in {AcceptOf(1), AcceptOf(2)}
    BY <2>1, <2>5 DEF Underway
  <2> QED BY <2>1, <2>2, <2>3, <2>4, <2>6 DEF Underway
<1> QED BY <1>1, <1>2, <1>3, <1>4, <1>5, <1>6, <1>7, MainQueue DEF Holes!Next, Holes!Ws

(* The places at which what the console and we said matters.                *)
Settled ==
  {"ackOffer", "send", "result", "check", "retry", "sendAccept", "accept", "ackAccept", "established",
   "between"}
(* A step that says nothing of offers and accepts.                          *)
QuietStep ==
  /\ UNCHANGED <<port, sent, taken>> /\ flags \subseteq flags' /\ told \subseteq told'
  /\ {"ctrl", "data"} \cap flags' \subseteq flags
  /\ \A m \in told' \ told : m[1] \notin {"offer", "accept"}
  /\ mpc' \in Settled => mpc' = mpc
  /\ Unoffered' => Unoffered

LEMMA QuietKeeps == Underway /\ Caused /\ QuietStep => Caused'
<1> SUFFICES ASSUME Underway, Caused, QuietStep PROVE Caused' OBVIOUS
<1> USE DEF QuietStep, Caused, Settled
<1>1. Unoffered' => /\ \A m \in told' : m[1] \notin {"offer", "accept"}
                    /\ {AcceptOf(1), OfferOf(2)} \cap sent' = {}
  OBVIOUS
<1>2. port' = 1 => (\A m \in told' : m[1] = "offer" => m[2] = 1) /\ AcceptOf(2) \notin sent'
  OBVIOUS
<1>3. (\E m \in told' : m[1] = "offer" /\ m[2] = 1) => OfferOf(1) \in sent' /\ AckOf(1) \in told'
  OBVIOUS
<1>4. Holes!BothAccepted'
  BY DEF Holes!BothAccepted, Holes!Ctrl, Holes!Data
<1>5. mpc' \in {"ackOffer", "send", "result", "check", "retry", "sendAccept"}
       => taken' = port' /\ OfferOf(port') \in sent'
  OBVIOUS
<1>6. /\ mpc' \in {"send", "result", "check", "retry", "sendAccept"} => AckOf(port') \in told'
      /\ mpc' \in {"accept", "ackAccept", "established"} => AcceptOf(port') \in told'
      /\ mpc' \in {"ackAccept", "established"} => AcceptOf(port') \in sent'
      /\ port' = 2 \/ mpc' = "between" => "ctrl" \in flags'
  OBVIOUS
<1> QED BY <1>1, <1>2, <1>3, <1>4, <1>5, <1>6

(* The OFFER and the ACCEPT that are taken are those of the hole.           *)
LEMMA FoundOffer ==
  HolesTypes /\ Underway /\ Caused /\ HolesLater /\ mpc = "offer" /\ Holes!Finds("offer")
    => Holes!Found = OfferOf(port) /\ OfferOf(port) \in sent
<1> SUFFICES ASSUME HolesTypes, Underway, Caused, HolesLater, mpc = "offer", Holes!Finds("offer")
             PROVE  Holes!Found = OfferOf(port) /\ OfferOf(port) \in sent
  OBVIOUS
<1>1. PICK k \in 1 .. Len(queue) : /\ Holes!Found = queue[k] /\ queue[k] \in sent
  BY FirstIs DEF Holes!Finds, Underway
<1>2. k \in DOMAIN queue
  BY <1>1, LenProperties DEF Underway
<1>3. Holes!Found \in {OfferOf(1), OfferOf(2)}
  BY <1>1 DEF Holes!Finds, Underway
<1>4. CASE port = 1
  BY <1>1, <1>3, <1>4 DEF Caused, Unoffered
<1>5. CASE port = 2
  BY <1>1, <1>2, <1>3, <1>5 DEF HolesLater, Past, Over1, NotIn
<1> QED BY <1>4, <1>5 DEF HolesTypes
LEMMA FoundAccept ==
  HolesTypes /\ Underway /\ Caused /\ HolesLater /\ mpc = "accept" /\ Holes!Finds("accept")
    => Holes!Found = AcceptOf(port) /\ AcceptOf(port) \in sent
<1> SUFFICES ASSUME HolesTypes, Underway, Caused, HolesLater, mpc = "accept", Holes!Finds("accept")
             PROVE  Holes!Found = AcceptOf(port) /\ AcceptOf(port) \in sent
  OBVIOUS
<1>1. PICK k \in 1 .. Len(queue) : /\ Holes!Found = queue[k] /\ queue[k] \in sent
  BY FirstIs DEF Holes!Finds, Underway
<1>2. k \in DOMAIN queue
  BY <1>1, LenProperties DEF Underway
<1>3. Holes!Found \in {AcceptOf(1), AcceptOf(2)}
  BY <1>1 DEF Holes!Finds, Underway
<1>4. CASE port = 1
  BY <1>1, <1>3, <1>4 DEF Caused
<1>5. CASE port = 2
  BY <1>1, <1>2, <1>3, <1>5 DEF HolesLater, Gone, NotIn
<1> QED BY <1>4, <1>5 DEF HolesTypes

(* A step at one of those places.                                           *)
LEMMA SettledKeeps ==
  ASSUME Underway, Caused, UNCHANGED <<port, sent, taken>>, told \subseteq told',
         ~Unoffered', UNCHANGED flags,
         \A m \in told' \ told : m[1] = "offer" => m[2] = port /\ OfferOf(port) \in sent /\ AckOf(port) \in told',
         mpc' \in {"ackOffer", "send", "result", "check", "retry", "sendAccept"}
           => taken = port /\ OfferOf(port) \in sent,
         mpc' \in {"send", "result", "check", "retry", "sendAccept"} => AckOf(port) \in told',
         mpc' \in {"accept", "ackAccept", "established"} => AcceptOf(port) \in told',
         mpc' \in {"ackAccept", "established"} => AcceptOf(port) \in sent,
         mpc' = "between" => "ctrl" \in flags
  PROVE  Caused'
<1>1. Holes!BothAccepted'
  BY DEF Caused, Holes!BothAccepted, Holes!Ctrl, Holes!Data
<1>2. port' = 1 => (\A m \in told' : m[1] = "offer" => m[2] = 1) /\ AcceptOf(2) \notin sent'
  BY DEF Caused
<1>3. (\E m \in told' : m[1] = "offer" /\ m[2] = 1) => OfferOf(1) \in sent' /\ AckOf(1) \in told'
  BY DEF Caused
<1>4. AcceptOf(1) \in sent' => OfferOf(1) \in sent' /\ AckOf(1) \in told'
  BY DEF Caused
<1>5. port' = 2 \/ mpc' = "between" => "ctrl" \in flags'
  BY DEF Caused
<1> QED BY <1>1, <1>2, <1>3, <1>4, <1>5 DEF Caused

LEMMA CausedStep ==
  HolesTypes /\ Underway /\ Caused /\ HolesLater /\ Holes!Next => Caused'
<1> SUFFICES ASSUME HolesTypes, Underway, Caused, HolesLater, Holes!Next PROVE Caused' OBVIOUS
<1> USE DEF Holes!main, Holes!wst, Holes!psn, Holes!Ctrl, Holes!Data, Holes!PunchUnchanged, Holes!MainOnly,
            Holes!GoesTo, Holes!Fails, Holes!PunchFails
<1>0. port \in {1, 2}
  BY DEF HolesTypes
\* A failure, or a place that matters not, is as good as a pause.
<1>1. ASSUME UNCHANGED <<port, sent, taken, told>>, flags \subseteq flags',
             {"ctrl", "data"} \cap flags' \subseteq flags,
             mpc' = mpc \/ (mpc' \notin Settled /\ (Unoffered' => Unoffered))
      PROVE  Caused'
  <2>1. QuietStep
    BY <1>1 DEF QuietStep, Unoffered
  <2> QED BY <2>1, QuietKeeps
<1>2. ASSUME Holes!WaitFails \/ UNCHANGED mpc, UNCHANGED <<port, sent, taken, told, flags>> PROVE Caused'
  <2>1. Holes!WaitFails => mpc' \in {"failed", "stopWs"}
    BY DEF Holes!WaitFails
  <2> QED BY <2>1, <1>2, <1>1 DEF Settled, Unoffered
<1>3. ASSUME Holes!Create \/ Holes!WsWaited \/ Holes!CreateOffer \/ Holes!Precheck \/ Holes!StopWs
             \/ Holes!JoinWs \/ Holes!Failed
      PROVE  Caused'
  <2>1. /\ UNCHANGED <<port, sent, taken, told, flags>>
        /\ \/ /\ mpc \in {"create", "wsWait", "offering", "precheck"}
              /\ mpc' \in {"failed", "wsWait", "httpCreate", "precheck", "start", "offer"}
           \/ mpc' \in {"joinWs", "freed", "fini", "left"}
    BY <1>3 DEF Holes!Create, Holes!WsWaited, Holes!CreateOffer, Holes!Precheck, Holes!StopWs, Holes!JoinWs,
       Holes!Failed
  <2> QED BY <2>1, <1>1 DEF Settled, Unoffered
<1>4. ASSUME Holes!TimedOut \/ Holes!MessagePassed PROVE Caused'
  <2>1. UNCHANGED <<port, sent, taken, told, flags>>
    BY <1>4 DEF Holes!TimedOut, Holes!MessagePassed
  <2>2. Holes!WaitFails \/ UNCHANGED mpc
    BY <1>4 DEF Holes!TimedOut, Holes!MessagePassed
  <2> QED BY <2>1, <2>2, <1>2
<1>5. ASSUME Holes!Joined \/ Holes!Started \/ Holes!Deleted PROVE Caused'
  <2>1. /\ UNCHANGED <<port, sent, taken, told>> /\ flags \subseteq flags'
        /\ flags' \subseteq flags \cup {"created", "member", "console", "custom", "deleted"}
        /\ \/ mpc \in {"joining", "starting"} /\ mpc' \in {"failed", "offering", "joining", "precheck", "starting"}
           \/ mpc' = "stopWs"
    BY <1>5 DEF Holes!Joined, Holes!Started, Holes!Deleted
  <2>2. {"ctrl", "data"} \cap flags' \subseteq flags
    BY <2>1
  <2> QED BY <2>1, <2>2, <1>1 DEF Settled, Unoffered
<1>6. ASSUME Holes!HttpCreate \/ Holes!HttpStart \/ Holes!Fini PROVE Caused'
  <2>1. /\ UNCHANGED <<port, sent, taken, flags>>
        /\ told' \in {told, told \cup {<<"create", 0, 0>>}, told \cup {<<"start", 0, 0>>},
                      told \cup {<<"delete", 0, 0>>}}
        /\ \/ mpc \in {"httpCreate", "start"} /\ mpc' \in {"failed", "joining", "starting"}
           \/ mpc' \in {"deleting", "freed"}
    BY <1>6 DEF Holes!HttpCreate, Holes!HttpStart, Holes!Request, Holes!Fini
  <2>2. told \subseteq told' /\ \A m \in told' \ told : m[1] \notin {"offer", "accept"}
    BY <2>1
  <2>3. QuietStep
    BY <2>1, <2>2 DEF QuietStep, Settled, Unoffered
  <2> QED BY <2>3, QuietKeeps
<1>7. ASSUME Holes!TakeOffer PROVE Caused'
  <2>1. /\ mpc = "offer" /\ Holes!Finds("offer") /\ taken' = Holes!Found[2] /\ mpc' = "ackOffer"
        /\ flags' = flags \cup {IF port = 1 THEN "ctrlOffer" ELSE "dataOffer"}
        /\ UNCHANGED <<port, told, sent>>
    BY <1>7 DEF Holes!TakeOffer, Holes!Takes
  <2>2. taken' = port /\ OfferOf(port) \in sent
    BY <2>1, FoundOffer DEF OfferOf
  <2>3. Holes!BothAccepted'
    BY <2>1 DEF Caused, Holes!BothAccepted
  <2>4. Unoffered' => Unoffered
    BY <2>1 DEF Unoffered
  <2>5. "ctrl" \in flags => "ctrl" \in flags'
    BY <2>1
  <2> QED BY <2>1, <2>2, <2>3, <2>4, <2>5 DEF Caused
<1>8. ASSUME Holes!AckOffer PROVE Caused'
  <2>1. /\ mpc = "ackOffer" /\ UNCHANGED <<port, sent, taken, flags>>
        /\ \/ mpc' = "failed" /\ UNCHANGED told
           \/ mpc' = "send" /\ told' = told \cup {AckOf(taken)}
    BY <1>8 DEF Holes!AckOffer, Holes!Ack, AckOf
  <2>2. taken = port /\ OfferOf(port) \in sent
    BY <2>1 DEF Caused
  <2>3. CASE mpc' = "failed" /\ UNCHANGED told
    BY <2>1, <2>3, <1>1 DEF Settled, Unoffered
  <2>4. CASE mpc' = "send" /\ told' = told \cup {AckOf(taken)}
    <3>1. Unoffered' => Unoffered
      BY <2>1, <2>4 DEF Unoffered
    <3>2. \A m \in told' \ told : m[1] \notin {"offer", "accept"}
      BY <2>4 DEF AckOf
    <3>3. Holes!BothAccepted'
      BY <2>1, <2>4 DEF Caused, Holes!BothAccepted
    <3>4. Unoffered' => /\ \A m \in told' : m[1] \notin {"offer", "accept"}
                        /\ {AcceptOf(1), OfferOf(2)} \cap sent' = {}
      BY <2>1, <3>1, <3>2 DEF Caused
    <3>5. port' = 1 => (\A m \in told' : m[1] = "offer" => m[2] = 1) /\ AcceptOf(2) \notin sent'
      BY <2>1, <3>2 DEF Caused
    <3>6. (\E m \in told' : m[1] = "offer" /\ m[2] = 1) => OfferOf(1) \in sent' /\ AckOf(1) \in told'
      BY <2>1, <2>4, <3>2 DEF Caused
    <3>7. AcceptOf(1) \in sent' => OfferOf(1) \in sent' /\ AckOf(1) \in told'
      BY <2>1, <2>4 DEF Caused
    <3>8. port' = 2 \/ mpc' = "between" => "ctrl" \in flags'
      BY <2>1, <2>4 DEF Caused
    <3> QED BY <2>1, <2>2, <2>4, <3>3, <3>4, <3>5, <3>6, <3>7, <3>8 DEF Caused
  <2> QED BY <2>1, <2>3, <2>4
<1>9. ASSUME Holes!SendOffer PROVE Caused'
  <2>1. /\ mpc = "send" /\ mpc' \in {"result", "crashed"} /\ UNCHANGED <<port, sent, taken, flags>>
        /\ told' \in {told, told \cup {<<"offer", port, reqId>>}}
    BY <1>9 DEF Holes!SendOffer
  <2>2. taken = port /\ OfferOf(port) \in sent /\ AckOf(port) \in told
    BY <2>1 DEF Caused
  <2>3. told \subseteq told' /\ \A m \in told' \ told : m = <<"offer", port, reqId>>
    BY <2>1
  <2>4. ~Unoffered'
    BY <2>1 DEF Unoffered
  <2>5. \A m \in told' \ told : m[1] = "offer" => m[2] = port /\ OfferOf(port) \in sent /\ AckOf(port) \in told'
    BY <2>2, <2>3
  <2> QED BY <2>1, <2>2, <2>3, <2>4, <2>5, SettledKeeps
<1>10. ASSUME Holes!TakeResult \/ Holes!Check \/ Holes!Retry PROVE Caused'
  <2>1. /\ UNCHANGED <<port, sent, taken, flags, told>>
        /\ mpc \in {"result", "check", "retry"} /\ mpc' \in {"check", "sendAccept", "retry", "failed", "send"}
        /\ mpc' = "send" => mpc = "retry"
    BY <1>10 DEF Holes!TakeResult, Holes!Takes, Holes!Check, Holes!Retry
  <2>2. taken = port /\ OfferOf(port) \in sent /\ AckOf(port) \in told
    BY <2>1 DEF Caused
  <2>3. CASE mpc' # "send"
    <3>1. ~Unoffered'
      BY <2>1, <2>3 DEF Unoffered
    <3> QED BY <2>1, <2>2, <2>3, <3>1, SettledKeeps
  <2>4. CASE mpc' = "send"
    <3>1. port = 2
      BY <2>1, <2>4 DEF HolesTypes
    <3>2. ~Unoffered'
      BY <2>1, <3>1 DEF Unoffered
    <3> QED BY <2>1, <2>2, <2>4, <3>2, SettledKeeps
  <2> QED BY <2>3, <2>4
<1>11. ASSUME Holes!SendAccept PROVE Caused'
  <2>1. /\ mpc = "sendAccept" /\ UNCHANGED <<port, sent, taken, flags>>
        /\ \/ mpc' = "failed" /\ UNCHANGED told
           \/ mpc' = "accept" /\ told' = told \cup {AcceptOf(port)}
    BY <1>11 DEF Holes!SendAccept, AcceptOf
  <2>2. told \subseteq told' /\ ~Unoffered' /\ \A m \in told' \ told : m[1] # "offer"
    BY <2>1 DEF AcceptOf, Unoffered
  <2> QED BY <2>1, <2>2, SettledKeeps
<1>12. ASSUME Holes!TakeAccept PROVE Caused'
  <2>1. /\ mpc = "accept" /\ Holes!Finds("accept") /\ mpc' = "ackAccept"
        /\ UNCHANGED <<port, sent, taken, flags, told>>
    BY <1>12 DEF Holes!TakeAccept, Holes!Takes
  <2>2. AcceptOf(port) \in sent /\ AcceptOf(port) \in told
    BY <2>1, FoundAccept DEF Caused
  <2>3. ~Unoffered'
    BY <2>1 DEF Unoffered
  <2> QED BY <2>1, <2>2, <2>3, SettledKeeps
<1>13. ASSUME Holes!AckAccept PROVE Caused'
  <2>1. /\ mpc = "ackAccept" /\ UNCHANGED <<port, sent, taken, flags>> /\ mpc' \in {"failed", "established"}
        /\ told' \in {told, told \cup {<<"ackAccept", port, 0>>}}
    BY <1>13 DEF Holes!AckAccept, Holes!Ack
  <2>2. AcceptOf(port) \in sent /\ AcceptOf(port) \in told
    BY <2>1 DEF Caused
  <2>3. ~Unoffered' /\ told \subseteq told' /\ \A m \in told' \ told : m[1] # "offer"
    BY <2>1 DEF Unoffered
  <2> QED BY <2>1, <2>2, <2>3, SettledKeeps
<1>14. ASSUME Holes!Established PROVE Caused'
  <2>1. /\ mpc = "established" /\ UNCHANGED <<port, sent, taken, told>>
        /\ flags' = flags \cup {IF port = 1 THEN "ctrl" ELSE "data"}
        /\ mpc' \in {"failed", IF port = 1 THEN "between" ELSE "streaming"}
    BY <1>14 DEF Holes!Established
  <2>2. AcceptOf(port) \in sent /\ AcceptOf(port) \in told /\ (port = 2 => "ctrl" \in flags)
    BY <2>1 DEF Caused
  <2>3. Holes!BothAccepted'
    BY <2>1, <2>2, <1>0 DEF Caused, Holes!BothAccepted, AcceptOf
  <2>4. ~Unoffered' /\ mpc' \notin {"ackOffer", "send", "result", "check", "retry", "sendAccept", "accept",
                                   "ackAccept", "established"}
    BY <2>1 DEF Unoffered
  <2>5. port' = 2 \/ mpc' = "between" => "ctrl" \in flags'
    BY <2>1, <2>2, <1>0
  <2> QED BY <2>1, <2>3, <2>4, <2>5 DEF Caused
<1>15. ASSUME Holes!Again PROVE Caused'
  <2>1. mpc' = "create" /\ port' = 1 /\ flags' = {} /\ told' = {} /\ sent' = {}
    BY <1>15 DEF Holes!Again
  <2>2. Holes!BothAccepted'
    BY <2>1 DEF Holes!BothAccepted
  <2> QED BY <2>1, <2>2 DEF Caused
<1>16. ASSUME Holes!ToData PROVE Caused'
  <2>1. /\ UNCHANGED <<sent, taken, told, flags>> /\ mpc \in {"between", "streaming"}
        /\ \/ mpc' = "fini" /\ UNCHANGED port
           \/ mpc = "between" /\ mpc' = "offering" /\ port' = 2
    BY <1>16 DEF Holes!ToData
  <2>2. CASE mpc' = "fini" /\ UNCHANGED port
    BY <2>1, <2>2, <1>1 DEF Settled, Unoffered
  <2>3. CASE mpc = "between" /\ mpc' = "offering" /\ port' = 2
    <3>1. "ctrl" \in flags'
      BY <2>1, <2>3 DEF Caused
    <3>2. ~Unoffered'
      BY <2>3 DEF Unoffered
    <3>3. Holes!BothAccepted'
      BY <2>1 DEF Caused, Holes!BothAccepted
    <3> QED BY <2>1, <2>3, <3>1, <3>2, <3>3 DEF Caused
  <2> QED BY <2>1, <2>2, <2>3
<1>17. ASSUME Holes!WsOpen \/ Holes!WsEnds \/ Holes!WsReceives \/ Holes!WsEnqueues PROVE Caused'
  <2>1. /\ UNCHANGED <<mpc, port, sent, taken, told>> /\ flags \subseteq flags'
        /\ flags' \subseteq flags \cup {"open"}
    BY <1>17 DEF Holes!WsOpen, Holes!WsEnds, Holes!WsReceives, Holes!WsEnqueues, Holes!WsUnchanged
  <2>2. {"ctrl", "data"} \cap flags' \subseteq flags
    BY <2>1
  <2> QED BY <2>1, <2>2, <1>1
<1>18. ASSUME Holes!WsAcks PROVE Caused'
  <2>1. UNCHANGED <<mpc, port, sent, taken, flags>> /\ told' \in {told, told \cup {<<"ack", note[2], 0>>}}
    BY <1>18 DEF Holes!WsAcks, Holes!WsUnchanged
  <2>2. QuietStep
    BY <2>1 DEF QuietStep, Unoffered
  <2> QED BY <2>2, QuietKeeps
<1>19. ASSUME Holes!Sends PROVE Caused'
  <2>0. UNCHANGED <<mpc, port, taken, told, flags>>
    BY <1>19 DEF Holes!Sends
  <2>1. PICK m \in Holes!Sendable : /\ IF Holes!Over THEN m[1] \in {"gone", "deleted"} ELSE Holes!Cause(m)
                                    /\ sent' = sent \cup {m}
    BY <1>19 DEF Holes!Sends
  <2>2. m[1] \in {"offer", "accept"} => Holes!Cause(m)
    BY <2>1
  <2>3. m[1] = "accept" => \E x \in told : x[1] = "offer" /\ x[2] = m[2]
    <3> SUFFICES ASSUME m[1] = "accept" PROVE \E x \in told : x[1] = "offer" /\ x[2] = m[2]
      OBVIOUS
    <3>0. m # <<"member", 0, 0>> /\ Holes!Cause(m)
      BY <2>2
    <3>1. \E i \in 1 .. reqId : <<"result", 0, i>> \in sent /\ <<"offer", m[2], i>> \in told
      BY <3>0 DEF Holes!Cause
    <3> QED BY <3>1
  <2>4. m = OfferOf(2) => \E x \in told \cup sent : x[1] = "accept" /\ x[2] = 1
    BY <2>2 DEF Holes!Cause, Holes!Happened, OfferOf
  <2>5. m[1] = "accept" => m \in {AcceptOf(1), AcceptOf(2)}
    BY DEF Holes!Sendable, AcceptOf
  <2>6. Unoffered => m \notin {AcceptOf(1), OfferOf(2)}
    <3>1. ASSUME Unoffered, m = AcceptOf(1) PROVE FALSE
      BY <2>3, <3>1 DEF Caused, AcceptOf
    <3>2. ASSUME Unoffered, m = OfferOf(2) PROVE FALSE
      <4>1. PICK x \in told \cup sent : x[1] = "accept" /\ x[2] = 1
        BY <2>4, <3>2
      <4>2. x \in sent /\ x \in {AcceptOf(1), AcceptOf(2)}
        BY <4>1, <3>2 DEF Caused, Underway
      <4>3. x = AcceptOf(1)
        BY <4>1, <4>2 DEF AcceptOf
      <4> QED BY <4>2, <4>3, <3>2 DEF Caused
    <3> QED BY <3>1, <3>2
  <2>7. port = 1 => m # AcceptOf(2)
    BY <2>3 DEF Caused, AcceptOf
  <2>8. m = AcceptOf(1) => OfferOf(1) \in sent /\ AckOf(1) \in told
    BY <2>3 DEF Caused, AcceptOf
  <2>9. Holes!BothAccepted'
    BY <2>0, <2>1 DEF Caused, Holes!BothAccepted
  <2>10. Unoffered' <=> Unoffered
    BY <2>0 DEF Unoffered
  <2>11. Unoffered' => /\ \A x \in told' : x[1] \notin {"offer", "accept"}
                       /\ {AcceptOf(1), OfferOf(2)} \cap sent' = {}
    BY <2>0, <2>1, <2>6, <2>10 DEF Caused
  <2>12. port' = 1 => (\A x \in told' : x[1] = "offer" => x[2] = 1) /\ AcceptOf(2) \notin sent'
    BY <2>0, <2>1, <2>7 DEF Caused
  <2>13. (\E x \in told' : x[1] = "offer" /\ x[2] = 1) => OfferOf(1) \in sent' /\ AckOf(1) \in told'
    BY <2>0, <2>1 DEF Caused
  <2>14. AcceptOf(1) \in sent' => OfferOf(1) \in sent' /\ AckOf(1) \in told'
    BY <2>0, <2>1, <2>8 DEF Caused
  <2>15. sent \subseteq sent'
    BY <2>1
  <2>16. /\ mpc' \in {"ackOffer", "send", "result", "check", "retry", "sendAccept"}
              => taken' = port' /\ OfferOf(port') \in sent'
         /\ mpc' \in {"ackAccept", "established"} => AcceptOf(port') \in sent'
    BY <2>0, <2>15 DEF Caused
  <2>17. /\ mpc' \in {"send", "result", "check", "retry", "sendAccept"} => AckOf(port') \in told'
         /\ mpc' \in {"accept", "ackAccept", "established"} => AcceptOf(port') \in told'
         /\ port' = 2 \/ mpc' = "between" => "ctrl" \in flags'
    BY <2>0 DEF Caused
  <2> QED BY <2>9, <2>11, <2>12, <2>13, <2>14, <2>16, <2>17 DEF Caused
<1> QED BY <1>3, <1>4, <1>5, <1>6, <1>7, <1>8, <1>9, <1>10, <1>11, <1>12, <1>13, <1>14, <1>15, <1>16,
           <1>17, <1>18, <1>19 DEF Holes!Next, Holes!Main, Holes!Ws


(* What order means for the rest of a sequence, and for a longer one.       *)
LEMMA OrderOfEmpty ==
  ASSUME NEW x, NEW y
  PROVE  OnceIn(<<>>, x) /\ NotIn(<<>>, x) /\ NotBehind(<<>>, x, y)
BY DEF OnceIn, NotIn, NotBehind
LEMMA OrderOfRest ==
  ASSUME NEW S, NEW s \in Seq(S), NEW k \in Nat, k <= Len(s), NEW t, DOMAIN t = 1 .. Len(s) - k,
         \A i \in DOMAIN t : t[i] = s[k + i], NEW x, NEW y
  PROVE  /\ OnceIn(s, x) => OnceIn(t, x)
         /\ NotIn(s, x) => NotIn(t, x)
         /\ NotBehind(s, x, y) => NotBehind(t, x, y)
<1>1. PICK n \in Nat : n = Len(s) /\ DOMAIN s = 1 .. n
  BY LenProperties
<1>2. \A i \in DOMAIN t : i \in Nat /\ k + i \in DOMAIN s
  BY <1>1
<1>3. NotIn(s, x) => NotIn(t, x)
  BY <1>2 DEF NotIn
<1>4. ASSUME OnceIn(s, x), NEW i \in DOMAIN t, NEW j \in DOMAIN t, t[i] = x, t[j] = x PROVE i = j
  <2>1. k + i = k + j
    BY <1>2, <1>4 DEF OnceIn
  <2> QED BY <2>1, <1>2
<1>5. ASSUME NotBehind(s, x, y), NEW i \in DOMAIN t, NEW j \in DOMAIN t, t[i] = x, i < j PROVE t[j] # y
  <2>1. k + i < k + j
    BY <1>2, <1>5
  <2> QED BY <2>1, <1>2, <1>5 DEF NotBehind
<1> QED BY <1>3, <1>4, <1>5 DEF OnceIn, NotBehind
LEMMA OrderOfTail ==
  ASSUME NEW S, NEW s \in Seq(S), s # <<>>, NEW x, NEW y
  PROVE  /\ OnceIn(s, x) => OnceIn(Tail(s), x)
         /\ NotIn(s, x) => NotIn(Tail(s), x) /\ Head(s) # x
         /\ NotBehind(s, x, y) => NotBehind(Tail(s), x, y)
         /\ OnceIn(s, x) /\ Head(s) = x => NotIn(Tail(s), x)
         /\ NotBehind(s, x, y) /\ Head(s) = x => NotIn(Tail(s), y)
<1>1. PICK n \in Nat : n = Len(s) /\ DOMAIN s = 1 .. n
  BY LenProperties
<1>2. n # 0 /\ Head(s) = s[1]
  BY <1>1, EmptySeq
<1>3. Len(Tail(s)) = n - 1 /\ DOMAIN Tail(s) = 1 .. n - 1 /\ \A i \in 1 .. n - 1 : Tail(s)[i] = s[1 + i]
  <2>1. Tail(s) \in Seq(S) /\ Len(Tail(s)) = n - 1 /\ \A i \in 1 .. n - 1 : Tail(s)[i] = s[i + 1]
    BY <1>1, HeadTailProperties
  <2>2. DOMAIN Tail(s) = 1 .. n - 1
    BY <2>1, LenProperties
  <2> QED BY <2>1, <2>2
<1> DEFINE t == Tail(s)
<1>4. /\ OnceIn(s, x) => OnceIn(t, x)
      /\ NotIn(s, x) => NotIn(t, x)
      /\ NotBehind(s, x, y) => NotBehind(t, x, y)
  <2>1. 1 <= Len(s) /\ DOMAIN t = 1 .. Len(s) - 1 /\ \A i \in DOMAIN t : t[i] = s[1 + i]
    BY <1>1, <1>2, <1>3
  <2> HIDE DEF t
  <2> QED BY <2>1, OrderOfRest
<1>5. 1 \in DOMAIN s /\ \A i \in 1 .. n - 1 : 1 + i \in DOMAIN s /\ 1 < 1 + i /\ 1 + i # 1
  BY <1>1, <1>2
<1>6. NotIn(s, x) => Head(s) # x
  BY <1>2, <1>5 DEF NotIn
<1>7. OnceIn(s, x) /\ Head(s) = x => NotIn(t, x)
  BY <1>2, <1>3, <1>5 DEF OnceIn, NotIn
<1>8. NotBehind(s, x, y) /\ Head(s) = x => NotIn(t, y)
  BY <1>2, <1>3, <1>5 DEF NotBehind, NotIn
<1> QED BY <1>4, <1>6, <1>7, <1>8
LEMMA OrderOfMore ==
  ASSUME NEW S, NEW s \in Seq(S), NEW m \in S, NEW x, NEW y
  PROVE  /\ NotIn(s, x) /\ m # x => NotIn(Append(s, m), x)
         /\ OnceIn(s, x) /\ (m # x \/ NotIn(s, x)) => OnceIn(Append(s, m), x)
         /\ NotBehind(s, x, y) /\ (m # y \/ NotIn(s, x)) => NotBehind(Append(s, m), x, y)
<1>1. PICK n \in Nat : n = Len(s) /\ DOMAIN s = 1 .. n
  BY LenProperties
<1> DEFINE t == Append(s, m)
<1>2. DOMAIN t = 1 .. n + 1 /\ t[n + 1] = m /\ \A i \in 1 .. n : t[i] = s[i]
  BY <1>1, AppendProperties
<1> HIDE DEF t
<1>3. \A i \in DOMAIN t : i = n + 1 \/ i \in DOMAIN s
  BY <1>1, <1>2
<1>4. NotIn(s, x) /\ m # x => NotIn(t, x)
  BY <1>1, <1>2, <1>3 DEF NotIn
<1>5. OnceIn(s, x) /\ (m # x \/ NotIn(s, x)) => OnceIn(t, x)
  BY <1>1, <1>2, <1>3 DEF NotIn, OnceIn
<1>6. ASSUME NotBehind(s, x, y), m # y \/ NotIn(s, x), NEW i \in DOMAIN t, NEW j \in DOMAIN t, i < j, t[i] = x
      PROVE  t[j] # y
  <2>1. i \in DOMAIN s /\ t[i] = s[i]
    BY <1>1, <1>2, <1>6
  <2>2. m # y
    BY <2>1, <1>6 DEF NotIn
  <2> QED BY <2>1, <2>2, <1>1, <1>2, <1>3, <1>6 DEF NotBehind
<1>7. NotBehind(s, x, y) /\ (m # y \/ NotIn(s, x)) => NotBehind(t, x, y)
  BY <1>6 DEF NotBehind
<1> QED BY <1>4, <1>5, <1>7 DEF t

LEMMA OfferIsNotAccept == OfferOf(1) # AcceptOf(1) /\ OfferOf(1)[1] = "offer" /\ AcceptOf(1)[1] = "accept"
BY DEF OfferOf, AcceptOf
LEMMA HolesOrderStep ==
  Underway /\ Caused /\ HolesOrder /\ Holes!Next => HolesOrder'
<1> SUFFICES ASSUME Underway, Caused, HolesOrder, Holes!Next PROVE HolesOrder' OBVIOUS
<1> USE DEF Holes!main, Holes!wst, Holes!psn, Holes!Ctrl, Holes!Data
<1> DEFINE A == AcceptOf(1)
           O == OfferOf(1)
<1>0. O # A /\ queue \in Seq(sent) /\ wire \in Seq(sent)
  BY OfferIsNotAccept DEF Underway
<1>o. /\ OnceIn(queue, A) /\ OnceIn(wire, A) /\ (NotIn(queue, A) \/ NotIn(wire, A))
      /\ NotBehind(queue, A, O) /\ NotBehind(wire, A, O)
      /\ NotIn(queue, A) \/ (NotIn(wire, O) /\ ~OfferNoted)
  BY DEF HolesOrder
<1>1. CASE QueueKept
  <2>1. UNCHANGED wire /\ (OfferNoted' => OfferNoted) /\ queue' \in {queue, Holes!Cleared}
    BY <1>1 DEF QueueKept, OfferNoted
  <2>2. OnceIn(queue', A) /\ NotBehind(queue', A, O) /\ (NotIn(queue, A) => NotIn(queue', A))
    <3>1. CASE queue' = queue
      BY <3>1, <1>o
    <3>2. CASE queue' = Holes!Cleared
      <4>1. PICK k \in Nat : k = Holes!First /\ k <= Len(queue)
        BY <1>0, FirstIs, LenProperties
      <4>2. DOMAIN queue' = 1 .. Len(queue) - k /\ \A i \in DOMAIN queue' : queue'[i] = queue[k + i]
        BY <1>0, <3>2, <4>1, ClearedIs
      <4>3. PICK t : t = queue'
        OBVIOUS
      <4> HIDE DEF A, O
      <4>4. /\ OnceIn(queue, A) => OnceIn(t, A)
            /\ NotIn(queue, A) => NotIn(t, A)
            /\ NotBehind(queue, A, O) => NotBehind(t, A, O)
        BY <1>0, <4>1, <4>2, <4>3, OrderOfRest
      <4> QED BY <1>o, <4>3, <4>4
    <3> QED BY <2>1, <3>1, <3>2
  <2> QED BY <2>1, <2>2, <1>o DEF HolesOrder
<1>2. CASE Holes!Again
  <2>1. queue' = <<>> /\ wire' = <<>> /\ ws' = "off"
    BY <1>2 DEF Holes!Again
  <2> QED BY <2>1, OrderOfEmpty DEF HolesOrder, OfferNoted
<1>3. CASE Holes!ToData \/ Holes!WsOpen \/ Holes!WsEnds \/ Holes!WsAcks
  <2>1. UNCHANGED <<wire, queue>> /\ (OfferNoted' => OfferNoted)
    BY <1>3 DEF Holes!ToData, Holes!WsOpen, Holes!WsEnds, Holes!WsUnchanged, Holes!WsAcks, OfferNoted
  <2> QED BY <2>1, <1>o DEF HolesOrder
<1>5. CASE Holes!WsEnqueues
  <2>1. queue' = Append(queue, note) /\ UNCHANGED wire /\ ~OfferNoted'
    BY <1>5 DEF Holes!WsEnqueues, Holes!WsUnchanged, Holes!Queued, OfferNoted
  <2>2. note \in sent /\ note # A /\ (NotIn(queue, A) \/ note # O)
    BY <1>5, <1>o, OfferIsNotAccept DEF Underway, Holes!WsEnqueues, OfferNoted
  <2>3. PICK n \in sent : n = note
    BY <2>2
  <2> HIDE DEF A, O
  <2>4. OnceIn(queue', A) /\ NotBehind(queue', A, O) /\ (NotIn(queue, A) => NotIn(queue', A))
    <3>1. OnceIn(Append(queue, n), A) /\ NotBehind(Append(queue, n), A, O)
          /\ (NotIn(queue, A) => NotIn(Append(queue, n), A))
      BY <1>0, <1>o, <2>2, <2>3, OrderOfMore
    <3> QED BY <3>1, <2>1, <2>3
  <2> QED BY <2>1, <2>4, <1>o DEF HolesOrder, A, O
<1>6. CASE Holes!WsReceives
  <2>1. /\ wire # <<>> /\ note' = Head(wire) /\ wire' = Tail(wire)
        /\ \/ queue' = queue
           \/ queue' = Append(queue, note') /\ ws' \notin {"ack", "enqueue"} /\ note'[1] # "offer"
    BY <1>6 DEF Holes!WsReceives, Holes!WsUnchanged, Holes!Queued
  <2>n. queue' = queue => note'[1] = "offer"
    <3> SUFFICES ASSUME queue' = queue, note'[1] # "offer" PROVE FALSE
      OBVIOUS
    <3>1. queue' = Append(queue, note')
      BY <1>6 DEF Holes!WsReceives, Holes!Queued
    <3>2. note' \in sent
      BY <2>1, <1>0, HeadTailProperties
    <3>3. PICK x \in sent : x = note'
      BY <3>2
    <3>4. Len(Append(queue, x)) = Len(queue) + 1 /\ Len(queue) \in Nat
      BY <1>0, AppendProperties, LenProperties
    <3> QED BY <3>1, <3>3, <3>4
  <2>2. PICK n : n = note' /\ n = Head(wire)
    BY <2>1
  <2>3. n \in sent
    BY <2>1, <2>2, <1>0, HeadTailProperties
  <2> HIDE DEF A, O
  <2>4. /\ OnceIn(wire', A) /\ NotBehind(wire', A, O)
        /\ (NotIn(wire, A) => NotIn(wire', A) /\ n # A) /\ (n = A => NotIn(wire', A) /\ NotIn(wire', O))
        /\ (NotIn(wire, O) => NotIn(wire', O) /\ n # O)
    <3>1. /\ OnceIn(Tail(wire), A) /\ NotBehind(Tail(wire), A, O)
          /\ NotIn(wire, A) => NotIn(Tail(wire), A) /\ Head(wire) # A
          /\ Head(wire) = A => NotIn(Tail(wire), A) /\ NotIn(Tail(wire), O)
      BY <1>0, <1>o, <2>1, OrderOfTail
    <3>2. NotIn(wire, O) => NotIn(Tail(wire), O) /\ Head(wire) # O
      BY <1>0, <2>1, OrderOfTail
    <3> QED BY <3>1, <3>2, <2>1, <2>2
  <2>5. CASE queue' = queue
    <3>1. n # A /\ (NotIn(queue, A) \/ ~OfferNoted')
      BY <2>n, <2>5, <2>2, <2>4, <1>o, OfferIsNotAccept DEF OfferNoted, A, O
    <3>2. OnceIn(queue', A) /\ NotBehind(queue', A, O)
          /\ (NotIn(queue', A) \/ NotIn(wire', A))
          /\ (NotIn(queue', A) \/ (NotIn(wire', O) /\ ~OfferNoted'))
      BY <2>5, <2>4, <3>1, <1>o
    <3> QED BY <3>2, <2>4 DEF HolesOrder, A, O
  <2>6. CASE queue' = Append(queue, note') /\ ws' \notin {"ack", "enqueue"} /\ note'[1] # "offer"
    <3>1. n # O /\ ~OfferNoted'
      BY <2>6, <2>2, OfferIsNotAccept DEF OfferNoted, O
    <3>2. n # A \/ NotIn(queue, A)
      BY <2>4, <1>o
    <3>3. OnceIn(Append(queue, n), A) /\ NotBehind(Append(queue, n), A, O)
          /\ (NotIn(queue, A) /\ n # A => NotIn(Append(queue, n), A))
      BY <1>0, <1>o, <2>3, <3>1, <3>2, OrderOfMore
    <3>4. OnceIn(queue', A) /\ NotBehind(queue', A, O) /\ (NotIn(queue, A) /\ n # A => NotIn(queue', A))
      BY <3>3, <2>6, <2>2
    <3>5. (NotIn(queue', A) \/ NotIn(wire', A)) /\ (NotIn(queue', A) \/ NotIn(wire', O))
      BY <3>4, <2>4, <1>o
    <3> QED BY <3>1, <3>4, <3>5, <2>4 DEF HolesOrder, A, O
  <2> QED BY <2>1, <2>5, <2>6
<1>7. CASE Holes!Sends
  <2>1. PICK m \in Holes!Sendable :
          /\ wire' = Append(wire, m) /\ sent' = sent \cup {m}
          /\ m \in sent => m[1] = "offer" /\ <<"ack", m[2], 0>> \notin told
    BY <1>7 DEF Holes!Sends
  <2>2. UNCHANGED <<queue, ws, note>>
    BY <1>7 DEF Holes!Sends
  <2>3. m = A => A \notin sent
    BY <2>1, OfferIsNotAccept
  <2>4. A \notin sent => NotIn(queue, A) /\ NotIn(wire, A)
    <3>1. /\ \A i \in DOMAIN queue : queue[i] \in sent
          /\ \A i \in DOMAIN wire : wire[i] \in sent
      BY <1>0, ElementOfSeq, LenProperties
    <3> QED BY <3>1 DEF NotIn
  <2>5. m = O => A \notin sent
    BY <2>1 DEF Caused, OfferOf, AckOf
  <2>6. wire \in Seq(sent \cup {m}) /\ m \in sent \cup {m}
    <3>1. \A T : sent \subseteq T => Seq(sent) \subseteq Seq(T)
      OBVIOUS
    <3> QED BY <3>1, <1>0
  <2> HIDE DEF A, O
  <2>7. /\ OnceIn(Append(wire, m), A) /\ NotBehind(Append(wire, m), A, O)
        /\ NotIn(wire, A) /\ m # A => NotIn(Append(wire, m), A)
        /\ NotIn(wire, O) /\ m # O => NotIn(Append(wire, m), O)
    BY <2>3, <2>4, <2>5, <2>6, <1>o, OrderOfMore
  <2>8. (NotIn(queue, A) \/ NotIn(wire', A)) /\ (NotIn(queue, A) \/ (NotIn(wire', O) /\ ~OfferNoted))
    BY <2>1, <2>3, <2>4, <2>5, <2>7, <1>o
  <2> QED BY <2>1, <2>2, <2>7, <2>8, <1>o DEF HolesOrder, OfferNoted, A, O
<1> QED BY <1>1, <1>2, <1>3, <1>5, <1>6, <1>7, MainQueue DEF Holes!Next, Holes!Ws
(* Where the main thread comes from when what is left of ctrl matters.      *)
LEMMA LaterMoves ==
  HolesTypes /\ Underway /\ (Holes!Main \/ Holes!ToData) /\ ~Holes!Again
    => /\ told \subseteq told'
       /\ Past' => Past \/ Holes!TakeAccept
       /\ Front' => Front \/ Holes!TakeAccept
       /\ Gone' => Gone \/ Holes!TakeOffer
<1> SUFFICES ASSUME HolesTypes, Underway, Holes!Main \/ Holes!ToData, ~Holes!Again
             PROVE  /\ told \subseteq told'
                    /\ Past' => Past \/ Holes!TakeAccept
                    /\ Front' => Front \/ Holes!TakeAccept
                    /\ Gone' => Gone \/ Holes!TakeOffer
  OBVIOUS
<1> USE DEF Holes!main, Holes!wst, Holes!psn, Holes!Ctrl, Holes!Data, Holes!PunchUnchanged, Holes!MainOnly,
            Holes!GoesTo, Holes!Fails, Holes!PunchFails
<1>0. /\ port \in {1, 2}
      /\ mpc \in {"create", "wsWait", "httpCreate", "joining", "start", "starting", "between"} => port = 1
      /\ mpc = "retry" => port = 2
  BY DEF HolesTypes
<1>1. ASSUME UNCHANGED <<told, port>>, mpc' = mpc \/ mpc' \in {"failed", "fini", "stopWs", "joinWs", "freed"}
      PROVE  /\ told \subseteq told'
             /\ Past' => Past \/ Holes!TakeAccept
             /\ Front' => Front \/ Holes!TakeAccept
             /\ Gone' => Gone \/ Holes!TakeOffer
  BY <1>1 DEF Past, Front, Gone
<1>2. CASE Holes!TimedOut \/ Holes!MessagePassed
  <2>1. UNCHANGED <<told, port>> /\ (Holes!WaitFails \/ UNCHANGED mpc)
    BY <1>2 DEF Holes!TimedOut, Holes!MessagePassed
  <2>2. Holes!WaitFails => mpc' \in {"failed", "stopWs"}
    BY DEF Holes!WaitFails
  <2> QED BY <2>1, <2>2, <1>1
<1>3. CASE Holes!Create \/ Holes!WsWaited \/ Holes!StopWs \/ Holes!JoinWs \/ Holes!Failed \/ Holes!Deleted
  <2>1. UNCHANGED <<told, port>> /\ mpc' \in {"failed", "wsWait", "httpCreate", "joinWs", "freed", "fini", "left", "stopWs"}
    BY <1>3 DEF Holes!Create, Holes!WsWaited, Holes!StopWs, Holes!JoinWs, Holes!Failed, Holes!Deleted
  <2> QED BY <2>1 DEF Past, Front, Gone
<1>4. CASE Holes!CreateOffer \/ Holes!Precheck
  <2>1. /\ UNCHANGED <<told, port>>
        /\ \/ mpc = "offering" /\ mpc' \in {IF port = 2 THEN "precheck" ELSE "start", "failed"}
           \/ mpc = "precheck" /\ mpc' \in {"offer", "failed"}
    BY <1>4 DEF Holes!CreateOffer, Holes!Precheck
  <2> QED BY <2>1, <1>0 DEF Past, Front, Gone
<1>5. CASE Holes!HttpCreate \/ Holes!HttpStart \/ Holes!Joined \/ Holes!Started \/ Holes!Fini
  <2>1. UNCHANGED port /\ told \subseteq told'
    BY <1>5 DEF Holes!HttpCreate, Holes!HttpStart, Holes!Request, Holes!Joined, Holes!Started, Holes!Fini
  <2>2. \/ mpc' \in {"failed", "joining", "starting", "deleting", "freed"}
        \/ mpc \in {"joining", "starting"} /\ mpc' \in {"offering", "precheck"}
    BY <1>5 DEF Holes!HttpCreate, Holes!HttpStart, Holes!Request, Holes!Joined, Holes!Started, Holes!Fini
  <2> QED BY <2>1, <2>2, <1>0 DEF Past, Front, Gone
<1>6. CASE Holes!TakeOffer \/ Holes!TakeAccept
  <2>1. /\ UNCHANGED <<told, port>>
        /\ \/ Holes!TakeOffer /\ mpc' = "ackOffer"
           \/ Holes!TakeAccept /\ mpc' = "ackAccept"
    BY <1>6 DEF Holes!TakeOffer, Holes!TakeAccept
  <2> QED BY <2>1, <1>0 DEF Past, Front, Gone
<1>7. CASE Holes!AckOffer \/ Holes!SendOffer \/ Holes!TakeResult \/ Holes!Check \/ Holes!Retry \/ Holes!SendAccept
  <2>1. UNCHANGED port /\ told \subseteq told'
    BY <1>7 DEF Holes!AckOffer, Holes!Ack, Holes!SendOffer, Holes!TakeResult, Holes!Check, Holes!Retry,
       Holes!SendAccept
  <2>2. /\ mpc \in {"ackOffer", "send", "result", "check", "retry", "sendAccept"}
        /\ mpc' \in {"send", "result", "check", "retry", "sendAccept", "accept", "failed", "crashed"}
    BY <1>7 DEF Holes!AckOffer, Holes!Ack, Holes!SendOffer, Holes!TakeResult, Holes!Takes, Holes!Check, Holes!Retry,
       Holes!SendAccept
  <2> QED BY <2>1, <2>2 DEF Past, Front, Gone
<1>8. CASE Holes!AckAccept \/ Holes!Established
  <2>1. UNCHANGED port /\ told \subseteq told'
    BY <1>8 DEF Holes!AckAccept, Holes!Ack, Holes!Established
  <2>2. /\ mpc \in {"ackAccept", "established"}
        /\ mpc' \in {"failed", "established", IF port = 1 THEN "between" ELSE "streaming"}
    BY <1>8 DEF Holes!AckAccept, Holes!Ack, Holes!Established
  <2> QED BY <2>1, <2>2, <1>0 DEF Past, Front, Gone
<1>9. CASE Holes!ToData
  <2>1. /\ UNCHANGED told
        /\ \/ mpc = "between" /\ mpc' = "offering" /\ port' = 2
           \/ mpc' = "fini" /\ UNCHANGED port
    BY <1>9 DEF Holes!ToData
  <2> QED BY <2>1, <1>0 DEF Past, Front, Gone
<1> QED BY <1>2, <1>3, <1>4, <1>5, <1>6, <1>7, <1>8, <1>9 DEF Holes!Main

(* How the queue changes once nothing of ctrl is under way.                 *)
Shorter(q, t) ==
  \E k \in 0 .. Len(q) : /\ DOMAIN t = 1 .. Len(q) - k
                         /\ \A i \in DOMAIN t : t[i] = q[k + i]
LEMMA ShorterKeeps ==
  ASSUME NEW S, NEW q \in Seq(S), NEW t, Shorter(q, t), NEW x
  PROVE  (NotIn(q, x) => NotIn(t, x)) /\ (AtFront(q) => AtFront(t))
<1>1. PICK n \in Nat : n = Len(q) /\ DOMAIN q = 1 .. n
  BY LenProperties
<1>2. PICK k \in 0 .. n : DOMAIN t = 1 .. n - k /\ \A i \in DOMAIN t : t[i] = q[k + i]
  BY <1>1 DEF Shorter
<1>3. NotIn(q, x) => NotIn(t, x)
  BY <1>1, <1>2 DEF NotIn
<1>4. ASSUME AtFront(q), NEW i \in DOMAIN t, t[i] = AcceptOf(1), NEW j \in 1 .. i - 1
      PROVE  t[j][1] \notin Holes!Messages
  <2>1. k + i \in DOMAIN q /\ q[k + i] = AcceptOf(1) /\ k + j \in 1 .. (k + i) - 1
    BY <1>1, <1>2, <1>4
  <2>2. t[j] = q[k + j]
    BY <1>1, <1>2, <1>4
  <2> QED BY <2>1, <2>2, <1>4 DEF AtFront
<1> QED BY <1>3, <1>4 DEF AtFront
LEMMA LongerKeeps ==
  ASSUME NEW S, NEW q \in Seq(S), NEW n \in S, n # AcceptOf(1), AtFront(q)
  PROVE  AtFront(Append(q, n))
<1>1. PICK l \in Nat : l = Len(q) /\ DOMAIN q = 1 .. l
  BY LenProperties
<1>2. DOMAIN Append(q, n) = 1 .. l + 1 /\ Append(q, n)[l + 1] = n /\ \A i \in 1 .. l : Append(q, n)[i] = q[i]
  BY <1>1, AppendProperties
<1> SUFFICES ASSUME NEW i \in DOMAIN Append(q, n), Append(q, n)[i] = AcceptOf(1), NEW j \in 1 .. i - 1
             PROVE  Append(q, n)[j][1] \notin Holes!Messages
  BY DEF AtFront
<1>3. i \in 1 .. l /\ q[i] = AcceptOf(1) /\ Append(q, n)[j] = q[j]
  BY <1>2
<1> QED BY <1>1, <1>3 DEF AtFront
LEMMA OverKeeps ==
  Underway /\ HolesOrder /\ Over1 /\ Holes!Next /\ ~Holes!Again /\ told \subseteq told'
    => /\ Over1'
       /\ \/ Shorter(queue, queue')
          \/ \E n \in sent : n \notin {AcceptOf(1), OfferOf(1)} /\ queue' = Append(queue, n)
<1> SUFFICES ASSUME Underway, HolesOrder, Over1, Holes!Next, ~Holes!Again, told \subseteq told'
             PROVE  /\ Over1'
                    /\ \/ Shorter(queue, queue')
                       \/ \E n \in sent : n \notin {AcceptOf(1), OfferOf(1)} /\ queue' = Append(queue, n)
  OBVIOUS
<1> USE DEF Holes!main, Holes!wst, Holes!psn, Holes!Ctrl, Holes!Data
<1> DEFINE A == AcceptOf(1)
           O == OfferOf(1)
<1>0. O # A /\ queue \in Seq(sent) /\ wire \in Seq(sent) /\ AckOf(1) \in told'
  BY OfferIsNotAccept DEF Underway, Over1
<1>o. NotIn(queue, O) /\ NotIn(wire, O) /\ NotIn(wire, A) /\ ~OfferNoted /\ A \in sent /\ O \in sent
  BY DEF Over1
<1>s. Shorter(queue, queue)
  <2>1. PICK l \in Nat : Len(queue) = l /\ DOMAIN queue = 1 .. l
    BY <1>0, LenProperties
  <2>2. 0 \in 0 .. l /\ l - 0 = l /\ \A i \in 1 .. l : 0 + i = i
    OBVIOUS
  <2> QED BY <2>1, <2>2 DEF Shorter
<1>1. ASSUME UNCHANGED <<wire, sent>>, OfferNoted' => OfferNoted, Shorter(queue, queue')
      PROVE  Over1'
  <2>1. PICK t : t = queue'
    OBVIOUS
  <2>2. NotIn(t, O)
    <3> HIDE DEF O
    <3> QED BY <1>0, <1>o, <1>1, <2>1, ShorterKeeps
  <2> QED BY <1>0, <1>o, <1>1, <2>1, <2>2 DEF Over1
<1>2. CASE QueueKept
  <2>1. UNCHANGED <<wire, sent>> /\ (OfferNoted' => OfferNoted) /\ queue' \in {queue, Holes!Cleared}
    BY <1>2 DEF QueueKept, OfferNoted
  <2>2. CASE queue' = queue
    BY <2>1, <2>2, <1>1, <1>s
  <2>3. CASE queue' = Holes!Cleared
    <3>1. PICK k \in 0 .. Len(queue) : k = Holes!First
      BY <1>0, FirstIs
    <3>2. DOMAIN queue' = 1 .. Len(queue) - k /\ \A i \in DOMAIN queue' : queue'[i] = queue[k + i]
      BY <1>0, <2>3, <3>1, ClearedIs
    <3>3. Shorter(queue, queue')
      BY <3>1, <3>2 DEF Shorter
    <3> QED BY <2>1, <3>3, <1>1
  <2> QED BY <2>1, <2>2, <2>3
<1>3. CASE Holes!ToData \/ Holes!WsOpen \/ Holes!WsEnds \/ Holes!WsAcks
  <2>1. UNCHANGED <<wire, queue, sent>> /\ (OfferNoted' => OfferNoted)
    BY <1>3 DEF Holes!ToData, Holes!WsOpen, Holes!WsEnds, Holes!WsUnchanged, Holes!WsAcks, OfferNoted
  <2>2. Shorter(queue, queue')
    BY <2>1, <1>s
  <2> QED BY <2>1, <2>2, <1>1
<1>4. CASE Holes!WsEnqueues \/ Holes!WsReceives
  <2>1. /\ UNCHANGED sent
        /\ \/ Holes!WsEnqueues /\ queue' = Append(queue, note) /\ UNCHANGED wire /\ ~OfferNoted'
           \/ /\ wire # <<>> /\ note' = Head(wire) /\ wire' = Tail(wire)
              /\ queue' = queue \/ queue' = Append(queue, note')
    BY <1>4 DEF Holes!WsEnqueues, Holes!WsReceives, Holes!WsUnchanged, Holes!Queued, OfferNoted
  <2>2. CASE Holes!WsEnqueues /\ queue' = Append(queue, note) /\ UNCHANGED wire /\ ~OfferNoted'
    <3>1. note \in sent /\ note # A /\ note # O
      BY <2>2, <1>o, OfferIsNotAccept DEF Underway, Holes!WsEnqueues, OfferNoted
    <3>2. PICK n \in sent : n = note
      BY <3>1
    <3>3. NotIn(Append(queue, n), O)
      <4> HIDE DEF O
      <4> QED BY <1>0, <1>o, <3>1, <3>2, OrderOfMore
    <3>4. NotIn(queue', O)
      BY <3>3, <3>2, <2>2
    <3>5. Over1'
      BY <1>0, <1>o, <2>1, <2>2, <3>4 DEF Over1
    <3> QED BY <3>1, <3>5, <2>2
  <2>3. CASE /\ wire # <<>> /\ note' = Head(wire) /\ wire' = Tail(wire)
             /\ queue' = queue \/ queue' = Append(queue, note')
    <3>1. PICK n : n = note' /\ n = Head(wire)
      BY <2>3
    <3>2. n \in sent
      BY <1>0, <2>3, <3>1, HeadTailProperties
    <3>3. /\ NotIn(Tail(wire), A) /\ Head(wire) # A
          /\ NotIn(Tail(wire), O) /\ Head(wire) # O
      <4> HIDE DEF A, O
      <4>1. NotIn(Tail(wire), A) /\ Head(wire) # A
        BY <1>0, <1>o, <2>3, OrderOfTail
      <4>2. NotIn(Tail(wire), O) /\ Head(wire) # O
        BY <1>0, <1>o, <2>3, OrderOfTail
      <4> QED BY <4>1, <4>2
    <3>4. NotIn(Append(queue, n), O)
      <4>1. n # O
        BY <3>1, <3>3
      <4> HIDE DEF O
      <4> QED BY <4>1, <1>0, <1>o, <3>2, OrderOfMore
    <3>5. NotIn(queue', O)
      BY <3>4, <3>1, <2>3, <1>o
    <3>6. ~OfferNoted'
      BY <3>1, <3>3 DEF OfferNoted
    <3>7. Over1'
      BY <1>0, <1>o, <2>1, <2>3, <3>3, <3>5, <3>6 DEF Over1
    <3>8. CASE queue' = queue
      BY <3>7, <3>8, <1>s
    <3>9. CASE queue' = Append(queue, note')
      <4>1. n \in sent /\ n \notin {A, O} /\ queue' = Append(queue, n)
        BY <3>1, <3>2, <3>3, <3>9
      <4> QED BY <4>1, <3>7
    <3> QED BY <2>3, <3>8, <3>9
  <2> QED BY <2>1, <2>2, <2>3
<1>5. CASE Holes!Sends
  <2>1. PICK m \in Holes!Sendable :
          /\ wire' = Append(wire, m) /\ sent' = sent \cup {m}
          /\ m \in sent => m[1] = "offer" /\ <<"ack", m[2], 0>> \notin told
    BY <1>5 DEF Holes!Sends
  <2>2. UNCHANGED <<queue, ws, note>>
    BY <1>5 DEF Holes!Sends
  <2>3. m # A
    BY <2>1, <1>o, OfferIsNotAccept
  <2>5. m # O
    <3>1. O[2] = 1 /\ <<"ack", O[2], 0>> = AckOf(1)
      BY DEF OfferOf, AckOf
    <3>2. O \in sent /\ AckOf(1) \in told
      BY <1>o DEF Over1
    <3> HIDE DEF A, O
    <3> QED BY <2>1, <3>1, <3>2
  <2>6. wire \in Seq(sent \cup {m}) /\ m \in sent \cup {m}
    <3>1. \A T : sent \subseteq T => Seq(sent) \subseteq Seq(T)
      OBVIOUS
    <3> QED BY <3>1, <1>0
  <2>7. NotIn(Append(wire, m), A) /\ NotIn(Append(wire, m), O)
    <3> HIDE DEF A, O
    <3> QED BY <2>3, <2>5, <2>6, <1>o, OrderOfMore
  <2>8. Shorter(queue, queue')
    BY <2>2, <1>s
  <2>9. Over1'
    BY <1>0, <1>o, <2>1, <2>2, <2>7 DEF Over1, OfferNoted
  <2> QED BY <2>8, <2>9
<1> QED BY <1>2, <1>3, <1>4, <1>5, MainQueue DEF Holes!Next, Holes!Ws

(* What is left of ctrl is not mistaken for what is said of data.           *)
LEMMA HolesLaterStep ==
  HolesTypes /\ Underway /\ Caused /\ HolesOrder /\ HolesLater /\ Holes!Next => HolesLater'
<1> SUFFICES ASSUME HolesTypes, Underway, Caused, HolesOrder, HolesLater, Holes!Next PROVE HolesLater' OBVIOUS
<1>0. queue \in Seq(sent) /\ OfferOf(1) # AcceptOf(1)
  BY OfferIsNotAccept DEF Underway
<1>1. CASE Holes!Again
  <2>1. ~Past' /\ ~Front' /\ ~Gone'
    BY <1>1 DEF Holes!Again, Holes!Ctrl, Past, Front, Gone
  <2> QED BY <2>1 DEF HolesLater
<1>2. CASE Holes!TakeAccept
  <2>1. mpc = "accept" /\ Holes!Finds("accept") /\ UNCHANGED <<port, queue, wire, ws, note, told, sent>>
        /\ mpc' = "ackAccept"
    BY <1>2 DEF Holes!TakeAccept, Holes!Takes, Holes!PunchUnchanged, Holes!wst, Holes!psn
  <2>2. ~Gone' /\ (Front' => port = 1)
    BY <2>1 DEF Gone, Front
  <2>3. CASE port = 2
    <3>1. Past
      BY <2>3 DEF Past
    <3>2. Over1'
      BY <3>1, <2>1 DEF HolesLater, Over1, OfferNoted
    <3> QED BY <2>2, <2>3, <3>2 DEF HolesLater
  <2>4. CASE port = 1
    <3>1. Holes!Found = AcceptOf(1) /\ AcceptOf(1) \in sent
      BY <2>1, <2>4, FoundAccept
    <3>2. PICK k \in DOMAIN queue : /\ queue[k] = AcceptOf(1)
                                    /\ \A i \in 1 .. k - 1 : queue[i][1] \notin Holes!Messages
      <4>1. Holes!First \in 0 .. Len(queue) /\ Holes!First # 0
        BY <1>0, <2>1, FirstIs DEF Holes!Finds
      <4>2. Holes!First \in DOMAIN queue
        BY <1>0, <4>1, LenProperties
      <4> QED BY <4>1, <4>2, <1>0, <2>1, <3>1, FirstIs, WaitsAre
    <3>3. ~NotIn(queue, AcceptOf(1))
      BY <3>2 DEF NotIn
    <3>4. NotIn(wire, AcceptOf(1)) /\ NotIn(wire, OfferOf(1)) /\ ~OfferNoted
      BY <3>3 DEF HolesOrder
    <3>5. ASSUME NEW i \in DOMAIN queue PROVE queue[i] # OfferOf(1)
      <4>1. i \in Nat /\ k \in Nat /\ i >= 1
        BY <1>0, LenProperties
      <4>2. i < k => queue[i][1] \notin Holes!Messages
        BY <3>2, <4>1
      <4>3. i < k => queue[i] # OfferOf(1)
        BY <4>2, WaitsAre DEF OfferOf
      <4>4. k < i => queue[i] # OfferOf(1)
        BY <3>2 DEF HolesOrder, NotBehind
      <4>5. i = k => queue[i] # OfferOf(1)
        BY <3>2, <1>0
      <4> QED BY <4>1, <4>3, <4>4, <4>5
    <3>6. OfferOf(1) \in sent /\ AckOf(1) \in told
      BY <3>1 DEF Caused
    <3>7. Over1'
      BY <2>1, <3>1, <3>4, <3>5, <3>6 DEF Over1, NotIn, OfferNoted
    <3>8. AtFront(queue')
      BY <2>1, <3>2 DEF AtFront, HolesOrder, OnceIn
    <3> QED BY <2>2, <3>7, <3>8 DEF HolesLater
  <2> QED BY <2>3, <2>4 DEF HolesTypes
<1>3. CASE Holes!TakeOffer
  <2>1. mpc = "offer" /\ Holes!Finds("offer") /\ UNCHANGED <<port, queue, wire, ws, note, told, sent>>
        /\ mpc' = "ackOffer"
    BY <1>3 DEF Holes!TakeOffer, Holes!Takes, Holes!PunchUnchanged, Holes!wst, Holes!psn
  <2>2. ~Front' /\ (Past' => Past) /\ (Gone' => port = 2)
    BY <2>1 DEF Gone, Front, Past
  <2>3. Past' => Over1'
    BY <2>1, <2>2 DEF HolesLater, Over1, OfferNoted
  <2>4. ASSUME port = 2, NEW i \in DOMAIN queue, queue[i] = AcceptOf(1) PROVE FALSE
    <3>1. Front /\ AtFront(queue)
      BY <2>1, <2>4 DEF Front, HolesLater
    <3>2. PICK k \in DOMAIN queue : /\ queue[k][1] = "offer"
                                    /\ \A j \in 1 .. k - 1 : queue[j][1] \notin Holes!Messages
      <4>1. Holes!First \in 0 .. Len(queue) /\ Holes!First # 0
        BY <1>0, <2>1, FirstIs DEF Holes!Finds
      <4>2. Holes!First \in DOMAIN queue
        BY <1>0, <4>1, LenProperties
      <4>3. queue[Holes!First][1] = "offer"
        BY <4>1, <1>0, <2>1, FirstIs DEF Holes!Finds
      <4> QED BY <4>1, <4>2, <4>3, <1>0, <2>1, FirstIs, WaitsAre
    <3>3. i \in Nat /\ k \in Nat /\ i >= 1 /\ k >= 1
      BY <1>0, LenProperties
    <3>4. i # k
      BY <3>2, <2>4, OfferIsNotAccept
    <3>5. ~(i < k)
      BY <3>2, <3>3, <2>4, OfferIsNotAccept, WaitsAre
    <3>6. ~(k < i)
      BY <3>1, <3>2, <3>3, <2>4, WaitsAre DEF AtFront
    <3> QED BY <3>3, <3>4, <3>5, <3>6
  <2>5. Gone' => NotIn(queue', AcceptOf(1))
    BY <2>1, <2>2, <2>4 DEF NotIn
  <2> QED BY <2>2, <2>3, <2>5 DEF HolesLater
<1>4. CASE ~Holes!Again /\ ~Holes!TakeAccept /\ ~Holes!TakeOffer
  <2>1. told \subseteq told' /\ (Past' => Past) /\ (Front' => Front) /\ (Gone' => Gone)
    <3>1. CASE Holes!Main \/ Holes!ToData
      BY <3>1, <1>4, LaterMoves
    <3>2. CASE Holes!Ws \/ Holes!WsEnds \/ Holes!WsReceives \/ Holes!Sends
      <4>1. UNCHANGED <<mpc, port>> /\ told \subseteq told'
        BY <3>2 DEF Holes!Ws, Holes!WsOpen, Holes!WsEnds, Holes!WsAcks, Holes!WsEnqueues, Holes!WsReceives,
           Holes!Sends, Holes!WsUnchanged, Holes!main
      <4> QED BY <4>1 DEF Past, Front, Gone
    <3> QED BY <3>1, <3>2 DEF Holes!Next
  <2>2. (Front => Past) /\ (Gone => Past)
    BY DEF Past, Front, Gone
  <2>3. CASE ~Past
    BY <2>1, <2>2, <2>3 DEF HolesLater
  <2>4. CASE Past
    <3>1. Over1
      BY <2>4 DEF HolesLater
    <3>2. /\ Over1'
          /\ \/ Shorter(queue, queue')
             \/ \E n \in sent : n \notin {AcceptOf(1), OfferOf(1)} /\ queue' = Append(queue, n)
      BY <3>1, <2>1, <1>4, OverKeeps
    <3>3. PICK t : t = queue'
      OBVIOUS
    <3>4. (AtFront(queue) => AtFront(t)) /\ (NotIn(queue, AcceptOf(1)) => NotIn(t, AcceptOf(1)))
      <4>1. CASE Shorter(queue, queue')
        BY <4>1, <3>3, <1>0, ShorterKeeps
      <4>2. CASE \E n \in sent : n \notin {AcceptOf(1), OfferOf(1)} /\ queue' = Append(queue, n)
        <5>1. PICK n \in sent : n # AcceptOf(1) /\ t = Append(queue, n)
          BY <4>2, <3>3
        <5>2. AtFront(queue) => AtFront(Append(queue, n))
          BY <5>1, <1>0, LongerKeeps
        <5>3. NotIn(queue, AcceptOf(1)) => NotIn(Append(queue, n), AcceptOf(1))
          BY <5>1, <1>0, OrderOfMore
        <5> QED BY <5>1, <5>2, <5>3
      <4> QED BY <3>2, <4>1, <4>2
    <3>5. (Front' => AtFront(queue')) /\ (Gone' => NotIn(queue', AcceptOf(1)))
      BY <3>3, <3>4, <2>1 DEF HolesLater
    <3> QED BY <3>2, <3>5 DEF HolesLater
  <2> QED BY <2>3, <2>4
<1> QED BY <1>1, <1>2, <1>3, <1>4

LEMMA HolesStart == Holes!Init => HolesInv
<1> SUFFICES ASSUME Holes!Init PROVE HolesInv OBVIOUS
<1>0. /\ mpc = "create" /\ port = 1 /\ attempt = 0 /\ reqId = 1 /\ ours = FALSE
      /\ pair = FALSE /\ taken = 0 /\ flags = {} /\ locked = FALSE
      /\ ws = "off" /\ wsOpen = FALSE /\ queue = <<>> /\ wire = <<>> /\ told = {}
      /\ sent = {} /\ repeats = 0 /\ tries = 1
  BY DEF Holes!Init, Holes!Fresh, Holes!Ctrl
<1>1. HolesTypes
  <2>1. IdsTaken
    BY <1>0 DEF IdsTaken, Ids1, Ids2
  <2>2. attempt \in 0 .. Attempts /\ tries \in 1 .. Tries /\ repeats \in 0 .. Repeats /\ reqId \in 1 .. 6 + 2 * Attempts
    BY <1>0, HolesAssumption
  <2>3. mpc \in MainPlaces
    BY <1>0 DEF MainPlaces
  <2>4. 6 + 2 * Attempts \in Nat /\ taken \in 0 .. 2 /\ port \in {1, 2} /\ mpc = "create"
    BY <1>0, HolesAssumption
  <2> QED BY <1>0, <2>1, <2>2, <2>3, <2>4 DEF HolesTypes
<1>2. HolesThreads
  BY <1>0 DEF HolesThreads
<1>3. Underway /\ Caused
  <2>1. queue \in Seq(sent) /\ wire \in Seq(sent)
    BY <1>0, EmptySeq
  <2>2. Holes!BothAccepted
    BY <1>0 DEF Holes!BothAccepted
  <2> QED BY <2>1, <2>2, <1>0 DEF Underway, Caused
<1>4. HolesOrder
  BY <1>0, OrderOfEmpty DEF HolesOrder, OfferNoted
<1>5. HolesLater
  <2>1. ~Past /\ ~Front /\ ~Gone
    BY <1>0 DEF Past, Front, Gone
  <2> QED BY <2>1 DEF HolesLater
<1> QED BY <1>1, <1>2, <1>3, <1>4, <1>5 DEF HolesInv, HolesSent
LEMMA HolesStep == HolesInv /\ Holes!Next => HolesInv'
BY HolesTypesStep, HolesThreadsStep, UnderwayStep, CausedStep, HolesOrderStep, HolesLaterStep
   DEF HolesInv, HolesSent
LEMMA HolesStays == HolesInv /\ UNCHANGED punching => HolesInv'
<1> SUFFICES ASSUME HolesInv, UNCHANGED punching PROVE HolesInv' OBVIOUS
<1>0. UNCHANGED <<mpc, port, attempt, reqId, ours, pair, taken, tries, flags, locked, ws, note,
                  wsOpen, queue, wire, told, sent, repeats>>
  BY DEF punching
<1>1. HolesTypes'
  BY <1>0 DEF HolesInv, HolesTypes, IdsTaken, Ids1, Ids2
<1>2. HolesThreads'
  BY <1>0 DEF HolesInv, HolesThreads
<1>3. Underway' /\ Caused'
  <2>1. Underway'
    BY <1>0 DEF HolesInv, HolesSent, Underway
  <2>2. Holes!BothAccepted' /\ (Unoffered' <=> Unoffered)
    BY <1>0 DEF HolesInv, HolesSent, Caused, Holes!BothAccepted, Unoffered
  <2>3. Caused'
    BY <1>0, <2>2 DEF HolesInv, HolesSent, Caused
  <2> QED BY <2>1, <2>3
<1>4. HolesOrder'
  BY <1>0 DEF HolesInv, HolesOrder, OfferNoted
<1>5. HolesLater'
  BY <1>0 DEF HolesInv, HolesLater, Past, Front, Gone, Over1, OfferNoted
<1> QED BY <1>1, <1>2, <1>3, <1>4, <1>5 DEF HolesInv, HolesSent
LEMMA HolesSafe == HolesInv => Holes!TypeOK /\ Holes!HolepunchSound
<1> SUFFICES ASSUME HolesInv PROVE Holes!TypeOK /\ Holes!HolepunchSound OBVIOUS
<1> USE DEF Holes!Ctrl, Holes!Data
<1>1. Holes!TypeOK
  <2>1. mpc \in MainPlaces
    BY DEF HolesInv, HolesTypes
  <2>2. mpc \in DOMAIN Holes!Wanted \cup {"create", "wsWait", "httpCreate", "offering", "start", "precheck",
          "ackOffer", "send", "check", "retry", "sendAccept", "ackAccept", "established", "between",
          "streaming", "failed", "left", "fini", "stopWs", "joinWs", "freed", "crashed"}
    BY <2>1, WaitsAre DEF MainPlaces, Waits
  <2> QED BY <2>2 DEF HolesInv, HolesTypes, Holes!TypeOK
<1>2. Holes!BothAccepted
  BY DEF HolesInv, HolesSent, Caused
<1>3. Holes!OfferFits
  BY DEF HolesInv, HolesSent, Caused, Holes!OfferFits
<1>4. Holes!EndsClean
  BY DEF HolesInv, HolesThreads, Holes!EndsClean
<1> QED BY <1>1, <1>2, <1>3, <1>4 DEF Holes!HolepunchSound
-----------------------------------------------------------------------------
(* The ports that are predicted (StunPorts).                                *)

(* Remainders of a number that is at most once out of the range.            *)
LEMMA DivMod ==
  ASSUME NEW a \in Int, NEW b \in Nat \ {0}
  PROVE  /\ a \div b \in Int
         /\ a % b \in 0 .. b - 1
         /\ a = (a \div b) * b + (a % b)
OBVIOUS
LEMMA MultipleGap ==
  ASSUME NEW p \in Int, NEW q \in Int, NEW b \in Nat \ {0}, p < q
  PROVE  p * b + b <= q * b
<1>1. PICK d \in Nat : q = p + 1 + d
  <2>1. q - p - 1 \in Nat
    OBVIOUS
  <2>. QED  BY <2>1
<1>2. q * b = p * b + b + d * b
  BY <1>1
<1>3. d * b >= 0
  BY <1>1
<1>. QED  BY <1>2, <1>3
LEMMA RemainderUnique ==
  ASSUME NEW a \in Int, NEW b \in Nat \ {0},
         NEW q \in Int, NEW r \in 0 .. b - 1, a = q * b + r
  PROVE  a % b = r
<1> DEFINE q2 == a \div b
           r2 == a % b
<1>1. q2 \in Int /\ r2 \in 0 .. b - 1 /\ a = q2 * b + r2
  BY DivMod
<1> HIDE DEF q2, r2
<1>2. CASE q = q2
  BY <1>1, <1>2 DEF r2, q2
<1>3. CASE q2 < q
  <2>1. q2 * b + b <= q * b
    BY <1>1, <1>3, MultipleGap
  <2>. QED  BY <1>1, <2>1
<1>4. CASE q < q2
  <2>1. q * b + b <= q2 * b
    BY <1>1, <1>4, MultipleGap
  <2>. QED  BY <1>1, <2>1
<1>. QED  BY <1>1, <1>2, <1>3, <1>4
LEMMA RemainderNear ==
  ASSUME NEW a \in Int, NEW b \in Nat \ {0}
  PROVE  /\ a \in 0 .. b - 1 => a % b = a
         /\ a \in b .. 2 * b - 1 => a % b = a - b
         /\ a \in -b .. -1 => a % b = a + b
<1>1. ASSUME a \in 0 .. b - 1 PROVE a % b = a
  <2>1. a = 0 * b + a
    OBVIOUS
  <2> QED BY <1>1, <2>1, RemainderUnique
<1>2. ASSUME a \in b .. 2 * b - 1 PROVE a % b = a - b
  <2>1. PICK r \in 0 .. b - 1 : r = a - b
    BY <1>2
  <2>2. a = 1 * b + r
    BY <2>1
  <2>3. a % b = r
    BY <2>2, RemainderUnique
  <2> QED BY <2>1, <2>3
<1>3. ASSUME a \in -b .. -1 PROVE a % b = a + b
  <2>1. PICK r \in 0 .. b - 1 : r = a + b
    BY <1>3
  <2>2. a = (-1) * b + r /\ -1 \in Int
    BY <2>1
  <2>3. a % b = r
    BY <2>2, RemainderUnique
  <2> QED BY <2>1, <2>3
<1> QED BY <1>1, <1>2, <1>3

Port16 == 1 .. Width - 1
Turned(x) == IF x > Width - 1 THEN x - (Width - 1) ELSE x
Mapping == Addrs \X Port16
PortsTypes ==
  /\ spc \in {"idle", "asking", "waiting"} /\ round \in 0 .. Rounds /\ servers \in 0 .. Servers
  /\ sock \in BOOLEAN /\ random \in BOOLEAN /\ inc \in -(Width - 1) .. Width - 1
  /\ mapped \in Seq(Mapping) /\ answers \in Seq(Mapping)
  /\ late \subseteq 1 .. Len(mapped) /\ replies \in Seq(1 .. Len(mapped))
  /\ offer \subseteq 0 .. Width - 1 /\ (spc # "idle" => offer = {})
  /\ last \in Port16 /\ step \in Int
  /\ step >= 0 => Servers * step < Width - 4
\* The NAT gives one port after the other.
PortsCounted ==
  /\ spc # "idle" => Len(mapped) <= servers
  /\ mapped # <<>> => last = mapped[Len(mapped)][2]
  /\ step >= 0 /\ spc # "idle"
       => \A i \in 1 .. Len(mapped) : mapped[i][2] = Turned(mapped[1][2] + (i - 1) * step)
\* The answers are those of some of the requests, in their order, and of the
\* last one when there are enough.
Answers(f) ==
  /\ f \in [1 .. Len(answers) -> 1 .. Len(mapped)]
  /\ \A k \in 1 .. Len(answers) : answers[k] = mapped[f[k]]
  /\ \A j, k \in 1 .. Len(answers) : j < k => f[j] < f[k]
  /\ spc = "waiting" => \A k \in 1 .. Len(answers) : f[k] < Len(mapped)
  /\ spc # "idle" /\ Len(answers) = Ports!Needed => f[Len(answers)] = Len(mapped)
PortsAnswered ==
  /\ \E f : Answers(f)
  /\ spc # "idle" => Len(answers) <= Ports!Needed
  /\ spc = "waiting" => Len(answers) < Ports!Needed /\ mapped # <<>>
\* A measured increment is not taken for one that was not.
PortsLearned == step >= 0 /\ inc = -1 => ~random
PortsInv == PortsTypes /\ PortsCounted /\ PortsAnswered /\ PortsLearned /\ Ports!PortPredicted

LEMMA WidthIs == /\ Width \in Nat /\ Width > 8 /\ Servers \in Nat /\ Rounds \in Nat
                 /\ Width - 1 \in Nat \ {0} /\ Width \in Nat \ {0}
BY PortsAssumption
(* The next port, and the second candidate that is made for it.             *)
LEMMA NextPortIs ==
  ASSUME NEW p \in Port16, step \in Int
  PROVE  /\ Ports!NextPort(p) \in Port16
         /\ 0 <= step /\ step < Width - 1 => Ports!NextPort(p) = Turned(p + step)
<1>1. PICK w \in Nat \ {0} : w = Width - 1
  BY WidthIs
<1>2. PICK a \in Int : a = p - 1 + step
  BY DEF Port16
<1>3. a % w \in 0 .. w - 1
  BY DivMod
<1>4. Ports!NextPort(p) = (a % w) + 1
  BY <1>1, <1>2 DEF Ports!NextPort
<1>5. ASSUME 0 <= step, step < w PROVE (a % w) + 1 = Turned(p + step)
  <2>1. a \in 0 .. 2 * w - 1
    BY <1>1, <1>2, <1>5, WidthIs DEF Port16
  <2>2. CASE a \in 0 .. w - 1
    <3>1. a % w = a
      BY <2>2, RemainderNear
    <3> QED BY <3>1, <2>2, <1>1, <1>2, WidthIs DEF Turned, Port16
  <2>3. CASE a \in w .. 2 * w - 1
    <3>1. a % w = a - w
      BY <2>3, RemainderNear
    <3> QED BY <3>1, <2>3, <1>1, <1>2, WidthIs DEF Turned, Port16
  <2> QED BY <2>1, <2>2, <2>3
<1>6. Ports!NextPort(p) \in Port16
  BY <1>1, <1>3, <1>4, WidthIs DEF Port16
<1> QED BY <1>1, <1>4, <1>5, <1>6
LEMMA OfferedIs ==
  ASSUME NEW p \in 0 .. Width - 1, NEW d \in -(Width - 1) .. Width - 1, NEW r \in BOOLEAN
  PROVE  Ports!Offered(p, d, r) \subseteq 0 .. Width - 1
<1>1. Ports!SecondPort(p, d, r) \in 0 .. Width - 1
  BY WidthIs DEF Ports!SecondPort
<1> QED BY <1>1, WidthIs DEF Ports!Offered
LEMMA OfferedNext ==
  ASSUME NEW p \in Port16, step \in Int, 0 <= step, step < Width - 1
  PROVE  Ports!NextPort(p) \in Ports!Offered(p, step, FALSE)
<1>1. Ports!NextPort(p) = Turned(p + step)
  BY NextPortIs
<1>2. CASE step = 0
  BY <1>1, <1>2, WidthIs DEF Ports!Offered, Turned, Port16
<1>3. CASE step # 0
  <2>1. Ports!SecondPort(p, step, FALSE) = Turned(p + step)
    BY <1>3, WidthIs DEF Ports!SecondPort, Turned, Port16
  <2> QED BY <1>1, <1>3, <2>1 DEF Ports!Offered
<1> QED BY <1>2, <1>3

(* Differences of ports, and what is made of them.                          *)
LEMMA UnsignedIs ==
  ASSUME NEW d \in -(Width - 1) .. Width - 1
  PROVE  Ports!Unsigned(d) = (IF d >= 0 THEN d ELSE d + Width) /\ Ports!Unsigned(d) \in 0 .. Width - 1
<1>1. PICK w \in Nat \ {0} : w = Width
  BY WidthIs
<1>2. d % w \in 0 .. w - 1
  BY DivMod
<1>3. CASE d >= 0
  <2>1. d \in 0 .. w - 1
    BY <1>1, <1>3
  <2>2. d % w = d
    BY <2>1, RemainderNear
  <2> QED BY <1>1, <1>3, <2>2, <1>2 DEF Ports!Unsigned
<1>4. CASE d < 0
  <2>1. d \in -w .. -1
    BY <1>1, <1>4
  <2>2. d % w = d + w
    <3>1. d \in Int /\ w \in Nat \ {0}
      OBVIOUS
    <3>2. PICK a \in Int : a = d
      BY <3>1
    <3>3. a \in -w .. -1
      BY <2>1, <3>2
    <3>4. a % w = a + w
      BY <3>3, RemainderNear
    <3> QED BY <3>2, <3>4
  <2> QED BY <1>1, <1>4, <2>2, <1>2 DEF Ports!Unsigned
<1> QED BY <1>3, <1>4
Increments == -(Width - 1) .. Width - 1
LEMMA QuotIs ==
  ASSUME NEW d \in Increments
  PROVE  /\ Ports!Quot(d, 2) \in Increments /\ Ports!Quot(d, 4) \in Increments
         /\ d >= 0 => Ports!Quot(d, 2) >= 0
         /\ d <= -4 => Ports!Quot(d, 2) <= -2
BY WidthIs DEF Ports!Quot, Increments
-----------------------------------------------------------------------------
(* What the test says of a NAT with these differences.                      *)
Measured(d) == d \in Increments /\ (step >= 0 => d >= 0 \/ d <= -4)
Halfway(d) == d \in Increments /\ (step >= 0 => d >= 0 \/ d <= -2)
Test(r) == r.inc \in Increments /\ r.random \in BOOLEAN /\ (step >= 0 /\ r.inc = -1 => ~r.random)
LEMMA TestIsSure ==
  ASSUME random \in BOOLEAN, step >= 0 => ~random, NEW d \in Increments
  PROVE  Test(Ports!Sure(d))
BY DEF Test, Ports!Sure
LEMMA TestCompares ==
  ASSUME random \in BOOLEAN, step >= 0 => ~random, NEW d, NEW e, Halfway(d), Halfway(e)
  PROVE  Test(Ports!Compare(d, e))
<1>1. PICK r : r = Ports!Compare(d, e)
  OBVIOUS
<1>2. r.inc = IF d = 0 THEN e ELSE d
  BY <1>1 DEF Ports!Compare
<1>3. r.random = (random \/ d # e)
  BY <1>1 DEF Ports!Compare
<1>4. r.inc \in Increments
  BY <1>2 DEF Halfway
<1>5. r.random \in BOOLEAN
  BY <1>3
<1>6. step >= 0 => r.inc # -1
  BY <1>2, WidthIs DEF Halfway, Increments
<1> QED BY <1>1, <1>4, <1>5, <1>6 DEF Test
LEMMA TestVotes ==
  ASSUME random \in BOOLEAN, step >= 0 => ~random,
         NEW d \in 0 .. Width - 1, NEW e \in 0 .. Width - 1, NEW f \in 0 .. Width - 1
  PROVE  Test(Ports!Majority(d, e, f))
<1>1. d \in Increments /\ e \in Increments /\ d # -1 /\ e # -1
  BY WidthIs DEF Increments
<1>2. Test(Ports!Sure(d)) /\ Test(Ports!Sure(e))
  BY <1>1, TestIsSure
<1>3. Test([inc |-> IF d # 0 THEN d ELSE e, random |-> TRUE])
  BY <1>1 DEF Test
<1> QED BY <1>2, <1>3 DEF Ports!Majority

(* The ports of the answers, in the order in which the NAT gave them.       *)
LEMMA TurnedApart ==
  ASSUME NEW b \in Port16, NEW m \in Nat, NEW n \in Nat, m <= n, n < Width - 4
  PROVE  \/ Turned(b + n) - Turned(b + m) = n - m
         \/ Turned(b + n) - Turned(b + m) = n - m - (Width - 1) /\ n - m - (Width - 1) <= -4
BY WidthIs DEF Turned, Port16
LEMMA TimesGrows ==
  ASSUME NEW i \in Nat, NEW j \in Nat, NEW s \in Nat, i <= j
  PROVE  i * s \in Nat /\ j * s \in Nat /\ i * s <= j * s
<1>1. PICK d \in Nat : j = i + d
  <2>1. j - i \in Nat /\ j = i + (j - i)
    OBVIOUS
  <2> QED BY <2>1
<1>2. j * s = i * s + d * s /\ d * s \in Nat /\ i * s \in Nat
  BY <1>1
<1> QED BY <1>2
LEMMA MappingsAre ==
  ASSUME PortsTypes
  PROVE  /\ Len(answers) \in Nat /\ Len(mapped) \in Nat
         /\ \A k \in 1 .. Len(answers) : answers[k] \in Mapping /\ answers[k][2] \in Port16
         /\ \A k \in 1 .. Len(mapped) : mapped[k] \in Mapping /\ mapped[k][2] \in Port16
<1>1. answers \in Seq(Mapping) /\ mapped \in Seq(Mapping)
  BY DEF PortsTypes
<1>2. /\ \A k \in 1 .. Len(answers) : answers[k] \in Mapping
      /\ \A k \in 1 .. Len(mapped) : mapped[k] \in Mapping
  BY <1>1, ElementOfSeq
<1>3. \A x \in Mapping : x[2] \in Port16
  BY DEF Mapping
<1> QED BY <1>1, <1>2, <1>3, LenProperties
LEMMA AnswersMeasure ==
  ASSUME PortsInv, spc # "idle", NEW i \in 1 .. Len(answers), NEW j \in 1 .. Len(answers), i < j
  PROVE  Measured(Ports!Diff(i, j))
<1>1. PICK f : Answers(f)
  BY DEF PortsInv, PortsAnswered
<1>2. Len(answers) \in Nat /\ Len(mapped) \in Nat
  BY LenProperties DEF PortsInv, PortsTypes
<1>3. f[i] \in 1 .. Len(mapped) /\ f[j] \in 1 .. Len(mapped) /\ f[i] < f[j]
  BY <1>1 DEF Answers
<1>4. answers[i] = mapped[f[i]] /\ answers[j] = mapped[f[j]]
  BY <1>1 DEF Answers
<1>5. \A k \in 1 .. Len(mapped) : mapped[k] \in Mapping
  BY ElementOfSeq DEF PortsInv, PortsTypes
<1>6. PICK p \in Port16, q \in Port16 : p = answers[i][2] /\ q = answers[j][2]
  BY <1>3, <1>4, <1>5 DEF Mapping
<1>7. Ports!Diff(i, j) = q - p
  BY <1>6 DEF Ports!Diff
<1>8. q - p \in Increments
  BY WidthIs DEF Port16, Increments
<1>9. ASSUME step >= 0 PROVE q - p >= 0 \/ q - p <= -4
  <2>1. 1 \in 1 .. Len(mapped)
    BY <1>2, <1>3
  <2>2. PICK b \in Port16 : b = mapped[1][2]
    BY <2>1, <1>5 DEF Mapping
  <2>3. PICK m \in Nat, n \in Nat : m = f[i] - 1 /\ n = f[j] - 1 /\ m <= n /\ n <= Servers
    <3>1. Len(mapped) <= servers /\ servers <= Servers /\ servers \in Nat
      BY WidthIs DEF PortsInv, PortsCounted, PortsTypes
    <3>2. f[i] - 1 \in Nat /\ f[j] - 1 \in Nat /\ f[i] - 1 <= f[j] - 1 /\ f[j] - 1 <= Servers
      BY <1>2, <1>3, <3>1, WidthIs
    <3> QED BY <3>2
  <2>4. p = Turned(b + m * step) /\ q = Turned(b + n * step)
    BY <1>3, <1>4, <1>6, <1>9, <2>2, <2>3 DEF PortsInv, PortsCounted
  <2>5. PICK s \in Nat : s = step
    BY <1>9 DEF PortsInv, PortsTypes
  <2>6. Servers * s < Width - 4
    BY <2>5, <1>9 DEF PortsInv, PortsTypes
  <2>7. m * s \in Nat /\ n * s \in Nat /\ m * s <= n * s
    BY <2>3, TimesGrows
  <2>8. n * s <= Servers * s /\ Servers * s \in Nat
    BY <2>3, TimesGrows, WidthIs
  <2>9. PICK x \in Nat, y \in Nat : x = m * s /\ y = n * s /\ x <= y /\ y < Width - 4
    BY <2>6, <2>7, <2>8, WidthIs
  <2>10. \/ Turned(b + y) - Turned(b + x) = y - x
         \/ Turned(b + y) - Turned(b + x) = y - x - (Width - 1) /\ y - x - (Width - 1) <= -4
    BY <2>9, TurnedApart
  <2>11. p = Turned(b + x) /\ q = Turned(b + y)
    BY <2>4, <2>5, <2>9
  <2> QED BY <2>9, <2>10, <2>11
<1> QED BY <1>7, <1>8, <1>9 DEF Measured
LEMMA MeasuredIs ==
  ASSUME NEW d, Measured(d)
  PROVE  d \in Increments /\ Halfway(d) /\ Halfway(Ports!Quot(d, 2)) /\ Ports!Quot(d, 4) \in Increments
<1>1. d \in Increments /\ Halfway(d)
  BY WidthIs DEF Measured, Halfway, Increments
<1>2. PICK q : q = Ports!Quot(d, 2)
  OBVIOUS
<1>3. q \in Increments /\ (d >= 0 => q >= 0) /\ (d <= -4 => q <= -2)
  BY <1>1, <1>2, QuotIs
<1> QED BY <1>1, <1>2, <1>3, QuotIs DEF Measured, Halfway

LEMMA TestedIs ==
  ASSUME PortsInv, spc # "idle", inc = -1, Len(answers) \in 1 .. 4
  PROVE  Test(Ports!Tested)
<1>0. random \in BOOLEAN /\ (step >= 0 => ~random)
  BY DEF PortsInv, PortsTypes, PortsLearned
<1>1. \A d \in Increments : Test(Ports!Sure(d))
  BY <1>0, TestIsSure
<1>2. 0 \in Increments
  BY WidthIs DEF Increments
<1>3. ASSUME NEW i \in 1 .. Len(answers), NEW j \in 1 .. Len(answers), i < j
      PROVE  /\ Ports!Diff(i, j) \in Increments /\ Halfway(Ports!Diff(i, j)) /\ Halfway(Ports!Halved(i, j))
             /\ Ports!Halved(i, j) \in Increments /\ Ports!Quarter(i, j) \in Increments
  <2>1. Measured(Ports!Diff(i, j))
    BY <1>3, AnswersMeasure
  <2> QED BY <2>1, MeasuredIs DEF Ports!Halved, Ports!Quarter, Halfway
<1>4. CASE Len(answers) = 1
  <2>1. Ports!Tested = Ports!Sure(0)
    BY <1>4 DEF Ports!Tested
  <2> QED BY <2>1, <1>1, <1>2
<1>5. CASE Len(answers) = 2
  <2>1. Ports!Tested = Ports!Sure(IF Ports!Same(1, 2) THEN Ports!Diff(1, 2) ELSE 0)
    BY <1>5 DEF Ports!Tested
  <2>2. Ports!Diff(1, 2) \in Increments
    BY <1>5, <1>3
  <2> QED BY <2>1, <2>2, <1>1, <1>2
<1>6. CASE Len(answers) = 3
  <2>1. Ports!Tested = Ports!FromThree
    BY <1>6 DEF Ports!Tested
  <2>2. /\ Ports!Diff(1, 2) \in Increments /\ Ports!Diff(2, 3) \in Increments
        /\ Halfway(Ports!Diff(1, 2)) /\ Halfway(Ports!Diff(2, 3)) /\ Ports!Halved(1, 3) \in Increments
    BY <1>6, <1>3
  <2>3. Test(Ports!Compare(Ports!Diff(1, 2), Ports!Diff(2, 3)))
    BY <2>2, <1>0, TestCompares
  <2>4. Test(Ports!Sure(Ports!Diff(1, 2)))
    BY <2>2, <1>1
  <2>5. Test(Ports!Sure(IF Ports!Same(1, 3) THEN Ports!Halved(1, 3)
                        ELSE IF Ports!Same(2, 3) THEN Ports!Diff(2, 3) ELSE 0))
    BY <2>2, <1>1, <1>2
  <2> QED BY <2>1, <2>3, <2>4, <2>5 DEF Ports!FromThree
<1>7. CASE Len(answers) = 4
  <2>1. Ports!Tested = Ports!FromFour
    BY <1>7 DEF Ports!Tested
  <2>2. /\ Ports!Diff(1, 2) \in Increments /\ Ports!Diff(2, 3) \in Increments /\ Ports!Diff(3, 4) \in Increments
        /\ Halfway(Ports!Diff(1, 2)) /\ Halfway(Ports!Diff(2, 3)) /\ Halfway(Ports!Diff(3, 4))
        /\ Halfway(Ports!Halved(2, 4)) /\ Halfway(Ports!Halved(1, 3)) /\ Ports!Halved(1, 3) \in Increments
        /\ Ports!Quarter(1, 4) \in Increments
    BY <1>7, <1>3
  <2>3. /\ Ports!Unsigned(Ports!Diff(1, 2)) \in 0 .. Width - 1
        /\ Ports!Unsigned(Ports!Diff(2, 3)) \in 0 .. Width - 1
        /\ Ports!Unsigned(Ports!Diff(3, 4)) \in 0 .. Width - 1
    BY <2>2, UnsignedIs DEF Increments
  <2>4. Test(Ports!Majority(Ports!Unsigned(Ports!Diff(1, 2)), Ports!Unsigned(Ports!Diff(2, 3)),
                            Ports!Unsigned(Ports!Diff(3, 4))))
    BY <2>3, <1>0, TestVotes
  <2>5. /\ Test(Ports!Compare(Ports!Diff(1, 2), Ports!Diff(2, 3)))
        /\ Test(Ports!Compare(Ports!Diff(1, 2), Ports!Halved(2, 4)))
        /\ Test(Ports!Compare(Ports!Diff(3, 4), Ports!Halved(1, 3)))
        /\ Test(Ports!Compare(Ports!Diff(3, 4), Ports!Diff(2, 3)))
    BY <2>2, <1>0, TestCompares
  <2>6. Test(Ports!Sure(Ports!Diff(1, 2))) /\ Test(Ports!Sure(Ports!Halved(1, 3)))
    BY <2>2, <1>1
  <2>7. Ports!Diff(4, 3) \in Increments
    <3>1. Ports!Diff(4, 3) = -Ports!Diff(3, 4)
      <4>1. answers[3][2] \in Port16 /\ answers[4][2] \in Port16
        BY <1>7, MappingsAre DEF PortsInv
      <4>2. answers[3][2] \in Int /\ answers[4][2] \in Int
        BY <4>1 DEF Port16
      <4> QED BY <4>2 DEF Ports!Diff
    <3>2. PICK d \in Increments : d = Ports!Diff(3, 4)
      BY <2>2
    <3> QED BY <3>1, <3>2, WidthIs DEF Increments
  <2>8. Test(Ports!Sure(IF Ports!Same(1, 4) \/ Ports!Same(2, 4) THEN Ports!Quarter(1, 4)
                        ELSE IF Ports!Same(3, 4) THEN Ports!Diff(4, 3) ELSE 0))
    BY <2>2, <2>7, <1>1, <1>2
  <2> QED BY <2>1, <2>4, <2>5, <2>6, <2>8 DEF Ports!FromFour
<1> QED BY <1>4, <1>5, <1>6, <1>7
LEMMA PortIs ==
  ASSUME PortsInv, Len(answers) \in 1 .. 4, NEW d \in Increments
  PROVE  Ports!Port(d) \in 0 .. Width - 1
<1>1. PICK p \in Port16 : p = answers[Len(answers)][2]
  <2>1. PICK l \in 1 .. 4 : l = Len(answers)
    OBVIOUS
  <2>2. \A k \in 1 .. l : answers[k][2] \in Port16
    BY <2>1, MappingsAre DEF PortsInv
  <2>3. answers[l][2] \in Port16
    BY <2>2
  <2> QED BY <2>1, <2>3
<1>2. \A x \in Int : Ports!Unsigned(x) \in 0 .. Width - 1
  BY DivMod, WidthIs DEF Ports!Unsigned
<1>3. p + 2 * d \in Int /\ p + d \in Int /\ p \in 0 .. Width - 1
  BY WidthIs DEF Port16, Increments
<1>4. Ports!Unsigned(p + 2 * d) \in 0 .. Width - 1 /\ Ports!Unsigned(p + d) \in 0 .. Width - 1
  BY <1>2, <1>3
<1>5. CASE Len(answers) \in {1, 4}
  <2>1. PICK l \in {1, 4} : l = Len(answers)
    BY <1>5
  <2>2. Ports!Port(d) = CASE l \in {1, 4} -> p [] l = 2 -> Ports!Unsigned(p + 2 * d)
                          [] l = 3 -> Ports!Unsigned(p + d)
    BY <1>1, <2>1 DEF Ports!Port
  <2>3. Ports!Port(d) = p
    BY <2>2
  <2> QED BY <1>3, <2>3
<1>6. CASE Len(answers) = 2
  <2>1. Ports!Port(d) = Ports!Unsigned(p + 2 * d)
    BY <1>1, <1>6 DEF Ports!Port
  <2> QED BY <2>1, <1>4
<1>7. CASE Len(answers) = 3
  <2>1. Ports!Port(d) = Ports!Unsigned(p + d)
    BY <1>1, <1>7 DEF Ports!Port
  <2> QED BY <2>1, <1>4
<1> QED BY <1>5, <1>6, <1>7
-----------------------------------------------------------------------------
(* The offer: of a regular NAT the next port is among the candidates.       *)
TwoAre(s, d, e, f) == (d = s /\ e = s) \/ (d = s /\ f = s) \/ (e = s /\ f = s)
LEMMA VoteIs ==
  ASSUME NEW s, NEW d, NEW e, NEW f, TwoAre(s, d, e, f)
  PROVE  Ports!Majority(d, e, f) = Ports!Sure(s)
BY DEF Ports!Majority, TwoAre
LEMMA TurnsOnce ==
  ASSUME NEW b \in Port16, NEW s \in Nat, 4 * s < Width - 4
  PROVE  /\ TwoAre(s, Turned(b + s) - Turned(b), Turned(b + 2 * s) - Turned(b + s),
                   Turned(b + 3 * s) - Turned(b + 2 * s))
         /\ Turned(b + 4 * s) - b = 4 * s =>
              /\ Turned(b) = b /\ Turned(b + s) = b + s /\ Turned(b + 2 * s) = b + 2 * s
              /\ Turned(b + 3 * s) = b + 3 * s /\ Turned(b + 4 * s) = b + 4 * s
BY WidthIs DEF Turned, Port16, TwoAre
LEMMA FourAre ==
  ASSUME PortsInv, spc = "asking", step >= 0, Len(answers) = 4, inc = -1, Len(mapped) = 4
  PROVE  \A k \in 1 .. 4 : answers[k] = mapped[k]
<1>1. PICK f : Answers(f)
  BY DEF PortsInv, PortsAnswered
<1>2. f \in [1 .. 4 -> 1 .. 4] /\ f[1] < f[2] /\ f[2] < f[3] /\ f[3] < f[4]
  BY <1>1 DEF Answers
<1>3. f[1] \in 1 .. 4 /\ f[2] \in 1 .. 4 /\ f[3] \in 1 .. 4 /\ f[4] \in 1 .. 4
  BY <1>2
<1>4. f[1] = 1 /\ f[2] = 2 /\ f[3] = 3 /\ f[4] = 4
  BY <1>2, <1>3
<1> QED BY <1>1, <1>4 DEF Answers
LEMMA FourOfFive ==
  ASSUME PortsInv, spc = "asking", step >= 0, Len(answers) = 4, inc = -1, Len(mapped) = 5
  PROVE  \E i, j, k \in 1 .. 4 : /\ i < j /\ j < k
                                 /\ answers[1] = mapped[i] /\ answers[2] = mapped[j]
                                 /\ answers[3] = mapped[k] /\ answers[4] = mapped[5]
<1>1. PICK f : Answers(f)
  BY DEF PortsInv, PortsAnswered
<1>2. f \in [1 .. 4 -> 1 .. 5] /\ f[1] < f[2] /\ f[2] < f[3] /\ f[3] < f[4]
  BY <1>1 DEF Answers
<1>3. f[1] \in 1 .. 5 /\ f[2] \in 1 .. 5 /\ f[3] \in 1 .. 5 /\ f[4] \in 1 .. 5
  BY <1>2
<1>4. f[4] = 5
  BY <1>1 DEF Answers, Ports!Needed
<1>5. f[1] \in 1 .. 4 /\ f[2] \in 1 .. 4 /\ f[3] \in 1 .. 4
  BY <1>2, <1>3, <1>4
<1> QED BY <1>1, <1>2, <1>4, <1>5 DEF Answers

LEMMA MappedIs ==
  ASSUME PortsInv, spc # "idle", step >= 0, Len(mapped) > 0
  PROVE  \E b \in Port16, s \in Nat :
           /\ s = step /\ b = mapped[1][2] /\ Len(mapped) * s < Width - 4 /\ s < Width - 1
           /\ \A i \in 1 .. Len(mapped) : mapped[i][2] = Turned(b + (i - 1) * s)
           /\ last = mapped[Len(mapped)][2] /\ mapped # <<>>
<1>1. PICK n \in Nat : n = Len(mapped) /\ n > 0 /\ n <= Servers
  <2>1. Len(mapped) \in Nat /\ servers \in 0 .. Servers /\ Len(mapped) <= servers
    BY MappingsAre DEF PortsInv, PortsTypes, PortsCounted
  <2> QED BY <2>1, WidthIs
<1>2. PICK b \in Port16 : b = mapped[1][2]
  <2>1. 1 \in 1 .. Len(mapped)
    BY <1>1
  <2> QED BY <2>1, MappingsAre DEF PortsInv
<1>3. PICK s \in Nat : s = step
  BY DEF PortsInv, PortsTypes
<1>4. Servers * s < Width - 4
  BY <1>3 DEF PortsInv, PortsTypes
<1>5. n * s <= Servers * s /\ n * s \in Nat /\ Servers * s \in Nat /\ 1 * s <= n * s
  BY <1>1, TimesGrows, WidthIs
<1>6. n * s < Width - 4 /\ s < Width - 1
  BY <1>4, <1>5, WidthIs
<1>7. mapped # <<>>
  BY <1>1
<1> QED BY <1>1, <1>2, <1>3, <1>6, <1>7 DEF PortsInv, PortsCounted

\* Four answers of a NAT that counts on.
LEMMA FourPredict ==
  ASSUME PortsInv, spc = "asking", step >= 0, Len(answers) = 4, inc = -1,
         Len(mapped) = 4 \/ (Len(mapped) = 5 /\ last - mapped[1][2] = 4 * step),
         \A i \in DOMAIN mapped : mapped[i][1] = mapped[1][1]
  PROVE  /\ Ports!Tested = [inc |-> step, random |-> FALSE] /\ answers[4][2] = last
         /\ last \in Port16 /\ step < Width - 1
<1>1. PICK b \in Port16, s \in Nat :
           /\ s = step /\ b = mapped[1][2] /\ Len(mapped) * s < Width - 4 /\ s < Width - 1
           /\ \A i \in 1 .. Len(mapped) : mapped[i][2] = Turned(b + (i - 1) * s)
           /\ last = mapped[Len(mapped)][2]
  <2>1. Len(mapped) > 0 /\ spc # "idle"
    OBVIOUS
  <2> QED BY <2>1, MappedIs
<1>2. 4 * s < Width - 4
  <2>1. CASE Len(mapped) = 4
    BY <2>1, <1>1
  <2>2. CASE Len(mapped) = 5
    <3>1. 5 * s < Width - 4
      BY <2>2, <1>1
    <3> QED BY <3>1, WidthIs
  <2> QED BY <2>1, <2>2
<1>3. /\ mapped[1][2] = Turned(b) /\ mapped[2][2] = Turned(b + s) /\ mapped[3][2] = Turned(b + 2 * s)
      /\ mapped[4][2] = Turned(b + 3 * s)
  <2>1. /\ 1 - 1 = 0 /\ 2 - 1 = 1 /\ 3 - 1 = 2 /\ 4 - 1 = 3
        /\ b \in Nat /\ 0 * s = 0 /\ 1 * s = s
    BY DEF Port16
  <2>2. \A i \in 1 .. 4 : mapped[i][2] = Turned(b + (i - 1) * s)
    <3>1. PICK n \in {4, 5} : n = Len(mapped)
      OBVIOUS
    <3>2. \A i \in 1 .. 4 : i \in 1 .. n
      BY <3>1
    <3>3. \A i \in 1 .. n : mapped[i][2] = Turned(b + (i - 1) * s)
      BY <1>1, <3>1
    <3> QED BY <3>2, <3>3
  <2>3. /\ mapped[1][2] = Turned(b + 0 * s) /\ mapped[2][2] = Turned(b + 1 * s)
        /\ mapped[3][2] = Turned(b + 2 * s) /\ mapped[4][2] = Turned(b + 3 * s)
    BY <2>1, <2>2
  <2> QED BY <2>1, <2>3
<1>4. TwoAre(s, answers[2][2] - answers[1][2], answers[3][2] - answers[2][2], answers[4][2] - answers[3][2])
      /\ answers[4][2] = last
  <2>1. CASE Len(mapped) = 4
    <3>1. \A k \in 1 .. 4 : answers[k] = mapped[k]
      BY <2>1, FourAre
    <3>2. /\ answers[1][2] = Turned(b) /\ answers[2][2] = Turned(b + s) /\ answers[3][2] = Turned(b + 2 * s)
          /\ answers[4][2] = Turned(b + 3 * s)
      BY <3>1, <1>3
    <3>3. TwoAre(s, Turned(b + s) - Turned(b), Turned(b + 2 * s) - Turned(b + s),
                 Turned(b + 3 * s) - Turned(b + 2 * s))
      BY <1>2, TurnsOnce
    <3>4. last = mapped[4][2] /\ answers[4] = mapped[4]
      BY <3>1, <1>1, <2>1
    <3> QED BY <3>2, <3>3, <3>4
  <2>2. CASE Len(mapped) = 5 /\ last - mapped[1][2] = 4 * step
    <3>1. PICK i \in 1 .. 4, j \in 1 .. 4, k \in 1 .. 4 :
                 /\ i < j /\ j < k
                 /\ answers[1] = mapped[i] /\ answers[2] = mapped[j]
                 /\ answers[3] = mapped[k] /\ answers[4] = mapped[5]
      BY <2>2, FourOfFive
    <3>2. mapped[5][2] = Turned(b + 4 * s) /\ last = mapped[5][2]
      <4>1. b + (5 - 1) * s = b + 4 * s
        BY DEF Port16
      <4>2. mapped[5][2] = Turned(b + (5 - 1) * s)
        BY <1>1, <2>2
      <4> QED BY <4>1, <4>2, <1>1, <2>2
    <3>3. Turned(b + 4 * s) - b = 4 * s
      BY <3>2, <2>2, <1>1
    <3>4. /\ mapped[1][2] = b /\ mapped[2][2] = b + s /\ mapped[3][2] = b + 2 * s
          /\ mapped[4][2] = b + 3 * s /\ mapped[5][2] = b + 4 * s
      BY <3>2, <3>3, <1>2, <1>3, TurnsOnce
    <3>5. /\ b + s - b = s /\ b + 2 * s - (b + s) = s /\ b + 3 * s - (b + 2 * s) = s
          /\ b + 4 * s - (b + 3 * s) = s
      BY DEF Port16
    <3>6. \/ i = 1 /\ j = 2 /\ k = 3
          \/ i = 1 /\ j = 2 /\ k = 4
          \/ i = 1 /\ j = 3 /\ k = 4
          \/ i = 2 /\ j = 3 /\ k = 4
      BY <3>1
    <3>7. PICK p1 \in Int, p2 \in Int, p3 \in Int, p4 \in Int :
               /\ p1 = answers[1][2] /\ p2 = answers[2][2] /\ p3 = answers[3][2] /\ p4 = answers[4][2]
      BY MappingsAre DEF PortsInv, Port16
    <3>8. p4 = b + 4 * s /\ last = p4
      BY <3>1, <3>2, <3>4, <3>7
    <3>9. \/ p1 = b /\ p2 = b + s /\ p3 = b + 2 * s
          \/ p1 = b /\ p2 = b + s /\ p3 = b + 3 * s
          \/ p1 = b /\ p2 = b + 2 * s /\ p3 = b + 3 * s
          \/ p1 = b + s /\ p2 = b + 2 * s /\ p3 = b + 3 * s
      BY <3>1, <3>4, <3>6, <3>7
    <3>10. TwoAre(s, p2 - p1, p3 - p2, p4 - p3)
      BY <3>8, <3>9 DEF TwoAre, Port16
    <3> QED BY <3>7, <3>8, <3>10
  <2> QED BY <2>1, <2>2
<1>5. TwoAre(s, Ports!Unsigned(Ports!Diff(1, 2)), Ports!Unsigned(Ports!Diff(2, 3)),
             Ports!Unsigned(Ports!Diff(3, 4)))
  <2>1. /\ Ports!Diff(1, 2) \in Increments /\ Ports!Diff(2, 3) \in Increments /\ Ports!Diff(3, 4) \in Increments
    <3>1. \A i, j \in 1 .. 4 : i < j => Ports!Diff(i, j) \in Increments
      BY AnswersMeasure, MeasuredIs
    <3> QED BY <3>1
  <2>2. \A d \in Increments : d = s => Ports!Unsigned(d) = s
    BY UnsignedIs DEF Increments
  <2>3. TwoAre(s, Ports!Diff(1, 2), Ports!Diff(2, 3), Ports!Diff(3, 4))
    BY <1>4 DEF Ports!Diff
  <2> QED BY <2>1, <2>2, <2>3 DEF TwoAre
<1>6. Ports!Same(1, 2) /\ Ports!Same(2, 3) /\ Ports!Same(3, 4)
  <2>1. \A k \in 1 .. 4 : answers[k][1] = mapped[1][1]
    <3>1. PICK f : Answers(f)
      BY DEF PortsInv, PortsAnswered
    <3>2. DOMAIN mapped = 1 .. Len(mapped)
      BY LenProperties DEF PortsInv, PortsTypes
    <3>3. \A k \in 1 .. 4 : f[k] \in DOMAIN mapped /\ answers[k] = mapped[f[k]]
      BY <3>1, <3>2 DEF Answers
    <3> QED BY <3>3
  <2> QED BY <2>1 DEF Ports!Same
<1>7. Ports!Tested = Ports!Sure(s)
  <2>1. Ports!Tested = Ports!FromFour
    BY DEF Ports!Tested
  <2>2. Ports!FromFour = Ports!Majority(Ports!Unsigned(Ports!Diff(1, 2)), Ports!Unsigned(Ports!Diff(2, 3)),
                                        Ports!Unsigned(Ports!Diff(3, 4)))
    BY <1>6 DEF Ports!FromFour
  <2> QED BY <2>1, <2>2, <1>5, VoteIs
<1>8. random = FALSE
  BY DEF PortsInv, PortsLearned, PortsTypes
<1> QED BY <1>1, <1>4, <1>7, <1>8 DEF Ports!Sure, PortsInv, PortsTypes
\* One answer, by what was learned before or of a NAT that does not count.
LEMMA OnePredicts ==
  ASSUME PortsInv, spc = "asking", step >= 0, Len(answers) = 1, Ports!Needed = 1 \/ step = 0
  PROVE  answers[1][2] = last /\ last \in Port16 /\ step < Width - 1
<1>1. PICK f : Answers(f)
  BY DEF PortsInv, PortsAnswered
<1>2. f[1] \in 1 .. Len(mapped) /\ answers[1] = mapped[f[1]]
  BY <1>1 DEF Answers
<1>3. Len(mapped) > 0 /\ spc # "idle"
  <2>1. Len(mapped) \in Nat
    BY MappingsAre DEF PortsInv
  <2> QED BY <1>2, <2>1
<1>4. PICK b \in Port16, s \in Nat :
           /\ s = step /\ b = mapped[1][2] /\ s < Width - 1
           /\ \A i \in 1 .. Len(mapped) : mapped[i][2] = Turned(b + (i - 1) * s)
           /\ last = mapped[Len(mapped)][2]
  BY <1>3, MappedIs
<1>5. CASE Ports!Needed = 1
  <2>1. f[1] = Len(mapped)
    BY <1>1, <1>5 DEF Answers
  <2> QED BY <2>1, <1>2, <1>4 DEF PortsInv, PortsTypes
<1>6. CASE step = 0
  <2>1. PICK l \in Nat : l = Len(mapped) /\ l > 0
    BY <1>3, MappingsAre DEF PortsInv
  <2>2. \A i \in 1 .. l : b + (i - 1) * s = b
    BY <1>4, <1>6 DEF Port16
  <2>3. \A i \in 1 .. l : mapped[i][2] = Turned(b)
    BY <1>4, <2>1, <2>2
  <2> QED BY <1>2, <1>4, <2>1, <2>3 DEF PortsInv, PortsTypes
<1> QED BY <1>5, <1>6
\* What an offer is made of.
LEMMA OfferMakes ==
  ASSUME PortsInv, Ports!Offer, answers # <<>>
  PROVE  /\ Len(answers) \in 1 .. Ports!Needed /\ spc = "asking"
         /\ Ports!Needed = 1 => /\ inc' = inc /\ random' = random /\ inc # -1
                                /\ offer' = IF ~sock THEN {} ELSE Ports!Offered(answers[1][2], inc, random)
         /\ Ports!Needed = 4 => /\ inc' = Ports!Tested.inc /\ random' = Ports!Tested.random /\ inc = -1
                                /\ offer' = IF ~sock THEN {} ELSE Ports!Offered(Ports!Port(inc'), inc', random')
         /\ Ports!Needed \in {1, 4}
<1>1. Len(answers) \in Nat /\ Len(answers) # 0
  BY EmptySeq, MappingsAre DEF PortsInv, PortsTypes
<1>2. spc = "asking" /\ Len(answers) <= Ports!Needed
  BY DEF Ports!Offer, Ports!AskedAll, PortsInv, PortsAnswered
<1>3. Ports!Needed \in {1, 4} /\ (Ports!Needed = 1 => inc # -1) /\ (Ports!Needed = 4 => inc = -1)
  BY DEF Ports!Needed
<1>4. Ports!Needed = 1 => /\ inc' = inc /\ random' = random
                          /\ offer' = IF ~sock THEN {} ELSE Ports!Offered(answers[1][2], inc, random)
  BY DEF Ports!Offer
<1>5. Ports!Needed = 4 => /\ inc' = Ports!Tested.inc /\ random' = Ports!Tested.random
                          /\ offer' = IF ~sock THEN {} ELSE Ports!Offered(Ports!Port(inc'), inc', random')
  BY DEF Ports!Offer
<1> QED BY <1>1, <1>2, <1>3, <1>4, <1>5
LEMMA OfferTypes ==
  ASSUME PortsInv, Ports!Offer
  PROVE  /\ inc' \in Increments /\ random' \in BOOLEAN /\ offer' \subseteq 0 .. Width - 1
         /\ (step >= 0 /\ inc' = -1 => ~random')
<1>0. inc \in Increments /\ random \in BOOLEAN /\ offer \subseteq 0 .. Width - 1
  BY DEF PortsInv, PortsTypes, Increments
<1>1. CASE answers = <<>>
  BY <1>0, <1>1 DEF Ports!Offer, PortsInv, PortsLearned
<1>2. CASE answers # <<>> /\ Ports!Needed = 1
  <2>1. /\ inc' = inc /\ random' = random /\ inc # -1 /\ Len(answers) \in 1 .. 1
        /\ offer' = IF ~sock THEN {} ELSE Ports!Offered(answers[1][2], inc, random)
    BY <1>2, OfferMakes
  <2>2. answers[1][2] \in 0 .. Width - 1
    <3>1. 1 \in 1 .. Len(answers)
      BY <2>1
    <3>2. answers[1][2] \in Port16
      BY <3>1, MappingsAre DEF PortsInv
    <3> QED BY <3>2, WidthIs DEF Port16
  <2>3. Ports!Offered(answers[1][2], inc, random) \subseteq 0 .. Width - 1
    BY <1>0, <2>2, OfferedIs DEF Increments
  <2> QED BY <1>0, <2>1, <2>3
<1>3. CASE answers # <<>> /\ Ports!Needed = 4
  <2>1. /\ inc' = Ports!Tested.inc /\ random' = Ports!Tested.random /\ inc = -1 /\ Len(answers) \in 1 .. 4
        /\ spc = "asking"
        /\ offer' = IF ~sock THEN {} ELSE Ports!Offered(Ports!Port(inc'), inc', random')
    BY <1>3, OfferMakes
  <2>2. Test(Ports!Tested)
    BY <2>1, TestedIs
  <2>3. inc' \in Increments /\ (step >= 0 /\ inc' = -1 => ~random')
    BY <2>1, <2>2 DEF Test
  <2>4. random' \in BOOLEAN
    BY <2>1, <2>2 DEF Test
  <2>5. PICK d \in Increments, r \in BOOLEAN : d = inc' /\ r = random'
    BY <2>3, <2>4
  <2>6. Ports!Port(d) \in 0 .. Width - 1
    BY <2>1, PortIs
  <2>7. Ports!Offered(Ports!Port(d), d, r) \subseteq 0 .. Width - 1
    BY <2>6, OfferedIs DEF Increments
  <2> QED BY <2>1, <2>3, <2>4, <2>5, <2>7
<1> QED BY <1>1, <1>2, <1>3, OfferMakes
LEMMA OfferPredicts ==
  ASSUME PortsInv, Ports!Offer
  PROVE  Ports!PortPredicted'
<1>0. UNCHANGED <<mapped, answers, last, step>> /\ spc = "asking"
  BY DEF Ports!Offer, Ports!AskedAll
<1>1. Ports!NextPort(last)' = Ports!NextPort(last)
  BY <1>0 DEF Ports!NextPort
<1> SUFFICES ASSUME offer' # {}, Ports!Regular' PROVE Ports!NextPort(last) \in offer'
  BY <1>1 DEF Ports!PortPredicted
<1>2. answers # <<>>
  <2> SUFFICES ASSUME answers = <<>> PROVE FALSE
    OBVIOUS
  <2>1. offer' = offer /\ offer = {}
    BY <1>0 DEF Ports!Offer, PortsInv, PortsTypes
  <2> QED BY <2>1
<1>3. step >= 0 /\ \A i \in DOMAIN mapped : mapped[i][1] = mapped[1][1]
  BY <1>0 DEF Ports!Regular
<1>4. \/ Len(answers) = 4 /\ (Len(mapped) = 4 \/ (Len(mapped) = 5 /\ Ports!Distance' = 4 * step))
      \/ Len(answers) = 1 /\ inc' = step /\ ~random'
  BY <1>0 DEF Ports!Regular
<1>5. random' \in BOOLEAN /\ inc' \in Increments /\ step \in Int
  BY OfferTypes DEF PortsInv, PortsTypes
<1>6. CASE Len(answers) = 4
  <2>1. Ports!Needed = 4 /\ inc = -1 /\ inc' = Ports!Tested.inc /\ random' = Ports!Tested.random
        /\ offer' = Ports!Offered(Ports!Port(inc'), inc', random')
    BY <1>2, <1>6, OfferMakes
  <2>2. Len(mapped) = 4 \/ (Len(mapped) = 5 /\ last - mapped[1][2] = 4 * step)
    <3>1. Len(mapped) = 5 => Ports!Distance' = last - mapped[1][2]
      <4> SUFFICES ASSUME Len(mapped) = 5 PROVE Ports!Distance' = last - mapped[1][2]
        OBVIOUS
      <4>1. mapped # <<>>
        <5>1. Len(<<>>) = 0
          BY EmptySeq
        <5> QED BY <5>1
      <4> QED BY <4>1, <1>0 DEF Ports!Distance
    <3> QED BY <3>1, <1>4, <1>6
  <2>3. /\ Ports!Tested = [inc |-> step, random |-> FALSE] /\ answers[4][2] = last
        /\ last \in Port16 /\ step < Width - 1
    BY <1>0, <1>3, <1>6, <2>1, <2>2, FourPredict
  <2>4. inc' = step /\ random' = FALSE
    BY <2>1, <2>3
  <2>5. Ports!Port(step) = last
    <3>1. PICK l \in {4} : l = Len(answers)
      BY <1>6
    <3>2. Ports!Port(step) = CASE l \in {1, 4} -> last [] l = 2 -> Ports!Unsigned(last + 2 * step)
                               [] l = 3 -> Ports!Unsigned(last + step)
      BY <2>3, <3>1 DEF Ports!Port
    <3> QED BY <3>2
  <2>6. offer' = Ports!Offered(last, step, FALSE)
    BY <2>1, <2>4, <2>5
  <2> QED BY <2>3, <2>6, <1>3, <1>5, OfferedNext
<1>7. CASE Len(answers) = 1 /\ inc' = step /\ ~random'
  <2>0. random' = FALSE
    BY <1>5, <1>7
  <2>1. CASE Ports!Needed = 1
    <3>1. offer' = Ports!Offered(answers[1][2], step, FALSE)
      BY <2>0, <2>1, <1>2, <1>7, OfferMakes
    <3>2. answers[1][2] = last /\ last \in Port16 /\ step < Width - 1
      BY <1>0, <1>3, <1>7, <2>1, OnePredicts
    <3> QED BY <3>1, <3>2, <1>3, <1>5, OfferedNext
  <2>2. CASE Ports!Needed = 4
    <3>1. Ports!Tested = Ports!Sure(0)
      BY <1>7 DEF Ports!Tested
    <3>2. inc' = 0 /\ offer' = Ports!Offered(Ports!Port(inc'), inc', random')
      BY <3>1, <2>2, <1>2, OfferMakes DEF Ports!Sure
    <3>3. step = 0
      BY <3>2, <1>7
    <3>4. answers[1][2] = last /\ last \in Port16 /\ step < Width - 1
      BY <1>0, <1>3, <1>7, <3>3, OnePredicts
    <3>5. Ports!Port(step) = last
      <4>1. PICK l \in {1} : l = Len(answers)
        BY <1>7
      <4>2. Ports!Port(step) = CASE l \in {1, 4} -> last [] l = 2 -> Ports!Unsigned(last + 2 * step)
                                 [] l = 3 -> Ports!Unsigned(last + step)
        BY <3>4, <4>1 DEF Ports!Port
      <4> QED BY <4>2
    <3>6. offer' = Ports!Offered(last, step, FALSE)
      BY <3>2, <3>5, <2>0, <1>7
    <3> QED BY <3>4, <3>6, <1>3, <1>5, OfferedNext
  <2> QED BY <2>1, <2>2, <1>2, OfferMakes
<1> QED BY <1>4, <1>6, <1>7
-----------------------------------------------------------------------------
LEMMA PortsStart == Ports!Init => PortsInv
<1> SUFFICES ASSUME Ports!Init PROVE PortsInv OBVIOUS
<1>1. /\ spc = "idle" /\ round = 0 /\ servers = 0 /\ sock = FALSE /\ mapped = <<>> /\ late = {}
      /\ replies = <<>> /\ answers = <<>> /\ inc = -1 /\ random = FALSE /\ offer = {}
      /\ last = Width - 8 /\ step \in Steps \cup {-s : s \in Steps}
  BY DEF Ports!Init
<1>2. step \in Int /\ (step >= 0 => Servers * step < Width - 4)
  <2>1. CASE step \in Steps
    BY <2>1, PortsAssumption
  <2>2. CASE \E s \in Steps : step = -s
    <3>1. PICK s \in Steps : step = -s
      BY <2>2
    <3>2. s \in Nat /\ step = -s
      BY <3>1, PortsAssumption
    <3>3. step >= 0 => step = 0 /\ s = 0
      BY <3>2
    <3>4. Servers * 0 = 0 /\ 0 < Width - 4
      BY WidthIs
    <3> QED BY <3>2, <3>3, <3>4
  <2> QED BY <1>1, <2>1, <2>2
<1>3. /\ last \in Port16 /\ -1 \in -(Width - 1) .. Width - 1 /\ 0 \in 0 .. Rounds /\ 0 \in 0 .. Servers
  BY <1>1, WidthIs DEF Port16
<1>4. Len(mapped) = 0 /\ Len(answers) = 0 /\ mapped \in Seq(Mapping) /\ answers \in Seq(Mapping)
      /\ replies \in Seq(1 .. Len(mapped))
  BY <1>1, EmptySeq
<1>5. PortsTypes
  BY <1>1, <1>2, <1>3, <1>4 DEF PortsTypes
<1>6. PortsCounted
  BY <1>1 DEF PortsCounted
<1>7. PortsAnswered
  <2>1. PICK f : f = [k \in 1 .. 0 |-> 1]
    OBVIOUS
  <2>2. Answers(f)
    BY <1>1, <1>4, <2>1 DEF Answers
  <2> QED BY <1>1, <2>2 DEF PortsAnswered
<1>8. PortsLearned /\ Ports!PortPredicted
  BY <1>1 DEF PortsLearned, Ports!PortPredicted
<1> QED BY <1>5, <1>6, <1>7, <1>8 DEF PortsInv

\* The next mapping, and where it leads.
LEMMA RequestCounts ==
  ASSUME PortsInv, Ports!Request
  PROVE  /\ mapped' \in Seq(Mapping) /\ Len(mapped') = Len(mapped) + 1 /\ Len(mapped) \in Nat
         /\ mapped' # <<>> /\ last' \in Port16 /\ last' = mapped'[Len(mapped')][2]
         /\ \A i \in 1 .. Len(mapped) : mapped'[i] = mapped[i]
         /\ step >= 0
              => \A i \in 1 .. Len(mapped') : mapped'[i][2] = Turned(mapped'[1][2] + (i - 1) * step)
<1>1. last' = Ports!NextPort(last) /\ \E a \in Addrs : mapped' = Append(mapped, <<a, last'>>)
  BY DEF Ports!Request
<1>2. last' \in Port16 /\ last \in Port16 /\ step \in Int
  BY <1>1, NextPortIs DEF PortsInv, PortsTypes
<1>3. PICK m \in Mapping : m[2] = last' /\ mapped' = Append(mapped, m)
  BY <1>1, <1>2 DEF Mapping
<1>4. mapped \in Seq(Mapping)
  BY DEF PortsInv, PortsTypes
<1>5. PICK n \in Nat : n = Len(mapped)
  BY <1>4, LenProperties
<1>6. /\ Append(mapped, m) \in Seq(Mapping) /\ Len(Append(mapped, m)) = n + 1
      /\ \A i \in 1 .. n : Append(mapped, m)[i] = mapped[i]
      /\ Append(mapped, m)[n + 1] = m
  BY <1>4, <1>5, AppendProperties
<1>7. mapped' # <<>>
  <2>1. Len(<<>>) = 0 /\ Len(mapped') # 0
    BY <1>3, <1>5, <1>6, EmptySeq
  <2> QED BY <2>1
<1>8. ASSUME step >= 0, NEW i \in 1 .. n + 1 PROVE mapped'[i][2] = Turned(mapped'[1][2] + (i - 1) * step)
  <2>1. PICK s \in Nat : s = step
    BY <1>2, <1>8
  <2>2. CASE n = 0
    <3>1. i = 1 /\ mapped'[1] = m
      BY <2>2, <1>3, <1>6
    <3>2. m[2] + (1 - 1) * s = m[2] /\ Turned(m[2]) = m[2]
      <4>1. PICK x \in Port16 : x = m[2]
        BY <1>2, <1>3
      <4>2. (1 - 1) * s = 0
        BY <2>1
      <4>3. x + 0 = x /\ Turned(x) = x
        BY WidthIs DEF Turned, Port16
      <4> QED BY <4>1, <4>2, <4>3
    <3> QED BY <2>1, <3>1, <3>2
  <2>3. CASE n > 0
    <3>1. Len(mapped) > 0 /\ spc # "idle" /\ n = Len(mapped) /\ n + 1 <= Servers
      <4>1. Ports!Asking
        BY DEF Ports!Request
      <4>2. spc = "asking" /\ servers < Servers
        BY <4>1 DEF Ports!Asking
      <4>3. Len(mapped) <= servers /\ servers \in Nat
        BY <4>2 DEF PortsInv, PortsCounted, PortsTypes
      <4> QED BY <4>2, <4>3, <2>3, <1>5, WidthIs
    <3>2. PICK b \in Port16 :
             /\ b = mapped[1][2]
             /\ \A j \in 1 .. n : mapped[j][2] = Turned(b + (j - 1) * s)
             /\ last = mapped[n][2] /\ s < Width - 1
      BY <3>1, <2>1, <1>8, MappedIs
    <3>3. mapped'[1] = mapped[1]
      BY <2>3, <1>3, <1>6
    <3>4. CASE i \in 1 .. n
      BY <3>4, <3>2, <3>3, <2>1, <1>3, <1>6
    <3>5. CASE i = n + 1
      <4>1. mapped'[i][2] = Turned(last + s)
        BY <3>5, <3>2, <2>1, <1>1, <1>2, <1>3, <1>6, NextPortIs
      <4>2. PICK x \in Nat : x = (n - 1) * s /\ n * s = x + s
        <5>1. n - 1 \in Nat
          BY <2>3
        <5>2. (n - 1) * s \in Nat /\ n * s = (n - 1) * s + s
          BY <5>1
        <5> QED BY <5>2
      <4>3. x + s < Width - 4
        <5>1. n * s <= Servers * s /\ n * s \in Nat /\ Servers * s \in Nat
          BY <3>1, <1>5, TimesGrows, WidthIs
        <5>2. Servers * s < Width - 4
          BY <2>1, <1>8 DEF PortsInv, PortsTypes
        <5> QED BY <5>1, <5>2, <4>2, WidthIs
      <4>4. last = Turned(b + x)
        BY <3>2, <4>2, <2>3
      <4>5. Turned(Turned(b + x) + s) = Turned(b + x + s)
        BY <4>3, WidthIs DEF Turned, Port16
      <4>6. (i - 1) * s = x + s /\ b + (i - 1) * s = b + x + s
        BY <3>5, <4>2 DEF Port16
      <4> QED BY <4>1, <4>4, <4>5, <4>6, <3>2, <3>3, <2>1
    <3> QED BY <3>4, <3>5
  <2> QED BY <2>2, <2>3
<1>9. step >= 0 => \A i \in 1 .. Len(mapped') : mapped'[i][2] = Turned(mapped'[1][2] + (i - 1) * step)
  BY <1>3, <1>6, <1>8
<1> QED BY <1>2, <1>3, <1>5, <1>6, <1>7, <1>9

LEMMA PortsTypesStep == PortsInv /\ Ports!Next => PortsTypes'
<1> SUFFICES ASSUME PortsInv, Ports!Next PROVE PortsTypes' OBVIOUS
<1>0. /\ spc \in {"idle", "asking", "waiting"} /\ round \in 0 .. Rounds /\ servers \in 0 .. Servers
      /\ sock \in BOOLEAN /\ random \in BOOLEAN /\ inc \in -(Width - 1) .. Width - 1
      /\ mapped \in Seq(Mapping) /\ answers \in Seq(Mapping)
      /\ late \subseteq 1 .. Len(mapped) /\ replies \in Seq(1 .. Len(mapped))
      /\ offer \subseteq 0 .. Width - 1 /\ (spc # "idle" => offer = {})
      /\ last \in Port16 /\ step \in Int
      /\ step >= 0 => Servers * step < Width - 4
  BY DEF PortsInv, PortsTypes
<1>1. CASE Ports!Begin
  <2>1. /\ round' = round + 1 /\ round < Rounds /\ spc' \in {"asking", "idle"} /\ sock' = TRUE /\ servers' = 0
        /\ mapped' = <<>> /\ late' = {} /\ replies' = <<>> /\ answers' = <<>> /\ offer' = {}
        /\ UNCHANGED <<inc, random, last, step>>
    BY <1>1 DEF Ports!Begin
  <2>2. round' \in 0 .. Rounds /\ servers' \in 0 .. Servers
    BY <1>0, <2>1, WidthIs
  <2>3. mapped' \in Seq(Mapping) /\ answers' \in Seq(Mapping) /\ replies' \in Seq(1 .. Len(mapped'))
    BY <2>1, EmptySeq
  <2> QED BY <1>0, <2>1, <2>2, <2>3 DEF PortsTypes
<1>2. CASE Ports!Unresolved \/ Ports!SendFails
  <2>1. /\ servers' = servers + 1 /\ servers < Servers /\ sock' \in {sock, FALSE}
        /\ UNCHANGED <<spc, round, mapped, late, replies, answers, inc, random, offer, last, step>>
    BY <1>2 DEF Ports!Unresolved, Ports!SendFails, Ports!Asking
  <2>2. servers' \in 0 .. Servers
    BY <1>0, <2>1, WidthIs
  <2>3. sock' \in BOOLEAN
    BY <1>0, <2>1, Zenon
  <2> QED BY <1>0, <2>1, <2>2, <2>3 DEF PortsTypes
<1>3. CASE Ports!Request
  <2>1. /\ servers' = servers + 1 /\ servers < Servers /\ spc = "asking" /\ spc' = "waiting"
        /\ late' = {i \in late : i + Delay > Len(mapped)} \cup {Len(mapped')}
        /\ UNCHANGED <<round, sock, replies, answers, inc, random, offer, step>>
    BY <1>3 DEF Ports!Request, Ports!Asking
  <2>2. servers' \in 0 .. Servers
    BY <1>0, <2>1, WidthIs
  <2>3. /\ mapped' \in Seq(Mapping) /\ Len(mapped') = Len(mapped) + 1 /\ Len(mapped) \in Nat
        /\ last' \in Port16
    BY <1>3, RequestCounts
  <2>4. 1 .. Len(mapped) \subseteq 1 .. Len(mapped') /\ Len(mapped') \in 1 .. Len(mapped')
    BY <2>3
  <2>5. late' \subseteq 1 .. Len(mapped')
    <3>1. late' \subseteq late \cup {Len(mapped')}
      BY <2>1
    <3> QED BY <3>1, <1>0, <2>4
  <2>6. replies' \in Seq(1 .. Len(mapped'))
    <3>1. \A S, T : S \subseteq T => Seq(S) \subseteq Seq(T)
      OBVIOUS
    <3> QED BY <3>1, <1>0, <2>1, <2>4
  <2> QED BY <1>0, <2>1, <2>2, <2>3, <2>5, <2>6 DEF PortsTypes
<1>4. CASE Ports!Arrives
  <2>1. /\ UNCHANGED <<spc, round, servers, sock, mapped, answers, inc, random, offer, last, step>>
        /\ \E i \in late : replies' = Append(replies, i) /\ late' = late \ {i}
    BY <1>4 DEF Ports!Arrives
  <2>2. PICK i \in 1 .. Len(mapped) : replies' = Append(replies, i) /\ late' = late \ {i}
    BY <1>0, <2>1
  <2>3. replies' \in Seq(1 .. Len(mapped'))
    BY <1>0, <2>1, <2>2, AppendProperties
  <2> QED BY <1>0, <2>1, <2>2, <2>3 DEF PortsTypes
<1>5. CASE Ports!Receive
  <2>1. /\ UNCHANGED <<round, servers, sock, mapped, late, inc, random, offer, last, step>>
        /\ spc = "waiting" /\ replies # <<>> /\ spc' = "asking" /\ replies' = Tail(replies)
        /\ answers' = IF Head(replies) = Len(mapped) THEN Append(answers, mapped[Head(replies)]) ELSE answers
    BY <1>5 DEF Ports!Receive, Ports!Accepted
  <2>2. replies' \in Seq(1 .. Len(mapped')) /\ Head(replies) \in 1 .. Len(mapped)
    BY <1>0, <2>1, HeadTailProperties
  <2>3. mapped[Head(replies)] \in Mapping
    BY <2>2, MappingsAre DEF PortsInv
  <2>4. answers' \in Seq(Mapping)
    BY <1>0, <2>1, <2>3, AppendProperties
  <2> QED BY <1>0, <2>1, <2>2, <2>4 DEF PortsTypes
<1>6. CASE Ports!NoReply
  <2>1. /\ UNCHANGED <<round, servers, sock, mapped, late, replies, answers, inc, random, offer, last, step>>
        /\ spc = "waiting" /\ spc' = "asking"
    BY <1>6 DEF Ports!NoReply
  <2> QED BY <1>0, <2>1 DEF PortsTypes
<1>7. CASE Ports!Offer
  <2>1. /\ UNCHANGED <<round, sock, mapped, answers, last, step>> /\ spc' = "idle"
        /\ late' = {} /\ replies' = <<>> /\ servers' = 0
    BY <1>7 DEF Ports!Offer
  <2>2. replies' \in Seq(1 .. Len(mapped')) /\ servers' \in 0 .. Servers
    BY <2>1, EmptySeq, WidthIs
  <2>3. inc' \in -(Width - 1) .. Width - 1 /\ random' \in BOOLEAN /\ offer' \subseteq 0 .. Width - 1
    BY <1>7, OfferTypes DEF Increments
  <2> QED BY <1>0, <2>1, <2>2, <2>3 DEF PortsTypes
<1> QED BY <1>1, <1>2, <1>3, <1>4, <1>5, <1>6, <1>7 DEF Ports!Next

LEMMA PortsAnsweredStep == PortsInv /\ Ports!Next => PortsAnswered'
<1> SUFFICES ASSUME PortsInv, Ports!Next PROVE PortsAnswered' OBVIOUS
<1>0. PICK f : Answers(f)
  BY DEF PortsInv, PortsAnswered
<1>n. PICK n \in Nat, l \in Nat : n = Len(answers) /\ l = Len(mapped)
  BY MappingsAre DEF PortsInv
<1>f. /\ f \in [1 .. n -> 1 .. l] /\ \A k \in 1 .. n : answers[k] = mapped[f[k]]
      /\ \A j, k \in 1 .. n : j < k => f[j] < f[k]
  BY <1>0, <1>n DEF Answers
<1>1. CASE Ports!Begin
  <2>1. mapped' = <<>> /\ answers' = <<>> /\ spc' \in {"asking", "idle"}
    BY <1>1 DEF Ports!Begin
  <2>2. Len(mapped') = 0 /\ Len(answers') = 0
    BY <2>1, EmptySeq
  <2>3. PICK g : g = [k \in 1 .. 0 |-> 1]
    OBVIOUS
  <2>4. Ports!Needed' # 0 /\ 0 <= Ports!Needed'
    BY DEF Ports!Needed
  <2>5. Answers(g)'
    BY <2>1, <2>2, <2>3, <2>4 DEF Answers
  <2> QED BY <2>1, <2>2, <2>4, <2>5 DEF PortsAnswered
<1>2. CASE Ports!Unresolved \/ Ports!SendFails \/ Ports!Arrives
  <2>1. UNCHANGED <<spc, mapped, answers, inc>>
    BY <1>2 DEF Ports!Unresolved, Ports!SendFails, Ports!Arrives
  <2>2. Ports!Needed' = Ports!Needed
    BY <2>1 DEF Ports!Needed
  <2>3. Answers(f)'
    BY <1>0, <2>1, <2>2 DEF Answers
  <2> QED BY <2>1, <2>2, <2>3 DEF PortsAnswered, PortsInv
<1>3. CASE Ports!Request
  <2>1. UNCHANGED <<answers, inc>> /\ spc' = "waiting" /\ Len(answers) < Ports!Needed
    BY <1>3 DEF Ports!Request, Ports!Asking
  <2>2. Len(mapped') = l + 1 /\ mapped' # <<>> /\ \A i \in 1 .. l : mapped'[i] = mapped[i]
    BY <1>3, <1>n, RequestCounts
  <2>3. Ports!Needed' = Ports!Needed /\ Ports!Needed \in Nat
    BY <2>1 DEF Ports!Needed
  <2>4. f \in [1 .. n -> 1 .. l + 1] /\ \A k \in 1 .. n : f[k] < l + 1 /\ answers[k] = mapped'[f[k]]
    BY <1>f, <2>2
  <2>5. Answers(f)'
    BY <1>f, <1>n, <2>1, <2>2, <2>3, <2>4 DEF Answers
  <2> QED BY <1>n, <2>1, <2>2, <2>3, <2>5 DEF PortsAnswered
<1>4. CASE Ports!Receive
  <2>1. /\ UNCHANGED <<mapped, inc>> /\ spc = "waiting" /\ spc' = "asking"
        /\ answers' = IF Head(replies) = Len(mapped) THEN Append(answers, mapped[Head(replies)]) ELSE answers
    BY <1>4 DEF Ports!Receive, Ports!Accepted
  <2>2. Ports!Needed' = Ports!Needed /\ Ports!Needed \in Nat /\ n < Ports!Needed
    BY <1>n, <2>1 DEF Ports!Needed, PortsInv, PortsAnswered
  <2>3. \A k \in 1 .. n : f[k] < l
    BY <1>0, <1>n, <2>1 DEF Answers
  <2>4. CASE answers' = answers
    <3>1. Answers(f)'
      BY <1>f, <1>n, <2>1, <2>2, <2>4 DEF Answers
    <3> QED BY <1>n, <2>1, <2>2, <2>4, <3>1 DEF PortsAnswered
  <2>5. CASE answers' = Append(answers, mapped[l])
    <3>1. l \in 1 .. l
      <4>1. mapped # <<>>
        BY <2>1 DEF PortsInv, PortsAnswered
      <4>2. l # 0
        BY <4>1, <1>n, EmptySeq DEF PortsInv, PortsTypes
      <4> QED BY <4>2
    <3>2. /\ Len(answers') = n + 1 /\ answers'[n + 1] = mapped[l]
          /\ \A k \in 1 .. n : answers'[k] = answers[k]
      <4>1. PICK m \in Mapping : m = mapped[l]
        BY <3>1, <1>n, MappingsAre DEF PortsInv
      <4>2. answers \in Seq(Mapping)
        BY DEF PortsInv, PortsTypes
      <4> QED BY <4>1, <4>2, <2>5, <1>n, AppendProperties
    <3>3. PICK g : g = [k \in 1 .. n + 1 |-> IF k <= n THEN f[k] ELSE l]
      OBVIOUS
    <3>4. g \in [1 .. n + 1 -> 1 .. l] /\ g[n + 1] = l /\ \A k \in 1 .. n : g[k] = f[k]
      BY <3>1, <3>3, <1>f
    <3>5. \A k \in 1 .. n + 1 : answers'[k] = mapped[g[k]]
      <4> SUFFICES ASSUME NEW k \in 1 .. n + 1 PROVE answers'[k] = mapped[g[k]]
        OBVIOUS
      <4>1. k \in 1 .. n \/ k = n + 1
        OBVIOUS
      <4> QED BY <4>1, <3>2, <3>4, <1>f
    <3>6. \A j, k \in 1 .. n + 1 : j < k => g[j] < g[k]
      <4> SUFFICES ASSUME NEW j \in 1 .. n + 1, NEW k \in 1 .. n + 1, j < k PROVE g[j] < g[k]
        OBVIOUS
      <4>1. j \in 1 .. n /\ (k \in 1 .. n \/ k = n + 1)
        OBVIOUS
      <4> QED BY <4>1, <3>4, <1>f, <2>3
    <3>7. Answers(g)'
      BY <1>n, <2>1, <2>2, <3>2, <3>4, <3>5, <3>6 DEF Answers
    <3>8. n + 1 <= Ports!Needed
      BY <2>2
    <3> QED BY <2>1, <2>2, <3>2, <3>7, <3>8 DEF PortsAnswered
  <2> QED BY <1>n, <2>1, <2>4, <2>5
<1>5. CASE Ports!NoReply
  <2>1. /\ UNCHANGED <<mapped, inc, answers>> /\ spc = "waiting" /\ spc' = "asking"
    BY <1>5 DEF Ports!NoReply
  <2>2. Ports!Needed' = Ports!Needed /\ Ports!Needed \in Nat /\ n < Ports!Needed
    BY <1>n, <2>1 DEF Ports!Needed, PortsInv, PortsAnswered
  <2>3. Answers(f)'
    BY <1>f, <1>n, <2>1, <2>2 DEF Answers
  <2> QED BY <1>n, <2>1, <2>2, <2>3 DEF PortsAnswered
<1>6. CASE Ports!Offer
  <2>1. UNCHANGED <<mapped, answers>> /\ spc' = "idle"
    BY <1>6 DEF Ports!Offer
  <2>2. Answers(f)'
    BY <1>f, <1>n, <2>1 DEF Answers
  <2> QED BY <2>1, <2>2 DEF PortsAnswered
<1> QED BY <1>1, <1>2, <1>3, <1>4, <1>5, <1>6 DEF Ports!Next

LEMMA PortsStep == PortsInv /\ Ports!Next => PortsInv'
<1> SUFFICES ASSUME PortsInv, Ports!Next PROVE PortsInv' OBVIOUS
<1>1. PortsTypes' /\ PortsAnswered'
  BY PortsTypesStep, PortsAnsweredStep
<1>2. PortsCounted'
  <2>1. CASE Ports!Begin
    BY <2>1 DEF Ports!Begin, PortsCounted
  <2>2. CASE Ports!Unresolved \/ Ports!SendFails
    <3>1. servers' = servers + 1 /\ UNCHANGED <<spc, mapped, last, step>> /\ spc = "asking"
      BY <2>2 DEF Ports!Unresolved, Ports!SendFails, Ports!Asking
    <3>2. Len(mapped) <= servers /\ Len(mapped) \in Nat /\ servers \in Nat
      BY <3>1, MappingsAre DEF PortsInv, PortsCounted, PortsTypes
    <3> QED BY <3>1, <3>2 DEF PortsInv, PortsCounted
  <2>3. CASE Ports!Request
    <3>1. servers' = servers + 1 /\ UNCHANGED step /\ spc = "asking"
      BY <2>3 DEF Ports!Request, Ports!Asking
    <3>2. Len(mapped) <= servers /\ Len(mapped) \in Nat /\ servers \in Nat
      BY <3>1, MappingsAre DEF PortsInv, PortsCounted, PortsTypes
    <3>3. Len(mapped') <= servers'
      BY <3>1, <3>2, <2>3, RequestCounts
    <3> QED BY <2>3, <3>1, <3>3, RequestCounts DEF PortsCounted
  <2>4. CASE Ports!Arrives \/ Ports!Receive \/ Ports!NoReply
    <3>1. UNCHANGED <<mapped, last, step, servers>> /\ spc' # "idle" /\ spc # "idle"
      BY <2>4 DEF Ports!Arrives, Ports!Receive, Ports!NoReply
    <3> QED BY <3>1 DEF PortsInv, PortsCounted
  <2>5. CASE Ports!Offer
    <3>1. UNCHANGED <<mapped, last, step>> /\ spc' = "idle"
      BY <2>5 DEF Ports!Offer
    <3> QED BY <3>1 DEF PortsInv, PortsCounted
  <2> QED BY <2>1, <2>2, <2>3, <2>4, <2>5 DEF Ports!Next
<1>3. CASE Ports!Offer
  <2>1. UNCHANGED step
    BY <1>3 DEF Ports!Offer
  <2> QED BY <1>1, <1>2, <1>3, <2>1, OfferTypes, OfferPredicts DEF PortsInv, PortsLearned
<1>4. CASE ~Ports!Offer
  <2>1. UNCHANGED <<inc, random, step>> /\ (spc' # "idle" \/ offer' = {})
    <3>1. CASE Ports!Begin
      BY <3>1 DEF Ports!Begin
    <3>2. CASE ~Ports!Begin
      BY <3>2, <1>4 DEF Ports!Next, Ports!Unresolved, Ports!SendFails, Ports!Request, Ports!Arrives,
         Ports!Receive, Ports!NoReply, Ports!Asking
    <3> QED BY <3>1, <3>2
  <2> QED BY <1>1, <1>2, <2>1 DEF PortsInv, PortsLearned, Ports!PortPredicted
<1> QED BY <1>3, <1>4
LEMMA PortsStays == PortsInv /\ UNCHANGED predicting => PortsInv'
<1> SUFFICES ASSUME PortsInv, UNCHANGED predicting PROVE PortsInv' OBVIOUS
<1>0. UNCHANGED <<spc, round, servers, sock, mapped, late, replies, answers, inc, random, offer, last, step>>
  BY DEF predicting
<1>1. PortsTypes'
  BY <1>0 DEF PortsInv, PortsTypes
<1>2. PortsCounted' /\ PortsLearned'
  BY <1>0 DEF PortsInv, PortsCounted, PortsLearned
<1>3. PortsAnswered'
  <2>1. PICK f : Answers(f)
    BY DEF PortsInv, PortsAnswered
  <2>2. Ports!Needed' = Ports!Needed
    BY <1>0 DEF Ports!Needed
  <2>3. Answers(f)'
    BY <1>0, <2>1, <2>2 DEF Answers
  <2> QED BY <1>0, <2>2, <2>3 DEF PortsInv, PortsAnswered
<1>4. Ports!PortPredicted'
  BY <1>0 DEF PortsInv, Ports!PortPredicted, Ports!Regular, Ports!Distance, Ports!NextPort
<1> QED BY <1>1, <1>2, <1>3, <1>4 DEF PortsInv
LEMMA PortsSafe == PortsInv => Ports!TypeOK /\ Ports!PortPredicted
<1> SUFFICES ASSUME PortsInv PROVE Ports!TypeOK /\ Ports!PortPredicted OBVIOUS
<1>1. last \in Ports!Ports
  BY DEF PortsInv, PortsTypes, Port16, Ports!Ports
<1>2. Len(answers) <= Ports!Needed \/ spc = "idle"
  BY DEF PortsInv, PortsAnswered
<1> QED BY <1>1, <1>2 DEF PortsInv, PortsTypes, Ports!TypeOK
-----------------------------------------------------------------------------
(* The elements of a sequence at some positions, in their order: f lists the *)
(* positions I from the least to the greatest.                              *)
Ranks(f, m, I) ==
  /\ f \in [1 .. m -> I]
  /\ \A i, j \in 1 .. m : i < j => f[i] < f[j]
  /\ \A x \in I : \E j \in 1 .. m : f[j] = x

LEMMA RanksOneMore ==
  ASSUME NEW n \in Nat, NEW I \in SUBSET (1 .. n + 1), n + 1 \in I,
         NEW m \in 0 .. n, NEW f, Ranks(f, m, I \ {n + 1})
  PROVE  \E g : Ranks(g, m + 1, I)
<1> DEFINE g == [i \in 1 .. m + 1 |-> IF i = m + 1 THEN n + 1 ELSE f[i]]
<1>1. /\ \A i \in 1 .. m : f[i] \in I /\ f[i] \in 1 .. n
      /\ \A i, j \in 1 .. m : i < j => f[i] < f[j]
      /\ \A x \in I : x # n + 1 => \E j \in 1 .. m : f[j] = x
  <2>1. \A x \in I \ {n + 1} : x \in I /\ x \in 1 .. n
    OBVIOUS
  <2> QED BY <2>1 DEF Ranks
<1>2. /\ \A i \in 1 .. m : g[i] = f[i] /\ i \in 1 .. m + 1
      /\ g[m + 1] = n + 1 /\ m + 1 \in 1 .. m + 1
      /\ \A i \in 1 .. m + 1 : i \in 1 .. m \/ i = m + 1
      /\ g = [i \in 1 .. m + 1 |-> g[i]]
  OBVIOUS
<1> HIDE DEF g
<1>3. g \in [1 .. m + 1 -> I]
  <2>1. \A i \in 1 .. m + 1 : g[i] \in I
    BY <1>1, <1>2
  <2> QED BY <1>2, <2>1
<1>4. ASSUME NEW i \in 1 .. m + 1, NEW j \in 1 .. m + 1, i < j PROVE g[i] < g[j]
  <2>1. i \in 1 .. m
    BY <1>4
  <2>2. CASE j \in 1 .. m
    BY <1>1, <1>2, <1>4, <2>1, <2>2
  <2>3. CASE j = m + 1
    <3>1. PICK x \in 1 .. n : x = f[i]
      BY <1>1, <2>1
    <3>2. g[i] = x /\ g[j] = n + 1
      BY <1>2, <2>1, <2>3, <3>1
    <3>3. x < n + 1
      OBVIOUS
    <3> QED BY <3>2, <3>3
  <2> QED BY <1>2, <2>2, <2>3
<1>5. \A x \in I : \E j \in 1 .. m + 1 : g[j] = x
  BY <1>1, <1>2
<1> QED BY <1>3, <1>4, <1>5 DEF Ranks

LEMMA Ranked ==
  ASSUME NEW n \in Nat, NEW I \in SUBSET (1 .. n)
  PROVE  \E m \in 0 .. n : \E f : Ranks(f, m, I)
<1> DEFINE S == {k \in Nat : \A J \in SUBSET (1 .. k) : \E m \in 0 .. k : \E f : Ranks(f, m, J)}
<1>1. 0 \in S
  <2>1. ASSUME NEW J \in SUBSET (1 .. 0) PROVE Ranks([i \in 1 .. 0 |-> i], 0, J)
    BY DEF Ranks
  <2> QED BY <2>1
<1>2. ASSUME NEW k \in Nat, k \in S PROVE k + 1 \in S
  <2> SUFFICES ASSUME NEW J \in SUBSET (1 .. k + 1)
               PROVE  \E m \in 0 .. k + 1 : \E f : Ranks(f, m, J)
    OBVIOUS
  <2>1. J \ {k + 1} \in SUBSET (1 .. k)
    OBVIOUS
  <2>2. PICK m \in 0 .. k : \E f : Ranks(f, m, J \ {k + 1})
    BY <1>2, <2>1
  <2>3. PICK f : Ranks(f, m, J \ {k + 1})
    BY <2>2
  <2>4. CASE k + 1 \in J
    <3>1. \E g : Ranks(g, m + 1, J)
      BY <2>3, <2>4, RanksOneMore
    <3> QED BY <3>1
  <2>5. CASE k + 1 \notin J
    <3>1. J \ {k + 1} = J /\ m \in 0 .. k + 1
      BY <2>5
    <3> QED BY <2>3, <3>1
  <2> QED BY <2>4, <2>5
<1>3. n \in S
  <2> HIDE DEF S
  <2> QED BY <1>1, <1>2, SetInduction
<1> QED BY <1>3

LEMMA RanksMany ==
  ASSUME NEW n \in Nat, NEW I \in SUBSET (1 .. n)
  PROVE  /\ Cardinality(I) \in 0 .. n /\ IsFiniteSet(I)
         /\ \E f : Ranks(f, Cardinality(I), I)
         /\ \A f \in [1 .. Cardinality(I) -> I] :
              (\A i, j \in 1 .. Cardinality(I) : i < j => f[i] < f[j])
                => Ranks(f, Cardinality(I), I)
<1>0. PICK m \in 0 .. n : \E f : Ranks(f, m, I)
  BY Ranked
<1>1. PICK f : Ranks(f, m, I)
  BY <1>0
<1>2. \A g : g \in [1 .. m -> I] /\ (\A i, j \in 1 .. m : i < j => g[i] < g[j]) => g \in Injection(1 .. m, I)
  <2> SUFFICES ASSUME NEW g \in [1 .. m -> I], \A i, j \in 1 .. m : i < j => g[i] < g[j],
                      NEW i \in 1 .. m, NEW j \in 1 .. m, g[i] = g[j]
               PROVE  i = j
    BY DEF Injection, IsInjective
  <2>1. g[i] \in 1 .. n /\ g[j] \in 1 .. n
    OBVIOUS
  <2>2. ~(i < j) /\ ~(j < i)
    BY <2>1
  <2> QED BY <2>2
<1>3. f \in Bijection(1 .. m, I)
  BY <1>1, <1>2 DEF Ranks, Bijection, Surjection
<1>4. IsFiniteSet(1 .. m) /\ Cardinality(1 .. m) = m
  BY FS_Interval
<1>5. IsFiniteSet(I) /\ Cardinality(I) = m
  BY <1>3, <1>4, FS_Bijection DEF ExistsBijection
<1>6. ASSUME NEW g \in [1 .. m -> I], \A i, j \in 1 .. m : i < j => g[i] < g[j]
      PROVE  Ranks(g, m, I)
  <2>1. g \in Injection(1 .. m, I)
    BY <1>2, <1>6
  <2>2. g \in Surjection(1 .. m, I)
    BY <1>4, <1>5, <2>1, FS_Injection
  <2> QED BY <1>6, <2>2 DEF Ranks, Surjection
<1> QED BY <1>1, <1>5, <1>6

LEMMA LenOfFunction ==
  ASSUME NEW V, NEW m \in Nat, NEW r \in [1 .. m -> V]
  PROVE  r \in Seq(V) /\ Len(r) = m
<1>2. r \in Seq(V)
  <2>1. Seq(V) = UNION {[1 .. k -> V] : k \in Nat}
    BY SeqDef
  <2>2. [1 .. m -> V] \in {[1 .. k -> V] : k \in Nat}
    BY Zenon
  <2>3. r \in UNION {[1 .. k -> V] : k \in Nat}
    BY <2>2, Zenon
  <2> QED BY <2>1, <2>3, Zenon
<1>3. PICK l \in Nat : l = Len(r) /\ 1 .. l = 1 .. m
  <2>1. DOMAIN r = 1 .. m
    OBVIOUS
  <2>2. Len(r) \in Nat /\ DOMAIN r = 1 .. Len(r)
    BY <1>2, LenProperties
  <2> QED BY <2>1, <2>2
<1>4. l = m
  <2>1. (l > m => l \in 1 .. l) /\ (m > l => m \in 1 .. m)
    BY <1>3
  <2> QED BY <1>3, <2>1
<1> QED BY <1>2, <1>3, <1>4

(* What a sequence becomes when only the elements at some positions are left.*)
Listing(m, I) == CHOOSE f \in [1 .. m -> I] : \A i, j \in DOMAIN f : i < j => f[i] < f[j]
Left(s, m, g) == [j \in 1 .. m |-> s[g[j]]]
LEMMA LeftIs ==
  ASSUME NEW V, NEW s \in Seq(V), NEW I \in SUBSET (1 .. Len(s)),
         NEW m, m = Cardinality(I), NEW g,
         g = Listing(m, I), NEW r, r = Left(s, m, g)
  PROVE  /\ m \in 0 .. Len(s) /\ Ranks(g, m, I)
         /\ r \in Seq(V) /\ Len(r) = m
         /\ \A j \in 1 .. m : r[j] = s[g[j]] /\ g[j] \in I /\ g[j] \in 1 .. Len(s)
<1>1. PICK n \in Nat : n = Len(s)
  BY LenProperties
<1>2. /\ m \in 0 .. n
      /\ \E f : Ranks(f, m, I)
      /\ \A f \in [1 .. m -> I] : (\A i, j \in 1 .. m : i < j => f[i] < f[j]) => Ranks(f, m, I)
  BY <1>1, RanksMany
<1>3. /\ g \in [1 .. m -> I]
      /\ \A i, j \in DOMAIN g : i < j => g[i] < g[j]
  <2>1. \E f \in [1 .. m -> I] : \A i, j \in DOMAIN f : i < j => f[i] < f[j]
    BY <1>2 DEF Ranks
  <2> QED BY <2>1 DEF Listing
<1>4. Ranks(g, m, I)
  BY <1>2, <1>3
<1>5. \A j \in 1 .. m : g[j] \in I /\ g[j] \in 1 .. n /\ s[g[j]] \in V
  <2>1. \A i \in 1 .. n : s[i] \in V
    BY <1>1, ElementOfSeq
  <2>2. \A i \in I : i \in 1 .. n
    BY <1>1
  <2> QED BY <1>3, <2>1, <2>2
<1>6. r \in [1 .. m -> V] /\ \A j \in 1 .. m : r[j] = s[g[j]]
  BY <1>5 DEF Left
<1>7. r \in Seq(V) /\ Len(r) = m
  <2>1. m \in Nat
    BY <1>2
  <2> QED BY <1>6, <2>1, LenOfFunction
<1> QED BY <1>1, <1>2, <1>4, <1>5, <1>6, <1>7
-----------------------------------------------------------------------------
(* Discovery.  Of the list of hosts: each is there once, only the first may  *)
(* be late, and the application was told this list; of the threads: the     *)
(* discovery thread is over when the service is, and answers are new.       *)
HostsOnce == \A i, j \in 1 .. Len(hosts) : hosts[i].id = hosts[j].id => i = j
HostsListed ==
  /\ hosts \in Seq(Hosts!Hosts) /\ Len(hosts) <= HostsMax
  /\ HostsOnce /\ Hosts!SilentDropped /\ listed = Hosts!Shown(hosts)
HostsThreads ==
  /\ servicePc \in {"off", "waiting", "stopping", "done"} /\ dpc \in {"off", "running", "done"}
  /\ stop \in BOOLEAN /\ quit \in BOOLEAN /\ fini \in {"no", "joining", "done"}
  /\ air \subseteq Hosts!Hosts /\ \A h \in air : h.missed = 0
  /\ Hosts!EndsClean
  /\ servicePc = "off" => dpc = "off"
  /\ servicePc = "done" => dpc \in {"off", "done"}
HostsInv == HostsListed /\ HostsThreads

LEMMA HostsSize == \A S : Hosts!Cardinality(S) = Cardinality(S)
BY DEF Cardinality, Hosts!Cardinality

LEMMA HostIs ==
  ASSUME HostsListed, NEW i \in 1 .. Len(hosts)
  PROVE  /\ hosts[i] \in Hosts!Hosts
         /\ hosts[i].id \in Ids /\ hosts[i].details \in Details
         /\ hosts[i].missed \in 0 .. DropPings + 2
         /\ hosts[i].missed <= DropPings + (IF i = 1 THEN 1 ELSE 0)
         /\ hosts[i] = [id |-> hosts[i].id, details |-> hosts[i].details, missed |-> hosts[i].missed]
<1>1. hosts[i] \in Hosts!Hosts
  BY ElementOfSeq DEF HostsListed
<1>2. hosts[i].missed <= DropPings + (IF i = 1 THEN 1 ELSE 0)
  BY DEF HostsListed, Hosts!SilentDropped
<1> QED BY <1>1, <1>2 DEF Hosts!Hosts

LEMMA HostsSafe == HostsInv => Hosts!TypeOK /\ Hosts!DiscoverySound
<1> SUFFICES ASSUME HostsInv PROVE Hosts!TypeOK /\ Hosts!DiscoverySound OBVIOUS
<1>1. PICK n \in Nat : n = Len(hosts)
  BY LenProperties DEF HostsInv, HostsListed
<1>2. Hosts!Cardinality({hosts[i].id : i \in 1 .. Len(hosts)}) = Len(hosts)
  <2> DEFINE T == {hosts[i].id : i \in 1 .. n}
             f == [i \in 1 .. n |-> hosts[i].id]
  <2>1. \A i, j \in 1 .. n : f[i] = f[j] => i = j
    BY <1>1 DEF HostsInv, HostsListed, HostsOnce
  <2>2. f \in Bijection(1 .. n, T)
    <3>1. \A i \in 1 .. n : f[i] = hosts[i].id /\ hosts[i].id \in T
      OBVIOUS
    <3>2. f \in [1 .. n -> T]
      BY <3>1
    <3>3. \A t \in T : \E i \in 1 .. n : f[i] = t
      BY <3>1
    <3>4. f \in Injection(1 .. n, T)
      <4> HIDE DEF f, T
      <4> QED BY <2>1, <3>2 DEF Injection, IsInjective
    <3> HIDE DEF f, T
    <3> QED BY <3>4, <3>2, <3>3 DEF Bijection, Surjection
  <2>3. IsFiniteSet(1 .. n) /\ Cardinality(1 .. n) = n
    <3>1. /\ 1 \in Int /\ n \in Int
          /\ (IF 1 > n THEN 0 ELSE n - 1 + 1) = n
      OBVIOUS
    <3> QED BY <3>1, FS_Interval
  <2> HIDE DEF f, T
  <2>4. Cardinality(T) = n
    BY <2>2, <2>3, FS_Bijection DEF ExistsBijection
  <2>5. Hosts!Cardinality(T) = n
    BY <2>4, HostsSize
  <2> QED BY <1>1, <2>5 DEF T
<1>3. Hosts!ListReported
  BY <1>2 DEF HostsInv, HostsListed, Hosts!ListReported
<1>4. Hosts!TypeOK
  BY DEF HostsInv, HostsListed, HostsThreads, Hosts!TypeOK
<1> QED BY <1>3, <1>4 DEF HostsInv, HostsListed, HostsThreads, Hosts!DiscoverySound

LEMMA NoHosts ==
  ASSUME hosts' = <<>>, listed' = <<>> PROVE HostsListed'
<1>1. hosts' \in Seq(Hosts!Hosts) /\ Len(hosts') = 0
  BY EmptySeq
<1>2. Hosts!Shown(hosts)' = <<>>
  <2>1. 1 .. Len(hosts') = 1 .. 0
    BY <1>1
  <2> QED BY <2>1 DEF Hosts!Shown
<1>3. HostsOnce' /\ Hosts!SilentDropped'
  BY <1>1 DEF HostsOnce, Hosts!SilentDropped
<1>4. Hosts!Hosts' = Hosts!Hosts
  BY DEF Hosts!Hosts
<1> QED BY <1>1, <1>2, <1>3, <1>4, ServiceAssumption DEF HostsListed

LEMMA NoHostsYet ==
  ASSUME hosts = <<>>, listed = <<>> PROVE HostsListed
<1>1. hosts \in Seq(Hosts!Hosts) /\ Len(hosts) = 0
  BY EmptySeq
<1>2. Hosts!Shown(hosts) = <<>>
  <2>1. 1 .. Len(hosts) = 1 .. 0
    BY <1>1
  <2> QED BY <2>1 DEF Hosts!Shown
<1>3. HostsOnce /\ Hosts!SilentDropped
  BY <1>1 DEF HostsOnce, Hosts!SilentDropped
<1> QED BY <1>1, <1>2, <1>3, ServiceAssumption DEF HostsListed

LEMMA HostsStart == Hosts!Init => HostsInv
<1> SUFFICES ASSUME Hosts!Init PROVE HostsInv OBVIOUS
<1>1. HostsListed
  BY NoHostsYet DEF Hosts!Init
<1>2. HostsThreads
  BY DEF Hosts!Init, HostsThreads, Hosts!EndsClean
<1> QED BY <1>1, <1>2 DEF HostsInv
LEMMA ListedStays == ASSUME HostsListed, UNCHANGED <<hosts, listed>> PROVE HostsListed'
<1>1. Hosts!Shown(hosts)' = Hosts!Shown(hosts) /\ Hosts!Hosts' = Hosts!Hosts
  BY DEF Hosts!Shown, Hosts!Hosts
<1>2. HostsOnce' /\ Hosts!SilentDropped'
  BY DEF HostsListed, HostsOnce, Hosts!SilentDropped
<1> QED BY <1>1, <1>2 DEF HostsListed

(* A new list is as it has to be when what it holds is.                     *)
LEMMA ListedBy ==
  ASSUME NEW n \in Nat, hosts' \in Seq(Hosts!Hosts), Len(hosts') = n, n <= HostsMax,
         \A i, j \in 1 .. n : hosts'[i].id = hosts'[j].id => i = j,
         \A i \in 1 .. n : hosts'[i].missed <= DropPings + (IF i = 1 THEN 1 ELSE 0),
         listed' = Hosts!Shown(hosts')
  PROVE  HostsListed'
<1>1. Hosts!Shown(hosts)' = Hosts!Shown(hosts') /\ Hosts!Hosts' = Hosts!Hosts
  BY DEF Hosts!Shown, Hosts!Hosts
<1>2. HostsOnce'
  BY DEF HostsOnce
<1>3. Hosts!SilentDropped'
  BY DEF Hosts!SilentDropped
<1> QED BY <1>1, <1>2, <1>3 DEF HostsListed

LEMMA HostsPing == ASSUME HostsListed, Hosts!Ping PROVE HostsListed'
<1> DEFINE aged == [i \in 1 .. Len(hosts) |-> [hosts[i] EXCEPT !.missed = @ + 1]]
<1>1. /\ hosts' = Hosts!Kept(aged)
      /\ listed' = IF hosts' # aged THEN Hosts!Shown(hosts') ELSE listed
  BY DEF Hosts!Ping
<1>2. PICK n \in Nat : n = Len(hosts) /\ n <= HostsMax
  BY LenProperties DEF HostsListed
<1>3. ASSUME NEW i \in 1 .. n
      PROVE  /\ aged[i] \in Hosts!Hosts
             /\ aged[i].id = hosts[i].id /\ aged[i].details = hosts[i].details
             /\ aged[i].missed <= DropPings + (IF i = 1 THEN 2 ELSE 1)
  <2>1. PICK h \in Hosts!Hosts : h = hosts[i] /\ h.missed <= DropPings + (IF i = 1 THEN 1 ELSE 0)
    BY <1>2, HostIs
  <2>2. PICK k \in 0 .. DropPings + 2 : k = h.missed
    BY <2>1 DEF Hosts!Hosts
  <2>3. k + 1 \in 0 .. DropPings + 2 /\ k + 1 <= DropPings + (IF i = 1 THEN 2 ELSE 1)
    BY <2>1, <2>2, ServiceAssumption
  <2>4. aged[i] = [h EXCEPT !.missed = k + 1]
    BY <1>2, <2>1, <2>2
  <2>5. [h EXCEPT !.missed = k + 1] = [id |-> h.id, details |-> h.details, missed |-> k + 1]
    BY <2>1 DEF Hosts!Hosts
  <2>6. h.id \in Ids /\ h.details \in Details
    BY <2>1 DEF Hosts!Hosts
  <2> HIDE DEF aged
  <2> QED BY <2>1, <2>3, <2>4, <2>5, <2>6 DEF Hosts!Hosts
<1>4. aged \in Seq(Hosts!Hosts) /\ Len(aged) = n
  <2>1. aged = [i \in 1 .. n |-> aged[i]]
    BY <1>2
  <2> HIDE DEF aged
  <2>2. aged \in [1 .. n -> Hosts!Hosts]
    BY <1>3, <2>1
  <2> QED BY <2>2, LenOfFunction
<1> HIDE DEF aged
<1> DEFINE I == {i \in 1 .. Len(aged) : Hosts!Fresh(aged[i]) \/ (i = 2 /\ ~Hosts!Fresh(aged[1]))}
           m == Hosts!Cardinality(I)
           g == Hosts!InOrder(I)
           r == Left(aged, m, g)
<1>5. hosts' = r
  BY <1>1 DEF Hosts!Kept, Hosts!At, Left
<1>6. /\ m = Cardinality(I)
      /\ g = Listing(m, I)
  BY HostsSize DEF Hosts!InOrder, Listing
<1>7. /\ m \in 0 .. n /\ Ranks(g, m, I) /\ r \in Seq(Hosts!Hosts) /\ Len(r) = m
      /\ \A j \in 1 .. m : r[j] = aged[g[j]] /\ g[j] \in I /\ g[j] \in 1 .. n
  <2>1. I \in SUBSET (1 .. Len(aged))
    OBVIOUS
  <2> HIDE DEF I, m, g, r
  <2>2. r = Left(aged, m, g)
    BY DEF r
  <2> QED BY <1>4, <1>6, <2>1, <2>2, LeftIs
<1>8. ASSUME NEW j \in 1 .. m
      PROVE  /\ g[j] \in 1 .. n /\ r[j] = aged[g[j]]
             /\ Hosts!Fresh(aged[g[j]]) \/ (g[j] = 2 /\ ~Hosts!Fresh(aged[1]))
  <2>1. g[j] \in I /\ g[j] \in 1 .. n /\ r[j] = aged[g[j]]
    BY <1>7
  <2> QED BY <2>1
<1>9. 1 \in I => 1 <= n /\ Hosts!Fresh(aged[1])
  BY <1>4
<1>10. \A i, j \in 1 .. m : i < j => g[i] < g[j] /\ g[i] \in I
  BY <1>7 DEF Ranks
<1> HIDE DEF I, m, g, r
<1>11. ASSUME NEW i \in 1 .. m, NEW j \in 1 .. m, r[i].id = r[j].id PROVE i = j
  <2>1. hosts[g[i]].id = hosts[g[j]].id /\ g[i] \in 1 .. n /\ g[j] \in 1 .. n
    BY <1>3, <1>8, <1>11
  <2>2. g[i] = g[j]
    BY <1>2, <2>1 DEF HostsListed, HostsOnce
  <2>3. ~(i < j) /\ ~(j < i)
    BY <1>10, <2>1, <2>2
  <2> QED BY <1>7, <2>3
<1>12. ASSUME NEW j \in 1 .. m PROVE r[j].missed <= DropPings + (IF j = 1 THEN 1 ELSE 0)
  <2>1. PICK x \in 1 .. n : x = g[j]
    BY <1>8
  <2>2. PICK k \in Nat : k = aged[x].missed /\ k <= DropPings + (IF x = 1 THEN 2 ELSE 1)
    <3>1. aged[x] \in Hosts!Hosts /\ aged[x].missed <= DropPings + (IF x = 1 THEN 2 ELSE 1)
      BY <1>3
    <3> QED BY <3>1, ServiceAssumption DEF Hosts!Hosts
  <2>3. CASE Hosts!Fresh(aged[x])
    <3>1. k <= DropPings
      BY <2>2, <2>3 DEF Hosts!Fresh
    <3> QED BY <1>8, <2>1, <2>2, <3>1, ServiceAssumption
  <2>4. CASE x = 2 /\ ~Hosts!Fresh(aged[1])
    <3>1. 1 \notin I
      BY <1>9, <2>4
    <3>2. j = 1
      <4>1. SUFFICES ASSUME j # 1 PROVE FALSE
        OBVIOUS
      <4>2. 1 \in 1 .. m /\ 1 < j
        BY <1>7, <4>1
      <4>3. g[1] < x /\ g[1] \in I /\ g[1] \in 1 .. n
        BY <1>8, <1>10, <2>1, <4>2
      <4>4. g[1] = 1
        BY <2>4, <4>3
      <4> QED BY <3>1, <4>3, <4>4
    <3> QED BY <1>8, <2>1, <2>2, <2>4, <3>2, ServiceAssumption
  <2> QED BY <1>8, <2>1, <2>3, <2>4
<1>13. listed' = Hosts!Shown(hosts')
  <2>1. CASE hosts' # aged
    BY <1>1, <2>1
  <2>2. CASE hosts' = aged
    <3>1. listed' = Hosts!Shown(hosts)
      BY <1>1, <2>2 DEF HostsListed
    <3>2. Hosts!Shown(aged) = Hosts!Shown(hosts)
      BY <1>2, <1>3, <1>4 DEF Hosts!Shown
    <3> QED BY <2>2, <3>1, <3>2
  <2> QED BY <2>1, <2>2
<1> QED
  <2>1. m \in Nat /\ m <= HostsMax
    BY <1>2, <1>7, ServiceAssumption
  <2> QED BY <1>5, <1>7, <1>11, <1>12, <1>13, <2>1, ListedBy
LEMMA HostsHear == ASSUME HostsInv, Hosts!HostReceived PROVE HostsListed'
<1>1. PICK h \in air :
        /\ hosts' = IF Hosts!Index(h.id) # {}
                    THEN [i \in 1 .. Len(hosts) |-> IF i \in Hosts!Index(h.id) THEN h ELSE hosts[i]]
                    ELSE IF Len(hosts) = HostsMax THEN hosts
                    ELSE Append(hosts, h)
        /\ listed' = IF Hosts!Shown(hosts') # Hosts!Shown(hosts) THEN Hosts!Shown(hosts') ELSE listed
  BY DEF Hosts!HostReceived
<1>2. h \in Hosts!Hosts /\ h.missed = 0 /\ h.id \in Ids
  BY DEF HostsInv, HostsThreads, Hosts!Hosts
<1>3. HostsListed /\ hosts \in Seq(Hosts!Hosts)
  BY DEF HostsInv, HostsListed
<1>4. PICK n \in Nat : n = Len(hosts) /\ n <= HostsMax
  BY <1>3, LenProperties DEF HostsListed
<1>5. listed' = Hosts!Shown(hosts')
  BY <1>1, <1>3 DEF HostsListed
<1>6. /\ \A i \in 1 .. n : hosts[i] \in Hosts!Hosts
      /\ \A i \in 1 .. n : hosts[i].missed <= DropPings + (IF i = 1 THEN 1 ELSE 0)
      /\ \A i, j \in 1 .. n : hosts[i].id = hosts[j].id => i = j
  BY <1>3, <1>4, HostIs DEF HostsListed, HostsOnce
<1>7. \A i \in Nat : h.missed <= DropPings + (IF i = 1 THEN 1 ELSE 0)
  BY <1>2, ServiceAssumption
<1>8. CASE Hosts!Index(h.id) # {}
  <2> DEFINE X == Hosts!Index(h.id)
             r == [i \in 1 .. n |-> IF i \in X THEN h ELSE hosts[i]]
  <2>1. \A i \in 1 .. n : i \in X <=> hosts[i].id = h.id
    BY <1>4 DEF Hosts!Index
  <2>2. hosts' = r
    BY <1>1, <1>4, <1>8
  <2> HIDE DEF X
  <2>3. ASSUME NEW i \in 1 .. n
        PROVE  /\ r[i] \in Hosts!Hosts /\ r[i].id = hosts[i].id
               /\ r[i].missed <= DropPings + (IF i = 1 THEN 1 ELSE 0)
    <3>1. CASE i \in X
      BY <1>2, <1>7, <2>1, <3>1
    <3>2. CASE i \notin X
      BY <1>6, <3>2
    <3> QED BY <3>1, <3>2
  <2>4. r \in [1 .. n -> Hosts!Hosts]
    <3>1. r = [i \in 1 .. n |-> r[i]]
      OBVIOUS
    <3> HIDE DEF r
    <3> QED BY <2>3, <3>1
  <2> HIDE DEF r
  <2>5. r \in Seq(Hosts!Hosts) /\ Len(r) = n
    BY <2>4, LenOfFunction
  <2>6. \A i, j \in 1 .. n : r[i].id = r[j].id => i = j
    BY <1>6, <2>3
  <2> QED BY <1>4, <1>5, <2>2, <2>3, <2>5, <2>6, ListedBy
<1>9. CASE Hosts!Index(h.id) = {} /\ Len(hosts) = HostsMax
  <2>1. hosts' = hosts
    BY <1>1, <1>9
  <2> QED BY <1>3, <1>4, <1>5, <1>6, <2>1, ListedBy
<1>10. CASE Hosts!Index(h.id) = {} /\ Len(hosts) # HostsMax
  <2>1. PICK r : r = Append(hosts, h) /\ hosts' = r
    BY <1>1, <1>10
  <2>2. /\ r \in Seq(Hosts!Hosts) /\ Len(r) = n + 1
        /\ \A i \in 1 .. n : r[i] = hosts[i]
        /\ r[n + 1] = h
    BY <1>2, <1>3, <1>4, <2>1, AppendProperties
  <2>3. \A i \in 1 .. n : hosts[i].id # h.id
    BY <1>4, <1>10 DEF Hosts!Index
  <2>4. n + 1 <= HostsMax /\ n + 1 \in Nat /\ \A i \in 1 .. n + 1 : i \in 1 .. n \/ i = n + 1
    BY <1>4, <1>10, ServiceAssumption
  <2>5. ASSUME NEW i \in 1 .. n + 1, NEW j \in 1 .. n + 1, r[i].id = r[j].id PROVE i = j
    <3>1. CASE i \in 1 .. n /\ j \in 1 .. n
      BY <1>6, <2>2, <2>5, <3>1
    <3>2. CASE i = n + 1 \/ j = n + 1
      <4>1. i \in 1 .. n => r[i].id # h.id
        BY <2>2, <2>3
      <4>2. j \in 1 .. n => r[j].id # h.id
        BY <2>2, <2>3
      <4> QED BY <2>2, <2>4, <2>5, <3>2, <4>1, <4>2
    <3> QED BY <2>4, <3>1, <3>2
  <2>6. ASSUME NEW i \in 1 .. n + 1 PROVE r[i].missed <= DropPings + (IF i = 1 THEN 1 ELSE 0)
    <3>1. CASE i \in 1 .. n
      BY <1>6, <2>2, <3>1
    <3>2. CASE i = n + 1
      BY <1>7, <2>2, <3>2
    <3> QED BY <2>4, <3>1, <3>2
  <2> QED BY <1>5, <2>1, <2>2, <2>4, <2>5, <2>6, ListedBy
<1> QED BY <1>8, <1>9, <1>10

LEMMA HostsListedStep == ASSUME HostsInv, Hosts!Next PROVE HostsListed'
<1>1. HostsListed
  BY DEF HostsInv
<1>2. CASE Hosts!Ping
  BY <1>1, <1>2, HostsPing
<1>3. CASE Hosts!HostReceived
  BY <1>3, HostsHear
<1>4. CASE Hosts!FiniJoin
  BY <1>4, NoHosts DEF Hosts!FiniJoin
<1>5. CASE Hosts!Start \/ Hosts!LoopEnds \/ Hosts!ServiceDone \/ Hosts!Respond \/ Hosts!DiscoveryDone
           \/ Hosts!FiniStop
  <2>1. UNCHANGED <<hosts, listed>>
    BY <1>5 DEF Hosts!Start, Hosts!LoopEnds, Hosts!ServiceDone, Hosts!Respond, Hosts!DiscoveryDone,
                Hosts!FiniStop
  <2> QED BY <1>1, <2>1, ListedStays
<1> QED BY <1>2, <1>3, <1>4, <1>5 DEF Hosts!Next

LEMMA HostsThreadsStep == ASSUME HostsInv, Hosts!Next PROVE HostsThreads'
<1> USE DEF HostsInv, HostsThreads, Hosts!EndsClean
<1>0. Hosts!Hosts' = Hosts!Hosts
  BY DEF Hosts!Hosts
<1>1. CASE Hosts!Start
  BY <1>0, <1>1 DEF Hosts!Start
<1>2. CASE Hosts!Ping
  <2>1. UNCHANGED <<servicePc, dpc, stop, fini, air, quit>>
    BY <1>2 DEF Hosts!Ping
  <2> QED BY <1>0, <2>1
<1>3. CASE Hosts!LoopEnds
  BY <1>0, <1>3 DEF Hosts!LoopEnds
<1>4. CASE Hosts!ServiceDone
  BY <1>0, <1>4 DEF Hosts!ServiceDone
<1>5. CASE Hosts!Respond
  <2>1. UNCHANGED <<servicePc, dpc, stop, fini, quit>>
    BY <1>5 DEF Hosts!Respond
  <2>2. air' \subseteq Hosts!Hosts /\ \A h \in air' : h.missed = 0
    <3>1. PICK id \in Ids, d \in Details : air' = {[id |-> id, details |-> d, missed |-> 0]}
      BY <1>5 DEF Hosts!Respond
    <3>2. 0 \in 0 .. DropPings + 2
      BY ServiceAssumption
    <3> QED BY <3>1, <3>2 DEF Hosts!Hosts
  <2> QED BY <1>0, <2>1, <2>2
<1>6. CASE Hosts!HostReceived
  <2>1. UNCHANGED <<servicePc, dpc, stop, fini, quit>> /\ air' = {}
    BY <1>6 DEF Hosts!HostReceived
  <2> QED BY <1>0, <2>1
<1>7. CASE Hosts!DiscoveryDone
  BY <1>0, <1>7 DEF Hosts!DiscoveryDone
<1>8. CASE Hosts!FiniStop
  BY <1>0, <1>8 DEF Hosts!FiniStop
<1>9. CASE Hosts!FiniJoin
  BY <1>0, <1>9 DEF Hosts!FiniJoin
<1> QED BY <1>1, <1>2, <1>3, <1>4, <1>5, <1>6, <1>7, <1>8, <1>9 DEF Hosts!Next

LEMMA HostsStep == HostsInv /\ Hosts!Next => HostsInv'
BY HostsListedStep, HostsThreadsStep DEF HostsInv

LEMMA HostsStays == HostsInv /\ UNCHANGED hosting => HostsInv'
<1> SUFFICES ASSUME HostsInv, UNCHANGED hosting PROVE HostsInv' OBVIOUS
<1>1. UNCHANGED <<servicePc, dpc, stop, fini, hosts, listed, air, quit>>
  BY DEF hosting
<1>2. HostsListed'
  BY <1>1, ListedStays DEF HostsInv
<1>3. HostsThreads'
  <2>1. Hosts!Hosts' = Hosts!Hosts
    BY DEF Hosts!Hosts
  <2> QED BY <1>1, <2>1 DEF HostsInv, HostsThreads, Hosts!EndsClean
<1> QED BY <1>2, <1>3 DEF HostsInv
-----------------------------------------------------------------------------
(* The exchanges of Rudp.  A part of a datagram belongs to a step of a      *)
(* connection, and the steps have an order; what is under way is in that    *)
(* order, in the socket first and then in the requests.                     *)
Parts4 == (1 .. Connections) \X (1 .. 4)
Rank(p) == 4 * p[1] + p[2]
Sorted(q) == \A i, j \in 1 .. Len(q) : i <= j => Rank(q[i]) <= Rank(q[j])
Before(d, e) == \A a \in 1 .. Len(d), b \in 1 .. Len(e) : Rank(d[a]) <= Rank(e[b])
Within(d, lo, hi) == \A a \in 1 .. Len(d) : lo <= Rank(d[a]) /\ Rank(d[a]) <= hi
Flow(b, q, lo, hi) ==
  /\ b \in Seq(Seq(Parts4)) /\ q \in Seq(Parts4) /\ Sorted(q)
  /\ \A i, j \in 1 .. Len(b) : i < j => Before(b[i], b[j])
  /\ \A i \in 1 .. Len(b) : Before(b[i], q) /\ Within(b[i], lo, hi)
  /\ Within(q, lo, hi)

LEMMA RankType ==
  ASSUME NEW p \in Parts4
  PROVE  p[1] \in 1 .. Connections /\ p[2] \in 1 .. 4 /\ Rank(p) \in Nat /\ Rank(p) = 4 * p[1] + p[2]
<1>1. Connections \in Nat
  BY LinkAssumption
<1> QED BY <1>1 DEF Parts4, Rank

LEMMA RankOf ==
  ASSUME NEW s \in Seq(Parts4), NEW i \in 1 .. Len(s)
  PROVE  s[i] \in Parts4 /\ Rank(s[i]) \in Nat
<1>1. s[i] \in Parts4
  BY ElementOfSeq
<1> QED BY <1>1, RankType

LEMMA FlowWiden ==
  ASSUME NEW b, NEW q, NEW lo \in Int, NEW hi \in Int, NEW lo2 \in Int, NEW hi2 \in Int,
         Flow(b, q, lo, hi), lo2 <= lo, hi <= hi2
  PROVE  Flow(b, q, lo2, hi2)
<1>1. ASSUME NEW d \in Seq(Parts4), Within(d, lo, hi) PROVE Within(d, lo2, hi2)
  <2> SUFFICES ASSUME NEW a \in 1 .. Len(d) PROVE lo2 <= Rank(d[a]) /\ Rank(d[a]) <= hi2
    BY DEF Within
  <2>1. PICK r \in Nat : r = Rank(d[a])
    BY RankOf
  <2>2. lo <= r /\ r <= hi
    BY <1>1, <2>1 DEF Within
  <2> QED BY <2>1, <2>2
<1>2. \A i \in 1 .. Len(b) : b[i] \in Seq(Parts4)
  BY ElementOfSeq DEF Flow
<1> QED BY <1>1, <1>2 DEF Flow

LEMMA FlowAsk ==
  ASSUME NEW b, NEW q, NEW lo \in Int, NEW hi \in Int, lo <= hi,
         NEW p \in Parts4, Rank(p) = hi, Flow(b, q, lo, hi)
  PROVE  Flow(b, Append(q, p), lo, hi)
<1>1. PICK n \in Nat : n = Len(q)
  BY LenProperties DEF Flow
<1>2. PICK r : r = Append(q, p)
  OBVIOUS
<1>3. /\ r \in Seq(Parts4) /\ Len(r) = n + 1
      /\ \A i \in 1 .. n : r[i] = q[i]
      /\ r[n + 1] = p
  BY <1>1, <1>2, AppendProperties DEF Flow
<1>4. \A i \in 1 .. n + 1 : i \in 1 .. n \/ i = n + 1
  BY <1>1
<1>5. \A i \in 1 .. n : lo <= Rank(r[i]) /\ Rank(r[i]) <= hi
  BY <1>1, <1>3 DEF Flow, Within
<1>6. Within(r, lo, hi)
  BY <1>3, <1>4, <1>5 DEF Within
<1>7. Sorted(r)
  <2> SUFFICES ASSUME NEW i \in 1 .. n + 1, NEW j \in 1 .. n + 1, i <= j
               PROVE  Rank(r[i]) <= Rank(r[j])
    BY <1>3 DEF Sorted
  <2>1. CASE j \in 1 .. n
    <3>1. i \in 1 .. n
      BY <2>1
    <3> QED BY <1>1, <1>3, <2>1, <3>1 DEF Flow, Sorted
  <2>2. CASE j = n + 1
    <3>1. Rank(r[j]) = hi
      BY <1>3, <2>2
    <3>2. Rank(r[i]) <= hi
      BY <1>3, <1>4, <1>5
    <3> QED BY <3>1, <3>2
  <2> QED BY <1>4, <2>1, <2>2
<1>8. ASSUME NEW i \in 1 .. Len(b) PROVE Before(b[i], r)
  <2> SUFFICES ASSUME NEW x \in 1 .. Len(b[i]), NEW y \in 1 .. n + 1
               PROVE  Rank(b[i][x]) <= Rank(r[y])
    BY <1>3 DEF Before
  <2>1. CASE y \in 1 .. n
    BY <1>1, <1>3, <2>1 DEF Flow, Before
  <2>2. CASE y = n + 1
    <3>1. Rank(b[i][x]) <= hi
      BY DEF Flow, Within
    <3> QED BY <1>3, <2>2, <3>1
  <2> QED BY <1>4, <2>1, <2>2
<1>9. Flow(b, r, lo, hi)
  BY <1>3, <1>6, <1>7, <1>8 DEF Flow
<1> QED BY <1>2, <1>9

(* A datagram that is taken: what it holds comes before what is left.       *)
LEMMA FlowTake ==
  ASSUME NEW b, NEW q, NEW lo \in Int, NEW hi \in Int, Flow(b, q, lo, hi), b # <<>>
  PROVE  /\ Head(b) \in Seq(Parts4) /\ Within(Head(b), lo, hi)
         /\ Flow(Tail(b), q, lo, hi)
         /\ \A x \in 1 .. Len(Head(b)) : Flow(Tail(b), q, Rank(Head(b)[x]), hi)
<1>1. PICK n \in Nat : n = Len(b)
  BY LenProperties DEF Flow
<1>2. n > 0
  BY <1>1, EmptySeq DEF Flow
<1>3. PICK d, t : d = Head(b) /\ t = Tail(b)
  OBVIOUS
<1>4. /\ d \in Seq(Parts4) /\ t \in Seq(Seq(Parts4)) /\ Len(t) = n - 1
      /\ \A i \in 1 .. n - 1 : t[i] = b[i + 1]
      /\ d = b[1]
  BY <1>1, <1>3, HeadTailProperties DEF Flow
<1>5. \A i \in 1 .. n - 1 : i + 1 \in 1 .. n /\ 1 < i + 1 /\ t[i] = b[i + 1]
  BY <1>4
<1>6. 1 \in 1 .. n
  BY <1>2
<1>7. Within(d, lo, hi)
  BY <1>1, <1>4, <1>6 DEF Flow
<1>8. \A i, j \in 1 .. n - 1 : i < j => Before(t[i], t[j])
  BY <1>1, <1>5 DEF Flow
<1>9. \A i \in 1 .. n - 1 : Before(t[i], q) /\ Within(t[i], lo, hi) /\ Before(d, t[i])
  BY <1>1, <1>4, <1>5, <1>6 DEF Flow
<1>10. Flow(t, q, lo, hi)
  BY <1>4, <1>8, <1>9 DEF Flow
<1>11. ASSUME NEW x \in 1 .. Len(d) PROVE Flow(t, q, Rank(d[x]), hi)
  <2>1. Within(q, Rank(d[x]), hi)
    <3>1. Before(d, q)
      BY <1>1, <1>4, <1>6 DEF Flow
    <3> QED BY <3>1 DEF Flow, Within, Before
  <2>2. ASSUME NEW i \in 1 .. n - 1 PROVE Within(t[i], Rank(d[x]), hi)
    BY <1>9 DEF Within, Before
  <2> QED BY <1>4, <1>8, <1>9, <2>1, <2>2 DEF Flow
<1> QED BY <1>3, <1>4, <1>7, <1>10, <1>11

(* A request that is answered, alone or together with the next.             *)
LEMMA FlowTail ==
  ASSUME NEW b, NEW q, NEW lo \in Int, NEW hi \in Int, Flow(b, q, lo, hi), q # <<>>
  PROVE  /\ Flow(b, Tail(q), lo, hi) /\ Head(q) \in Parts4
         /\ Within(Tail(q), Rank(Head(q)), hi)
         /\ Len(q) > 1
              => /\ q[2] \in Parts4 /\ Within(Tail(q), Rank(q[2]), hi)
                 /\ Rank(Head(q)) <= Rank(q[2])
                 /\ \A i \in 1 .. Len(b) : \A x \in 1 .. Len(b[i]) : Rank(b[i][x]) <= Rank(q[2])
                 /\ lo <= Rank(q[2]) /\ Rank(q[2]) <= hi
         /\ \A i \in 1 .. Len(b) : \A x \in 1 .. Len(b[i]) : Rank(b[i][x]) <= Rank(Head(q))
         /\ lo <= Rank(Head(q)) /\ Rank(Head(q)) <= hi
<1>1. PICK n \in Nat : n = Len(q)
  BY LenProperties DEF Flow
<1>2. n > 0
  BY <1>1, EmptySeq DEF Flow
<1>3. PICK p, t : p = Head(q) /\ t = Tail(q)
  OBVIOUS
<1>4. /\ p \in Parts4 /\ t \in Seq(Parts4) /\ Len(t) = n - 1
      /\ \A i \in 1 .. n - 1 : t[i] = q[i + 1]
      /\ p = q[1]
  BY <1>1, <1>3, HeadTailProperties DEF Flow
<1>5. \A i \in 1 .. n - 1 : i + 1 \in 1 .. n /\ 1 <= i + 1 /\ t[i] = q[i + 1]
  BY <1>4
<1>6. 1 \in 1 .. n
  BY <1>2
<1>7. /\ \A i, j \in 1 .. n : i <= j => Rank(q[i]) <= Rank(q[j])
      /\ \A i \in 1 .. n : lo <= Rank(q[i]) /\ Rank(q[i]) <= hi
      /\ \A i \in 1 .. Len(b) : \A x \in 1 .. Len(b[i]) : \A j \in 1 .. n : Rank(b[i][x]) <= Rank(q[j])
  BY <1>1 DEF Flow, Sorted, Within, Before
<1>8. Sorted(t)
  <2>1. \A i, j \in 1 .. n - 1 : i <= j => i + 1 <= j + 1
    OBVIOUS
  <2> QED BY <1>4, <1>5, <1>7, <2>1 DEF Sorted
<1>9. Within(t, lo, hi) /\ \A i \in 1 .. Len(b) : Before(b[i], t)
  BY <1>4, <1>5, <1>7 DEF Within, Before
<1>10. Flow(b, t, lo, hi)
  BY <1>4, <1>8, <1>9 DEF Flow
<1>11. Within(t, Rank(p), hi)
  BY <1>4, <1>5, <1>6, <1>7 DEF Within
<1>12. ASSUME n > 1
       PROVE  /\ q[2] \in Parts4 /\ Within(t, Rank(q[2]), hi) /\ Rank(p) <= Rank(q[2])
              /\ \A i \in 1 .. Len(b) : \A x \in 1 .. Len(b[i]) : Rank(b[i][x]) <= Rank(q[2])
              /\ lo <= Rank(q[2]) /\ Rank(q[2]) <= hi
  <2>1. 2 \in 1 .. n /\ \A i \in 1 .. n - 1 : 2 <= i + 1
    BY <1>12
  <2>2. q[2] \in Parts4
    BY <1>1, <2>1, ElementOfSeq DEF Flow
  <2> QED BY <1>4, <1>5, <1>6, <1>7, <2>1, <2>2 DEF Within
<1> QED BY <1>1, <1>3, <1>4, <1>6, <1>7, <1>10, <1>11, <1>12

(* A datagram that arrives, after those before it.                          *)
LEMMA FlowArrives ==
  ASSUME NEW b, NEW q, NEW lo \in Int, NEW hi \in Int, Flow(b, q, lo, hi),
         NEW d \in Seq(Parts4), Within(d, lo, hi), Before(d, q),
         \A i \in 1 .. Len(b) : Before(b[i], d)
  PROVE  Flow(Append(b, d), q, lo, hi)
<1>1. PICK n \in Nat : n = Len(b)
  BY LenProperties DEF Flow
<1>2. PICK r : r = Append(b, d)
  OBVIOUS
<1>3. /\ r \in Seq(Seq(Parts4)) /\ Len(r) = n + 1
      /\ \A i \in 1 .. n : r[i] = b[i]
      /\ r[n + 1] = d
  BY <1>1, <1>2, AppendProperties DEF Flow
<1>4. \A i \in 1 .. n + 1 : i \in 1 .. n \/ i = n + 1
  BY <1>1
<1>5. ASSUME NEW i \in 1 .. n + 1, NEW j \in 1 .. n + 1, i < j PROVE Before(r[i], r[j])
  <2>1. i \in 1 .. n
    BY <1>5
  <2>2. CASE j \in 1 .. n
    BY <1>1, <1>3, <1>5, <2>1, <2>2 DEF Flow
  <2>3. CASE j = n + 1
    BY <1>1, <1>3, <2>1, <2>3
  <2> QED BY <1>4, <2>2, <2>3
<1>6. ASSUME NEW i \in 1 .. n + 1 PROVE Before(r[i], q) /\ Within(r[i], lo, hi)
  <2>1. CASE i \in 1 .. n
    BY <1>1, <1>3, <2>1 DEF Flow
  <2>2. CASE i = n + 1
    BY <1>3, <2>2
  <2> QED BY <1>4, <2>1, <2>2
<1>7. Flow(r, q, lo, hi)
  BY <1>3, <1>5, <1>6 DEF Flow
<1> QED BY <1>2, <1>7
(* What is under way answers no step before the one that was finished last; *)
(* a connection may begin without the last step of the one before.          *)
Lowest4(c, s) == IF s = 1 THEN 4 * c - 1 ELSE 4 * c + s - 1
ExchangeTypes ==
  /\ rudpPc \in {"exchange", "over", "ctrl", "failed"} /\ conn \in 1 .. Connections
  /\ stage \in 1 .. 4 /\ try \in 0 .. RudpTries /\ waiting \in BOOLEAN /\ misled = FALSE
ExchangeInv ==
  ExchangeTypes /\ Flow(socket, requests, Lowest4(conn, stage), 4 * conn + stage)

LEMMA Forwards ==
  ASSUME ExchangeTypes, NEW b, NEW q, NEW lo \in Int, Flow(b, q, lo, 4 * conn + stage),
         lo >= IF stage = 4 THEN 4 * conn + 3 ELSE 4 * conn + stage, Link!Forward
  PROVE  /\ rudpPc' \in {"exchange", "over", "ctrl", "failed"} /\ conn' \in 1 .. Connections
         /\ stage' \in 1 .. 4 /\ try' = 0
         /\ Flow(b, q, Lowest4(conn', stage'), 4 * conn' + stage')
<1>1. PICK c \in 1 .. Connections, s \in 1 .. 4, l \in 3 .. 4 :
        c = conn /\ s = stage /\ l = Link!LastStep /\ (c < Connections => l = 4)
  BY LinkAssumption DEF ExchangeTypes, Link!LastStep
<1>2. Connections \in Nat /\ c \in Int /\ s \in Int /\ 4 * c + s \in Int
  BY LinkAssumption
<1>3. CASE s < l
  <2>1. conn' = c /\ stage' = s + 1 /\ try' = 0 /\ UNCHANGED rudpPc
    BY <1>1, <1>3 DEF Link!Forward
  <2>2. Lowest4(c, s + 1) <= lo /\ Lowest4(c, s + 1) \in Int /\ s + 1 \in 1 .. 4
    BY <1>1, <1>2, <1>3 DEF Lowest4
  <2>3. 4 * c + (s + 1) \in Int /\ 4 * c + s <= 4 * c + (s + 1)
    BY <1>2
  <2>4. Flow(b, q, Lowest4(c, s + 1), 4 * c + (s + 1))
    BY <1>1, <1>2, <2>2, <2>3, FlowWiden
  <2> QED BY <1>1, <2>1, <2>2, <2>4 DEF ExchangeTypes
<1>4. CASE s >= l /\ c < Connections
  <2>1. conn' = c + 1 /\ stage' = 1 /\ try' = 0 /\ UNCHANGED rudpPc
    BY <1>1, <1>4 DEF Link!Forward
  <2>2. Lowest4(c + 1, 1) <= lo /\ Lowest4(c + 1, 1) \in Int /\ s = 4
    BY <1>1, <1>2, <1>4 DEF Lowest4
  <2>3. 4 * (c + 1) + 1 \in Int /\ 4 * c + s <= 4 * (c + 1) + 1
    BY <1>2
  <2>4. Flow(b, q, Lowest4(c + 1, 1), 4 * (c + 1) + 1)
    BY <1>1, <1>2, <2>2, <2>3, FlowWiden
  <2>5. c + 1 \in 1 .. Connections
    BY <1>2, <1>4
  <2> QED BY <1>1, <2>1, <2>4, <2>5 DEF ExchangeTypes
<1>5. CASE s >= l /\ ~(c < Connections)
  <2>1. conn' = c /\ stage' = s /\ try' = 0 /\ rudpPc' = "over"
    BY <1>1, <1>5 DEF Link!Forward
  <2>2. Lowest4(c, s) <= lo /\ Lowest4(c, s) \in Int
    BY <1>1, <1>2 DEF Lowest4
  <2>3. Flow(b, q, Lowest4(c, s), 4 * c + s)
    BY <1>1, <1>2, <2>2, FlowWiden
  <2> QED BY <1>1, <2>1, <2>3
<1> QED BY <1>1, <1>2, <1>3, <1>4, <1>5

LEMMA BoundsType ==
  ASSUME ExchangeTypes
  PROVE  /\ Lowest4(conn, stage) \in Int /\ 4 * conn + stage \in Int
         /\ Lowest4(conn, stage) <= 4 * conn + stage /\ conn \in Int /\ stage \in 1 .. 4
BY LinkAssumption DEF ExchangeTypes, Lowest4

LEMMA ExchangeStart == Link!Init => ExchangeInv
<1> SUFFICES ASSUME Link!Init PROVE ExchangeInv OBVIOUS
<1>1. ExchangeTypes
  <2>1. 1 \in 1 .. Connections /\ 0 \in 0 .. RudpTries
    BY LinkAssumption
  <2>2. rudpPc = "exchange" /\ conn = 1 /\ stage = 1 /\ try = 0 /\ waiting = FALSE /\ misled = FALSE
    BY DEF Link!Init
  <2>3. waiting \in BOOLEAN
    BY <2>2
  <2>4. rudpPc = "exchange" /\ conn \in 1 .. Connections /\ stage \in 1 .. 4 /\ try \in 0 .. RudpTries
    BY <2>1, <2>2
  <2> QED BY <2>2, <2>3, <2>4 DEF ExchangeTypes
<1>2. socket = <<>> /\ requests = <<>>
  BY DEF Link!Init
<1>3. <<>> \in Seq(Seq(Parts4)) /\ <<>> \in Seq(Parts4) /\ Len(<<>>) = 0
  BY EmptySeq
<1> QED BY <1>1, <1>2, <1>3 DEF ExchangeInv, Flow, Sorted, Within

LEMMA ExchangeSend == ASSUME ExchangeInv, Link!Send PROVE ExchangeInv'
<1>1. /\ UNCHANGED <<rudpPc, conn, stage, socket, misled>> /\ waiting' = TRUE
      /\ try' = try + 1 /\ try < RudpTries
      /\ requests' \in {requests, Append(requests, <<conn, stage>>)}
  BY DEF Link!Send
<1>2. ExchangeTypes'
  BY <1>1, LinkAssumption DEF ExchangeInv, ExchangeTypes
<1>3. <<conn, stage>> \in Parts4 /\ Rank(<<conn, stage>>) = 4 * conn + stage
  BY DEF ExchangeInv, ExchangeTypes, Parts4, Rank
<1>4. ExchangeTypes /\ Flow(socket, requests, Lowest4(conn, stage), 4 * conn + stage)
  BY DEF ExchangeInv
<1>5. Flow(socket, Append(requests, <<conn, stage>>), Lowest4(conn, stage), 4 * conn + stage)
  BY <1>3, <1>4, BoundsType, FlowAsk
<1>6. Flow(socket, requests', Lowest4(conn, stage), 4 * conn + stage)
  BY <1>1, <1>4, <1>5
<1> QED BY <1>1, <1>2, <1>6 DEF ExchangeInv

LEMMA ExchangeReceive == ASSUME ExchangeInv, Link!Receive PROVE ExchangeInv'
<1>1. PICK d : /\ d = Head(socket) /\ socket # <<>> /\ socket' = Tail(socket) /\ waiting' = FALSE
               /\ IF Link!Matches(d) THEN Link!Forward ELSE UNCHANGED <<rudpPc, conn, stage, try>>
               /\ misled' = (misled \/ (Link!Matches(d) /\ <<conn, stage>> \notin {d[i] : i \in DOMAIN d}))
               /\ requests' = requests
  BY DEF Link!Receive
<1>2. ExchangeTypes /\ Flow(socket, requests, Lowest4(conn, stage), 4 * conn + stage)
  BY DEF ExchangeInv
<1>3. /\ d \in Seq(Parts4) /\ Within(d, Lowest4(conn, stage), 4 * conn + stage)
      /\ Flow(socket', requests, Lowest4(conn, stage), 4 * conn + stage)
      /\ \A x \in 1 .. Len(d) : Flow(socket', requests, Rank(d[x]), 4 * conn + stage)
  BY <1>1, <1>2, BoundsType, FlowTake
<1>4. CASE ~Link!Matches(d)
  <2>1. UNCHANGED <<rudpPc, conn, stage, try>> /\ misled' = FALSE /\ waiting' = FALSE
    BY <1>1, <1>2, <1>4 DEF ExchangeTypes
  <2>2. ExchangeTypes'
    BY <1>2, <2>1 DEF ExchangeTypes
  <2> QED BY <1>1, <1>3, <2>1, <2>2 DEF ExchangeInv
<1>5. CASE Link!Matches(d)
  <2>1. PICK x \in 1 .. Len(d) : d[x][2] = stage
    BY <1>3, <1>5, LenProperties DEF Link!Matches
  <2>2. PICK p \in Parts4 : p = d[x]
    BY <1>3, <2>1, ElementOfSeq
  <2>3. p[1] \in 1 .. Connections /\ p[2] = stage /\ Rank(p) = 4 * p[1] + p[2] /\ p = <<p[1], p[2]>>
    BY <2>1, <2>2, RankType DEF Parts4
  <2>4. Lowest4(conn, stage) <= Rank(p) /\ Rank(p) <= 4 * conn + stage
    BY <1>3, <2>1, <2>2 DEF Within
  <2>5. p[1] = conn /\ Rank(p) = 4 * conn + stage
    <3>1. PICK c \in Int, k \in 1 .. 4, a \in Int : c = conn /\ k = stage /\ a = p[1]
      BY <1>2, <2>3, BoundsType
    <3>2. Rank(p) = 4 * a + k /\ 4 * a + k <= 4 * c + k
      BY <2>3, <2>4, <3>1
    <3>3. (IF k = 1 THEN 4 * c - 1 ELSE 4 * c + k - 1) <= 4 * a + k
      BY <2>3, <2>4, <3>1 DEF Lowest4
    <3>4. a = c
      BY <3>2, <3>3
    <3> QED BY <3>1, <3>2, <3>4
  <2>6. <<conn, stage>> = d[x] /\ DOMAIN d = 1 .. Len(d)
    BY <1>3, <2>2, <2>3, <2>5, LenProperties
  <2>7. misled' = FALSE
    BY <1>1, <1>2, <2>1, <2>6 DEF ExchangeTypes
  <2>8. Flow(socket', requests, 4 * conn + stage, 4 * conn + stage)
    BY <1>3, <2>1, <2>2, <2>5
  <2>9. Link!Forward
    BY <1>1, <1>5
  <2>10. 4 * conn + stage >= IF stage = 4 THEN 4 * conn + 3 ELSE 4 * conn + stage
    BY <1>2, BoundsType
  <2>11. /\ rudpPc' \in {"exchange", "over", "ctrl", "failed"} /\ conn' \in 1 .. Connections
         /\ stage' \in 1 .. 4 /\ try' = 0
         /\ Flow(socket', requests, Lowest4(conn', stage'), 4 * conn' + stage')
    BY <1>2, <2>8, <2>9, <2>10, BoundsType, Forwards
  <2>12. 0 \in 0 .. RudpTries
    BY LinkAssumption
  <2>13. ExchangeTypes'
    BY <1>1, <2>7, <2>11, <2>12 DEF ExchangeTypes
  <2> QED BY <1>1, <2>11, <2>13 DEF ExchangeInv
<1> QED BY <1>4, <1>5

LEMMA ExchangeWaits ==
  ASSUME ExchangeInv, Link!NoAnswer \/ Link!Exhausted \/ Link!Open PROVE ExchangeInv'
<1>1. ExchangeTypes /\ Flow(socket, requests, Lowest4(conn, stage), 4 * conn + stage)
  BY DEF ExchangeInv
<1>2. CASE Link!NoAnswer \/ Link!Exhausted
  <2>1. /\ UNCHANGED <<requests, misled>> /\ waiting' \in BOOLEAN
        /\ Link!GiveUp \/ UNCHANGED <<rudpPc, conn, stage, try>>
    BY <1>1, <1>2 DEF Link!NoAnswer, Link!Exhausted, ExchangeTypes
  <2>4. socket' = socket \/ (socket # <<>> /\ socket' = Tail(socket))
    BY <1>2 DEF Link!NoAnswer, Link!Exhausted
  <2>5. Flow(socket', requests, Lowest4(conn, stage), 4 * conn + stage)
    BY <1>1, <2>4, BoundsType, FlowTake
  <2>6. CASE UNCHANGED <<rudpPc, conn, stage, try>>
    BY <1>1, <2>1, <2>5, <2>6 DEF ExchangeInv, ExchangeTypes
  <2>2. CASE Link!GiveUp /\ stage = 4
    <3>1. Link!Forward
      BY <2>2 DEF Link!GiveUp
    <3>2. Lowest4(conn, stage) >= IF stage = 4 THEN 4 * conn + 3 ELSE 4 * conn + stage
      BY <1>1, <2>2, BoundsType DEF Lowest4
    <3>3. /\ rudpPc' \in {"exchange", "over", "ctrl", "failed"} /\ conn' \in 1 .. Connections
          /\ stage' \in 1 .. 4 /\ try' = 0
          /\ Flow(socket', requests, Lowest4(conn', stage'), 4 * conn' + stage')
      BY <1>1, <2>5, <3>1, <3>2, BoundsType, Forwards
    <3>4. 0 \in 0 .. RudpTries
      BY LinkAssumption
    <3>5. ExchangeTypes'
      BY <1>1, <2>1, <3>3, <3>4 DEF ExchangeTypes
    <3> QED BY <2>1, <3>3, <3>5 DEF ExchangeInv
  <2>3. CASE Link!GiveUp /\ stage # 4
    <3>1. rudpPc' = "failed" /\ UNCHANGED <<conn, stage, try>>
      BY <2>3 DEF Link!GiveUp
    <3> QED BY <1>1, <2>1, <2>5, <3>1 DEF ExchangeInv, ExchangeTypes
  <2> QED BY <2>1, <2>2, <2>3, <2>6
<1>3. CASE Link!Open
  <2>1. rudpPc' = "ctrl" /\ socket' = <<>> /\ requests' = <<>> /\ UNCHANGED <<conn, stage, try, waiting, misled>>
    BY <1>3 DEF Link!Open
  <2>2. ExchangeTypes'
    BY <1>1, <2>1 DEF ExchangeTypes
  <2>3. <<>> \in Seq(Seq(Parts4)) /\ <<>> \in Seq(Parts4) /\ Len(<<>>) = 0
    BY EmptySeq
  <2>4. Flow(<<>>, <<>>, Lowest4(conn, stage), 4 * conn + stage)
    BY <2>3 DEF Flow, Sorted, Within
  <2> QED BY <2>1, <2>2, <2>4 DEF ExchangeInv
<1> QED BY <1>2, <1>3

LEMMA ShortSeqs ==
  ASSUME NEW S, NEW x \in S, NEW y \in S
  PROVE  /\ <<x>> \in Seq(S) /\ Len(<<x>>) = 1 /\ <<x>>[1] = x
         /\ <<x, y>> \in Seq(S) /\ Len(<<x, y>>) = 2 /\ <<x, y>>[1] = x /\ <<x, y>>[2] = y
OBVIOUS
LEMMA FlowSeqs ==
  ASSUME NEW b, NEW q, NEW lo, NEW hi, Flow(b, q, lo, hi) PROVE q \in Seq(Parts4)
BY DEF Flow

LEMMA ExchangeConsole == ASSUME ExchangeInv, Link!Console PROVE ExchangeInv'
<1>1. /\ UNCHANGED <<rudpPc, conn, stage, try, waiting, misled>>
      /\ requests # <<>> /\ requests' = Tail(requests)
      /\ \/ socket' \in {socket, Append(socket, <<Head(requests)>>)}
         \/ Len(requests) > 1 /\ socket' = Append(socket, <<Head(requests), requests[2]>>)
  BY DEF Link!Console
<1>2. ExchangeTypes /\ Flow(socket, requests, Lowest4(conn, stage), 4 * conn + stage)
  BY DEF ExchangeInv
<1>3. PICK lo \in Int, hi \in Int : lo = Lowest4(conn, stage) /\ hi = 4 * conn + stage
  BY <1>2, BoundsType
<1>t. PICK h, t : h = Head(requests) /\ t = Tail(requests)
  OBVIOUS
<1>f. Flow(socket, requests, lo, hi)
  BY <1>2, <1>3
<1>4. /\ Flow(socket, t, lo, hi) /\ h \in Parts4 /\ Within(t, Rank(h), hi)
      /\ Len(requests) > 1
           => /\ requests[2] \in Parts4 /\ Within(t, Rank(requests[2]), hi)
              /\ Rank(h) <= Rank(requests[2])
              /\ \A i \in 1 .. Len(socket) : \A x \in 1 .. Len(socket[i]) : Rank(socket[i][x]) <= Rank(requests[2])
              /\ lo <= Rank(requests[2]) /\ Rank(requests[2]) <= hi
      /\ \A i \in 1 .. Len(socket) : \A x \in 1 .. Len(socket[i]) : Rank(socket[i][x]) <= Rank(h)
      /\ lo <= Rank(h) /\ Rank(h) <= hi
  BY <1>1, <1>t, <1>f, FlowTail
<1>5. Flow(Append(socket, <<h>>), t, lo, hi)
  <2>1. PICK d \in Seq(Parts4) : d = <<h>> /\ Len(d) = 1 /\ d[1] = h
    BY <1>4, ShortSeqs
  <2>2. \A x \in 1 .. Len(d) : d[x] = h
    BY <2>1
  <2>3. Within(d, lo, hi) /\ Before(d, t) /\ \A i \in 1 .. Len(socket) : Before(socket[i], d)
    BY <1>4, <2>2 DEF Within, Before
  <2> QED BY <1>4, <2>1, <2>3, FlowArrives
<1>6. ASSUME Len(requests) > 1 PROVE Flow(Append(socket, <<h, requests[2]>>), t, lo, hi)
  <2>1. PICK k \in Parts4 :
          /\ k = requests[2] /\ Within(t, Rank(k), hi) /\ Rank(h) <= Rank(k)
          /\ \A i \in 1 .. Len(socket) : \A x \in 1 .. Len(socket[i]) : Rank(socket[i][x]) <= Rank(k)
          /\ lo <= Rank(k) /\ Rank(k) <= hi
    BY <1>4, <1>6
  <2>2. PICK d \in Seq(Parts4) : d = <<h, k>> /\ Len(d) = 2 /\ d[1] = h /\ d[2] = k
    <3>1. h \in Parts4 /\ k \in Parts4
      BY <1>4
    <3>2. /\ <<h, k>> \in Seq(Parts4) /\ Len(<<h, k>>) = 2
          /\ <<h, k>>[1] = h /\ <<h, k>>[2] = k
      <4> HIDE DEF Parts4
      <4> QED BY <3>1
    <3> QED BY <3>2
  <2>3. \A x \in 1 .. Len(d) : d[x] = h \/ d[x] = k
    <3>1. 1 .. 2 = {1, 2}
      OBVIOUS
    <3> QED BY <2>2, <3>1
  <2>4. Within(d, lo, hi)
    BY <1>4, <2>1, <2>3 DEF Within
  <2>6. Before(d, t)
    <3> SUFFICES ASSUME NEW x \in 1 .. Len(d), NEW y \in 1 .. Len(t) PROVE Rank(d[x]) <= Rank(t[y])
      BY DEF Before
    <3>1. PICK m \in Nat : m = Rank(t[y])
      BY <1>4, FlowSeqs, RankOf
    <3>2. PICK rh \in Nat, rk \in Nat : rh = Rank(h) /\ rk = Rank(k)
      BY <1>4, <2>1, RankType
    <3>3. rk <= m /\ rh <= rk
      BY <2>1, <3>1, <3>2 DEF Within
    <3> QED BY <2>3, <3>1, <3>2, <3>3
  <2>7. \A i \in 1 .. Len(socket) : Before(socket[i], d)
    BY <1>4, <2>1, <2>3 DEF Before
  <2>5. Flow(Append(socket, d), t, lo, hi)
    BY <1>4, <2>4, <2>6, <2>7, FlowArrives
  <2> QED BY <2>1, <2>2, <2>5
<1>7. Flow(socket', t, lo, hi)
  BY <1>1, <1>3, <1>t, <1>4, <1>5, <1>6
<1>8. ExchangeTypes'
  BY <1>1, <1>2 DEF ExchangeTypes
<1> QED BY <1>1, <1>3, <1>t, <1>7, <1>8 DEF ExchangeInv
LEMMA ExchangeStep == ASSUME ExchangeInv, Link!Next PROVE ExchangeInv'
<1>1. CASE Link!Exchanging
  BY <1>1, ExchangeSend, ExchangeReceive, ExchangeWaits DEF Link!Exchanging
<1>2. CASE Link!Open \/ Link!Console
  BY <1>2, ExchangeWaits, ExchangeConsole
<1>3. CASE Link!Sending \/ Link!Acked \/ Link!Scan \/ Link!Forsake
  <2>1. UNCHANGED <<rudpPc, conn, stage, try, waiting, socket, requests, misled>>
    BY <1>3 DEF Link!Sending, Link!Take, Link!SendMessage, Link!Push, Link!Sender, Link!Acked,
                Link!Scan, Link!Forsake, Link!ExchangeOver, Link!exchange
  <2> QED BY <2>1 DEF ExchangeInv, ExchangeTypes
<1> QED BY <1>1, <1>2, <1>3 DEF Link!Next

-----------------------------------------------------------------------------
(* The ctrl messages of Rudp: what they are numbered, what the buffer holds *)
(* of them, and that a key was read after the number was taken.             *)
MessageNums == Lowest .. Limit - 1
Buffered == [num : MessageNums, key : Link!SeqNums, tries : Int]
Taken(r, n) ==
  \/ r.num = -1 /\ r.key = -1
  \/ r.num \in Lowest .. n - 1 /\ (r.key = -1 \/ r.key \in r.num + 1 .. n)
Distinct(b) == \A i, j \in 1 .. Len(b) : b[i].key = b[j].key => i = j
InBuffer(m, b) == \E i \in 1 .. Len(b) : b[i].num = m.num /\ b[i].key = m.key
MessageTypes ==
  /\ counter \in Lowest .. Limit
  /\ sending \in [Senders -> [num : -1 .. Limit, key : Link!Keys]]
  /\ buffer \in Seq(Buffered) /\ Len(buffer) <= Size /\ Distinct(buffer)
  /\ slot[1] \in 0 .. Size /\ slot[2] \in Link!SeqNums
  /\ arrived \subseteq MessageNums /\ forsaken \subseteq MessageNums
MessagesTaken ==
  /\ \A t \in Senders : Taken(sending[t], counter)
  /\ \A m \in accepted : m.num \in MessageNums /\ m.key \in m.num + 1 .. Limit
MessagesKept ==
  \A m \in accepted : m.num \in arrived \cup forsaken \/ InBuffer(m, buffer) \/ Link!Covers(0, m.key)
MessagesInv == MessageTypes /\ MessagesTaken /\ MessagesKept
LinkInv == ExchangeInv /\ MessagesInv

LEMMA LinkSize == \A S : Link!Cardinality(S) = Cardinality(S)
BY DEF Cardinality, Link!Cardinality

(* No number has started over, and of two numbers the order is known.       *)
LEMMA NumbersAre ==
  /\ Half \in Nat \ {0} /\ Size \in Nat /\ Lowest \in Nat /\ Limit \in Nat /\ Lowest <= Limit
  /\ Link!SeqNums = 0 .. 2 * Half - 1 /\ Link!Keys = Link!SeqNums \cup {-1}
  /\ \A n \in 0 .. Limit : Link!Wrap(n) = n /\ n \in Link!SeqNums
  /\ \A a, x \in Lowest .. Limit : Link!Covers(a, x) => x <= a
<1>1. /\ Half \in Nat /\ Half # 0 /\ Size \in Nat /\ Lowest \in Nat /\ Limit \in Nat
      /\ Lowest <= Limit /\ Limit < 2 * Half /\ Limit - Lowest < Half
  BY LinkAssumption
<1>2. Link!SeqNums = 0 .. 2 * Half - 1 /\ Link!SeqMod = 2 * Half
  BY DEF Link!SeqNums, Link!SeqMod
<1>3. ASSUME NEW n \in 0 .. Limit PROVE Link!Wrap(n) = n /\ n \in Link!SeqNums
  <2>1. n \in 0 .. 2 * Half - 1 /\ 2 * Half \in Nat \ {0} /\ n \in Int
    BY <1>1
  <2>2. n % (2 * Half) = n
    BY <2>1, RemainderNear
  <2> QED BY <1>2, <2>1, <2>2 DEF Link!Wrap
<1>4. ASSUME NEW a \in Lowest .. Limit, NEW x \in Lowest .. Limit, Link!Covers(a, x) PROVE x <= a
  BY <1>1, <1>4 DEF Link!Covers, Link!SeqLt
<1> QED BY <1>1, <1>2, <1>3, <1>4 DEF Link!Keys

(* What an acknowledgement leaves in the buffer.                            *)
LEMMA RestIs ==
  ASSUME buffer \in Seq(Buffered), Distinct(buffer), NEW a, NEW r, r = Link!Rest(a)
  PROVE  /\ r \in Seq(Buffered) /\ Len(r) \in Nat /\ Len(r) <= Len(buffer) /\ Distinct(r)
         /\ \A i \in 1 .. Len(buffer) :
              Link!Covers(a, buffer[i].key) \/ \E j \in 1 .. Len(r) : r[j] = buffer[i]
<1> DEFINE I == {i \in DOMAIN buffer : ~Link!Covers(a, buffer[i].key)}
           m == Link!Cardinality(I)
           g == Link!InOrder(I)
<1>1. r = Left(buffer, m, g)
  BY DEF Link!Rest, Left
<1>2. m = Cardinality(I) /\ g = Listing(m, I)
  BY LinkSize DEF Link!InOrder, Listing
<1>3. PICK n \in Nat : n = Len(buffer) /\ DOMAIN buffer = 1 .. n
  BY LenProperties
<1>4. I \in SUBSET (1 .. Len(buffer))
  BY <1>3
<1>5. \A i \in 1 .. n : i \in I \/ Link!Covers(a, buffer[i].key)
  BY <1>3
<1> HIDE DEF I, m, g
<1>6. /\ m \in 0 .. n /\ Ranks(g, m, I) /\ r \in Seq(Buffered) /\ Len(r) = m
      /\ \A j \in 1 .. m : r[j] = buffer[g[j]] /\ g[j] \in I /\ g[j] \in 1 .. n
  BY <1>1, <1>2, <1>3, <1>4, LeftIs
<1>7. ASSUME NEW i \in 1 .. m, NEW j \in 1 .. m, r[i].key = r[j].key PROVE i = j
  <2>1. g[i] = g[j] /\ g[i] \in 1 .. n
    BY <1>3, <1>6, <1>7 DEF Distinct
  <2>2. ~(i < j) /\ ~(j < i)
    <3>1. (i < j => g[i] < g[j]) /\ (j < i => g[j] < g[i])
      BY <1>6 DEF Ranks
    <3> QED BY <2>1, <3>1
  <2> QED BY <1>6, <2>2
<1>8. ASSUME NEW i \in 1 .. n, ~Link!Covers(a, buffer[i].key) PROVE \E j \in 1 .. m : r[j] = buffer[i]
  <2>1. PICK j \in 1 .. m : g[j] = i
    BY <1>5, <1>6, <1>8 DEF Ranks
  <2> QED BY <1>6, <2>1
<1> QED BY <1>3, <1>6, <1>7, <1>8 DEF Distinct

LEMMA BufferedIs ==
  ASSUME MessageTypes, NEW i \in 1 .. Len(buffer)
  PROVE  /\ buffer[i] \in Buffered /\ buffer[i].num \in MessageNums /\ buffer[i].key \in Link!SeqNums
         /\ buffer[i].tries \in Int
<1>1. buffer[i] \in Buffered
  BY ElementOfSeq DEF MessageTypes
<1> QED BY <1>1 DEF Buffered

LEMMA LinkSafe == LinkInv => Link!TypeOK /\ Link!RudpSound
<1> SUFFICES ASSUME LinkInv PROVE Link!TypeOK /\ Link!RudpSound OBVIOUS
<1>1. MessageTypes /\ ExchangeTypes /\ MessagesKept /\ MessagesTaken
  BY DEF LinkInv, MessagesInv, ExchangeInv
<1>2. DOMAIN buffer = 1 .. Len(buffer)
  BY <1>1, LenProperties DEF MessageTypes
<1>3. Link!TypeOK
  <2>1. rudpPc \in {"exchange", "over", "ctrl", "failed"} /\ conn \in 1 .. Connections /\ stage \in 1 .. 4
        /\ try \in 0 .. RudpTries
    BY <1>1 DEF ExchangeTypes
  <2>2. waiting \in BOOLEAN /\ misled \in BOOLEAN
    BY <1>1 DEF ExchangeTypes
  <2>3. /\ counter \in Lowest .. Limit
        /\ sending \in [Senders -> [num : -1 .. Limit, key : Link!Keys]]
        /\ Len(buffer) <= Size /\ slot[1] \in 0 .. Size /\ slot[2] \in Link!SeqNums
        /\ arrived \subseteq Lowest .. Limit - 1 /\ forsaken \subseteq Lowest .. Limit - 1
    BY <1>1 DEF MessageTypes, MessageNums
  <2>4. \A i, j \in DOMAIN buffer : buffer[i].key = buffer[j].key => i = j
    BY <1>1, <1>2 DEF MessageTypes, Distinct
  <2> QED BY <2>1, <2>2, <2>3, <2>4 DEF Link!TypeOK
<1>4. Link!Kept
  BY <1>1, <1>2 DEF MessagesKept, InBuffer, Link!Kept
<1> QED BY <1>1, <1>3, <1>4 DEF Link!RudpSound, ExchangeTypes

LEMMA LinkStart == Link!Init => LinkInv
<1> SUFFICES ASSUME Link!Init PROVE LinkInv OBVIOUS
<1>1. /\ counter = Lowest /\ sending = [t \in Senders |-> [num |-> -1, key |-> -1]] /\ buffer = <<>>
      /\ slot = <<0, 0>> /\ arrived = {} /\ accepted = {} /\ forsaken = {}
  BY DEF Link!Init, Link!Idle, Link!Scanning
<1>2. buffer \in Seq(Buffered) /\ Len(buffer) = 0
  BY <1>1, EmptySeq
<1>3. [num |-> -1, key |-> -1] \in [num : -1 .. Limit, key : Link!Keys]
  BY NumbersAre
<1>4. MessageTypes
  <2>1. 0 \in 0 .. Size /\ 0 \in Link!SeqNums /\ Lowest \in Lowest .. Limit /\ Size \in Nat
    BY NumbersAre
  <2>2. slot[1] = 0 /\ slot[2] = 0
    BY <1>1
  <2>3. Distinct(buffer) /\ Len(buffer) <= Size
    BY <1>2, <2>1 DEF Distinct
  <2> QED BY <1>1, <1>2, <1>3, <2>1, <2>2, <2>3 DEF MessageTypes
<1>5. MessagesTaken /\ MessagesKept
  BY <1>1 DEF MessagesTaken, MessagesKept, Taken
<1> QED BY <1>4, <1>5, ExchangeStart DEF LinkInv, MessagesInv
(* A sender goes on with its message, or takes another.                     *)
LEMMA SendersStep ==
  ASSUME MessagesInv, NEW t \in Senders, Link!Take(t) \/ Link!SendMessage(t) \/ Link!Push(t)
  PROVE  /\ sending' \in [Senders -> [num : -1 .. Limit, key : Link!Keys]]
         /\ counter' \in Lowest .. Limit
         /\ \A u \in Senders : Taken(sending'[u], counter')
         /\ Link!Push(t) => sending[t].num \in MessageNums /\ sending[t].key \in sending[t].num + 1 .. Limit
<1>1. /\ sending \in [Senders -> [num : -1 .. Limit, key : Link!Keys]] /\ counter \in Lowest .. Limit
      /\ \A u \in Senders : Taken(sending[u], counter)
  BY DEF MessagesInv, MessageTypes, MessagesTaken
<1>2. PICK r : r = sending[t]
  OBVIOUS
<1>3. r \in [num : -1 .. Limit, key : Link!Keys] /\ Taken(r, counter)
  BY <1>1, <1>2
<1>4. Lowest \in Nat /\ Limit \in Nat /\ counter \in Nat /\ Lowest <= counter /\ counter <= Limit
  BY <1>1, NumbersAre
\* One sender becomes q, and the counter does not go back.
<1>5. ASSUME NEW q \in [num : -1 .. Limit, key : Link!Keys], sending' = [sending EXCEPT ![t] = q],
             counter' \in counter .. Limit, Taken(q, counter')
      PROVE  /\ sending' \in [Senders -> [num : -1 .. Limit, key : Link!Keys]]
             /\ counter' \in Lowest .. Limit
             /\ \A u \in Senders : Taken(sending'[u], counter')
  <2>1. ASSUME NEW u \in Senders PROVE Taken(sending'[u], counter')
    <3>1. CASE u = t
      BY <1>1, <1>5, <3>1
    <3>2. CASE u # t
      <4>1. sending'[u] = sending[u] /\ Taken(sending[u], counter)
        BY <1>1, <1>5, <3>2
      <4> QED BY <1>4, <1>5, <4>1 DEF Taken
    <3> QED BY <3>1, <3>2
  <2> QED BY <1>1, <1>4, <1>5, <2>1
<1>6. CASE Link!Take(t)
  <2>1. /\ sending' = [sending EXCEPT ![t].num = counter] /\ counter' = counter + 1 /\ counter < Limit
        /\ r = [num |-> -1, key |-> -1]
    BY <1>2, <1>6 DEF Link!Take, Link!Idle
  <2>2. PICK q : q = [num |-> counter, key |-> -1]
    OBVIOUS
  <2>3. q \in [num : -1 .. Limit, key : Link!Keys]
    BY <1>4, <2>2, NumbersAre
  <2>4. sending' = [sending EXCEPT ![t] = q]
    <3>1. [r EXCEPT !.num = counter] = q
      BY <2>1, <2>2
    <3>2. sending' = [sending EXCEPT ![t] = [r EXCEPT !.num = counter]]
      BY <1>2, <2>1
    <3> QED BY <3>1, <3>2
  <2>5. counter' \in counter .. Limit /\ Taken(q, counter')
    BY <1>4, <2>1, <2>2 DEF Taken
  <2>6. ~Link!Push(t)
    BY <1>2, <2>1 DEF Link!Push, Link!Sender
  <2> QED BY <1>5, <2>3, <2>4, <2>5, <2>6
<1>7. CASE Link!SendMessage(t)
  <2>1. r.num # -1 /\ r.key = -1 /\ counter' = counter
        /\ (Link!Key(t) \/ sending' = [sending EXCEPT ![t] = [num |-> -1, key |-> -1]])
    BY <1>2, <1>7 DEF Link!SendMessage, Link!Sender, Link!Idle
  <2>2. r.num \in Lowest .. counter - 1
    BY <1>3, <2>1 DEF Taken
  <2>3. CASE Link!Key(t)
    <3>1. sending' = [sending EXCEPT ![t].key = counter]
      <4>1. Link!Wrap(counter) = counter
        BY <1>4, NumbersAre
      <4>2. sending' = [sending EXCEPT ![t].key = Link!Wrap(counter)]
        BY <2>3 DEF Link!Key
      <4> QED BY <4>1, <4>2
    <3>2. PICK q : q = [num |-> r.num, key |-> counter]
      OBVIOUS
    <3>3. q \in [num : -1 .. Limit, key : Link!Keys]
      BY <1>3, <1>4, <3>2, NumbersAre
    <3>4. sending' = [sending EXCEPT ![t] = q]
      <4>1. [r EXCEPT !.key = counter] = q
        BY <1>3, <3>2
      <4>2. sending' = [sending EXCEPT ![t] = [r EXCEPT !.key = counter]]
        BY <1>2, <3>1
      <4> QED BY <4>1, <4>2
    <3>5. counter' \in counter .. Limit /\ Taken(q, counter')
      BY <1>4, <2>1, <2>2, <3>2 DEF Taken
    <3>6. ~Link!Push(t)
      BY <1>2, <2>1 DEF Link!Push
    <3> QED BY <1>5, <3>3, <3>4, <3>5, <3>6
  <2>4. CASE sending' = [sending EXCEPT ![t] = [num |-> -1, key |-> -1]]
    <3>1. PICK q : q = [num |-> -1, key |-> -1]
      OBVIOUS
    <3>2. q \in [num : -1 .. Limit, key : Link!Keys] /\ Taken(q, counter')
      BY <1>4, <3>1, NumbersAre DEF Taken
    <3>3. counter' \in counter .. Limit
      BY <1>4, <2>1
    <3>4. ~Link!Push(t)
      BY <1>2, <2>1 DEF Link!Push
    <3> QED BY <1>5, <2>4, <3>1, <3>2, <3>3, <3>4
  <2> QED BY <2>1, <2>3, <2>4
<1>8. CASE Link!Push(t)
  <2>1. r.num # -1 /\ r.key # -1 /\ counter' = counter
        /\ sending' = [sending EXCEPT ![t] = [num |-> -1, key |-> -1]]
    BY <1>2, <1>8 DEF Link!Push, Link!Sender, Link!Idle
  <2>2. r.num \in MessageNums /\ r.key \in r.num + 1 .. Limit
    BY <1>3, <1>4, <2>1 DEF Taken, MessageNums
  <2>3. PICK q : q = [num |-> -1, key |-> -1]
    OBVIOUS
  <2>4. q \in [num : -1 .. Limit, key : Link!Keys] /\ Taken(q, counter')
    BY <1>4, <2>3, NumbersAre DEF Taken
  <2>5. counter' \in counter .. Limit
    BY <1>4, <2>1
  <2> QED BY <1>2, <1>5, <2>1, <2>2, <2>3, <2>4, <2>5
<1> QED BY <1>6, <1>7, <1>8

(* The slot of a scan goes on to name a key.                                *)
LEMMA SlotStays ==
  ASSUME MessageTypes, NEW b \in Seq(Buffered), Link!Becomes(b)
  PROVE  buffer' = b /\ slot'[1] \in 0 .. Size /\ slot'[2] \in Link!SeqNums
<1>1. slot[1] \in 0 .. Size /\ slot[2] \in Link!SeqNums
  BY DEF MessageTypes
<1>2. slot' = IF slot[1] \in DOMAIN b THEN <<slot[1], b[slot[1]].key>> ELSE slot
  BY DEF Link!Becomes
<1>3. CASE slot[1] \in DOMAIN b
  <2>1. b[slot[1]] \in Buffered
    BY <1>3, LenProperties, ElementOfSeq
  <2>2. b[slot[1]].key \in Link!SeqNums
    BY <2>1 DEF Buffered
  <2>3. slot'[1] = slot[1] /\ slot'[2] = b[slot[1]].key
    BY <1>2, <1>3
  <2> QED BY <1>1, <2>2, <2>3 DEF Link!Becomes
<1> QED BY <1>1, <1>2, <1>3 DEF Link!Becomes

(* A message that the buffer takes is in it.                                *)
LEMMA MessagesPush ==
  ASSUME MessagesInv, NEW t \in Senders, Link!Push(t) PROVE MessagesInv'
<1>1. /\ sending' \in [Senders -> [num : -1 .. Limit, key : Link!Keys]]
      /\ counter' \in Lowest .. Limit
      /\ \A u \in Senders : Taken(sending'[u], counter')
      /\ sending[t].num \in MessageNums /\ sending[t].key \in sending[t].num + 1 .. Limit
  BY SendersStep
<1>2. MessageTypes /\ MessagesTaken /\ MessagesKept
  BY DEF MessagesInv
<1>3. UNCHANGED <<arrived, forsaken>> /\ MessageNums' = MessageNums
      /\ Link!SeqNums' = Link!SeqNums /\ Link!Keys' = Link!Keys /\ Buffered' = Buffered
  BY DEF Link!Push, Link!SeqNums, Link!SeqMod, Link!Keys, Buffered, MessageNums
<1>4. CASE Len(buffer) = Size \/ \E i \in DOMAIN buffer : buffer[i].key = sending[t].key
  <2>1. UNCHANGED <<buffer, slot, accepted>>
    BY <1>4 DEF Link!Push
  <2>2. MessageTypes'
    BY <1>1, <1>2, <1>3, <2>1 DEF MessageTypes, Distinct
  <2>3. MessagesTaken'
    BY <1>1, <1>2, <1>3, <2>1 DEF MessagesTaken
  <2>4. MessagesKept'
    BY <1>2, <1>3, <2>1 DEF MessagesKept, InBuffer, Link!Covers, Link!SeqLt
  <2> QED BY <2>2, <2>3, <2>4 DEF MessagesInv
<1>5. CASE Len(buffer) # Size /\ \A i \in DOMAIN buffer : buffer[i].key # sending[t].key
  <2>1. PICK p, r : /\ p = [num |-> sending[t].num, key |-> sending[t].key, tries |-> 0]
                    /\ r = Append(buffer, p)
    OBVIOUS
  <2>2. accepted' = accepted \cup {sending[t]} /\ Link!Becomes(r)
    BY <1>5, <2>1 DEF Link!Push
  <2>3. PICK n \in Nat : n = Len(buffer) /\ n <= Size /\ DOMAIN buffer = 1 .. n
    BY <1>2, LenProperties DEF MessageTypes
  <2>4. p \in Buffered /\ p.num = sending[t].num /\ p.key = sending[t].key
    <3>1. sending[t].key \in Link!SeqNums
      <4>1. sending[t].key \in 0 .. Limit
        BY <1>1, NumbersAre DEF MessageNums
      <4> QED BY <4>1, NumbersAre
    <3> QED BY <1>1, <2>1, <3>1 DEF Buffered
  <2>5. /\ r \in Seq(Buffered) /\ Len(r) = n + 1
        /\ \A i \in 1 .. n : r[i] = buffer[i]
        /\ r[n + 1] = p
    BY <1>2, <2>1, <2>3, <2>4, AppendProperties DEF MessageTypes
  <2>6. buffer' = r /\ slot'[1] \in 0 .. Size /\ slot'[2] \in Link!SeqNums
    BY <1>2, <2>2, <2>5, SlotStays
  <2>7. \A i \in 1 .. n + 1 : i \in 1 .. n \/ i = n + 1
    BY <2>3
  <2>8. Distinct(r)
    <3> SUFFICES ASSUME NEW i \in 1 .. n + 1, NEW j \in 1 .. n + 1, r[i].key = r[j].key PROVE i = j
      BY <2>5 DEF Distinct
    <3>1. CASE i \in 1 .. n /\ j \in 1 .. n
      BY <1>2, <2>3, <2>5, <3>1 DEF MessageTypes, Distinct
    <3>2. CASE i = n + 1 \/ j = n + 1
      <4>1. \A k \in 1 .. n : r[k].key # p.key
        BY <1>5, <2>3, <2>4, <2>5
      <4> QED BY <2>5, <2>7, <3>2, <4>1
    <3> QED BY <2>7, <3>1, <3>2
  <2>9. n + 1 <= Size
    BY <1>5, <2>3, NumbersAre
  <2>10. MessageTypes'
    BY <1>1, <1>2, <1>3, <2>5, <2>6, <2>8, <2>9 DEF MessageTypes
  <2>11. MessagesTaken'
    BY <1>1, <1>2, <1>3, <2>2 DEF MessagesTaken
  <2>12. MessagesKept'
    <3> SUFFICES ASSUME NEW m \in accepted'
                 PROVE  m.num \in arrived \cup forsaken \/ InBuffer(m, r) \/ Link!Covers(0, m.key)
      BY <1>3, <2>6 DEF MessagesKept, InBuffer, Link!Covers, Link!SeqLt
    <3>1. CASE m \in accepted
      <4>1. \A i \in 1 .. n : i \in 1 .. n + 1 /\ r[i] = buffer[i]
        BY <2>5
      <4> QED BY <1>2, <2>3, <2>5, <3>1, <4>1 DEF MessagesKept, InBuffer
    <3>2. CASE m = sending[t]
      <4>1. n + 1 \in 1 .. n + 1 /\ r[n + 1].num = m.num /\ r[n + 1].key = m.key
        BY <2>3, <2>4, <2>5, <3>2
      <4> QED BY <2>5, <4>1 DEF InBuffer
    <3> QED BY <2>2, <3>1, <3>2
  <2> QED BY <2>10, <2>11, <2>12 DEF MessagesInv
<1> QED BY <1>2, <1>4, <1>5, LenProperties
(* What an acknowledgement, or a scan that gives up, takes away: it is with *)
(* the console, given up, or a 0 of the upper half.                         *)
LEMMA MessagesRest ==
  ASSUME MessagesInv, NEW a, NEW r, r = Link!Rest(a), NEW m \in accepted,
         \A i \in 1 .. Len(buffer) :
           Link!Covers(a, buffer[i].key) /\ buffer[i].num = m.num /\ buffer[i].key = m.key
             => m.num \in arrived \cup forsaken' \/ Link!Covers(0, m.key),
         forsaken \subseteq forsaken'
  PROVE  m.num \in arrived \cup forsaken' \/ InBuffer(m, r) \/ Link!Covers(0, m.key)
<1>1. MessageTypes /\ MessagesKept
  BY DEF MessagesInv
<1>2. CASE m.num \in arrived \cup forsaken \/ Link!Covers(0, m.key)
  BY <1>2
<1>3. CASE InBuffer(m, buffer)
  <2>1. PICK i \in 1 .. Len(buffer) : buffer[i].num = m.num /\ buffer[i].key = m.key
    BY <1>3 DEF InBuffer
  <2>2. Link!Covers(a, buffer[i].key) \/ \E j \in 1 .. Len(r) : r[j] = buffer[i]
    BY <1>1, RestIs DEF MessageTypes
  <2>3. CASE Link!Covers(a, buffer[i].key)
    BY <2>1, <2>3
  <2>4. CASE \E j \in 1 .. Len(r) : r[j] = buffer[i]
    BY <2>1, <2>4 DEF InBuffer
  <2> QED BY <2>2, <2>3, <2>4
<1> QED BY <1>1, <1>2, <1>3 DEF MessagesKept

(* The first number the console has not got.                                *)
LEMMA MissingIs ==
  ASSUME arrived \subseteq MessageNums
  PROVE  /\ Link!Missing \in Lowest .. Limit /\ Lowest .. Link!Missing - 1 \subseteq arrived
<1> DEFINE T == {n \in Lowest .. Limit : n \notin arrived}
<1>1. Lowest \in Nat /\ Limit \in Nat /\ Lowest <= Limit
  BY NumbersAre
<1>2. T \subseteq Nat /\ Limit \in T
  BY <1>1 DEF MessageNums
<1>3. PICK n \in T : \A k \in T : n <= k
  <2> HIDE DEF T
  <2> QED BY <1>2, LeastNat
<1>4. n \in Lowest .. Limit /\ n \notin arrived /\ Lowest .. n - 1 \subseteq arrived
  BY <1>1, <1>3
<1>5. \E k \in Lowest .. Limit : k \notin arrived /\ Lowest .. k - 1 \subseteq arrived
  BY <1>4
<1> QED BY <1>5 DEF Link!Missing

LEMMA MessagesAcked == ASSUME MessagesInv, Link!Acked PROVE MessagesInv'
<1>1. MessageTypes /\ MessagesTaken /\ MessagesKept
  BY DEF MessagesInv
<1>2. PICK a \in {Link!Wrap(n) : n \in Lowest .. Link!Missing} \cup {0} : Link!Becomes(Link!Rest(a))
  BY DEF Link!Acked
<1>3. UNCHANGED <<counter, sending, arrived, accepted, forsaken>> /\ MessageNums' = MessageNums
      /\ Link!SeqNums' = Link!SeqNums /\ Link!Keys' = Link!Keys /\ Buffered' = Buffered
  BY DEF Link!Acked, Link!history, Link!SeqNums, Link!SeqMod, Link!Keys, Buffered, MessageNums
<1>4. PICK r : r = Link!Rest(a)
  OBVIOUS
<1>5. r \in Seq(Buffered) /\ Len(r) <= Size /\ Distinct(r)
  <2>1. r \in Seq(Buffered) /\ Len(r) \in Nat /\ Len(r) <= Len(buffer) /\ Distinct(r)
    BY <1>1, <1>4, RestIs DEF MessageTypes
  <2>2. PICK n \in Nat : n = Len(buffer) /\ n <= Size
    BY <1>1, LenProperties DEF MessageTypes
  <2> QED BY <2>1, <2>2, NumbersAre
<1>6. buffer' = r /\ slot'[1] \in 0 .. Size /\ slot'[2] \in Link!SeqNums
  BY <1>1, <1>2, <1>4, <1>5, SlotStays
<1>7. MessageTypes'
  BY <1>1, <1>3, <1>5, <1>6 DEF MessageTypes
<1>8. MessagesTaken'
  BY <1>1, <1>3 DEF MessagesTaken
<1>9. ASSUME NEW m \in accepted, Link!Covers(a, m.key) PROVE m.num \in arrived \/ Link!Covers(0, m.key)
  <2>1. CASE a = 0
    BY <1>9, <2>1
  <2>2. CASE a \in {Link!Wrap(n) : n \in Lowest .. Link!Missing}
    <3>1. PICK n \in Lowest .. Link!Missing : a = Link!Wrap(n)
      BY <2>2
    <3>2. Link!Missing \in Lowest .. Limit /\ Lowest .. Link!Missing - 1 \subseteq arrived
      BY <1>1, MissingIs DEF MessageTypes
    <3>3. PICK l \in Lowest .. Limit : l = Link!Missing
      BY <3>2
    <3>4. n \in Lowest .. Limit /\ n <= l /\ n \in 0 .. Limit
      BY <3>1, <3>3, NumbersAre
    <3>5. a = n
      BY <3>1, <3>4, NumbersAre
    <3>6. PICK x, k : x = m.num /\ k = m.key /\ x \in MessageNums /\ k \in x + 1 .. Limit
      BY <1>1 DEF MessagesTaken
    <3>7. k \in Lowest .. Limit /\ x \in Int /\ Lowest <= x /\ x < k
      BY <3>6, NumbersAre DEF MessageNums
    <3>8. k <= n
      BY <1>9, <3>4, <3>5, <3>6, <3>7, NumbersAre
    <3>9. x \in Lowest .. l - 1
      BY <3>4, <3>7, <3>8, NumbersAre
    <3> QED BY <3>2, <3>3, <3>6, <3>9
  <2> QED BY <2>1, <2>2
<1>10. MessagesKept'
  <2> SUFFICES ASSUME NEW m \in accepted
               PROVE  m.num \in arrived \cup forsaken' \/ InBuffer(m, r) \/ Link!Covers(0, m.key)
    BY <1>3, <1>6 DEF MessagesKept, InBuffer, Link!Covers, Link!SeqLt
  <2>1. forsaken \subseteq forsaken'
    BY <1>3
  <2>2. \A i \in 1 .. Len(buffer) :
           Link!Covers(a, buffer[i].key) /\ buffer[i].num = m.num /\ buffer[i].key = m.key
             => m.num \in arrived \cup forsaken' \/ Link!Covers(0, m.key)
    BY <1>9
  <2> QED BY <1>4, <2>1, <2>2, MessagesRest
<1> QED BY <1>7, <1>8, <1>10 DEF MessagesInv

LEMMA MessagesForsaken == ASSUME MessagesInv, Link!Forsake PROVE MessagesInv'
<1>1. MessageTypes /\ MessagesTaken /\ MessagesKept
  BY DEF MessagesInv
<1>2. PICK a, r : a = slot[2] /\ r = Link!Rest(a)
  OBVIOUS
<1>3. /\ slot' = <<0, 0>> /\ buffer' = r
      /\ forsaken' = forsaken \cup {buffer[i].num : i \in {k \in DOMAIN buffer : Link!Covers(a, buffer[k].key)}}
      /\ UNCHANGED <<counter, sending, arrived, accepted>>
  BY <1>2 DEF Link!Forsake, Link!Scanning
<1>4. MessageNums' = MessageNums
      /\ Link!SeqNums' = Link!SeqNums /\ Link!Keys' = Link!Keys /\ Buffered' = Buffered
  BY DEF Link!SeqNums, Link!SeqMod, Link!Keys, Buffered, MessageNums
<1>5. DOMAIN buffer = 1 .. Len(buffer)
  BY <1>1, LenProperties DEF MessageTypes
<1>6. forsaken \subseteq forsaken' /\ forsaken' \subseteq MessageNums
  <2>1. \A i \in DOMAIN buffer : buffer[i].num \in MessageNums
    BY <1>1, <1>5, BufferedIs
  <2>2. forsaken \subseteq MessageNums
    BY <1>1 DEF MessageTypes
  <2> QED BY <1>3, <2>1, <2>2
<1>7. r \in Seq(Buffered) /\ Len(r) <= Size /\ Distinct(r)
  <2>1. r \in Seq(Buffered) /\ Len(r) \in Nat /\ Len(r) <= Len(buffer) /\ Distinct(r)
    BY <1>1, <1>2, RestIs DEF MessageTypes
  <2>2. PICK n \in Nat : n = Len(buffer) /\ n <= Size
    BY <1>1, LenProperties DEF MessageTypes
  <2> QED BY <2>1, <2>2, NumbersAre
<1>8. slot'[1] \in 0 .. Size /\ slot'[2] \in Link!SeqNums
  <2>1. 0 \in 0 .. Size /\ 0 \in Link!SeqNums
    BY NumbersAre
  <2>2. slot'[1] = 0 /\ slot'[2] = 0
    BY <1>3
  <2> QED BY <2>1, <2>2
<1>9. MessageTypes'
  BY <1>1, <1>3, <1>4, <1>6, <1>7, <1>8 DEF MessageTypes
<1>10. MessagesTaken'
  BY <1>1, <1>3, <1>4 DEF MessagesTaken
<1>11. MessagesKept'
  <2> SUFFICES ASSUME NEW m \in accepted
               PROVE  m.num \in arrived \cup forsaken' \/ InBuffer(m, r) \/ Link!Covers(0, m.key)
    BY <1>3 DEF MessagesKept, InBuffer, Link!Covers, Link!SeqLt
  <2>1. \A i \in 1 .. Len(buffer) :
           Link!Covers(a, buffer[i].key) /\ buffer[i].num = m.num /\ buffer[i].key = m.key
             => m.num \in arrived \cup forsaken' \/ Link!Covers(0, m.key)
    BY <1>3, <1>5
  <2> QED BY <1>2, <1>6, <2>1, MessagesRest
<1> QED BY <1>9, <1>10, <1>11 DEF MessagesInv
(* A scan changes how often a message was tried, and nothing else.          *)
LEMMA MessagesScan == ASSUME MessagesInv, Link!Scan PROVE MessagesInv'
<1>1. MessageTypes /\ MessagesTaken /\ MessagesKept
  BY DEF MessagesInv
<1>2. PICK due \in SUBSET DOMAIN buffer, again \in SUBSET DOMAIN buffer, stp \in SUBSET DOMAIN buffer :
        /\ buffer' = [i \in DOMAIN buffer |-> IF i \in again THEN [buffer[i] EXCEPT !.tries = @ + 1] ELSE buffer[i]]
        /\ \E some \in SUBSET again : arrived' = arrived \cup {buffer[i].num : i \in some}
        /\ IF stp = {} THEN UNCHANGED slot ELSE \E i \in stp : slot' = <<i, buffer[i].key>>
  <2>1. PICK due \in SUBSET DOMAIN buffer :
           LET stop_ == {i \in due : Link!Spent(i) /\ \A j \in due : j < i => ~Link!Spent(j)}
               again == {i \in due : \A j \in due : j <= i => ~Link!Spent(j)}
           IN  /\ buffer' = [i \in DOMAIN buffer |-> IF i \in again THEN [buffer[i] EXCEPT !.tries = @ + 1] ELSE buffer[i]]
               /\ \E some \in SUBSET again : arrived' = arrived \cup {buffer[i].num : i \in some}
               /\ IF stop_ = {} THEN UNCHANGED slot ELSE \E i \in stop_ : slot' = <<i, buffer[i].key>>
    BY DEF Link!Scan
  <2> QED BY <2>1
<1>3. UNCHANGED <<counter, sending, accepted, forsaken>> /\ MessageNums' = MessageNums
      /\ Link!SeqNums' = Link!SeqNums /\ Link!Keys' = Link!Keys /\ Buffered' = Buffered
  BY DEF Link!Scan, Link!history, Link!SeqNums, Link!SeqMod, Link!Keys, Buffered, MessageNums
<1>4. PICK n \in Nat : n = Len(buffer) /\ n <= Size /\ DOMAIN buffer = 1 .. n
  BY <1>1, LenProperties DEF MessageTypes
<1>5. PICK r : r = buffer'
  OBVIOUS
<1>6. ASSUME NEW i \in 1 .. n PROVE r[i] \in Buffered /\ r[i].num = buffer[i].num /\ r[i].key = buffer[i].key
  <2>1. PICK p \in Buffered : p = buffer[i]
    BY <1>1, <1>4, BufferedIs
  <2>2. r[i] = IF i \in again THEN [p EXCEPT !.tries = p.tries + 1] ELSE p
    BY <1>2, <1>4, <1>5, <2>1
  <2>3. [p EXCEPT !.tries = p.tries + 1] = [num |-> p.num, key |-> p.key, tries |-> p.tries + 1]
    BY DEF Buffered
  <2>4. p.num \in MessageNums /\ p.key \in Link!SeqNums /\ p.tries + 1 \in Int
    BY DEF Buffered
  <2> QED BY <2>1, <2>2, <2>3, <2>4 DEF Buffered
<1>7. r \in Seq(Buffered) /\ Len(r) = n
  <2>1. r = [i \in 1 .. n |-> r[i]]
    BY <1>2, <1>4, <1>5
  <2>2. r \in [1 .. n -> Buffered]
    BY <1>6, <2>1
  <2> QED BY <2>2, LenOfFunction
<1>8. Distinct(r)
  BY <1>1, <1>4, <1>6, <1>7 DEF MessageTypes, Distinct
<1>9. arrived \subseteq arrived' /\ arrived' \subseteq MessageNums
  <2>1. \A i \in DOMAIN buffer : buffer[i].num \in MessageNums
    BY <1>1, <1>4, BufferedIs
  <2>2. arrived \subseteq MessageNums
    BY <1>1 DEF MessageTypes
  <2> QED BY <1>2, <2>1, <2>2
<1>10. slot'[1] \in 0 .. Size /\ slot'[2] \in Link!SeqNums
  <2>1. CASE UNCHANGED slot
    BY <1>1, <2>1 DEF MessageTypes
  <2>2. CASE \E i \in stp : slot' = <<i, buffer[i].key>>
    <3>1. PICK i \in 1 .. n : slot' = <<i, buffer[i].key>>
      BY <1>4, <2>2
    <3>2. slot'[1] = i /\ slot'[2] = buffer[i].key
      BY <3>1
    <3>3. i \in 0 .. Size
      BY <1>4, NumbersAre
    <3> QED BY <1>1, <1>4, <3>2, <3>3, BufferedIs
  <2> QED BY <1>2, <2>1, <2>2
<1>11. MessageTypes'
  BY <1>1, <1>3, <1>4, <1>5, <1>7, <1>8, <1>9, <1>10 DEF MessageTypes
<1>12. MessagesTaken'
  BY <1>1, <1>3 DEF MessagesTaken
<1>13. MessagesKept'
  <2>1. \A m : InBuffer(m, buffer) => InBuffer(m, r)
    BY <1>4, <1>6, <1>7 DEF InBuffer
  <2> QED BY <1>1, <1>3, <1>5, <1>9, <2>1 DEF MessagesKept, InBuffer, Link!Covers, Link!SeqLt
<1> QED BY <1>11, <1>12, <1>13 DEF MessagesInv

LEMMA MessagesSent ==
  ASSUME MessagesInv, NEW t \in Senders, Link!Take(t) \/ Link!SendMessage(t) PROVE MessagesInv'
<1>1. MessageTypes /\ MessagesTaken /\ MessagesKept
  BY DEF MessagesInv
<1>2. /\ sending' \in [Senders -> [num : -1 .. Limit, key : Link!Keys]]
      /\ counter' \in Lowest .. Limit
      /\ \A u \in Senders : Taken(sending'[u], counter')
  BY SendersStep
<1>3. UNCHANGED <<buffer, slot, accepted, forsaken>> /\ MessageNums' = MessageNums
      /\ Link!SeqNums' = Link!SeqNums /\ Link!Keys' = Link!Keys /\ Buffered' = Buffered
  BY DEF Link!Take, Link!SendMessage, Link!history, Link!SeqNums, Link!SeqMod, Link!Keys, Buffered,
         MessageNums
<1>4. arrived \subseteq arrived' /\ arrived' \subseteq MessageNums
  <2>1. arrived \subseteq MessageNums
    BY <1>1 DEF MessageTypes
  <2>2. CASE Link!Take(t)
    BY <2>1, <2>2 DEF Link!Take
  <2>3. CASE Link!SendMessage(t)
    <3>1. arrived' \in {arrived, arrived \cup {sending[t].num}} /\ sending[t].num # -1
      BY <2>3 DEF Link!SendMessage, Link!Sender
    <3>2. PICK r : r = sending[t] /\ Taken(r, counter) /\ r.num # -1
      BY <1>1, <3>1 DEF MessagesTaken
    <3>3. r.num \in MessageNums
      BY <1>1, <3>2, NumbersAre DEF Taken, MessageNums, MessageTypes
    <3> QED BY <2>1, <3>1, <3>2, <3>3
  <2> QED BY <2>2, <2>3
<1>5. MessageTypes'
  BY <1>1, <1>2, <1>3, <1>4 DEF MessageTypes, Distinct
<1>6. MessagesTaken'
  BY <1>1, <1>2, <1>3 DEF MessagesTaken
<1>7. MessagesKept'
  BY <1>1, <1>3, <1>4 DEF MessagesKept, InBuffer, Link!Covers, Link!SeqLt
<1> QED BY <1>5, <1>6, <1>7 DEF MessagesInv

LEMMA MessagesStay ==
  ASSUME MessagesInv, UNCHANGED <<counter, sending, buffer, slot, arrived, accepted, forsaken>>
  PROVE  MessagesInv'
<1>1. /\ MessageNums' = MessageNums /\ Link!SeqNums' = Link!SeqNums /\ Link!Keys' = Link!Keys
      /\ Buffered' = Buffered
  BY DEF Link!SeqNums, Link!SeqMod, Link!Keys, Buffered, MessageNums
<1>2. MessageTypes'
  BY <1>1 DEF MessagesInv, MessageTypes, Distinct
<1>3. MessagesTaken'
  BY <1>1 DEF MessagesInv, MessagesTaken
<1>4. MessagesKept'
  BY DEF MessagesInv, MessagesKept, InBuffer, Link!Covers, Link!SeqLt
<1> QED BY <1>2, <1>3, <1>4 DEF MessagesInv

LEMMA MessagesStep == ASSUME MessagesInv, Link!Next PROVE MessagesInv'
<1>1. CASE Link!Exchanging \/ Link!Open \/ Link!Console
  <2>1. UNCHANGED <<counter, sending, buffer, slot, arrived, accepted, forsaken>>
    BY <1>1 DEF Link!Exchanging, Link!Send, Link!Receive, Link!NoAnswer, Link!Exhausted, Link!Open,
                Link!Console, Link!messages, Link!history
  <2> QED BY <2>1, MessagesStay
<1>2. CASE Link!Sending
  BY <1>2, MessagesSent, MessagesPush DEF Link!Sending
<1>3. CASE Link!Acked \/ Link!Scan \/ Link!Forsake
  BY <1>3, MessagesAcked, MessagesScan, MessagesForsaken
<1> QED BY <1>1, <1>2, <1>3 DEF Link!Next

LEMMA LinkStep == LinkInv /\ Link!Next => LinkInv'
BY ExchangeStep, MessagesStep DEF LinkInv

LEMMA LinkStays == LinkInv /\ UNCHANGED linking => LinkInv'
<1> SUFFICES ASSUME LinkInv, UNCHANGED linking PROVE LinkInv' OBVIOUS
<1>1. /\ UNCHANGED <<rudpPc, conn, stage, try, waiting, socket, requests, misled>>
      /\ UNCHANGED <<counter, sending, buffer, slot, arrived, accepted, forsaken>>
  BY DEF linking
<1>2. ExchangeInv'
  BY <1>1 DEF LinkInv, ExchangeInv, ExchangeTypes
<1> QED BY <1>1, <1>2, MessagesStay DEF LinkInv
-----------------------------------------------------------------------------
(* What a session is made of (Creation).  A step takes something or checks  *)
(* something, and has what is to be released when it fails.                 *)
SessionPsnWords ==
  {"state cond", "state mutex", "stop pipe", "notif mutex", "notif pipe", "stream mutex",
   "stream cond", "packet stats", "feedback mutex"}
SessionWords ==
  {"state cond", "state mutex", "stop pipe", "notif mutex", "notif pipe", "stream mutex",
   "stream cond", "packet stats", "feedback mutex", "host"}
TakionWords == {"key mutex", "seq num mutex", "takion pipe", "sock", "takion thread"}
KeyWords == {"gkcrypt", "key buf", "buf mutex", "buf cond", "key thread"}
FeedbackWords == {"history buffer", "feedback state mutex", "feedback cond", "feedback thread"}
BufferWords ==
  {"packets", "buffer mutex", "buffer cond", "resend thread", "rudp", "counter mutex",
   "rudp pipe"}
CongestionWords == {"stop mutex", "stop cond", "congestion thread"}
DiscoveryWords == {"socket", "pipe", "discovery thread"}
AudioWords == {"frame buf", "packet buf", "audio mutex"}
PunchWords ==
  {"hole session", "oauth header", "queue", "hole notif mutex", "hole notif cond",
   "hole notif pipe", "select pipe", "hole state mutex", "hole stop mutex", "hole state cond",
   "curl share"}
AppWords ==
  {"log", "session", "video decoder", "audio decoder", "audio output", "references", "holepunch",
   "hole"}
Words ==
  SessionWords \cup TakionWords \cup KeyWords \cup FeedbackWords \cup BufferWords
    \cup CongestionWords \cup DiscoveryWords \cup AudioWords \cup PunchWords \cup AppWords
Names ==
  Words \cup {"receive buffer", "fragments", "extra messages", "connect", "key", "bind", "keys",
             "devices", "device"}
Step ==
  [name : Names, takes : SUBSET Words, release : Seq(Words), says : {"ok", "failed"},
   may : BOOLEAN]
TakenBy(s, k) == UNION {s[j].takes : j \in 1 .. k}

(* A list that releases each of X once, and nothing else.                   *)
Releases(q, X) ==
  /\ q \in Seq(Words)
  /\ \A x : x \in X <=> \E i \in 1 .. Len(q) : q[i] = x
  /\ \A i, j \in 1 .. Len(q) : q[i] = q[j] => i = j

(* Steps that follow what took G and take T: whichever fails, unless it is  *)
(* named in W, releases what is there by then and says so; a thread is the  *)
(* last to be taken, and the hole is punched by the session that is for it. *)
Tidy(s, G, T, W) ==
  /\ s \in Seq(Step) /\ T = TakenBy(s, Len(s))
  /\ \A i \in 1 .. Len(s) :
       s[i].may /\ s[i].name \notin W
         => s[i].says = "failed" /\ Releases(s[i].release, G \cup TakenBy(s, i - 1))
  /\ \A i \in 1 .. Len(s) : s[i].takes \cap Made!Threads # {} => i = Len(s)
  /\ \A i \in 1 .. Len(s) :
       s[i].name = "hole" => "holepunch" \in W /\ "holepunch" \in G \cup TakenBy(s, i - 1)

LEMMA ReleasesNone == Releases(<<>>, {})
<1>1. <<>> \in Seq(Words) /\ Len(<<>>) = 0
  BY EmptySeq
<1> QED BY <1>1 DEF Releases

LEMMA ReleasesOne == ASSUME NEW x \in Words PROVE Releases(<<x>>, {x})
<1>1. PICK q : q = <<x>>
  OBVIOUS
<1>2. q \in Seq(Words) /\ Len(q) = 1 /\ q[1] = x
  BY <1>1, ShortSeqs
<1>3. 1 .. 1 = {1}
  OBVIOUS
<1>4. Releases(q, {x})
  BY <1>2, <1>3 DEF Releases
<1> QED BY <1>1, <1>4

LEMMA ReleasesBoth ==
  ASSUME NEW p, NEW q, NEW X, NEW Y, Releases(p, X), Releases(q, Y), X \cap Y = {}
  PROVE  Releases(p \o q, X \cup Y)
<1>1. PICK m \in Nat, n \in Nat : m = Len(p) /\ n = Len(q)
  BY LenProperties DEF Releases
<1>2. PICK r : r = p \o q
  OBVIOUS
<1>3. /\ r \in Seq(Words) /\ Len(r) = m + n
      /\ \A i \in 1 .. m + n : r[i] = IF i <= m THEN p[i] ELSE q[i - m]
  BY <1>1, <1>2, ConcatProperties DEF Releases
<1>4. /\ \A i \in 1 .. m : i \in 1 .. m + n /\ r[i] = p[i] /\ r[i] \in X
      /\ \A i \in 1 .. n : m + i \in 1 .. m + n /\ r[m + i] = q[i] /\ r[m + i] \in Y
  <2>1. \A i \in 1 .. m : i \in 1 .. m + n /\ r[i] = p[i]
    BY <1>3
  <2>2. \A i \in 1 .. n : m + i \in 1 .. m + n /\ ~(m + i <= m) /\ (m + i) - m = i
    OBVIOUS
  <2>3. \A i \in 1 .. n : r[m + i] = q[i]
    BY <1>3, <2>2
  <2> QED BY <1>1, <2>1, <2>2, <2>3 DEF Releases
<1>5. \A i \in 1 .. m + n : i \in 1 .. m \/ \E k \in 1 .. n : i = m + k
  <2> SUFFICES ASSUME NEW i \in 1 .. m + n, i \notin 1 .. m PROVE \E k \in 1 .. n : i = m + k
    OBVIOUS
  <2>1. i - m \in 1 .. n /\ i = m + (i - m)
    OBVIOUS
  <2> QED BY <2>1
<1>6. \A x : x \in X \cup Y <=> \E i \in 1 .. m + n : r[i] = x
  <2>1. ASSUME NEW x, x \in X PROVE \E i \in 1 .. m + n : r[i] = x
    <3>1. PICK i \in 1 .. m : p[i] = x
      BY <1>1, <2>1 DEF Releases
    <3> QED BY <1>4, <3>1
  <2>2. ASSUME NEW x, x \in Y PROVE \E i \in 1 .. m + n : r[i] = x
    <3>1. PICK i \in 1 .. n : q[i] = x
      BY <1>1, <2>2 DEF Releases
    <3> QED BY <1>4, <3>1
  <2>3. \A i \in 1 .. m + n : r[i] \in X \cup Y
    BY <1>4, <1>5
  <2> QED BY <2>1, <2>2, <2>3
<1>7. ASSUME NEW i \in 1 .. m + n, NEW j \in 1 .. m + n, r[i] = r[j] PROVE i = j
  <2>1. CASE i \in 1 .. m /\ j \in 1 .. m
    BY <1>1, <1>4, <1>7, <2>1 DEF Releases
  <2>2. CASE \E k, l \in 1 .. n : i = m + k /\ j = m + l
    BY <1>1, <1>4, <1>7, <2>2 DEF Releases
  <2>3. CASE (i \in 1 .. m /\ \E l \in 1 .. n : j = m + l) \/ (j \in 1 .. m /\ \E l \in 1 .. n : i = m + l)
    BY <1>4, <1>7, <2>3
  <2> QED BY <1>5, <2>1, <2>2, <2>3
<1> QED BY <1>2, <1>3, <1>6, <1>7 DEF Releases

LEMMA ReleasesFirst ==
  ASSUME NEW x \in Words, NEW q, NEW X, Releases(q, X), x \notin X
  PROVE  Releases(<<x>> \o q, {x} \cup X)
BY ReleasesOne, ReleasesBoth

LEMMA StepFields ==
  ASSUME NEW r \in Step
  PROVE  /\ r.name \in Names /\ r.takes \subseteq Words /\ r.release \in Seq(Words)
         /\ r.says \in {"ok", "failed"} /\ r.may \in BOOLEAN
BY DEF Step

LEMMA TidyElse ==
  ASSUME NEW s, NEW B, NEW G, NEW T, NEW W, Tidy(s, B, T, W),
         NEW label, Releases(label, G), G \cap (B \cup T) = {}
  PROVE  Tidy(Made!Else(s, label), B \cup G, T, W)
<1>1. PICK n \in Nat : n = Len(s) /\ DOMAIN s = 1 .. n
  BY LenProperties DEF Tidy
<1>2. PICK r : r = Made!Else(s, label)
  OBVIOUS
<1>3. r = [i \in 1 .. n |-> [s[i] EXCEPT !.release = s[i].release \o label]]
  BY <1>1, <1>2 DEF Made!Else
<1>4. ASSUME NEW i \in 1 .. n
      PROVE  /\ r[i] \in Step /\ r[i].name = s[i].name /\ r[i].takes = s[i].takes
             /\ r[i].release = s[i].release \o label /\ r[i].says = s[i].says /\ r[i].may = s[i].may
  <2>1. PICK p \in Step : p = s[i]
    BY <1>1, ElementOfSeq DEF Tidy
  <2>2. PICK l : l = p.release \o label
    OBVIOUS
  <2>3. l \in Seq(Words)
    BY <2>2, ConcatProperties DEF Step, Releases
  <2>4. r[i] = [p EXCEPT !.release = l]
    BY <1>3, <2>1, <2>2
  <2>5. [p EXCEPT !.release = l]
          = [name |-> p.name, takes |-> p.takes, release |-> l, says |-> p.says, may |-> p.may]
    BY DEF Step
  <2>6. p.name \in Names /\ p.takes \in SUBSET Words /\ p.says \in {"ok", "failed"} /\ p.may \in BOOLEAN
    BY DEF Step
  <2>7. r[i] \in Step
    BY <2>3, <2>4, <2>5, <2>6 DEF Step
  <2> QED BY <2>1, <2>2, <2>4, <2>5, <2>7
<1>5. r \in Seq(Step) /\ Len(r) = n
  <2>1. r \in [1 .. n -> Step]
    BY <1>3, <1>4
  <2> QED BY <2>1, LenOfFunction
<1>6. ASSUME NEW k \in 0 .. n PROVE TakenBy(r, k) = TakenBy(s, k)
  <2>1. \A j \in 1 .. k : j \in 1 .. n
    OBVIOUS
  <2>2. \A j \in 1 .. k : r[j].takes = s[j].takes
    BY <1>4, <2>1
  <2> QED BY <2>2 DEF TakenBy
<1>7. ASSUME NEW i \in 1 .. n, r[i].may, r[i].name \notin W
      PROVE  r[i].says = "failed" /\ Releases(r[i].release, (B \cup G) \cup TakenBy(r, i - 1))
  <2>1. s[i].says = "failed" /\ Releases(s[i].release, B \cup TakenBy(s, i - 1))
    BY <1>1, <1>4, <1>7 DEF Tidy
  <2>2. TakenBy(s, i - 1) \subseteq T
    <3>1. \A j \in 1 .. i - 1 : j \in 1 .. n
      OBVIOUS
    <3> QED BY <1>1, <3>1 DEF Tidy, TakenBy
  <2>3. Releases(s[i].release \o label, (B \cup TakenBy(s, i - 1)) \cup G)
    BY <2>1, <2>2, ReleasesBoth
  <2>4. (B \cup TakenBy(s, i - 1)) \cup G = (B \cup G) \cup TakenBy(s, i - 1)
    OBVIOUS
  <2>5. TakenBy(r, i - 1) = TakenBy(s, i - 1)
    BY <1>6
  <2> QED BY <1>4, <2>1, <2>3, <2>4, <2>5
<1>8. T = TakenBy(r, n) /\ \A i \in 1 .. n : r[i].takes \cap Made!Threads # {} => i = n
  <2>1. TakenBy(r, n) = TakenBy(s, n)
    BY <1>6
  <2> QED BY <1>1, <1>4, <2>1 DEF Tidy
<1>10. ASSUME NEW i \in 1 .. n, r[i].name = "hole"
       PROVE  "holepunch" \in W /\ "holepunch" \in (B \cup G) \cup TakenBy(r, i - 1)
  <2>1. TakenBy(r, i - 1) = TakenBy(s, i - 1)
    BY <1>6
  <2> QED BY <1>1, <1>4, <1>10, <2>1 DEF Tidy
<1>9. Tidy(r, B \cup G, T, W)
  BY <1>5, <1>7, <1>8, <1>10 DEF Tidy
<1> QED BY <1>2, <1>9

LEMMA TidyConcat ==
  ASSUME NEW a, NEW b, NEW G, NEW A, NEW B, NEW W,
         Tidy(a, G, A, W), Tidy(b, G \cup A, B, W), A \cap Made!Threads = {}
  PROVE  Tidy(a \o b, G, A \cup B, W)
<1>1. PICK m \in Nat, n \in Nat : m = Len(a) /\ n = Len(b)
  BY LenProperties DEF Tidy
<1>2. PICK r : r = a \o b
  OBVIOUS
<1>3. /\ r \in Seq(Step) /\ Len(r) = m + n
      /\ \A i \in 1 .. m + n : r[i] = IF i <= m THEN a[i] ELSE b[i - m]
  BY <1>1, <1>2, ConcatProperties DEF Tidy
<1>4. \A i \in 1 .. m : i \in 1 .. m + n /\ r[i] = a[i]
  BY <1>3
<1>5. \A i \in 1 .. n : m + i \in 1 .. m + n /\ r[m + i] = b[i]
  <2>1. \A i \in 1 .. n : m + i \in 1 .. m + n /\ ~(m + i <= m) /\ (m + i) - m = i
    OBVIOUS
  <2> QED BY <1>3, <2>1
<1>6. \A i \in 1 .. m + n : i \in 1 .. m \/ \E k \in 1 .. n : i = m + k
  <2> SUFFICES ASSUME NEW i \in 1 .. m + n, i \notin 1 .. m PROVE \E k \in 1 .. n : i = m + k
    OBVIOUS
  <2>1. i - m \in 1 .. n /\ i = m + (i - m)
    OBVIOUS
  <2> QED BY <2>1
<1>7. ASSUME NEW k \in 0 .. m PROVE TakenBy(r, k) = TakenBy(a, k)
  <2>1. \A j \in 1 .. k : j \in 1 .. m
    OBVIOUS
  <2>2. \A j \in 1 .. k : r[j].takes = a[j].takes
    BY <1>4, <2>1
  <2> QED BY <2>2 DEF TakenBy
<1>8. A = TakenBy(a, m) /\ B = TakenBy(b, n)
  BY <1>1 DEF Tidy
<1>9. ASSUME NEW k \in 0 .. n PROVE TakenBy(r, m + k) = A \cup TakenBy(b, k)
  <2>1. \A j \in 1 .. m + k : j \in 1 .. m \/ \E l \in 1 .. k : j = m + l
    <3> SUFFICES ASSUME NEW j \in 1 .. m + k, j \notin 1 .. m PROVE \E l \in 1 .. k : j = m + l
      OBVIOUS
    <3>1. j - m \in 1 .. k /\ j = m + (j - m)
      OBVIOUS
    <3> QED BY <3>1
  <2>2. (\A j \in 1 .. m : j \in 1 .. m + k) /\ (\A l \in 1 .. k : m + l \in 1 .. m + k /\ l \in 1 .. n)
    OBVIOUS
  <2>3. (\A j \in 1 .. m : r[j].takes = a[j].takes) /\ (\A l \in 1 .. k : r[m + l].takes = b[l].takes)
    BY <1>4, <1>5, <2>2
  <2>4. ASSUME NEW x PROVE x \in TakenBy(r, m + k) <=> x \in A \cup TakenBy(b, k)
    <3>1. x \in TakenBy(r, m + k) <=> \E j \in 1 .. m + k : x \in r[j].takes
      BY DEF TakenBy
    <3>2. x \in A \cup TakenBy(b, k)
            <=> (\E j \in 1 .. m : x \in a[j].takes) \/ (\E l \in 1 .. k : x \in b[l].takes)
      BY <1>8 DEF TakenBy
    <3>3. ASSUME NEW j \in 1 .. m + k, x \in r[j].takes PROVE x \in A \cup TakenBy(b, k)
      <4>1. CASE j \in 1 .. m
        BY <2>3, <3>2, <3>3, <4>1
      <4>2. CASE \E l \in 1 .. k : j = m + l
        BY <2>3, <3>2, <3>3, <4>2
      <4> QED BY <2>1, <4>1, <4>2
    <3>4. ASSUME NEW j \in 1 .. m, x \in a[j].takes PROVE \E i \in 1 .. m + k : x \in r[i].takes
      BY <2>2, <2>3, <3>4
    <3>5. ASSUME NEW l \in 1 .. k, x \in b[l].takes PROVE \E i \in 1 .. m + k : x \in r[i].takes
      BY <2>2, <2>3, <3>5
    <3> QED BY <3>1, <3>2, <3>3, <3>4, <3>5
  <2> QED BY <2>4
<1>10. ASSUME NEW i \in 1 .. m
       PROVE  /\ r[i].may /\ r[i].name \notin W
                   => r[i].says = "failed" /\ Releases(r[i].release, G \cup TakenBy(r, i - 1))
              /\ ~(r[i].takes \cap Made!Threads # {})
              /\ r[i].name = "hole" => "holepunch" \in W /\ "holepunch" \in G \cup TakenBy(r, i - 1)
  <2>1. i - 1 \in 0 .. m /\ r[i] = a[i]
    BY <1>4
  <2>2. TakenBy(r, i - 1) = TakenBy(a, i - 1)
    BY <1>7, <2>1
  <2>3. a[i].takes \subseteq A
    BY <1>8 DEF TakenBy
  <2> QED BY <1>1, <2>1, <2>2, <2>3 DEF Tidy
<1>11. ASSUME NEW k \in 1 .. n
       PROVE  /\ r[m + k].may /\ r[m + k].name \notin W
                   => /\ r[m + k].says = "failed"
                      /\ Releases(r[m + k].release, G \cup TakenBy(r, (m + k) - 1))
              /\ r[m + k].takes \cap Made!Threads # {} => m + k = m + n
              /\ r[m + k].name = "hole"
                   => "holepunch" \in W /\ "holepunch" \in G \cup TakenBy(r, (m + k) - 1)
  <2>1. k - 1 \in 0 .. n /\ r[m + k] = b[k] /\ (m + k) - 1 = m + (k - 1)
    BY <1>5
  <2>2. G \cup TakenBy(r, (m + k) - 1) = (G \cup A) \cup TakenBy(b, k - 1)
    BY <1>9, <2>1
  <2>3. /\ b[k].may /\ b[k].name \notin W
             => b[k].says = "failed" /\ Releases(b[k].release, (G \cup A) \cup TakenBy(b, k - 1))
        /\ b[k].takes \cap Made!Threads # {} => k = n
        /\ b[k].name = "hole" => "holepunch" \in W /\ "holepunch" \in (G \cup A) \cup TakenBy(b, k - 1)
    BY <1>1 DEF Tidy
  <2> QED BY <2>1, <2>2, <2>3
<1>12. A \cup B = TakenBy(r, m + n)
  BY <1>8, <1>9
<1>13. \A i \in 1 .. m + n :
         /\ r[i].may /\ r[i].name \notin W
              => r[i].says = "failed" /\ Releases(r[i].release, G \cup TakenBy(r, i - 1))
         /\ r[i].takes \cap Made!Threads # {} => i = m + n
         /\ r[i].name = "hole" => "holepunch" \in W /\ "holepunch" \in G \cup TakenBy(r, i - 1)
  BY <1>6, <1>10, <1>11
<1>14. Tidy(r, G, A \cup B, W)
  BY <1>3, <1>12, <1>13 DEF Tidy
<1> QED BY <1>2, <1>14

(* What follows with its label releases what there was before, and more.    *)
LEMMA TidyThen ==
  ASSUME NEW a, NEW b, NEW label, NEW G, NEW A, NEW B, NEW W,
         Tidy(a, G, A, W), Tidy(b, {}, B, W), Releases(label, G \cup A),
         (G \cup A) \cap B = {}, A \cap Made!Threads = {}
  PROVE  Tidy(a \o Made!Else(b, label), G, A \cup B, W)
<1>1. Tidy(Made!Else(b, label), {} \cup (G \cup A), B, W)
  BY TidyElse
<1>2. {} \cup (G \cup A) = G \cup A
  OBVIOUS
<1> QED BY <1>1, <1>2, TidyConcat

LEMMA TidyMore ==
  ASSUME NEW s, NEW G, NEW T, NEW W, NEW V, Tidy(s, G, T, W), W \subseteq V
  PROVE  Tidy(s, G, T, V)
BY DEF Tidy

(* One step.                                                                *)
LEMMA StepAlone ==
  ASSUME NEW p \in Step, NEW G, NEW W, p.name # "hole",
         p.may /\ p.name \notin W => p.says = "failed" /\ Releases(p.release, G)
  PROVE  Tidy(<<p>>, G, p.takes, W)
<1>1. PICK s : s = <<p>>
  OBVIOUS
<1>2. s \in Seq(Step) /\ Len(s) = 1 /\ s[1] = p
  BY <1>1, ShortSeqs
<1>3. 1 .. 1 = {1} /\ 1 .. 1 - 1 = {}
  OBVIOUS
<1>4. TakenBy(s, 1) = p.takes /\ TakenBy(s, 1 - 1) = {}
  BY <1>2, <1>3 DEF TakenBy
<1>5. G \cup TakenBy(s, 1 - 1) = G
  BY <1>4
<1>6. Tidy(s, G, p.takes, W)
  BY <1>2, <1>3, <1>4, <1>5 DEF Tidy
<1> QED BY <1>1, <1>6

LEMMA ReleasesTuple ==
  ASSUME NEW n \in Nat, NEW q \in [1 .. n -> Words], NEW X,
         \A i, j \in 1 .. n : q[i] = q[j] => i = j,
         \A x : x \in X <=> \E i \in 1 .. n : q[i] = x
  PROVE  Releases(q, X)
<1>1. q \in Seq(Words) /\ Len(q) = n
  BY LenOfFunction
<1> QED BY <1>1 DEF Releases

LEMMA ReleasesTwo ==
  ASSUME NEW a, NEW b, {a, b} \subseteq Words,
         a # b
  PROVE  Releases(<<a, b>>, {a, b})
<1>1. PICK q : q = <<a, b>>
  OBVIOUS
<1>2. q \in [1 .. 2 -> Words]
  BY <1>1
<1>3. q[1] = a /\ q[2] = b
  BY <1>1
<1>4. 1 .. 2 = {1, 2}
  OBVIOUS
<1>5. \A i, j \in 1 .. 2 : q[i] = q[j] => i = j
  BY <1>3, <1>4
<1>6. PICK X : X = {a, b}
  OBVIOUS
<1>n. PICK n \in Nat : n = 2
  OBVIOUS
<1>7. q \in [1 .. n -> Words] /\ \A i, j \in 1 .. n : q[i] = q[j] => i = j
  BY <1>2, <1>5, <1>n
<1>8. \A x : x \in X <=> \E i \in 1 .. n : q[i] = x
  BY <1>3, <1>4, <1>6, <1>n
<1>9. Releases(q, X)
  BY <1>7, <1>8, ReleasesTuple
<1> QED BY <1>1, <1>6, <1>9

LEMMA ReleasesThree ==
  ASSUME NEW a, NEW b, NEW c, {a, b, c} \subseteq Words,
         a \notin {b, c},
         b \notin {c}
  PROVE  Releases(<<a, b, c>>, {a, b, c})
<1>1. PICK q : q = <<a, b, c>>
  OBVIOUS
<1>2. q \in [1 .. 3 -> Words]
  BY <1>1
<1>3. q[1] = a /\ q[2] = b /\ q[3] = c
  BY <1>1
<1>4. 1 .. 3 = {1, 2, 3}
  OBVIOUS
<1>5. \A i, j \in 1 .. 3 : q[i] = q[j] => i = j
  BY <1>3, <1>4
<1>6. PICK X : X = {a, b, c}
  OBVIOUS
<1>n. PICK n \in Nat : n = 3
  OBVIOUS
<1>7. q \in [1 .. n -> Words] /\ \A i, j \in 1 .. n : q[i] = q[j] => i = j
  BY <1>2, <1>5, <1>n
<1>8. \A x : x \in X <=> \E i \in 1 .. n : q[i] = x
  BY <1>3, <1>4, <1>6, <1>n
<1>9. Releases(q, X)
  BY <1>7, <1>8, ReleasesTuple
<1> QED BY <1>1, <1>6, <1>9

LEMMA ReleasesFour ==
  ASSUME NEW a, NEW b, NEW c, NEW d, {a, b, c, d} \subseteq Words,
         a \notin {b, c, d},
         b \notin {c, d},
         c \notin {d}
  PROVE  Releases(<<a, b, c, d>>, {a, b, c, d})
<1>1. PICK q : q = <<a, b, c, d>>
  OBVIOUS
<1>2. q \in [1 .. 4 -> Words]
  BY <1>1
<1>3. q[1] = a /\ q[2] = b /\ q[3] = c /\ q[4] = d
  BY <1>1
<1>4. 1 .. 4 = {1, 2, 3, 4}
  OBVIOUS
<1>5. \A i, j \in 1 .. 4 : q[i] = q[j] => i = j
  BY <1>3, <1>4
<1>6. PICK X : X = {a, b, c, d}
  OBVIOUS
<1>n. PICK n \in Nat : n = 4
  OBVIOUS
<1>7. q \in [1 .. n -> Words] /\ \A i, j \in 1 .. n : q[i] = q[j] => i = j
  BY <1>2, <1>5, <1>n
<1>8. \A x : x \in X <=> \E i \in 1 .. n : q[i] = x
  BY <1>3, <1>4, <1>6, <1>n
<1>9. Releases(q, X)
  BY <1>7, <1>8, ReleasesTuple
<1> QED BY <1>1, <1>6, <1>9

LEMMA ReleasesFive ==
  ASSUME NEW a, NEW b, NEW c, NEW d, NEW e, {a, b, c, d, e} \subseteq Words,
         a \notin {b, c, d, e},
         b \notin {c, d, e},
         c \notin {d, e},
         d \notin {e}
  PROVE  Releases(<<a, b, c, d, e>>, {a, b, c, d, e})
<1>1. PICK q : q = <<a, b, c, d, e>>
  OBVIOUS
<1>2. q \in [1 .. 5 -> Words]
  BY <1>1
<1>3. q[1] = a /\ q[2] = b /\ q[3] = c /\ q[4] = d /\ q[5] = e
  BY <1>1
<1>4. 1 .. 5 = {1, 2, 3, 4, 5}
  OBVIOUS
<1>5. \A i, j \in 1 .. 5 : q[i] = q[j] => i = j
  BY <1>3, <1>4
<1>6. PICK X : X = {a, b, c, d, e}
  OBVIOUS
<1>n. PICK n \in Nat : n = 5
  OBVIOUS
<1>7. q \in [1 .. n -> Words] /\ \A i, j \in 1 .. n : q[i] = q[j] => i = j
  BY <1>2, <1>5, <1>n
<1>8. \A x : x \in X <=> \E i \in 1 .. n : q[i] = x
  BY <1>3, <1>4, <1>6, <1>n
<1>9. Releases(q, X)
  BY <1>7, <1>8, ReleasesTuple
<1> QED BY <1>1, <1>6, <1>9

LEMMA ReleasesSix ==
  ASSUME NEW a, NEW b, NEW c, NEW d, NEW e, NEW f, {a, b, c, d, e, f} \subseteq Words,
         a \notin {b, c, d, e, f},
         b \notin {c, d, e, f},
         c \notin {d, e, f},
         d \notin {e, f},
         e \notin {f}
  PROVE  Releases(<<a, b, c, d, e, f>>, {a, b, c, d, e, f})
<1>1. PICK q : q = <<a, b, c, d, e, f>>
  OBVIOUS
<1>2. q \in [1 .. 6 -> Words]
  BY <1>1
<1>3. q[1] = a /\ q[2] = b /\ q[3] = c /\ q[4] = d /\ q[5] = e /\ q[6] = f
  BY <1>1
<1>4. 1 .. 6 = {1, 2, 3, 4, 5, 6}
  OBVIOUS
<1>5. \A i, j \in 1 .. 6 : q[i] = q[j] => i = j
  BY <1>3, <1>4
<1>6. PICK X : X = {a, b, c, d, e, f}
  OBVIOUS
<1>n. PICK n \in Nat : n = 6
  OBVIOUS
<1>7. q \in [1 .. n -> Words] /\ \A i, j \in 1 .. n : q[i] = q[j] => i = j
  BY <1>2, <1>5, <1>n
<1>8. \A x : x \in X <=> \E i \in 1 .. n : q[i] = x
  BY <1>3, <1>4, <1>6, <1>n
<1>9. Releases(q, X)
  BY <1>7, <1>8, ReleasesTuple
<1> QED BY <1>1, <1>6, <1>9

LEMMA ReleasesNine ==
  ASSUME NEW a, NEW b, NEW c, NEW d, NEW e, NEW f, NEW g, NEW h, NEW i, {a, b, c, d, e, f, g, h, i} \subseteq Words,
         a \notin {b, c, d, e, f, g, h, i},
         b \notin {c, d, e, f, g, h, i},
         c \notin {d, e, f, g, h, i},
         d \notin {e, f, g, h, i},
         e \notin {f, g, h, i},
         f \notin {g, h, i},
         g \notin {h, i},
         h \notin {i}
  PROVE  Releases(<<a, b, c, d, e, f, g, h, i>>, {a, b, c, d, e, f, g, h, i})
<1>1. PICK q : q = <<a, b, c, d, e, f, g, h, i>>
  OBVIOUS
<1>2. q \in [1 .. 9 -> Words]
  BY <1>1
<1>3. q[1] = a /\ q[2] = b /\ q[3] = c /\ q[4] = d /\ q[5] = e /\ q[6] = f /\ q[7] = g /\ q[8] = h /\ q[9] = i
  BY <1>1
<1>4. 1 .. 9 = {1, 2, 3, 4, 5, 6, 7, 8, 9}
  OBVIOUS
<1>5. \A k, j \in 1 .. 9 : q[k] = q[j] => k = j
  BY <1>3, <1>4
<1>6. PICK X : X = {a, b, c, d, e, f, g, h, i}
  OBVIOUS
<1>n. PICK n \in Nat : n = 9
  OBVIOUS
<1>7. q \in [1 .. n -> Words] /\ \A k, j \in 1 .. n : q[k] = q[j] => k = j
  BY <1>2, <1>5, <1>n
<1>8. \A x : x \in X <=> \E k \in 1 .. n : q[k] = x
  BY <1>3, <1>4, <1>6, <1>n
<1>9. Releases(q, X)
  BY <1>7, <1>8, ReleasesTuple
<1> QED BY <1>1, <1>6, <1>9


LEMMA WordsNamed == Words \subseteq Names
BY DEF Names
LEMMA TakeStep ==
  ASSUME NEW x \in Words
  PROVE  /\ Made!Take(x) \in Step /\ Made!Take(x).name = x /\ Made!Take(x).takes = {x}
         /\ Made!Take(x).release = <<>> /\ Made!Take(x).says = "failed"
         /\ Made!Take(x).may = TRUE
<1>1. <<>> \in Seq(Words) /\ {x} \in SUBSET Words
  BY EmptySeq
<1>2. PICK e \in Seq(Words) : e = <<>>
  BY <1>1
<1>3. Made!Take(x) = [name |-> x, takes |-> {x}, release |-> e, says |-> "failed", may |-> TRUE]
  BY <1>2 DEF Made!Take
<1> QED BY <1>1, <1>2, <1>3, WordsNamed DEF Step

LEMMA CheckStep ==
  ASSUME NEW x \in Names
  PROVE  /\ Made!Check(x) \in Step /\ Made!Check(x).name = x /\ Made!Check(x).takes = {}
         /\ Made!Check(x).release = <<>> /\ Made!Check(x).says = "failed"
<1>1. PICK e \in Seq(Words), f \in SUBSET Words : e = <<>> /\ f = {}
  BY EmptySeq
<1>2. Made!Check(x)
        = [[name |-> x, takes |-> {x}, release |-> e, says |-> "failed", may |-> TRUE]
             EXCEPT !.takes = f]
  BY <1>1 DEF Made!Check, Made!Take
<1>3. Made!Check(x) = [name |-> x, takes |-> f, release |-> e, says |-> "failed", may |-> TRUE]
  BY <1>2
<1> QED BY <1>1, <1>3 DEF Step

LEMMA SureStep ==
  ASSUME NEW x \in Words
  PROVE  /\ Made!Sure(x) \in Step /\ Made!Sure(x).name = x /\ Made!Sure(x).takes = {x}
         /\ ~Made!Sure(x).may
<1>1. PICK p \in Step : p = Made!Take(x)
  BY TakeStep
<1>2. PICK b \in BOOLEAN : b = FALSE
  OBVIOUS
<1>3. Made!Sure(x) = [p EXCEPT !.may = b]
  BY <1>1, <1>2 DEF Made!Sure
<1>4. [p EXCEPT !.may = b]
        = [name |-> p.name, takes |-> p.takes, release |-> p.release, says |-> p.says, may |-> b]
  BY DEF Step
<1>5. /\ p.name \in Names /\ p.release \in Seq(Words) /\ p.says \in {"ok", "failed"}
      /\ p.takes \in SUBSET Words
  BY DEF Step
<1>6. p.name = x /\ p.takes = {x}
  BY <1>1, TakeStep
<1> QED BY <1>2, <1>3, <1>4, <1>5, <1>6 DEF Step

LEMMA TakeTidy ==
  ASSUME NEW x \in Words, NEW W, x # "hole" PROVE Tidy(<<Made!Take(x)>>, {}, {x}, W)
<1>1. PICK p \in Step : p = Made!Take(x) /\ p.name = x /\ p.takes = {x} /\ p.release = <<>> /\ p.says = "failed"
  BY TakeStep
<1>2. Tidy(<<p>>, {}, p.takes, W)
  BY <1>1, StepAlone, ReleasesNone
<1> QED BY <1>1, <1>2
LEMMA CheckTidy ==
  ASSUME NEW x \in Names, NEW W, x # "hole" PROVE Tidy(<<Made!Check(x)>>, {}, {}, W)
<1>1. PICK p \in Step : p = Made!Check(x) /\ p.name = x /\ p.takes = {} /\ p.release = <<>> /\ p.says = "failed"
  BY CheckStep
<1>2. Tidy(<<p>>, {}, p.takes, W)
  BY <1>1, StepAlone, ReleasesNone
<1> QED BY <1>1, <1>2
LEMMA SureTidy ==
  ASSUME NEW x \in Words, NEW G, NEW W, x # "hole" PROVE Tidy(<<Made!Sure(x)>>, G, {x}, W)
<1>1. PICK p \in Step : p = Made!Sure(x) /\ p.name = x /\ p.takes = {x} /\ ~p.may
  BY SureStep
<1>2. Tidy(<<p>>, G, p.takes, W)
  BY <1>1, StepAlone
<1> QED BY <1>1, <1>2

(* What fails in a way that is named in W may leave anything.               *)
Named(s, W) == s \in Seq(Step) /\ \A i \in 1 .. Len(s) : s[i].name \in W \ {"hole"}
LEMMA OneNamed ==
  ASSUME NEW x \in Names, NEW W, x \in W, x # "hole"
  PROVE  (x \in Words => Named(<<Made!Take(x)>>, W)) /\ Named(<<Made!Check(x)>>, W)
<1>1. ASSUME NEW p \in Step, p.name = x PROVE Named(<<p>>, W)
  <2>1. PICK s : s = <<p>>
    OBVIOUS
  <2>2. s \in Seq(Step) /\ Len(s) = 1 /\ s[1] = p /\ 1 .. 1 = {1}
    BY <2>1, ShortSeqs
  <2>3. Named(s, W)
    BY <1>1, <2>2 DEF Named
  <2> QED BY <2>1, <2>3
<1> QED BY <1>1, TakeStep, CheckStep
LEMMA BothNamed ==
  ASSUME NEW a, NEW b, NEW W, Named(a, W), Named(b, W)
  PROVE  Named(a \o b, W)
<1>1. PICK m \in Nat, n \in Nat : m = Len(a) /\ n = Len(b)
  BY LenProperties DEF Named
<1>2. PICK r : r = a \o b
  OBVIOUS
<1>3. r \in Seq(Step) /\ Len(r) = m + n /\ \A i \in 1 .. m + n : r[i] = IF i <= m THEN a[i] ELSE b[i - m]
  BY <1>1, <1>2, ConcatProperties DEF Named
<1>4. ASSUME NEW i \in 1 .. m + n PROVE r[i].name \in W \ {"hole"}
  <2>1. CASE i <= m
    BY <1>1, <1>3, <2>1 DEF Named
  <2>2. CASE ~(i <= m)
    <3>1. i - m \in 1 .. n
      BY <2>2
    <3> QED BY <1>1, <1>3, <2>2, <3>1 DEF Named
  <2> QED BY <2>1, <2>2
<1>5. Named(r, W)
  BY <1>3, <1>4 DEF Named
<1> QED BY <1>2, <1>5

LEMMA NamedTidy ==
  ASSUME NEW s, NEW B, NEW T, NEW W, NEW G, Tidy(s, B, T, W), Named(s, W) PROVE Tidy(s, G, T, W)
BY DEF Tidy, Named
LEMMA NamedElse ==
  ASSUME NEW s, NEW B, NEW T, NEW W, NEW G, Tidy(s, B, T, W), Named(s, W),
         NEW label \in Seq(Words)
  PROVE  Tidy(Made!Else(s, label), G, T, W) /\ Named(Made!Else(s, label), W)
<1>1. PICK n \in Nat : n = Len(s) /\ DOMAIN s = 1 .. n
  BY LenProperties DEF Tidy
<1>2. PICK r : r = Made!Else(s, label)
  OBVIOUS
<1>3. r = [i \in 1 .. n |-> [s[i] EXCEPT !.release = s[i].release \o label]]
  BY <1>1, <1>2 DEF Made!Else
<1>4. ASSUME NEW i \in 1 .. n
      PROVE  r[i] \in Step /\ r[i].name = s[i].name /\ r[i].takes = s[i].takes
  <2>1. PICK p \in Step : p = s[i]
    BY <1>1, ElementOfSeq DEF Tidy
  <2>2. PICK l : l = p.release \o label
    OBVIOUS
  <2>3. l \in Seq(Words)
    BY <2>2, ConcatProperties DEF Step
  <2>4. r[i] = [p EXCEPT !.release = l]
    BY <1>3, <2>1, <2>2
  <2>5. [p EXCEPT !.release = l]
          = [name |-> p.name, takes |-> p.takes, release |-> l, says |-> p.says, may |-> p.may]
    BY DEF Step
  <2>6. p.name \in Names /\ p.takes \in SUBSET Words /\ p.says \in {"ok", "failed"} /\ p.may \in BOOLEAN
    BY DEF Step
  <2>7. r[i] \in Step
    BY <2>3, <2>4, <2>5, <2>6 DEF Step
  <2> QED BY <2>1, <2>4, <2>5, <2>7
<1>5. r \in Seq(Step) /\ Len(r) = n
  <2>1. r \in [1 .. n -> Step]
    BY <1>3, <1>4
  <2> QED BY <2>1, LenOfFunction
<1>6. TakenBy(r, n) = TakenBy(s, n)
  BY <1>4 DEF TakenBy
<1>7. Tidy(r, G, T, W) /\ Named(r, W)
  BY <1>1, <1>4, <1>5, <1>6 DEF Tidy, Named
<1> QED BY <1>2, <1>7
LEMMA NamedSays ==
  ASSUME NEW s, NEW B, NEW T, NEW W, NEW G, Tidy(s, B, T, W), Named(s, W),
         NEW what \in {"ok", "failed"}
  PROVE  Tidy(Made!Says(s, what), G, T, W) /\ Named(Made!Says(s, what), W)
<1>1. PICK n \in Nat : n = Len(s) /\ DOMAIN s = 1 .. n
  BY LenProperties DEF Tidy
<1>2. PICK r : r = Made!Says(s, what)
  OBVIOUS
<1>3. r = [i \in 1 .. n |-> [s[i] EXCEPT !.says = what]]
  BY <1>1, <1>2 DEF Made!Says
<1>4. ASSUME NEW i \in 1 .. n
      PROVE  r[i] \in Step /\ r[i].name = s[i].name /\ r[i].takes = s[i].takes
  <2>1. PICK p \in Step : p = s[i]
    BY <1>1, ElementOfSeq DEF Tidy
  <2>2. r[i] = [p EXCEPT !.says = what]
    BY <1>3, <2>1
  <2>3. [p EXCEPT !.says = what]
          = [name |-> p.name, takes |-> p.takes, release |-> p.release, says |-> what, may |-> p.may]
    BY DEF Step
  <2>4. /\ p.name \in Names /\ p.takes \in SUBSET Words /\ p.release \in Seq(Words)
        /\ p.may \in BOOLEAN
    BY DEF Step
  <2>5. r[i] \in Step
    BY <2>2, <2>3, <2>4 DEF Step
  <2> QED BY <2>1, <2>2, <2>3, <2>5
<1>5. r \in Seq(Step) /\ Len(r) = n
  <2>1. r \in [1 .. n -> Step]
    BY <1>3, <1>4
  <2> QED BY <2>1, LenOfFunction
<1>6. TakenBy(r, n) = TakenBy(s, n)
  BY <1>4 DEF TakenBy
<1>7. Tidy(r, G, T, W) /\ Named(r, W)
  BY <1>1, <1>4, <1>5, <1>6 DEF Tidy, Named
<1> QED BY <1>2, <1>7

LEMMA PairConcat ==
  ASSUME NEW p \in Step, NEW q \in Step PROVE <<p, q>> = <<p>> \o <<q>>
<1>1. PICK a, b, r : a = <<p>> /\ b = <<q>> /\ r = <<p, q>>
  OBVIOUS
<1>2. /\ a \in Seq(Step) /\ Len(a) = 1 /\ a[1] = p /\ b \in Seq(Step) /\ Len(b) = 1 /\ b[1] = q
      /\ r \in Seq(Step) /\ Len(r) = 2 /\ r[1] = p /\ r[2] = q
  BY <1>1, ShortSeqs
<1>3. PICK c : c = a \o b
  OBVIOUS
<1>4. c \in Seq(Step) /\ Len(c) = 2 /\ \A i \in 1 .. 2 : c[i] = IF i <= 1 THEN a[i] ELSE b[i - 1]
  BY <1>2, <1>3, ConcatProperties
<1>5. \A i \in 1 .. 2 : r[i] = c[i]
  BY <1>2, <1>4
<1>6. r = c
  BY <1>2, <1>4, <1>5, SeqEqual
<1> QED BY <1>1, <1>3, <1>6
LEMMA ChecksTidy ==
  ASSUME NEW x \in Names, NEW y \in Names, NEW W, x # "hole", y # "hole"
  PROVE  Tidy(<<Made!Check(x), Made!Check(y)>>, {}, {}, W)
<1> DEFINE E == {}
<1>1. <<Made!Check(x), Made!Check(y)>> = <<Made!Check(x)>> \o <<Made!Check(y)>>
  BY CheckStep, PairConcat
<1>2. Tidy(<<Made!Check(x)>>, E, E, W) /\ Tidy(<<Made!Check(y)>>, E, E, W)
  BY CheckTidy
<1>3. E \cup E = E /\ E \cap Made!Threads = {}
  OBVIOUS
<1>4. Tidy(<<Made!Check(x)>> \o <<Made!Check(y)>>, E, E, W)
  <2> HIDE DEF E
  <2> QED BY <1>2, <1>3, TidyConcat
<1> QED BY <1>1, <1>4
LEMMA PipeNamed == ASSUME NEW p \in Words, NEW W, p \in W, p # "hole" PROVE Named(Made!Pipe(p), W)
<1>1. Named(<<Made!Take(p)>>, W) /\ Named(<<Made!Check(p)>>, W)
  BY OneNamed, WordsNamed
<1>2. <<p>> \in Seq(Words) /\ Tidy(<<Made!Check(p)>>, {}, {}, W)
  BY ShortSeqs, CheckTidy, WordsNamed
<1>3. Named(Made!Else(<<Made!Check(p)>>, <<p>>), W)
  BY <1>1, <1>2, NamedElse
<1> QED BY <1>1, <1>3, BothNamed DEF Made!Pipe
LEMMA NamedNext ==
  ASSUME NEW a, NEW b, NEW G, NEW T, NEW W, NEW X, NEW label,
         Named(a, W), Named(b, W), Tidy(b, G, T, W), Releases(label, X)
  PROVE  Named(a \o Made!Else(b, label), W)
<1>1. label \in Seq(Words)
  BY DEF Releases
<1>2. Named(Made!Else(b, label), W)
  BY <1>1, NamedElse
<1> QED BY <1>2, BothNamed

LEMMA TidyNext ==
  ASSUME NEW a, NEW b, NEW label, NEW G, NEW A, NEW B, NEW W, NEW X, NEW T,
         Tidy(a, G, A, W), Tidy(b, {}, B, W), Releases(label, X),
         X = G \cup A, T = A \cup B, X \cap B = {}, A \cap Made!Threads = {}
  PROVE  Tidy(a \o Made!Else(b, label), G, T, W)
BY TidyThen

LEMMA MutexTidy ==
  ASSUME NEW m \in Words, NEW W, m # "hole"
  PROVE  Tidy(Made!Mutex(m), {}, {m}, W) /\ Tidy(Made!Cond(m), {}, {m}, W) /\ Tidy(Made!Thread(m), {}, {m}, W)
BY TakeTidy DEF Made!Mutex, Made!Cond, Made!Thread
LEMMA PipeTidy ==
  ASSUME NEW p \in Words, NEW W, p # "hole", p \notin Made!Threads
  PROVE  Tidy(Made!Pipe(p), {}, {p}, W)
<1> DEFINE P == {p}  E == {}
<1>1. Tidy(<<Made!Take(p)>>, E, P, W) /\ Tidy(<<Made!Check(p)>>, E, E, W)
  BY TakeTidy, CheckTidy, WordsNamed
<1>2. Releases(<<p>>, P)
  BY ReleasesOne
<1>3. P \cap Made!Threads = {} /\ P = E \cup P /\ P = P \cup E /\ P \cap E = {} /\ E = {}
  OBVIOUS
<1>4. Tidy(<<Made!Take(p)>> \o Made!Else(<<Made!Check(p)>>, <<p>>), E, P, W)
  <2> HIDE DEF P, E
  <2> QED BY <1>1, <1>2, <1>3, TidyNext
<1> QED BY <1>4 DEF Made!Pipe

LEMMA TidyElseOn ==
  ASSUME NEW s, NEW label, NEW X, NEW T, NEW W, Tidy(s, {}, T, W), Releases(label, X), X \cap T = {}
  PROVE  Tidy(Made!Else(s, label), X, T, W)
<1>1. Tidy(Made!Else(s, label), {} \cup X, T, W)
  BY TidyElse
<1>2. {} \cup X = X
  OBVIOUS
<1> QED BY <1>1, <1>2
LEMMA TidyAfter ==
  ASSUME NEW a, NEW b, NEW G, NEW A, NEW B, NEW W, NEW X, NEW T,
         Tidy(a, G, A, W), Tidy(b, X, B, W), X = G \cup A, T = A \cup B,
         A \cap Made!Threads = {}
  PROVE  Tidy(a \o b, G, T, W)
BY TidyConcat
LEMMA TidyEnd == ASSUME NEW s, NEW G, NEW T, NEW W, Tidy(s, G, T, W) PROVE Tidy(s \o <<>>, G, T, W)
<1>1. s \o <<>> = s
  BY ConcatEmptySeq DEF Tidy
<1> QED BY <1>1

LEMMA ReleasesNext ==
  ASSUME NEW x \in Words, NEW q, NEW X, NEW Y, Releases(q, X), x \notin X, Y = {x} \cup X
  PROVE  Releases(<<x>> \o q, Y)
BY ReleasesFirst
LEMMA ReleasesThen ==
  ASSUME NEW p, NEW q, NEW X, NEW Y, NEW Z, Releases(p, X), Releases(q, Y), X \cap Y = {}, Z = X \cup Y
  PROVE  Releases(p \o q, Z)
BY ReleasesBoth

(* The stream connection and the control connection of a session.          *)
LEMMA StreamConnectionTidy ==
  ASSUME NEW W
  PROVE  Tidy(Made!StreamConnectionInit, {},
              {"stream mutex", "stream cond", "packet stats", "feedback mutex"}, W)
<1> DEFINE G0 == {}  B1 == {"stream mutex"}  T1 == B1  B2 == {"stream cond"}
           T2 == {"stream mutex", "stream cond"}  B3 == {"packet stats"}
           T3 == {"stream mutex", "stream cond", "packet stats"}  B4 == {"feedback mutex"}
           T4 == {"stream mutex", "stream cond", "packet stats", "feedback mutex"}
           L1 == <<"stream mutex">>  L2 == <<"stream cond">> \o L1
           L3 == <<"packet stats">> \o L2  S1 == Made!Mutex("stream mutex")
           S2 == S1 \o Made!Else(Made!Cond("stream cond"), L1)
           S3 == S2 \o Made!Else(Made!Mutex("packet stats"), L2)
           S4 == S3 \o Made!Else(Made!Mutex("feedback mutex"), L3)  N == T4
<1>1. /\ G0 = {}
      /\ T2 = T1 \cup B2 /\ T1 \cap Made!Threads = {} /\ T1 = G0 \cup T1 /\ T1 \cap B2 = {}
      /\ T3 = T2 \cup B3 /\ T2 \cap Made!Threads = {} /\ T2 = G0 \cup T2 /\ T2 \cap B3 = {}
      /\ T4 = T3 \cup B4 /\ T3 \cap Made!Threads = {} /\ T3 = G0 \cup T3 /\ T3 \cap B4 = {}
  BY DEF Made!Threads
<1>2. /\ N \subseteq Words /\ "hole" \notin N
  BY DEF Words, SessionWords
<1>l1. Releases(L1, T1)
  BY <1>2, ReleasesOne
<1>l2. Releases(L2, T2)
  <2>1. "stream cond" \notin T1 /\ T2 = {"stream cond"} \cup T1 /\ "stream cond" \in Words
    BY <1>2
  <2> HIDE DEF T2, T1, L1, N, B1
  <2> QED BY <1>l1, <2>1, ReleasesNext
<1>l3. Releases(L3, T3)
  <2>1. "packet stats" \notin T2 /\ T3 = {"packet stats"} \cup T2 /\ "packet stats" \in Words
    BY <1>2
  <2> HIDE DEF T3, T2, L2, N
  <2> QED BY <1>l2, <2>1, ReleasesNext
<1>p1. Tidy(Made!Mutex("stream mutex"), G0, B1, W)
  BY <1>2, MutexTidy
<1>p2. Tidy(Made!Cond("stream cond"), {}, B2, W)
  BY <1>2, MutexTidy
<1>p3. Tidy(Made!Mutex("packet stats"), {}, B3, W)
  BY <1>2, MutexTidy
<1>p4. Tidy(Made!Mutex("feedback mutex"), {}, B4, W)
  BY <1>2, MutexTidy
<1> HIDE DEF G0, B1, T1, B2, T2, B3, T3, B4, T4, L1, L2, L3, S1, S2, S3, S4, N
<1>s1. Tidy(S1, G0, T1, W)
  BY <1>p1 DEF S1, T1
<1>s2. Tidy(S2, G0, T2, W)
  BY <1>1, <1>s1, <1>p2, <1>l1, TidyNext DEF S2
<1>s3. Tidy(S3, G0, T3, W)
  BY <1>1, <1>s2, <1>p3, <1>l2, TidyNext DEF S3
<1>s4. Tidy(S4, G0, T4, W)
  BY <1>1, <1>s3, <1>p4, <1>l3, TidyNext DEF S4
<1> QED BY <1>s4 DEF S1, S2, S3, S4, L1, L2, L3, G0, T4, Made!StreamConnectionInit

LEMMA CtrlTidy ==
  ASSUME NEW W
  PROVE  Tidy(Made!CtrlInit, {},
              {"notif mutex", "notif pipe"}, W)
<1> DEFINE G0 == {}  B1 == {"notif mutex"}  T1 == B1  B2 == {"notif pipe"}
           T2 == {"notif mutex", "notif pipe"}  L1 == <<"notif mutex">>
           S1 == Made!Mutex("notif mutex")  S2 == S1 \o Made!Else(Made!Pipe("notif pipe"), L1)
           N == T2
<1>1. /\ G0 = {}
      /\ T2 = T1 \cup B2 /\ T1 \cap Made!Threads = {} /\ T1 = G0 \cup T1 /\ T1 \cap B2 = {}
  BY DEF Made!Threads
<1>2. /\ N \subseteq Words /\ "hole" \notin N
      /\ {"notif pipe"} \cap Made!Threads = {}
  BY DEF Words, SessionWords, Made!Threads
<1>l1. Releases(L1, T1)
  BY <1>2, ReleasesOne
<1>p1. Tidy(Made!Mutex("notif mutex"), G0, B1, W)
  BY <1>2, MutexTidy
<1>p2. Tidy(Made!Pipe("notif pipe"), {}, B2, W)
  BY <1>2, PipeTidy
<1> HIDE DEF G0, B1, T1, B2, T2, L1, S1, S2, N
<1>s1. Tidy(S1, G0, T1, W)
  BY <1>p1 DEF S1, T1
<1>s2. Tidy(S2, G0, T2, W)
  BY <1>1, <1>s1, <1>p2, <1>l1, TidyNext DEF S2
<1> QED BY <1>s2 DEF S1, S2, L1, G0, T2, Made!CtrlInit

(* What threads send from.                                                 *)
LEMMA FeedbackTidy ==
  ASSUME NEW W
  PROVE  Tidy(Made!FeedbackSenderInit, {}, FeedbackWords, W)
<1> DEFINE G0 == {}  B1 == {"history buffer"}  T1 == B1  B2 == {"feedback state mutex"}
           T2 == {"history buffer", "feedback state mutex"}  B3 == {"feedback cond"}
           T3 == {"history buffer", "feedback state mutex", "feedback cond"}
           B4 == {"feedback thread"}  T4 == FeedbackWords  L1 == <<"history buffer">>
           L2 == <<"feedback state mutex">> \o L1  L3 == <<"feedback cond">> \o L2
           S1 == <<Made!Take("history buffer")>>
           S2 == S1 \o Made!Else(Made!Mutex("feedback state mutex"), L1)
           S3 == S2 \o Made!Else(Made!Cond("feedback cond"), L2)
           S4 == S3 \o Made!Else(Made!Thread("feedback thread"), L3)
           N == {"history buffer", "feedback state mutex", "feedback cond", "feedback thread"}
<1>1. /\ G0 = {}
      /\ T2 = T1 \cup B2 /\ T1 \cap Made!Threads = {} /\ T1 = G0 \cup T1 /\ T1 \cap B2 = {}
      /\ T3 = T2 \cup B3 /\ T2 \cap Made!Threads = {} /\ T2 = G0 \cup T2 /\ T2 \cap B3 = {}
      /\ T4 = T3 \cup B4 /\ T3 \cap Made!Threads = {} /\ T3 = G0 \cup T3 /\ T3 \cap B4 = {}
  BY DEF Made!Threads, FeedbackWords
<1>2. /\ N \subseteq Words /\ "hole" \notin N
  BY DEF Words, FeedbackWords
<1>l1. Releases(L1, T1)
  BY <1>2, ReleasesOne
<1>l2. Releases(L2, T2)
  <2>1. "feedback state mutex" \notin T1 /\ T2 = {"feedback state mutex"} \cup T1 /\ "feedback state mutex" \in Words
    BY <1>2
  <2> HIDE DEF T2, T1, L1, N, B1
  <2> QED BY <1>l1, <2>1, ReleasesNext
<1>l3. Releases(L3, T3)
  <2>1. "feedback cond" \notin T2 /\ T3 = {"feedback cond"} \cup T2 /\ "feedback cond" \in Words
    BY <1>2
  <2> HIDE DEF T3, T2, L2, N
  <2> QED BY <1>l2, <2>1, ReleasesNext
<1>p1. Tidy(<<Made!Take("history buffer")>>, G0, B1, W)
  BY <1>2, TakeTidy
<1>p2. Tidy(Made!Mutex("feedback state mutex"), {}, B2, W)
  BY <1>2, MutexTidy
<1>p3. Tidy(Made!Cond("feedback cond"), {}, B3, W)
  BY <1>2, MutexTidy
<1>p4. Tidy(Made!Thread("feedback thread"), {}, B4, W)
  BY <1>2, MutexTidy
<1> HIDE DEF G0, B1, T1, B2, T2, B3, T3, B4, T4, L1, L2, L3, S1, S2, S3, S4, N
<1>s1. Tidy(S1, G0, T1, W)
  BY <1>p1 DEF S1, T1
<1>s2. Tidy(S2, G0, T2, W)
  BY <1>1, <1>s1, <1>p2, <1>l1, TidyNext DEF S2
<1>s3. Tidy(S3, G0, T3, W)
  BY <1>1, <1>s2, <1>p3, <1>l2, TidyNext DEF S3
<1>s4. Tidy(S4, G0, T4, W)
  BY <1>1, <1>s3, <1>p4, <1>l3, TidyNext DEF S4
<1> QED BY <1>s4 DEF S1, S2, S3, S4, L1, L2, L3, G0, T4, Made!FeedbackSenderInit

LEMMA SendBufferTidy ==
  ASSUME NEW W
  PROVE  Tidy(Made!SendBufferInit, {},
              {"packets", "buffer mutex", "buffer cond", "resend thread"}, W)
<1> DEFINE G0 == {}  B1 == {"packets"}  T1 == B1  B2 == {"buffer mutex"}
           T2 == {"packets", "buffer mutex"}  B3 == {"buffer cond"}
           T3 == {"packets", "buffer mutex", "buffer cond"}  B4 == {"resend thread"}
           T4 == {"packets", "buffer mutex", "buffer cond", "resend thread"}
           L1 == <<"packets">>  L2 == <<"buffer mutex">> \o L1  L3 == <<"buffer cond">> \o L2
           S1 == <<Made!Take("packets")>>  S2 == S1 \o Made!Else(Made!Mutex("buffer mutex"), L1)
           S3 == S2 \o Made!Else(Made!Cond("buffer cond"), L2)
           S4 == S3 \o Made!Else(Made!Thread("resend thread"), L3)  N == T4
<1>1. /\ G0 = {}
      /\ T2 = T1 \cup B2 /\ T1 \cap Made!Threads = {} /\ T1 = G0 \cup T1 /\ T1 \cap B2 = {}
      /\ T3 = T2 \cup B3 /\ T2 \cap Made!Threads = {} /\ T2 = G0 \cup T2 /\ T2 \cap B3 = {}
      /\ T4 = T3 \cup B4 /\ T3 \cap Made!Threads = {} /\ T3 = G0 \cup T3 /\ T3 \cap B4 = {}
  BY DEF Made!Threads
<1>2. /\ N \subseteq Words /\ "hole" \notin N
  BY DEF Words, BufferWords
<1>l1. Releases(L1, T1)
  BY <1>2, ReleasesOne
<1>l2. Releases(L2, T2)
  <2>1. "buffer mutex" \notin T1 /\ T2 = {"buffer mutex"} \cup T1 /\ "buffer mutex" \in Words
    BY <1>2
  <2> HIDE DEF T2, T1, L1, N, B1
  <2> QED BY <1>l1, <2>1, ReleasesNext
<1>l3. Releases(L3, T3)
  <2>1. "buffer cond" \notin T2 /\ T3 = {"buffer cond"} \cup T2 /\ "buffer cond" \in Words
    BY <1>2
  <2> HIDE DEF T3, T2, L2, N
  <2> QED BY <1>l2, <2>1, ReleasesNext
<1>p1. Tidy(<<Made!Take("packets")>>, G0, B1, W)
  BY <1>2, TakeTidy
<1>p2. Tidy(Made!Mutex("buffer mutex"), {}, B2, W)
  BY <1>2, MutexTidy
<1>p3. Tidy(Made!Cond("buffer cond"), {}, B3, W)
  BY <1>2, MutexTidy
<1>p4. Tidy(Made!Thread("resend thread"), {}, B4, W)
  BY <1>2, MutexTidy
<1> HIDE DEF G0, B1, T1, B2, T2, B3, T3, B4, T4, L1, L2, L3, S1, S2, S3, S4, N
<1>s1. Tidy(S1, G0, T1, W)
  BY <1>p1 DEF S1, T1
<1>s2. Tidy(S2, G0, T2, W)
  BY <1>1, <1>s1, <1>p2, <1>l1, TidyNext DEF S2
<1>s3. Tidy(S3, G0, T3, W)
  BY <1>1, <1>s2, <1>p3, <1>l2, TidyNext DEF S3
<1>s4. Tidy(S4, G0, T4, W)
  BY <1>1, <1>s3, <1>p4, <1>l3, TidyNext DEF S4
<1> QED BY <1>s4 DEF S1, S2, S3, S4, L1, L2, L3, G0, T4, Made!SendBufferInit

LEMMA RudpSendBufferTidy ==
  ASSUME NEW W
  PROVE  Tidy(Made!RudpSendBufferInit, {},
              {"buffer mutex", "packets", "buffer cond", "resend thread"}, W)
<1> DEFINE G0 == {}  B1 == {"buffer mutex"}  T1 == B1  B2 == {"packets"}
           T2 == {"buffer mutex", "packets"}  B3 == {"buffer cond"}
           T3 == {"buffer mutex", "packets", "buffer cond"}  B4 == {"resend thread"}
           T4 == {"buffer mutex", "packets", "buffer cond", "resend thread"}
           L1 == <<"buffer mutex">>  L2 == <<"packets">> \o L1  L3 == <<"buffer cond">> \o L2
           S1 == Made!Mutex("buffer mutex")  S2 == S1 \o Made!Else(<<Made!Take("packets")>>, L1)
           S3 == S2 \o Made!Else(Made!Cond("buffer cond"), L2)
           S4 == S3 \o Made!Else(Made!Thread("resend thread"), L3)  N == T4
<1>1. /\ G0 = {}
      /\ T2 = T1 \cup B2 /\ T1 \cap Made!Threads = {} /\ T1 = G0 \cup T1 /\ T1 \cap B2 = {}
      /\ T3 = T2 \cup B3 /\ T2 \cap Made!Threads = {} /\ T2 = G0 \cup T2 /\ T2 \cap B3 = {}
      /\ T4 = T3 \cup B4 /\ T3 \cap Made!Threads = {} /\ T3 = G0 \cup T3 /\ T3 \cap B4 = {}
  BY DEF Made!Threads
<1>2. /\ N \subseteq Words /\ "hole" \notin N
  BY DEF Words, BufferWords
<1>l1. Releases(L1, T1)
  BY <1>2, ReleasesOne
<1>l2. Releases(L2, T2)
  <2>1. "packets" \notin T1 /\ T2 = {"packets"} \cup T1 /\ "packets" \in Words
    BY <1>2
  <2> HIDE DEF T2, T1, L1, N, B1
  <2> QED BY <1>l1, <2>1, ReleasesNext
<1>l3. Releases(L3, T3)
  <2>1. "buffer cond" \notin T2 /\ T3 = {"buffer cond"} \cup T2 /\ "buffer cond" \in Words
    BY <1>2
  <2> HIDE DEF T3, T2, L2, N
  <2> QED BY <1>l2, <2>1, ReleasesNext
<1>p1. Tidy(Made!Mutex("buffer mutex"), G0, B1, W)
  BY <1>2, MutexTidy
<1>p2. Tidy(<<Made!Take("packets")>>, {}, B2, W)
  BY <1>2, TakeTidy
<1>p3. Tidy(Made!Cond("buffer cond"), {}, B3, W)
  BY <1>2, MutexTidy
<1>p4. Tidy(Made!Thread("resend thread"), {}, B4, W)
  BY <1>2, MutexTidy
<1> HIDE DEF G0, B1, T1, B2, T2, B3, T3, B4, T4, L1, L2, L3, S1, S2, S3, S4, N
<1>s1. Tidy(S1, G0, T1, W)
  BY <1>p1 DEF S1, T1
<1>s2. Tidy(S2, G0, T2, W)
  BY <1>1, <1>s1, <1>p2, <1>l1, TidyNext DEF S2
<1>s3. Tidy(S3, G0, T3, W)
  BY <1>1, <1>s2, <1>p3, <1>l2, TidyNext DEF S3
<1>s4. Tidy(S4, G0, T4, W)
  BY <1>1, <1>s3, <1>p4, <1>l3, TidyNext DEF S4
<1> QED BY <1>s4 DEF S1, S2, S3, S4, L1, L2, L3, G0, T4, Made!RudpSendBufferInit

LEMMA RudpTidy ==
  ASSUME NEW W
  PROVE  Tidy(Made!RudpInit, {}, BufferWords, W)
<1> DEFINE G0 == {}  B1 == {"rudp"}  T1 == B1  B2 == {"counter mutex"}
           T2 == {"rudp", "counter mutex"}  B3 == {"rudp pipe"}
           T3 == {"rudp", "counter mutex", "rudp pipe"}
           B4 == {"buffer mutex", "packets", "buffer cond", "resend thread"}  T4 == BufferWords
           L1 == <<"rudp">>  L2 == <<"counter mutex">> \o L1  L3 == <<"rudp pipe">> \o L2
           S1 == <<Made!Take("rudp")>>  S2 == S1 \o Made!Else(Made!Mutex("counter mutex"), L1)
           S3 == S2 \o Made!Else(Made!Pipe("rudp pipe"), L2)
           S4 == S3 \o Made!Else(Made!RudpSendBufferInit, L3)
           N == {"rudp", "counter mutex", "rudp pipe", "buffer mutex", "packets",
                 "buffer cond", "resend thread"}
<1>1. /\ G0 = {}
      /\ T2 = T1 \cup B2 /\ T1 \cap Made!Threads = {} /\ T1 = G0 \cup T1 /\ T1 \cap B2 = {}
      /\ T3 = T2 \cup B3 /\ T2 \cap Made!Threads = {} /\ T2 = G0 \cup T2 /\ T2 \cap B3 = {}
      /\ T4 = T3 \cup B4 /\ T3 \cap Made!Threads = {} /\ T3 = G0 \cup T3 /\ T3 \cap B4 = {}
  BY DEF Made!Threads, BufferWords
<1>2. /\ N \subseteq Words /\ "hole" \notin N
      /\ {"rudp pipe"} \cap Made!Threads = {}
  BY DEF Words, BufferWords, Made!Threads
<1>l1. Releases(L1, T1)
  BY <1>2, ReleasesOne
<1>l2. Releases(L2, T2)
  <2>1. "counter mutex" \notin T1 /\ T2 = {"counter mutex"} \cup T1 /\ "counter mutex" \in Words
    BY <1>2
  <2> HIDE DEF T2, T1, L1, N, B1
  <2> QED BY <1>l1, <2>1, ReleasesNext
<1>l3. Releases(L3, T3)
  <2>1. "rudp pipe" \notin T2 /\ T3 = {"rudp pipe"} \cup T2 /\ "rudp pipe" \in Words
    BY <1>2
  <2> HIDE DEF T3, T2, L2, N
  <2> QED BY <1>l2, <2>1, ReleasesNext
<1>p1. Tidy(<<Made!Take("rudp")>>, G0, B1, W)
  BY <1>2, TakeTidy
<1>p2. Tidy(Made!Mutex("counter mutex"), {}, B2, W)
  BY <1>2, MutexTidy
<1>p3. Tidy(Made!Pipe("rudp pipe"), {}, B3, W)
  BY <1>2, PipeTidy
<1>p4. Tidy(Made!RudpSendBufferInit, {}, B4, W)
  BY RudpSendBufferTidy
<1> HIDE DEF G0, B1, T1, B2, T2, B3, T3, B4, T4, L1, L2, L3, S1, S2, S3, S4, N
<1>s1. Tidy(S1, G0, T1, W)
  BY <1>p1 DEF S1, T1
<1>s2. Tidy(S2, G0, T2, W)
  BY <1>1, <1>s1, <1>p2, <1>l1, TidyNext DEF S2
<1>s3. Tidy(S3, G0, T3, W)
  BY <1>1, <1>s2, <1>p3, <1>l2, TidyNext DEF S3
<1>s4. Tidy(S4, G0, T4, W)
  BY <1>1, <1>s3, <1>p4, <1>l3, TidyNext DEF S4
<1> QED BY <1>s4 DEF S1, S2, S3, S4, L1, L2, L3, G0, T4, Made!RudpInit

LEMMA CongestionTidy ==
  ASSUME NEW W
  PROVE  Tidy(Made!CongestionControlStart, {}, CongestionWords, W)
<1> DEFINE G0 == {}  B1 == {"stop mutex"}  T1 == B1  B2 == {"stop cond"}
           T2 == {"stop mutex", "stop cond"}  B3 == {"congestion thread"}  T3 == CongestionWords
           L1 == <<"stop mutex">>  L2 == <<"stop cond", "stop mutex">>
           S1 == Made!Mutex("stop mutex")  S2 == S1 \o Made!Else(Made!Cond("stop cond"), L1)
           S3 == S2 \o Made!Else(Made!Thread("congestion thread"), L2)
           N == {"stop mutex", "stop cond", "congestion thread"}
<1>1. /\ G0 = {}
      /\ T2 = T1 \cup B2 /\ T1 \cap Made!Threads = {} /\ T1 = G0 \cup T1 /\ T1 \cap B2 = {}
      /\ T3 = T2 \cup B3 /\ T2 \cap Made!Threads = {} /\ T2 = G0 \cup T2 /\ T2 \cap B3 = {}
  BY DEF Made!Threads, CongestionWords
<1>2. /\ N \subseteq Words /\ "hole" \notin N
  BY DEF Words, CongestionWords
<1>l1. Releases(L1, T1)
  BY <1>2, ReleasesOne
<1>l2. Releases(L2, T2)
  <2>1. Releases(L2, {"stop cond", "stop mutex"})
    BY <1>2, ReleasesTwo
  <2>2. {"stop cond", "stop mutex"} = T2
    OBVIOUS
  <2> QED BY <2>1, <2>2
<1>p1. Tidy(Made!Mutex("stop mutex"), G0, B1, W)
  BY <1>2, MutexTidy
<1>p2. Tidy(Made!Cond("stop cond"), {}, B2, W)
  BY <1>2, MutexTidy
<1>p3. Tidy(Made!Thread("congestion thread"), {}, B3, W)
  BY <1>2, MutexTidy
<1> HIDE DEF G0, B1, T1, B2, T2, B3, T3, L1, L2, S1, S2, S3, N
<1>s1. Tidy(S1, G0, T1, W)
  BY <1>p1 DEF S1, T1
<1>s2. Tidy(S2, G0, T2, W)
  BY <1>1, <1>s1, <1>p2, <1>l1, TidyNext DEF S2
<1>s3. Tidy(S3, G0, T3, W)
  BY <1>1, <1>s2, <1>p3, <1>l2, TidyNext DEF S3
<1> QED BY <1>s3 DEF S1, S2, S3, L1, L2, G0, T3, Made!CongestionControlStart, Made!BoolPredCond

LEMMA ThreadStartTidy ==
  ASSUME NEW W
  PROVE  Tidy(Made!DiscoveryThreadStart, {},
              {"pipe", "discovery thread"}, W)
<1> DEFINE G0 == {}  B1 == {"pipe"}  T1 == B1  B2 == {"discovery thread"}
           T2 == {"pipe", "discovery thread"}  L1 == <<"pipe">>  S1 == Made!Pipe("pipe")
           S2 == S1 \o Made!Else(Made!Thread("discovery thread"), L1)  N == T2
<1>1. /\ G0 = {}
      /\ T2 = T1 \cup B2 /\ T1 \cap Made!Threads = {} /\ T1 = G0 \cup T1 /\ T1 \cap B2 = {}
  BY DEF Made!Threads
<1>2. /\ N \subseteq Words /\ "hole" \notin N
      /\ {"pipe"} \cap Made!Threads = {}
  BY DEF Words, DiscoveryWords, Made!Threads
<1>l1. Releases(L1, T1)
  BY <1>2, ReleasesOne
<1>p1. Tidy(Made!Pipe("pipe"), G0, B1, W)
  BY <1>2, PipeTidy
<1>p2. Tidy(Made!Thread("discovery thread"), {}, B2, W)
  BY <1>2, MutexTidy
<1> HIDE DEF G0, B1, T1, B2, T2, L1, S1, S2, N
<1>s1. Tidy(S1, G0, T1, W)
  BY <1>p1 DEF S1, T1
<1>s2. Tidy(S2, G0, T2, W)
  BY <1>1, <1>s1, <1>p2, <1>l1, TidyNext DEF S2
<1> QED BY <1>s2 DEF S1, S2, L1, G0, T2, Made!DiscoveryThreadStart

LEMMA DiscoveryTidy ==
  ASSUME NEW W
  PROVE  Tidy(Made!DiscoveryInit \o Made!Else(Made!DiscoveryThreadStart, <<"socket">>), {},
              DiscoveryWords, W)
<1> DEFINE G0 == {}  B1 == {"socket"}  T1 == B1  B2 == {}  T2 == T1
           B3 == {"pipe", "discovery thread"}  T3 == DiscoveryWords  L1 == <<"socket">>
           S1 == <<Made!Take("socket")>>  S2 == S1 \o Made!Else(<<Made!Check("bind")>>, L1)
           S3 == S2 \o Made!Else(Made!DiscoveryThreadStart, L1)
           N == {"socket", "pipe", "discovery thread"}
<1>1. /\ G0 = {}
      /\ T2 = T1 \cup B2 /\ T1 \cap Made!Threads = {} /\ T1 = G0 \cup T1 /\ T1 \cap B2 = {}
      /\ T3 = T2 \cup B3 /\ T2 \cap Made!Threads = {} /\ T1 = G0 \cup T2 /\ T1 \cap B3 = {}
  BY DEF Made!Threads, DiscoveryWords
<1>2. /\ N \subseteq Words /\ "hole" \notin N
      /\ {"bind"} \subseteq Names /\ "hole" \notin {"bind"}
  BY DEF Words, DiscoveryWords, Names
<1>l1. Releases(L1, T1)
  BY <1>2, ReleasesOne
<1>p1. Tidy(<<Made!Take("socket")>>, G0, B1, W)
  BY <1>2, TakeTidy
<1>p2. Tidy(<<Made!Check("bind")>>, {}, B2, W)
  BY <1>2, CheckTidy
<1>p3. Tidy(Made!DiscoveryThreadStart, {}, B3, W)
  BY ThreadStartTidy
<1> HIDE DEF G0, B1, T1, B2, T2, B3, T3, L1, S1, S2, S3, N
<1>s1. Tidy(S1, G0, T1, W)
  BY <1>p1 DEF S1, T1
<1>s2. Tidy(S2, G0, T2, W)
  BY <1>1, <1>s1, <1>p2, <1>l1, TidyNext DEF S2
<1>s3. Tidy(S3, G0, T3, W)
  BY <1>1, <1>s2, <1>p3, <1>l1, TidyNext DEF S3
<1> QED BY <1>s3 DEF S1, S2, S3, L1, G0, T3, Made!DiscoveryInit

LEMMA NothingTidy == ASSUME NEW G, NEW W PROVE Tidy(<<>>, G, {}, W)
<1>1. <<>> \in Seq(Step) /\ Len(<<>>) = 0
  BY EmptySeq
<1>2. TakenBy(<<>>, 0) = {}
  BY DEF TakenBy
<1>3. 1 .. 0 = {}
  OBVIOUS
<1> QED BY <1>1, <1>2, <1>3 DEF Tidy

(* The key stream, with a buffer for the remote key.                      *)
LEMMA KeyBufTidy ==
  ASSUME NEW W
  PROVE  Tidy(Made!Else(<<Made!Take("key buf")>>, <<"gkcrypt">>)
                \o Made!Else(Made!Mutex("buf mutex"), <<"key buf", "gkcrypt">>)
                \o Made!Else(Made!Cond("buf cond"), <<"buf mutex">> \o <<"key buf", "gkcrypt">>), {"gkcrypt"},
              {"key buf", "buf mutex", "buf cond"}, W)
<1> DEFINE G0 == {"gkcrypt"}  B1 == {"key buf"}  T1 == B1  B2 == {"buf mutex"}
           T2 == {"key buf", "buf mutex"}  B3 == {"buf cond"}
           T3 == {"key buf", "buf mutex", "buf cond"}  L1 == <<"gkcrypt">>
           X2 == {"key buf", "gkcrypt"}  L2 == <<"key buf", "gkcrypt">>
           X3 == {"buf mutex", "key buf", "gkcrypt"}  L3 == <<"buf mutex">> \o L2
           S1 == Made!Else(<<Made!Take("key buf")>>, L1)
           S2 == S1 \o Made!Else(Made!Mutex("buf mutex"), L2)
           S3 == S2 \o Made!Else(Made!Cond("buf cond"), L3)
           N == {"gkcrypt", "key buf", "buf mutex", "buf cond"}
<1>1. /\ G0 \cap B1 = {}
      /\ T2 = T1 \cup B2 /\ T1 \cap Made!Threads = {} /\ X2 = G0 \cup T1 /\ X2 \cap B2 = {}
      /\ T3 = T2 \cup B3 /\ T2 \cap Made!Threads = {} /\ X3 = G0 \cup T2 /\ X3 \cap B3 = {}
  BY DEF Made!Threads
<1>2. /\ N \subseteq Words /\ "hole" \notin N
  BY DEF Words, KeyWords
<1>l1. Releases(L1, G0)
  BY <1>2, ReleasesOne
<1>l2. Releases(L2, X2)
  BY <1>2, ReleasesTwo
<1>l3. Releases(L3, X3)
  <2>1. "buf mutex" \notin X2 /\ X3 = {"buf mutex"} \cup X2 /\ "buf mutex" \in Words
    BY <1>2
  <2> HIDE DEF X3, X2, L2, N
  <2> QED BY <1>l2, <2>1, ReleasesNext
<1>p1. Tidy(<<Made!Take("key buf")>>, {}, B1, W)
  BY <1>2, TakeTidy
<1>p2. Tidy(Made!Mutex("buf mutex"), {}, B2, W)
  BY <1>2, MutexTidy
<1>p3. Tidy(Made!Cond("buf cond"), {}, B3, W)
  BY <1>2, MutexTidy
<1> HIDE DEF G0, B1, T1, B2, T2, B3, T3, L1, X2, L2, X3, L3, S1, S2, S3, N
<1>s1. Tidy(S1, G0, T1, W)
  BY <1>1, <1>p1, <1>l1, TidyElseOn DEF S1, T1
<1>s2. Tidy(S2, G0, T2, W)
  BY <1>1, <1>s1, <1>p2, <1>l2, TidyNext DEF S2
<1>s3. Tidy(S3, G0, T3, W)
  BY <1>1, <1>s2, <1>p3, <1>l3, TidyNext DEF S3
<1> QED BY <1>s3 DEF S1, S2, S3, L1, L2, L3, G0, T3

LEMMA RemoteKeyTidy ==
  ASSUME NEW W
  PROVE  Tidy(Made!GkcryptInit(TRUE), {}, KeyWords, W)
<1> DEFINE G0 == {}  B1 == {"gkcrypt"}  T1 == B1  B2 == {"key buf", "buf mutex", "buf cond"}
           T2 == {"gkcrypt", "key buf", "buf mutex", "buf cond"}  B3 == {}  T3 == T2
           B4 == {"key thread"}  T4 == KeyWords  X1 == {"key buf", "gkcrypt"}
           L1 == <<"key buf", "gkcrypt">>  X2 == {"buf mutex", "key buf", "gkcrypt"}
           L2 == <<"buf mutex">> \o L1  L3 == <<"buf cond">> \o L2  Y2 == T1
           S1 == <<Made!Take("gkcrypt")>>
           S2 == S1 \o (Made!Else(<<Made!Take("key buf")>>, <<"gkcrypt">>)
                \o Made!Else(Made!Mutex("buf mutex"), <<"key buf", "gkcrypt">>)
                \o Made!Else(Made!Cond("buf cond"), <<"buf mutex">> \o <<"key buf", "gkcrypt">>))
           S3 == S2 \o Made!Else(<<Made!Check("key")>>, L3)
           S4 == S3 \o Made!Else(Made!Thread("key thread"), L3)
           N == {"gkcrypt", "key buf", "buf mutex", "buf cond", "key thread"}
<1>1. /\ G0 = {}
      /\ T2 = T1 \cup B2 /\ T1 \cap Made!Threads = {} /\ Y2 = G0 \cup T1
      /\ T3 = T2 \cup B3 /\ T2 \cap Made!Threads = {} /\ T2 = G0 \cup T2 /\ T2 \cap B3 = {}
      /\ T4 = T3 \cup B4 /\ T3 \cap Made!Threads = {} /\ T2 = G0 \cup T3 /\ T2 \cap B4 = {}
  BY DEF Made!Threads, KeyWords
<1>2. /\ N \subseteq Words /\ "hole" \notin N
      /\ {"key"} \subseteq Names /\ "hole" \notin {"key"}
  BY DEF Words, KeyWords, Names
<1>l1. Releases(L1, X1)
  BY <1>2, ReleasesTwo
<1>l2. Releases(L2, X2)
  <2>1. "buf mutex" \notin X1 /\ X2 = {"buf mutex"} \cup X1 /\ "buf mutex" \in Words
    BY <1>2
  <2> HIDE DEF X2, X1, L1, N
  <2> QED BY <1>l1, <2>1, ReleasesNext
<1>l3. Releases(L3, T2)
  <2>1. "buf cond" \notin X2 /\ T2 = {"buf cond"} \cup X2 /\ "buf cond" \in Words
    BY <1>2
  <2> HIDE DEF T2, X2, L2, N
  <2> QED BY <1>l2, <2>1, ReleasesNext
<1>p1. Tidy(<<Made!Take("gkcrypt")>>, G0, B1, W)
  BY <1>2, TakeTidy
<1>p2. Tidy((Made!Else(<<Made!Take("key buf")>>, <<"gkcrypt">>)
                \o Made!Else(Made!Mutex("buf mutex"), <<"key buf", "gkcrypt">>)
                \o Made!Else(Made!Cond("buf cond"), <<"buf mutex">> \o <<"key buf", "gkcrypt">>)), Y2, B2, W)
  BY KeyBufTidy
<1>p3. Tidy(<<Made!Check("key")>>, {}, B3, W)
  BY <1>2, CheckTidy
<1>p4. Tidy(Made!Thread("key thread"), {}, B4, W)
  BY <1>2, MutexTidy
<1> HIDE DEF G0, B1, T1, B2, T2, B3, T3, B4, T4, X1, L1, X2, L2, L3, Y2, S1, S2, S3, S4, N
<1>s1. Tidy(S1, G0, T1, W)
  BY <1>p1 DEF S1, T1
<1>s2. Tidy(S2, G0, T2, W)
  BY <1>1, <1>s1, <1>p2, TidyAfter DEF S2
<1>s3. Tidy(S3, G0, T3, W)
  BY <1>1, <1>s2, <1>p3, <1>l3, TidyNext DEF S3
<1>s4. Tidy(S4, G0, T4, W)
  BY <1>1, <1>s3, <1>p4, <1>l3, TidyNext DEF S4
<1> QED BY <1>s4 DEF S1, S2, S3, S4, L1, L2, L3, G0, T4, Made!GkcryptInit

LEMMA LocalKeyTidy ==
  ASSUME NEW W
  PROVE  Tidy(Made!GkcryptInit(FALSE), {},
              {"gkcrypt"}, W)
<1> DEFINE G0 == {}  B1 == {"gkcrypt"}  T1 == B1  B2 == {}  T2 == T1  B3 == {}  T3 == T2
           B4 == {}  T4 == T3  L1 == <<"gkcrypt">>  Y2 == T1  Y4 == T3
           S1 == <<Made!Take("gkcrypt")>>  S2 == S1 \o <<>>
           S3 == S2 \o Made!Else(<<Made!Check("key")>>, L1)  S4 == S3 \o <<>>  N == T4
<1>1. /\ G0 = {}
      /\ T2 = T1 \cup B2 /\ T1 \cap Made!Threads = {} /\ Y2 = G0 \cup T1
      /\ T3 = T2 \cup B3 /\ T2 \cap Made!Threads = {} /\ T1 = G0 \cup T2 /\ T1 \cap B3 = {}
      /\ T4 = T3 \cup B4 /\ T3 \cap Made!Threads = {} /\ Y4 = G0 \cup T3
  BY DEF Made!Threads
<1>2. /\ N \subseteq Words /\ "hole" \notin N
      /\ {"key"} \subseteq Names /\ "hole" \notin {"key"}
  BY DEF Words, KeyWords, Names
<1>l1. Releases(L1, T1)
  BY <1>2, ReleasesOne
<1>p1. Tidy(<<Made!Take("gkcrypt")>>, G0, B1, W)
  BY <1>2, TakeTidy
<1>p2. Tidy(<<>>, Y2, B2, W)
  BY NothingTidy
<1>p3. Tidy(<<Made!Check("key")>>, {}, B3, W)
  BY <1>2, CheckTidy
<1>p4. Tidy(<<>>, Y4, B4, W)
  BY NothingTidy
<1> HIDE DEF G0, B1, T1, B2, T2, B3, T3, B4, T4, L1, Y2, Y4, S1, S2, S3, S4, N
<1>s1. Tidy(S1, G0, T1, W)
  BY <1>p1 DEF S1, T1
<1>s2. Tidy(S2, G0, T2, W)
  BY <1>1, <1>s1, <1>p2, TidyAfter DEF S2
<1>s3. Tidy(S3, G0, T3, W)
  BY <1>1, <1>s2, <1>p3, <1>l1, TidyNext DEF S3
<1>s4. Tidy(S4, G0, T4, W)
  BY <1>1, <1>s3, <1>p4, TidyAfter DEF S4
<1> QED BY <1>s4 DEF S1, S2, S3, S4, L1, G0, T4, T3, T2, T1, B1, Made!GkcryptInit

(* Takion: what fails with its pipe or its thread is told as a success.    *)
LEMMA MutexesTidy ==
  ASSUME NEW W, "takion pipe" \in W
  PROVE  Tidy(Made!Mutexes, {},
              {"key mutex", "seq num mutex", "takion pipe"}, W)
<1> DEFINE G0 == {}  B1 == {"key mutex"}  T1 == B1  B2 == {"seq num mutex"}
           T2 == {"key mutex", "seq num mutex"}  B3 == {"takion pipe"}
           T3 == {"key mutex", "seq num mutex", "takion pipe"}  L1 == <<"key mutex">>
           L2 == <<"seq num mutex", "key mutex">>  Y3 == T2  S1 == Made!Mutex("key mutex")
           S2 == S1 \o Made!Else(Made!Mutex("seq num mutex"), L1)
           S3 == S2 \o Made!Says(Made!Else(Made!Pipe("takion pipe"), <<"seq num mutex", "key mutex">>), "ok")
           N == T3
<1>1. /\ G0 = {}
      /\ T2 = T1 \cup B2 /\ T1 \cap Made!Threads = {} /\ T1 = G0 \cup T1 /\ T1 \cap B2 = {}
      /\ T3 = T2 \cup B3 /\ T2 \cap Made!Threads = {} /\ Y3 = G0 \cup T2
  BY DEF Made!Threads
<1>2. /\ N \subseteq Words /\ "hole" \notin N
  BY DEF Words, TakionWords
<1>l1. Releases(L1, T1)
  BY <1>2, ReleasesOne
<1>l2. Releases(L2, T2)
  <2>1. Releases(L2, {"seq num mutex", "key mutex"})
    BY <1>2, ReleasesTwo
  <2>2. {"seq num mutex", "key mutex"} = T2
    OBVIOUS
  <2> QED BY <2>1, <2>2
<1>p1. Tidy(Made!Mutex("key mutex"), G0, B1, W)
  BY <1>2, MutexTidy
<1>p2. Tidy(Made!Mutex("seq num mutex"), {}, B2, W)
  BY <1>2, MutexTidy
<1>p3. Tidy(Made!Says(Made!Else(Made!Pipe("takion pipe"), <<"seq num mutex", "key mutex">>), "ok"), Y3, B3, W)
  <2>1. Named(Made!Pipe("takion pipe"), W) /\ Tidy(Made!Pipe("takion pipe"), {}, B3, W)
    BY <1>2, PipeNamed, PipeTidy DEF Made!Threads
  <2>2. <<"seq num mutex", "key mutex">> \in Seq(Words)
    BY <1>l2 DEF Releases
  <2> HIDE DEF B3, Y3
  <2>3. Tidy(Made!Else(Made!Pipe("takion pipe"), <<"seq num mutex", "key mutex">>), Y3, B3, W)
        /\ Named(Made!Else(Made!Pipe("takion pipe"), <<"seq num mutex", "key mutex">>), W)
    BY <2>1, <2>2, NamedElse
  <2> QED BY <2>3, NamedSays
<1> HIDE DEF G0, B1, T1, B2, T2, B3, T3, L1, L2, Y3, S1, S2, S3, N
<1>s1. Tidy(S1, G0, T1, W)
  BY <1>p1 DEF S1, T1
<1>s2. Tidy(S2, G0, T2, W)
  BY <1>1, <1>s1, <1>p2, <1>l1, TidyNext DEF S2
<1>s3. Tidy(S3, G0, T3, W)
  BY <1>1, <1>s2, <1>p3, TidyAfter DEF S3
<1> QED BY <1>s3 DEF S1, S2, S3, L1, L2, G0, T3, Made!Mutexes

LEMMA MutexesNamed ==
  ASSUME NEW W, {"key mutex", "seq num mutex", "takion pipe"} \subseteq W
  PROVE  Named(Made!Mutexes, W)
<1> DEFINE K == <<"key mutex">>  L == <<"seq num mutex", "key mutex">>
           M == Made!Mutex("key mutex")  N == Made!Mutex("seq num mutex")
           P == Made!Pipe("takion pipe")  PT == {"takion pipe"}
<1>1. /\ {"key mutex", "seq num mutex", "takion pipe"} \subseteq Words
      /\ "hole" \notin {"key mutex", "seq num mutex", "takion pipe"}
      /\ "takion pipe" \notin Made!Threads
  BY DEF Words, TakionWords, Made!Threads
<1>2. Releases(K, {"key mutex"}) /\ Releases(L, {"seq num mutex", "key mutex"})
  BY <1>1, ReleasesOne, ReleasesTwo
<1>3. Named(M, W) /\ Named(N, W)
  BY <1>1, OneNamed, WordsNamed DEF Made!Mutex
<1>4. Tidy(N, {}, {"seq num mutex"}, W)
  BY <1>1, MutexTidy
<1>5. Named(P, W) /\ Tidy(P, {}, PT, W)
  BY <1>1, PipeNamed, PipeTidy
<1>6. L \in Seq(Words)
  BY <1>2 DEF Releases
<1> HIDE DEF K, L, M, N, P, PT
<1>7. Named(M \o Made!Else(N, K), W)
  BY <1>2, <1>3, <1>4, NamedNext
<1>8. Named(Made!Else(P, L), W) /\ Tidy(Made!Else(P, L), {}, PT, W)
  BY <1>5, <1>6, NamedElse
<1>9. Named(Made!Says(Made!Else(P, L), "ok"), W)
  BY <1>8, NamedSays
<1>10. Named((M \o Made!Else(N, K)) \o Made!Says(Made!Else(P, L), "ok"), W)
  BY <1>7, <1>9, BothNamed
<1> QED BY <1>10 DEF Made!Mutexes, K, L, M, N, P

LEMMA OwnSocketTidy ==
  ASSUME NEW W
  PROVE  Tidy(Made!Socket(FALSE), {"key mutex", "seq num mutex", "takion pipe"},
              {"sock"}, W)
<1> DEFINE G0 == {"key mutex", "seq num mutex", "takion pipe"}  B1 == {"sock"}  T1 == B1
           B2 == {}  T2 == T1  B3 == {}  T3 == T2
           L1 == <<"takion pipe", "seq num mutex", "key mutex">>
           X2 == {"sock", "takion pipe", "seq num mutex", "key mutex"}  L2 == <<"sock">> \o L1
           S1 == Made!Else(<<Made!Take("sock")>>, L1)
           S2 == S1 \o Made!Else(<<Made!Check("receive buffer"), Made!Check("fragments")>>, L2)
           S3 == S2 \o Made!Else(<<Made!Check("connect")>>, L2)
           N == {"key mutex", "seq num mutex", "takion pipe", "sock"}
<1>1. /\ G0 \cap B1 = {}
      /\ T2 = T1 \cup B2 /\ T1 \cap Made!Threads = {} /\ X2 = G0 \cup T1 /\ X2 \cap B2 = {}
      /\ T3 = T2 \cup B3 /\ T2 \cap Made!Threads = {} /\ X2 = G0 \cup T2 /\ X2 \cap B3 = {}
  BY DEF Made!Threads
<1>2. /\ N \subseteq Words /\ "hole" \notin N
      /\ {"connect"} \subseteq Names /\ "hole" \notin {"connect"}
  BY DEF Words, TakionWords, Names
<1>l1. Releases(L1, G0)
  <2>1. Releases(L1, {"takion pipe", "seq num mutex", "key mutex"})
    BY <1>2, ReleasesThree
  <2>2. {"takion pipe", "seq num mutex", "key mutex"} = G0
    OBVIOUS
  <2> QED BY <2>1, <2>2
<1>l2. Releases(L2, X2)
  <2>1. "sock" \notin G0 /\ X2 = {"sock"} \cup G0 /\ "sock" \in Words
    BY <1>2
  <2> HIDE DEF X2, G0, L1, N
  <2> QED BY <1>l1, <2>1, ReleasesNext
<1>p1. Tidy(<<Made!Take("sock")>>, {}, B1, W)
  BY <1>2, TakeTidy
<1>p2. Tidy(<<Made!Check("receive buffer"), Made!Check("fragments")>>, {}, B2, W)
  <2>1. {"receive buffer", "fragments"} \subseteq Names /\ "hole" \notin {"receive buffer", "fragments"}
    BY DEF Names
  <2> QED BY <2>1, ChecksTidy
<1>p3. Tidy(<<Made!Check("connect")>>, {}, B3, W)
  BY <1>2, CheckTidy
<1> HIDE DEF G0, B1, T1, B2, T2, B3, T3, L1, X2, L2, S1, S2, S3, N
<1>s1. Tidy(S1, G0, T1, W)
  BY <1>1, <1>p1, <1>l1, TidyElseOn DEF S1, T1
<1>s2. Tidy(S2, G0, T2, W)
  BY <1>1, <1>s1, <1>p2, <1>l2, TidyNext DEF S2
<1>s3. Tidy(S3, G0, T3, W)
  BY <1>1, <1>s2, <1>p3, <1>l2, TidyNext DEF S3
<1> QED BY <1>s3 DEF S1, S2, S3, L1, L2, G0, T3, T2, T1, B1, Made!Socket

LEMMA GivenSocketTidy ==
  ASSUME NEW W, "extra messages" \in W
  PROVE  Tidy(Made!Socket(TRUE), {"sock", "key mutex", "seq num mutex", "takion pipe"},
              {}, W)
<1> DEFINE G0 == {"sock", "key mutex", "seq num mutex", "takion pipe"}  B1 == {}  T1 == B1
           B2 == {}  T2 == T1  X1 == {"takion pipe", "seq num mutex", "key mutex"}
           L1 == <<"takion pipe", "seq num mutex", "key mutex">>
           X2 == {"sock", "takion pipe", "seq num mutex", "key mutex"}  L2 == <<"sock">> \o L1
           S1 == Made!Says(Made!Else(<<Made!Check("extra messages")>>, L2), "ok")
           S2 == S1 \o Made!Else(<<Made!Check("receive buffer"), Made!Check("fragments")>>, L2)
           N == {"sock", "key mutex", "seq num mutex", "takion pipe"}
<1>1. /\ T2 = T1 \cup B2 /\ T1 \cap Made!Threads = {} /\ X2 = G0 \cup T1 /\ X2 \cap B2 = {}
  BY DEF Made!Threads
<1>2. /\ N \subseteq Words /\ "hole" \notin N
  BY DEF Words, TakionWords
<1>l1. Releases(L1, X1)
  BY <1>2, ReleasesThree
<1>l2. Releases(L2, X2)
  <2>1. "sock" \notin X1 /\ X2 = {"sock"} \cup X1 /\ "sock" \in Words
    BY <1>2
  <2> HIDE DEF X2, X1, L1, N
  <2> QED BY <1>l1, <2>1, ReleasesNext
<1>p1. Tidy(Made!Says(Made!Else(<<Made!Check("extra messages")>>, L2), "ok"), G0, B1, W)
  <2>1. "extra messages" \in Names /\ "extra messages" # "hole"
    BY DEF Names
  <2>2. Named(<<Made!Check("extra messages")>>, W) /\ Tidy(<<Made!Check("extra messages")>>, {}, B1, W)
    BY <2>1, OneNamed, CheckTidy
  <2>3. L2 \in Seq(Words)
    BY <1>l2 DEF Releases
  <2> HIDE DEF B1, G0, L2
  <2>4. Tidy(Made!Else(<<Made!Check("extra messages")>>, L2), G0, B1, W)
        /\ Named(Made!Else(<<Made!Check("extra messages")>>, L2), W)
    BY <2>2, <2>3, NamedElse
  <2> QED BY <2>4, NamedSays
<1>p2. Tidy(<<Made!Check("receive buffer"), Made!Check("fragments")>>, {}, B2, W)
  <2>1. {"receive buffer", "fragments"} \subseteq Names /\ "hole" \notin {"receive buffer", "fragments"}
    BY DEF Names
  <2> QED BY <2>1, ChecksTidy
<1> HIDE DEF G0, B1, T1, B2, T2, X1, L1, X2, L2, S1, S2, N
<1>s1. Tidy(S1, G0, T1, W)
  BY <1>p1 DEF S1, T1
<1>s2. Tidy(S2, G0, T2, W)
  BY <1>1, <1>s1, <1>p2, <1>l2, TidyNext DEF S2
<1> QED BY <1>s2 DEF S1, S2, L1, L2, G0, T2, T1, B1, Made!Socket

LEMMA TakionTidy ==
  ASSUME NEW W, {"takion pipe", "takion thread"} \subseteq W
  PROVE  Tidy(Made!TakionConnect(FALSE), {}, TakionWords, W)
<1> DEFINE G0 == {}  B1 == {"key mutex", "seq num mutex", "takion pipe"}  T1 == B1
           B2 == {"sock"}  T2 == {"key mutex", "seq num mutex", "takion pipe", "sock"}
           B3 == {"takion thread"}  T3 == TakionWords  Y2 == T1  Y3 == T2  S1 == Made!Mutexes
           S2 == S1 \o Made!Socket(FALSE)
           S3 == S2 \o Made!Says(Made!Thread("takion thread"), "ok")
           N == {"key mutex", "seq num mutex", "takion pipe", "sock", "takion thread"}
<1>1. /\ G0 = {}
      /\ T2 = T1 \cup B2 /\ T1 \cap Made!Threads = {} /\ Y2 = G0 \cup T1
      /\ T3 = T2 \cup B3 /\ T2 \cap Made!Threads = {} /\ Y3 = G0 \cup T2
  BY DEF Made!Threads, TakionWords
<1>2. /\ N \subseteq Words /\ "hole" \notin N
  BY DEF Words, TakionWords
<1>p1. Tidy(Made!Mutexes, G0, B1, W)
  BY MutexesTidy
<1>p2. Tidy(Made!Socket(FALSE), Y2, B2, W)
  BY OwnSocketTidy
<1>p3. Tidy(Made!Says(Made!Thread("takion thread"), "ok"), Y3, B3, W)
  <2>1. "takion thread" \in Words /\ "takion thread" \in Names /\ "takion thread" # "hole"
    BY DEF Words, TakionWords, Names
  <2>2. Named(Made!Thread("takion thread"), W) /\ Tidy(Made!Thread("takion thread"), {}, B3, W)
    BY <2>1, OneNamed, MutexTidy DEF Made!Thread
  <2> HIDE DEF B3, Y3
  <2> QED BY <2>2, NamedSays
<1> HIDE DEF G0, B1, T1, B2, T2, B3, T3, Y2, Y3, S1, S2, S3, N
<1>s1. Tidy(S1, G0, T1, W)
  BY <1>p1 DEF S1, T1
<1>s2. Tidy(S2, G0, T2, W)
  BY <1>1, <1>s1, <1>p2, TidyAfter DEF S2
<1>s3. Tidy(S3, G0, T3, W)
  BY <1>1, <1>s2, <1>p3, TidyAfter DEF S3
<1> QED BY <1>s3 DEF S1, S2, S3, G0, T3, Made!TakionConnect

LEMMA TakionPsnTidy ==
  ASSUME NEW W,
         {"key mutex", "seq num mutex", "takion pipe", "extra messages", "takion thread"} \subseteq W
  PROVE  Tidy(Made!TakionConnect(TRUE), {"sock"},
              {"key mutex", "seq num mutex", "takion pipe", "takion thread"}, W)
<1> DEFINE G0 == {"sock"}  B1 == {"key mutex", "seq num mutex", "takion pipe"}  T1 == B1
           B2 == {}  T2 == T1  B3 == {"takion thread"}
           T3 == {"key mutex", "seq num mutex", "takion pipe", "takion thread"}
           Y2 == {"sock", "key mutex", "seq num mutex", "takion pipe"}
           Y3 == {"sock", "key mutex", "seq num mutex", "takion pipe"}  S1 == Made!Mutexes
           S2 == S1 \o Made!Socket(TRUE)
           S3 == S2 \o Made!Says(Made!Thread("takion thread"), "ok")
           N == {"sock", "key mutex", "seq num mutex", "takion pipe", "takion thread"}
<1>1. /\ T2 = T1 \cup B2 /\ T1 \cap Made!Threads = {} /\ Y2 = G0 \cup T1
      /\ T3 = T2 \cup B3 /\ T2 \cap Made!Threads = {} /\ Y3 = G0 \cup T2
  BY DEF Made!Threads
<1>2. /\ N \subseteq Words /\ "hole" \notin N
  BY DEF Words, TakionWords
<1>p1. Tidy(Made!Mutexes, G0, B1, W)
  <2>1. Tidy(Made!Mutexes, {}, B1, W) /\ Named(Made!Mutexes, W)
    BY MutexesTidy, MutexesNamed
  <2> HIDE DEF B1, G0
  <2> QED BY <2>1, NamedTidy
<1>p2. Tidy(Made!Socket(TRUE), Y2, B2, W)
  BY GivenSocketTidy
<1>p3. Tidy(Made!Says(Made!Thread("takion thread"), "ok"), Y3, B3, W)
  <2>1. "takion thread" \in Words /\ "takion thread" \in Names /\ "takion thread" # "hole"
    BY DEF Words, TakionWords, Names
  <2>2. Named(Made!Thread("takion thread"), W) /\ Tidy(Made!Thread("takion thread"), {}, B3, W)
    BY <2>1, OneNamed, MutexTidy DEF Made!Thread
  <2> HIDE DEF B3, Y3
  <2> QED BY <2>2, NamedSays
<1> HIDE DEF G0, B1, T1, B2, T2, B3, T3, Y2, Y3, S1, S2, S3, N
<1>s1. Tidy(S1, G0, T1, W)
  BY <1>p1 DEF S1, T1
<1>s2. Tidy(S2, G0, T2, W)
  BY <1>1, <1>s1, <1>p2, TidyAfter DEF S2
<1>s3. Tidy(S3, G0, T3, W)
  BY <1>1, <1>s2, <1>p3, TidyAfter DEF S3
<1> QED BY <1>s3 DEF S1, S2, S3, G0, T3, Made!TakionConnect

(* The session, on the ways it is created and ended.                        *)
LEMMA CtrlFiniReleases == Releases(Made!CtrlFini, {"notif pipe", "notif mutex"})
<1>1. {"notif pipe", "notif mutex"} \subseteq Words
  BY DEF Words, SessionWords
<1> QED BY <1>1, ReleasesTwo DEF Made!CtrlFini
LEMMA StreamConnectionFiniReleases ==
  Releases(Made!StreamConnectionFini,
           {"packet stats", "feedback mutex", "stream cond", "stream mutex"})
<1>1. {"packet stats", "feedback mutex", "stream cond", "stream mutex"} \subseteq Words
  BY DEF Words, SessionWords
<1> QED BY <1>1, ReleasesFour DEF Made!StreamConnectionFini

Inner ==
  {"packet stats", "feedback mutex", "stream cond", "stream mutex", "notif pipe", "notif mutex"}
LEMMA SessionFiniReleases ==
  ASSUME NEW hole, NEW H, NEW host, NEW K, Releases(hole, H), Releases(host, K),
         H \subseteq {"holepunch"}, K \subseteq {"host"}
  PROVE  Releases(Made!SessionFini(hole, host),
                  ((Inner \cup H) \cup {"stop pipe", "state cond", "state mutex"}) \cup K)
<1> DEFINE A == Made!StreamConnectionFini  B == Made!CtrlFini
           D == <<"stop pipe", "state cond", "state mutex">>
           XA == {"packet stats", "feedback mutex", "stream cond", "stream mutex"}
           XB == {"notif pipe", "notif mutex"}  XD == {"stop pipe", "state cond", "state mutex"}
<1>1. Releases(A, XA) /\ Releases(B, XB)
  BY CtrlFiniReleases, StreamConnectionFiniReleases
<1>2. Releases(D, XD)
  <2>1. XD \subseteq Words
    BY DEF Words, SessionWords, AppWords
  <2> QED BY <2>1, ReleasesThree
<1>3. /\ XA \cap XB = {} /\ XA \cup XB = Inner /\ Inner \cap H = {}
      /\ (Inner \cup H) \cap XD = {} /\ ((Inner \cup H) \cup XD) \cap K = {}
  BY DEF Inner
<1> HIDE DEF A, B, D, XA, XB, XD
<1>4. Releases(A \o B, Inner)
  BY <1>1, <1>3, ReleasesBoth
<1>5. Releases((A \o B) \o hole, Inner \cup H)
  BY <1>3, <1>4, ReleasesBoth
<1>6. Releases(((A \o B) \o hole) \o D, (Inner \cup H) \cup XD)
  BY <1>2, <1>3, <1>5, ReleasesBoth
<1>7. Releases((((A \o B) \o hole) \o D) \o host, ((Inner \cup H) \cup XD) \cup K)
  BY <1>3, <1>6, ReleasesBoth
<1> QED BY <1>7 DEF Made!SessionFini, A, B, D, XD

LEMMA CtrlNamed ==
  ASSUME NEW W, {"notif mutex", "notif pipe"} \subseteq W PROVE Named(Made!CtrlInit, W)
<1> DEFINE M == Made!Mutex("notif mutex")  P == Made!Pipe("notif pipe")  L == <<"notif mutex">>
           X == {"notif mutex"}  PT == {"notif pipe"}
<1>1. /\ "notif mutex" \in Words /\ "notif pipe" \in Words
      /\ "notif mutex" # "hole" /\ "notif pipe" # "hole" /\ "notif pipe" \notin Made!Threads
  BY DEF Words, SessionWords, Made!Threads
<1>2. Named(M, W) /\ Named(P, W) /\ Tidy(P, {}, PT, W) /\ Releases(L, X)
  BY <1>1, OneNamed, PipeNamed, PipeTidy, ReleasesOne, WordsNamed DEF Made!Mutex
<1> HIDE DEF M, P, L, X, PT
<1>3. Named(M \o Made!Else(P, L), W)
  BY <1>2, NamedNext
<1> QED BY <1>3 DEF Made!CtrlInit, M, P, L
LEMMA StreamConnectionNamed ==
  ASSUME NEW W, {"stream mutex", "stream cond", "packet stats", "feedback mutex"} \subseteq W
  PROVE  Named(Made!StreamConnectionInit, W)
<1> DEFINE S1 == Made!Mutex("stream mutex")  S2 == Made!Cond("stream cond")
           S3 == Made!Mutex("packet stats")  S4 == Made!Mutex("feedback mutex")
           L1 == <<"stream mutex">>  L2 == <<"stream cond">> \o L1  L3 == <<"packet stats">> \o L2
           X1 == {"stream mutex"}  X2 == {"stream cond"} \cup X1  X3 == {"packet stats"} \cup X2
           Y2 == {"stream cond"}  Y3 == {"packet stats"}  Y4 == {"feedback mutex"}
<1>1. /\ {"stream mutex", "stream cond", "packet stats", "feedback mutex"} \subseteq Words
      /\ "hole" \notin {"stream mutex", "stream cond", "packet stats", "feedback mutex"}
  BY DEF Words, SessionWords
<1>2. Named(S1, W) /\ Named(S2, W) /\ Named(S3, W) /\ Named(S4, W)
  BY <1>1, OneNamed, WordsNamed DEF Made!Mutex, Made!Cond
<1>3. Tidy(S2, {}, Y2, W) /\ Tidy(S3, {}, Y3, W) /\ Tidy(S4, {}, Y4, W)
  BY <1>1, MutexTidy
<1>4. Releases(L1, X1)
  BY <1>1, ReleasesOne
<1>5. Releases(L2, X2)
  <2>1. "stream cond" \in Words /\ "stream cond" \notin X1
    BY <1>1
  <2> HIDE DEF X1, L1
  <2> QED BY <1>4, <2>1, ReleasesFirst
<1>6. Releases(L3, X3)
  <2>1. "packet stats" \in Words /\ "packet stats" \notin X2
    BY <1>1
  <2> HIDE DEF X2, L2
  <2> QED BY <1>5, <2>1, ReleasesFirst
<1> HIDE DEF S1, S2, S3, S4, L1, L2, L3, X1, X2, X3, Y2, Y3, Y4
<1>7. Named(S1 \o Made!Else(S2, L1), W)
  BY <1>2, <1>3, <1>4, NamedNext
<1>8. Named((S1 \o Made!Else(S2, L1)) \o Made!Else(S3, L2), W)
  BY <1>2, <1>3, <1>5, <1>7, NamedNext
<1>9. Named(((S1 \o Made!Else(S2, L1)) \o Made!Else(S3, L2)) \o Made!Else(S4, L3), W)
  BY <1>2, <1>3, <1>6, <1>8, NamedNext
<1> QED BY <1>9 DEF Made!StreamConnectionInit, S1, S2, S3, S4, L1, L2, L3

LEMMA SessionTidy ==
  ASSUME NEW W
  PROVE  Tidy(Made!SessionInit(<<>>), {}, SessionWords, W)
<1> DEFINE G0 == {}  B1 == {"state cond"}  T1 == B1  B2 == {"state mutex"}
           T2 == {"state cond", "state mutex"}  B3 == {"stop pipe"}
           T3 == {"state cond", "state mutex", "stop pipe"}  B4 == {"notif mutex", "notif pipe"}
           T4 == {"state cond", "state mutex", "stop pipe", "notif mutex", "notif pipe"}
           B5 == {"stream mutex", "stream cond", "packet stats", "feedback mutex"}
           T5 == {"state cond", "state mutex", "stop pipe", "notif mutex", "notif pipe",
                 "stream mutex", "stream cond", "packet stats", "feedback mutex"}
           B6 == {"host"}  T6 == SessionWords  L0 == <<>>  L1 == <<"state cond">> \o L0
           L2 == <<"state mutex">> \o L1  L3 == <<"stop pipe">> \o L2
           XC == {"notif pipe", "notif mutex"}  LC == Made!CtrlFini  L4 == LC \o L3
           LF == Made!SessionFini(L0, <<>>)  S1 == Made!Else(Made!Cond("state cond"), L0)
           S2 == S1 \o Made!Else(Made!Mutex("state mutex"), L1)
           S3 == S2 \o Made!Else(Made!Pipe("stop pipe"), L2)
           S4 == S3 \o Made!Else(Made!CtrlInit, L3)
           S5 == S4 \o Made!Else(Made!StreamConnectionInit, L4)
           S6 == S5 \o Made!Else(<<Made!Take("host")>>, LF)
           N == {"state cond", "state mutex", "stop pipe", "notif mutex", "notif pipe",
                 "stream mutex", "stream cond", "packet stats", "feedback mutex", "host"}
<1>e1. G0 \cap B1 = {}
  OBVIOUS
<1>e2. T2 = T1 \cup B2 /\ T1 \cap Made!Threads = {} /\ T1 = G0 \cup T1 /\ T1 \cap B2 = {}
  BY DEF Made!Threads
<1>e3. T3 = T2 \cup B3 /\ T2 \cap Made!Threads = {} /\ T2 = G0 \cup T2 /\ T2 \cap B3 = {}
  BY DEF Made!Threads
<1>e4. T4 = T3 \cup B4 /\ T3 \cap Made!Threads = {} /\ T3 = G0 \cup T3 /\ T3 \cap B4 = {}
  BY DEF Made!Threads
<1>e5. T5 = T4 \cup B5 /\ T4 \cap Made!Threads = {} /\ T4 = G0 \cup T4 /\ T4 \cap B5 = {}
  BY DEF Made!Threads
<1>e6. T6 = T5 \cup B6 /\ T5 \cap Made!Threads = {} /\ T5 = G0 \cup T5 /\ T5 \cap B6 = {}
  BY DEF Made!Threads, SessionWords
<1>2. /\ N \subseteq Words /\ "hole" \notin N
      /\ {"stop pipe"} \cap Made!Threads = {}
  BY DEF Words, SessionWords, Made!Threads
<1>l0. Releases(L0, G0)
  BY ReleasesNone
<1>l1. Releases(L1, T1)
  <2>1. "state cond" \notin G0 /\ T1 = {"state cond"} \cup G0 /\ "state cond" \in Words
    BY <1>2
  <2> HIDE DEF T1, G0, L0, N, B1
  <2> QED BY <1>l0, <2>1, ReleasesNext
<1>l2. Releases(L2, T2)
  <2>1. "state mutex" \notin T1 /\ T2 = {"state mutex"} \cup T1 /\ "state mutex" \in Words
    BY <1>2
  <2> HIDE DEF T2, T1, L1, N, B1
  <2> QED BY <1>l1, <2>1, ReleasesNext
<1>l3. Releases(L3, T3)
  <2>1. "stop pipe" \notin T2 /\ T3 = {"stop pipe"} \cup T2 /\ "stop pipe" \in Words
    BY <1>2
  <2> HIDE DEF T3, T2, L2, N
  <2> QED BY <1>l2, <2>1, ReleasesNext
<1>lC. Releases(LC, XC)
  BY CtrlFiniReleases
<1>l4. Releases(L4, T4)
  <2>1. XC \cap T3 = {} /\ T4 = XC \cup T3
    OBVIOUS
  <2> HIDE DEF T4, XC, T3, LC, L3
  <2> QED BY <1>lC, <1>l3, <2>1, ReleasesThen
<1>lF. Releases(LF, T5)
  <2>1. Releases(Made!SessionFini(L0, <<>>),
                 ((Inner \cup {}) \cup {"stop pipe", "state cond", "state mutex"}) \cup {})
    BY ReleasesNone, SessionFiniReleases
  <2>2. ((Inner \cup {}) \cup {"stop pipe", "state cond", "state mutex"}) \cup {} = T5
    BY DEF Inner
  <2> QED BY <2>1, <2>2
<1>p1. Tidy(Made!Cond("state cond"), {}, B1, W)
  BY <1>2, MutexTidy
<1>p2. Tidy(Made!Mutex("state mutex"), {}, B2, W)
  BY <1>2, MutexTidy
<1>p3. Tidy(Made!Pipe("stop pipe"), {}, B3, W)
  BY <1>2, PipeTidy
<1>p4. Tidy(Made!CtrlInit, {}, B4, W)
  BY CtrlTidy
<1>p5. Tidy(Made!StreamConnectionInit, {}, B5, W)
  BY StreamConnectionTidy
<1>p6. Tidy(<<Made!Take("host")>>, {}, B6, W)
  BY <1>2, TakeTidy
<1> HIDE DEF G0, B1, T1, B2, T2, B3, T3, B4, T4, B5, T5, B6, T6, L0, L1, L2, L3, XC, LC, L4, LF,
             S1, S2, S3, S4, S5, S6, N
<1>s1. Tidy(S1, G0, T1, W)
  BY <1>e1, <1>p1, <1>l0, TidyElseOn DEF S1, T1
<1>s2. Tidy(S2, G0, T2, W)
  BY <1>e2, <1>s1, <1>p2, <1>l1, TidyNext DEF S2
<1>s3. Tidy(S3, G0, T3, W)
  BY <1>e3, <1>s2, <1>p3, <1>l2, TidyNext DEF S3
<1>s4. Tidy(S4, G0, T4, W)
  BY <1>e4, <1>s3, <1>p4, <1>l3, TidyNext DEF S4
<1>s5. Tidy(S5, G0, T5, W)
  BY <1>e5, <1>s4, <1>p5, <1>l4, TidyNext DEF S5
<1>s6. Tidy(S6, G0, T6, W)
  BY <1>e6, <1>s5, <1>p6, <1>lF, TidyNext DEF S6
<1> QED BY <1>s6 DEF S1, S2, S3, S4, S5, S6, L0, L1, L2, L3, LC, L4, LF, G0, T6, Made!SessionInit

LEMMA SessionPsnTidy ==
  ASSUME NEW W
  PROVE  Tidy(Made!SessionInit(<<"holepunch">>), {"holepunch"}, SessionPsnWords, W)
<1> DEFINE G0 == {"holepunch"}  B1 == {"state cond"}  T1 == B1  B2 == {"state mutex"}
           T2 == {"state cond", "state mutex"}  B3 == {"stop pipe"}
           T3 == {"state cond", "state mutex", "stop pipe"}  B4 == {"notif mutex", "notif pipe"}
           T4 == {"state cond", "state mutex", "stop pipe", "notif mutex", "notif pipe"}
           B5 == {"stream mutex", "stream cond", "packet stats", "feedback mutex"}
           T5 == {"state cond", "state mutex", "stop pipe", "notif mutex", "notif pipe",
                 "stream mutex", "stream cond", "packet stats", "feedback mutex"}
           B6 == {}  T6 == SessionPsnWords  L0 == <<"holepunch">>
           X1 == {"state cond", "holepunch"}  L1 == <<"state cond">> \o L0
           X2 == {"state mutex", "state cond", "holepunch"}  L2 == <<"state mutex">> \o L1
           X3 == {"stop pipe", "state mutex", "state cond", "holepunch"}
           L3 == <<"stop pipe">> \o L2  XC == {"notif pipe", "notif mutex"}  LC == Made!CtrlFini
           X4 == {"notif pipe", "notif mutex", "stop pipe", "state mutex", "state cond",
                 "holepunch"}
           L4 == LC \o L3
           Y6 == {"holepunch", "state cond", "state mutex", "stop pipe", "notif mutex",
                 "notif pipe", "stream mutex", "stream cond", "packet stats", "feedback mutex"}
           S1 == Made!Else(Made!Cond("state cond"), L0)
           S2 == S1 \o Made!Else(Made!Mutex("state mutex"), L1)
           S3 == S2 \o Made!Else(Made!Pipe("stop pipe"), L2)
           S4 == S3 \o Made!Else(Made!CtrlInit, L3)
           S5 == S4 \o Made!Else(Made!StreamConnectionInit, L4)  S6 == S5 \o <<>>
           N == {"holepunch", "state cond", "state mutex", "stop pipe", "notif mutex",
                 "notif pipe", "stream mutex", "stream cond", "packet stats", "feedback mutex"}
<1>e1. G0 \cap B1 = {}
  OBVIOUS
<1>e2. T2 = T1 \cup B2 /\ T1 \cap Made!Threads = {} /\ X1 = G0 \cup T1 /\ X1 \cap B2 = {}
  BY DEF Made!Threads
<1>e3. T3 = T2 \cup B3 /\ T2 \cap Made!Threads = {} /\ X2 = G0 \cup T2 /\ X2 \cap B3 = {}
  BY DEF Made!Threads
<1>e4. T4 = T3 \cup B4 /\ T3 \cap Made!Threads = {} /\ X3 = G0 \cup T3 /\ X3 \cap B4 = {}
  BY DEF Made!Threads
<1>e5. T5 = T4 \cup B5 /\ T4 \cap Made!Threads = {} /\ X4 = G0 \cup T4 /\ X4 \cap B5 = {}
  BY DEF Made!Threads
<1>e6. T6 = T5 \cup B6 /\ T5 \cap Made!Threads = {} /\ Y6 = G0 \cup T5
  BY DEF Made!Threads, SessionPsnWords
<1>2. /\ N \subseteq Words /\ "hole" \notin N
      /\ {"stop pipe"} \cap Made!Threads = {}
  BY DEF Words, SessionWords, AppWords, SessionPsnWords, Made!Threads
<1>l0. Releases(L0, G0)
  BY <1>2, ReleasesOne
<1>l1. Releases(L1, X1)
  <2>1. "state cond" \notin G0 /\ X1 = {"state cond"} \cup G0 /\ "state cond" \in Words
    BY <1>2
  <2> HIDE DEF X1, G0, L0, N
  <2> QED BY <1>l0, <2>1, ReleasesNext
<1>l2. Releases(L2, X2)
  <2>1. "state mutex" \notin X1 /\ X2 = {"state mutex"} \cup X1 /\ "state mutex" \in Words
    BY <1>2
  <2> HIDE DEF X2, X1, L1, N
  <2> QED BY <1>l1, <2>1, ReleasesNext
<1>l3. Releases(L3, X3)
  <2>1. "stop pipe" \notin X2 /\ X3 = {"stop pipe"} \cup X2 /\ "stop pipe" \in Words
    BY <1>2
  <2> HIDE DEF X3, X2, L2, N
  <2> QED BY <1>l2, <2>1, ReleasesNext
<1>lC. Releases(LC, XC)
  BY CtrlFiniReleases
<1>l4. Releases(L4, X4)
  <2>1. XC \cap X3 = {} /\ X4 = XC \cup X3
    OBVIOUS
  <2> HIDE DEF X4, XC, X3, LC, L3
  <2> QED BY <1>lC, <1>l3, <2>1, ReleasesThen
<1>p1. Tidy(Made!Cond("state cond"), {}, B1, W)
  BY <1>2, MutexTidy
<1>p2. Tidy(Made!Mutex("state mutex"), {}, B2, W)
  BY <1>2, MutexTidy
<1>p3. Tidy(Made!Pipe("stop pipe"), {}, B3, W)
  BY <1>2, PipeTidy
<1>p4. Tidy(Made!CtrlInit, {}, B4, W)
  BY CtrlTidy
<1>p5. Tidy(Made!StreamConnectionInit, {}, B5, W)
  BY StreamConnectionTidy
<1>p6. Tidy(<<>>, Y6, B6, W)
  BY NothingTidy
<1> HIDE DEF G0, B1, T1, B2, T2, B3, T3, B4, T4, B5, T5, B6, T6, L0, X1, L1, X2, L2, X3, L3, XC,
             LC, X4, L4, Y6, S1, S2, S3, S4, S5, S6, N
<1>s1. Tidy(S1, G0, T1, W)
  BY <1>e1, <1>p1, <1>l0, TidyElseOn DEF S1, T1
<1>s2. Tidy(S2, G0, T2, W)
  BY <1>e2, <1>s1, <1>p2, <1>l1, TidyNext DEF S2
<1>s3. Tidy(S3, G0, T3, W)
  BY <1>e3, <1>s2, <1>p3, <1>l2, TidyNext DEF S3
<1>s4. Tidy(S4, G0, T4, W)
  BY <1>e4, <1>s3, <1>p4, <1>l3, TidyNext DEF S4
<1>s5. Tidy(S5, G0, T5, W)
  BY <1>e5, <1>s4, <1>p5, <1>l4, TidyNext DEF S5
<1>s6. Tidy(S6, G0, T6, W)
  BY <1>e6, <1>s5, <1>p6, TidyAfter DEF S6
<1> QED BY <1>s6 DEF S1, S2, S3, S4, S5, S6, L0, L1, L2, L3, LC, L4, G0, T6, Made!SessionInit

LEMMA SessionV6Tidy ==
  ASSUME NEW W,
         {"notif mutex", "notif pipe", "stream mutex", "stream cond", "packet stats",
          "feedback mutex"} \subseteq W
  PROVE  Tidy(Made!SessionInitV6, {}, SessionWords, W)
<1> DEFINE G0 == {}  B1 == {"state cond"}  T1 == B1  B2 == {"state mutex"}
           T2 == {"state cond", "state mutex"}  B3 == {"stop pipe"}
           T3 == {"state cond", "state mutex", "stop pipe"}  B4 == {"notif mutex", "notif pipe"}
           T4 == {"state cond", "state mutex", "stop pipe", "notif mutex", "notif pipe"}
           B5 == {"stream mutex", "stream cond", "packet stats", "feedback mutex"}
           T5 == {"state cond", "state mutex", "stop pipe", "notif mutex", "notif pipe",
                 "stream mutex", "stream cond", "packet stats", "feedback mutex"}
           B6 == {"host"}  T6 == SessionWords  L1 == <<"state cond">>
           L2 == <<"state mutex">> \o L1  XC == {"notif pipe", "notif mutex"}
           LC == Made!CtrlFini  X3 == {"notif pipe", "notif mutex", "state mutex", "state cond"}
           L3 == LC \o L2  L4 == <<"stop pipe">> \o L3  LF == Made!SessionFini(<<>>, <<>>)
           Y4 == T3  Y5 == T4  S1 == Made!Cond("state cond")
           S2 == S1 \o Made!Else(Made!Mutex("state mutex"), L1)
           S3 == S2 \o Made!Else(Made!Pipe("stop pipe"), L2)
           S4 == S3 \o Made!Else(Made!CtrlInit, L4)
           S5 == S4 \o Made!Else(Made!StreamConnectionInit, L3)
           S6 == S5 \o Made!Else(<<Made!Take("host")>>, LF)
           N == {"state cond", "state mutex", "stop pipe", "notif mutex", "notif pipe",
                 "stream mutex", "stream cond", "packet stats", "feedback mutex", "host"}
<1>e1. G0 = {}
  OBVIOUS
<1>e2. T2 = T1 \cup B2 /\ T1 \cap Made!Threads = {} /\ T1 = G0 \cup T1 /\ T1 \cap B2 = {}
  BY DEF Made!Threads
<1>e3. T3 = T2 \cup B3 /\ T2 \cap Made!Threads = {} /\ T2 = G0 \cup T2 /\ T2 \cap B3 = {}
  BY DEF Made!Threads
<1>e4. T4 = T3 \cup B4 /\ T3 \cap Made!Threads = {} /\ Y4 = G0 \cup T3
  BY DEF Made!Threads
<1>e5. T5 = T4 \cup B5 /\ T4 \cap Made!Threads = {} /\ Y5 = G0 \cup T4
  BY DEF Made!Threads
<1>e6. T6 = T5 \cup B6 /\ T5 \cap Made!Threads = {} /\ T5 = G0 \cup T5 /\ T5 \cap B6 = {}
  BY DEF Made!Threads, SessionWords
<1>2. /\ N \subseteq Words /\ "hole" \notin N
      /\ {"stop pipe"} \cap Made!Threads = {}
  BY DEF Words, SessionWords, Made!Threads
<1>l1. Releases(L1, T1)
  BY <1>2, ReleasesOne
<1>l2. Releases(L2, T2)
  <2>1. "state mutex" \notin T1 /\ T2 = {"state mutex"} \cup T1 /\ "state mutex" \in Words
    BY <1>2
  <2> HIDE DEF T2, T1, L1, N, B1
  <2> QED BY <1>l1, <2>1, ReleasesNext
<1>lC. Releases(LC, XC)
  BY CtrlFiniReleases
<1>l3. Releases(L3, X3)
  <2>1. XC \cap T2 = {} /\ X3 = XC \cup T2
    OBVIOUS
  <2> HIDE DEF X3, XC, T2, LC, L2
  <2> QED BY <1>lC, <1>l2, <2>1, ReleasesThen
<1>l4. Releases(L4, T4)
  <2>1. "stop pipe" \notin X3 /\ T4 = {"stop pipe"} \cup X3 /\ "stop pipe" \in Words
    BY <1>2
  <2> HIDE DEF T4, X3, L3, N
  <2> QED BY <1>l3, <2>1, ReleasesNext
<1>lF. Releases(LF, T5)
  <2>1. Releases(Made!SessionFini(<<>>, <<>>),
                 ((Inner \cup {}) \cup {"stop pipe", "state cond", "state mutex"}) \cup {})
    BY ReleasesNone, SessionFiniReleases
  <2>2. ((Inner \cup {}) \cup {"stop pipe", "state cond", "state mutex"}) \cup {} = T5
    BY DEF Inner
  <2> QED BY <2>1, <2>2
<1>p1. Tidy(Made!Cond("state cond"), G0, B1, W)
  BY <1>2, MutexTidy
<1>p2. Tidy(Made!Mutex("state mutex"), {}, B2, W)
  BY <1>2, MutexTidy
<1>p3. Tidy(Made!Pipe("stop pipe"), {}, B3, W)
  BY <1>2, PipeTidy
<1>p4. Tidy(Made!Else(Made!CtrlInit, L4), Y4, B4, W)
  <2>1. Tidy(Made!CtrlInit, {}, B4, W) /\ Named(Made!CtrlInit, W)
    BY CtrlTidy, CtrlNamed
  <2>2. L4 \in Seq(Words)
    BY <1>l4 DEF Releases
  <2> HIDE DEF B4, Y4, L4
  <2> QED BY <2>1, <2>2, NamedElse
<1>p5. Tidy(Made!Else(Made!StreamConnectionInit, L3), Y5, B5, W)
  <2>1. Tidy(Made!StreamConnectionInit, {}, B5, W) /\ Named(Made!StreamConnectionInit, W)
    BY StreamConnectionTidy, StreamConnectionNamed
  <2>2. L3 \in Seq(Words)
    BY <1>l3 DEF Releases
  <2> HIDE DEF B5, Y5, L3
  <2> QED BY <2>1, <2>2, NamedElse
<1>p6. Tidy(<<Made!Take("host")>>, {}, B6, W)
  BY <1>2, TakeTidy
<1> HIDE DEF G0, B1, T1, B2, T2, B3, T3, B4, T4, B5, T5, B6, T6, L1, L2, XC, LC, X3, L3, L4, LF,
             Y4, Y5, S1, S2, S3, S4, S5, S6, N
<1>s1. Tidy(S1, G0, T1, W)
  BY <1>p1 DEF S1, T1
<1>s2. Tidy(S2, G0, T2, W)
  BY <1>e2, <1>s1, <1>p2, <1>l1, TidyNext DEF S2
<1>s3. Tidy(S3, G0, T3, W)
  BY <1>e3, <1>s2, <1>p3, <1>l2, TidyNext DEF S3
<1>s4. Tidy(S4, G0, T4, W)
  BY <1>e4, <1>s3, <1>p4, TidyAfter DEF S4
<1>s5. Tidy(S5, G0, T5, W)
  BY <1>e5, <1>s4, <1>p5, TidyAfter DEF S5
<1>s6. Tidy(S6, G0, T6, W)
  BY <1>e6, <1>s5, <1>p6, <1>lF, TidyNext DEF S6
<1> QED BY <1>s6 DEF S1, S2, S3, S4, S5, S6, L1, L2, LC, L3, L4, LF, G0, T6, Made!SessionInitV6

(* What is kept or forgotten: an audio sender, a holepunch session.          *)
LEMMA BufsTidy ==
  ASSUME NEW W, "packet buf" \in W
  PROVE  Tidy(<<Made!Take("frame buf"), Made!Take("packet buf")>>, {},
              {"frame buf", "packet buf"}, W)
<1> DEFINE E == {}  F == {"frame buf"}  P == {"packet buf"}
<1>1. /\ "frame buf" \in Words /\ "packet buf" \in Words
      /\ "frame buf" # "hole" /\ "packet buf" # "hole"
  BY DEF Words, AudioWords
<1>2. <<Made!Take("frame buf"), Made!Take("packet buf")>>
        = <<Made!Take("frame buf")>> \o <<Made!Take("packet buf")>>
  BY <1>1, TakeStep, PairConcat
<1>3. Tidy(<<Made!Take("frame buf")>>, E, F, W) /\ Tidy(<<Made!Take("packet buf")>>, E, P, W)
  BY <1>1, TakeTidy
<1>4. Named(<<Made!Take("packet buf")>>, W)
  BY <1>1, OneNamed, WordsNamed
<1>5. E \cup F = F /\ F \cap Made!Threads = {}
  BY DEF Made!Threads
<1>6. Tidy(<<Made!Take("frame buf")>> \o <<Made!Take("packet buf")>>, E, F \cup P, W)
  <2> HIDE DEF E, F, P
  <2>1. Tidy(<<Made!Take("packet buf")>>, F, P, W)
    BY <1>3, <1>4, NamedTidy
  <2> QED BY <1>3, <1>5, <2>1, TidyConcat
<1>7. F \cup P = {"frame buf", "packet buf"}
  OBVIOUS
<1> QED BY <1>2, <1>6, <1>7

LEMMA AudioSenderTidy ==
  ASSUME NEW W, {"packet buf", "audio mutex"} \subseteq W
  PROVE  Tidy(Made!AudioSenderInit, {}, AudioWords, W)
<1> DEFINE G0 == {}  B1 == {"frame buf", "packet buf"}  T1 == B1  B2 == {"audio mutex"}
           T2 == AudioWords  Y2 == T1  S1 == <<Made!Take("frame buf"), Made!Take("packet buf")>>
           S2 == S1 \o Made!Mutex("audio mutex")
           N == {"frame buf", "packet buf", "audio mutex"}
<1>1. /\ G0 = {}
      /\ T2 = T1 \cup B2 /\ T1 \cap Made!Threads = {} /\ Y2 = G0 \cup T1
  BY DEF Made!Threads, AudioWords
<1>2. /\ N \subseteq Words /\ "hole" \notin N
  BY DEF Words, AudioWords
<1>p1. Tidy(<<Made!Take("frame buf"), Made!Take("packet buf")>>, G0, B1, W)
  BY BufsTidy
<1>p2. Tidy(Made!Mutex("audio mutex"), Y2, B2, W)
  <2>1. Tidy(Made!Mutex("audio mutex"), {}, B2, W) /\ Named(Made!Mutex("audio mutex"), W)
    BY <1>2, MutexTidy, OneNamed, WordsNamed DEF Made!Mutex
  <2> HIDE DEF B2, Y2
  <2> QED BY <2>1, NamedTidy
<1> HIDE DEF G0, B1, T1, B2, T2, Y2, S1, S2, N
<1>s1. Tidy(S1, G0, T1, W)
  BY <1>p1 DEF S1, T1
<1>s2. Tidy(S2, G0, T2, W)
  BY <1>1, <1>s1, <1>p2, TidyAfter DEF S2
<1> QED BY <1>s2 DEF S1, S2, G0, T2, Made!AudioSenderInit

LEMMA EightLong ==
  ASSUME NEW a, NEW b, NEW c, NEW d, NEW e, NEW f, NEW g, NEW h, NEW r,
         r = <<a, b, c, d, e, f, g, h>>
  PROVE  DOMAIN r = 1 .. 8
OBVIOUS
LEMMA AssertedTidy ==
  ASSUME NEW G, NEW W
  PROVE  Tidy([i \in DOMAIN Made!Asserted |-> Made!Sure(Made!Asserted[i])], G,
              {"hole notif mutex", "hole notif cond", "hole notif pipe", "select pipe",
               "hole state mutex", "hole stop mutex", "hole state cond", "curl share"}, W)
<1>1. PICK a : a = Made!Asserted
  OBVIOUS
<1>3. PICK T : T = {"hole notif mutex", "hole notif cond", "hole notif pipe", "select pipe",
                    "hole state mutex", "hole stop mutex", "hole state cond", "curl share"}
  OBVIOUS
<1>4. /\ DOMAIN a = 1 .. 8
      /\ a[1] = "hole notif mutex" /\ a[2] = "hole notif cond" /\ a[3] = "hole notif pipe"
      /\ a[4] = "select pipe" /\ a[5] = "hole state mutex" /\ a[6] = "hole stop mutex"
      /\ a[7] = "hole state cond" /\ a[8] = "curl share"
  <2>1. DOMAIN a = 1 .. 8
    BY <1>1, EightLong DEF Made!Asserted
  <2>2. a[1] = "hole notif mutex" /\ a[2] = "hole notif cond" /\ a[3] = "hole notif pipe"
    BY <1>1 DEF Made!Asserted
  <2>3. a[4] = "select pipe" /\ a[5] = "hole state mutex" /\ a[6] = "hole stop mutex"
    BY <1>1 DEF Made!Asserted
  <2>4. a[7] = "hole state cond" /\ a[8] = "curl share"
    BY <1>1 DEF Made!Asserted
  <2> QED BY <2>1, <2>2, <2>3, <2>4
<1>5. 1 .. 8 = {1, 2, 3, 4, 5, 6, 7, 8}
  OBVIOUS
<1>2. PICK n \in Nat : n = 8
  OBVIOUS
<1>6. (\A i \in 1 .. n : a[i] \in T) /\ (\A x \in T : \E i \in 1 .. n : a[i] = x)
  BY <1>2, <1>3, <1>4, <1>5
<1>7. T \subseteq Words /\ "hole" \notin T /\ T \cap Made!Threads = {}
  BY <1>3 DEF Words, PunchWords, Made!Threads
<1>8. PICK s : s = [i \in 1 .. n |-> Made!Sure(a[i])]
  OBVIOUS
<1>9. \A i \in 1 .. n : /\ s[i] \in Step /\ s[i].name = a[i] /\ s[i].takes = {a[i]}
                        /\ ~s[i].may
  BY <1>6, <1>7, <1>8, SureStep
<1>10. s \in Seq(Step) /\ Len(s) = n
  <2>1. s \in [1 .. n -> Step]
    BY <1>8, <1>9
  <2> QED BY <2>1, LenOfFunction
<1>11. T = TakenBy(s, n)
  <2>1. ASSUME NEW x PROVE x \in TakenBy(s, n) <=> x \in T
    <3>1. x \in TakenBy(s, n) <=> \E i \in 1 .. n : x \in s[i].takes
      BY DEF TakenBy
    <3> QED BY <1>6, <1>9, <3>1
  <2> QED BY <2>1
<1>12. \A i \in 1 .. n : s[i].name # "hole" /\ s[i].takes \cap Made!Threads = {}
  BY <1>6, <1>7, <1>9
<1>13. Tidy(s, G, T, W)
  BY <1>9, <1>10, <1>11, <1>12 DEF Tidy
<1>14. [i \in DOMAIN Made!Asserted |-> Made!Sure(Made!Asserted[i])] = s
  BY <1>1, <1>2, <1>4, <1>8
<1> QED BY <1>3, <1>13, <1>14
LEMMA HolepunchBasis ==
  ASSUME NEW W
  PROVE  Tidy(<<Made!Take("hole session"), Made!Sure("oauth header")>>, {},
              {"hole session", "oauth header"}, W)
<1> DEFINE E == {}  F == {"hole session"}  P == {"oauth header"}
<1>1. /\ "hole session" \in Words /\ "oauth header" \in Words
      /\ "hole session" # "hole" /\ "oauth header" # "hole"
  BY DEF Words, PunchWords
<1>2. <<Made!Take("hole session"), Made!Sure("oauth header")>>
        = <<Made!Take("hole session")>> \o <<Made!Sure("oauth header")>>
  BY <1>1, TakeStep, SureStep, PairConcat
<1>3. Tidy(<<Made!Take("hole session")>>, E, F, W) /\ Tidy(<<Made!Sure("oauth header")>>, F, P, W)
  BY <1>1, TakeTidy, SureTidy
<1>4. E \cup F = F /\ F \cap Made!Threads = {}
  BY DEF Made!Threads
<1>5. Tidy(<<Made!Take("hole session")>> \o <<Made!Sure("oauth header")>>, E, F \cup P, W)
  <2> HIDE DEF E, F, P
  <2> QED BY <1>3, <1>4, TidyConcat
<1>6. F \cup P = {"hole session", "oauth header"}
  OBVIOUS
<1> QED BY <1>2, <1>5, <1>6

LEMMA HolepunchTidy ==
  ASSUME NEW W, "queue" \in W
  PROVE  Tidy(Made!HolepunchInit, {}, PunchWords, W)
<1> DEFINE G0 == {}  B1 == {"hole session", "oauth header"}  T1 == B1  B2 == {"queue"}
           T2 == {"hole session", "oauth header", "queue"}
           B3 == {"hole notif mutex", "hole notif cond", "hole notif pipe", "select pipe",
                 "hole state mutex", "hole stop mutex", "hole state cond", "curl share"}
           T3 == PunchWords  X1 == {"hole session"}  L1 == <<"hole session">>  Y2 == T1
           Y3 == T2  S1 == <<Made!Take("hole session"), Made!Sure("oauth header")>>
           S2 == S1 \o Made!Else(<<Made!Take("queue")>>, L1)
           S3 == S2 \o [i \in DOMAIN Made!Asserted |-> Made!Sure(Made!Asserted[i])]
           N == {"hole session", "oauth header", "queue", "hole notif mutex",
                 "hole notif cond", "hole notif pipe", "select pipe", "hole state mutex",
                 "hole stop mutex", "hole state cond", "curl share"}
<1>1. /\ G0 = {}
      /\ T2 = T1 \cup B2 /\ T1 \cap Made!Threads = {} /\ Y2 = G0 \cup T1
      /\ T3 = T2 \cup B3 /\ T2 \cap Made!Threads = {} /\ Y3 = G0 \cup T2
  BY DEF Made!Threads, PunchWords
<1>2. /\ N \subseteq Words /\ "hole" \notin N
  BY DEF Words, PunchWords
<1>l1. Releases(L1, X1)
  BY <1>2, ReleasesOne
<1>p1. Tidy(<<Made!Take("hole session"), Made!Sure("oauth header")>>, G0, B1, W)
  BY HolepunchBasis
<1>p2. Tidy(Made!Else(<<Made!Take("queue")>>, L1), Y2, B2, W)
  <2>1. Tidy(<<Made!Take("queue")>>, {}, B2, W) /\ Named(<<Made!Take("queue")>>, W)
    BY <1>2, TakeTidy, OneNamed, WordsNamed
  <2>2. L1 \in Seq(Words)
    BY <1>l1 DEF Releases
  <2> HIDE DEF B2, Y2, L1
  <2> QED BY <2>1, <2>2, NamedElse
<1>p3. Tidy([i \in DOMAIN Made!Asserted |-> Made!Sure(Made!Asserted[i])], Y3, B3, W)
  BY AssertedTidy
<1> HIDE DEF G0, B1, T1, B2, T2, B3, T3, X1, L1, Y2, Y3, S1, S2, S3, N
<1>s1. Tidy(S1, G0, T1, W)
  BY <1>p1 DEF S1, T1
<1>s2. Tidy(S2, G0, T2, W)
  BY <1>1, <1>s1, <1>p2, TidyAfter DEF S2
<1>s3. Tidy(S3, G0, T3, W)
  BY <1>1, <1>s2, <1>p3, TidyAfter DEF S3
<1> QED BY <1>s3 DEF S1, S2, S3, L1, G0, T3, Made!HolepunchInit

(* The session of the application.                                         *)
LEMMA LogTidy ==
  ASSUME NEW W
  PROVE  Tidy(Made!Log, {},
              {"log"}, W)
<1> DEFINE G0 == {}  B1 == {"log"}  T1 == B1  B2 == {}  T2 == T1  L1 == <<"log">>
           S1 == <<Made!Take("log")>>
           S2 == S1 \o Made!Else(<<Made!Check("host"), Made!Check("keys")>>, L1)  N == T2
<1>1. /\ G0 = {}
      /\ T2 = T1 \cup B2 /\ T1 \cap Made!Threads = {} /\ T1 = G0 \cup T1 /\ T1 \cap B2 = {}
  BY DEF Made!Threads
<1>2. /\ N \subseteq Words /\ "hole" \notin N
  BY DEF Words, SessionWords, AppWords
<1>l1. Releases(L1, T1)
  BY <1>2, ReleasesOne
<1>p1. Tidy(<<Made!Take("log")>>, G0, B1, W)
  BY <1>2, TakeTidy
<1>p2. Tidy(<<Made!Check("host"), Made!Check("keys")>>, {}, B2, W)
  <2>1. {"host", "keys"} \subseteq Names /\ "hole" \notin {"host", "keys"}
    BY DEF Words, SessionWords, AppWords, Names
  <2> QED BY <2>1, ChecksTidy
<1> HIDE DEF G0, B1, T1, B2, T2, L1, S1, S2, N
<1>s1. Tidy(S1, G0, T1, W)
  BY <1>p1 DEF S1, T1
<1>s2. Tidy(S2, G0, T2, W)
  BY <1>1, <1>s1, <1>p2, <1>l1, TidyNext DEF S2
<1> QED BY <1>s2 DEF S1, S2, L1, G0, T2, T1, B1, Made!Log

LEMMA DecodersTidy ==
  ASSUME NEW W
  PROVE  Tidy(Made!Decoders, {"log"},
              {"session", "video decoder", "audio decoder", "audio output"}, W)
<1> DEFINE G0 == {"log"}  B1 == {"session"}  T1 == B1  B2 == {"video decoder"}
           T2 == {"session", "video decoder"}  B3 == {"audio decoder"}
           T3 == {"session", "video decoder", "audio decoder"}  B4 == {"audio output"}
           T4 == {"session", "video decoder", "audio decoder", "audio output"}  L1 == <<"log">>
           X2 == {"session", "log"}  L2 == <<"session", "log">>
           X3 == {"video decoder", "session", "log"}  L3 == <<"video decoder">> \o L2
           Y4 == {"log", "session", "video decoder", "audio decoder"}
           S1 == Made!Else(<<Made!Take("session")>>, L1)
           S2 == S1 \o Made!Else(Made!Mutex("video decoder"), L2)
           S3 == S2 \o Made!Else(Made!Mutex("audio decoder"), L3)
           S4 == S3 \o <<Made!Sure("audio output")>>
           N == {"log", "session", "video decoder", "audio decoder", "audio output"}
<1>1. /\ G0 \cap B1 = {}
      /\ T2 = T1 \cup B2 /\ T1 \cap Made!Threads = {} /\ X2 = G0 \cup T1 /\ X2 \cap B2 = {}
      /\ T3 = T2 \cup B3 /\ T2 \cap Made!Threads = {} /\ X3 = G0 \cup T2 /\ X3 \cap B3 = {}
      /\ T4 = T3 \cup B4 /\ T3 \cap Made!Threads = {} /\ Y4 = G0 \cup T3
  BY DEF Made!Threads
<1>2. /\ N \subseteq Words /\ "hole" \notin N
  BY DEF Words, AppWords
<1>l1. Releases(L1, G0)
  BY <1>2, ReleasesOne
<1>l2. Releases(L2, X2)
  BY <1>2, ReleasesTwo
<1>l3. Releases(L3, X3)
  <2>1. "video decoder" \notin X2 /\ X3 = {"video decoder"} \cup X2 /\ "video decoder" \in Words
    BY <1>2
  <2> HIDE DEF X3, X2, L2, N
  <2> QED BY <1>l2, <2>1, ReleasesNext
<1>p1. Tidy(<<Made!Take("session")>>, {}, B1, W)
  BY <1>2, TakeTidy
<1>p2. Tidy(Made!Mutex("video decoder"), {}, B2, W)
  BY <1>2, MutexTidy
<1>p3. Tidy(Made!Mutex("audio decoder"), {}, B3, W)
  BY <1>2, MutexTidy
<1>p4. Tidy(<<Made!Sure("audio output")>>, Y4, B4, W)
  BY <1>2, SureTidy
<1> HIDE DEF G0, B1, T1, B2, T2, B3, T3, B4, T4, L1, X2, L2, X3, L3, Y4, S1, S2, S3, S4, N
<1>s1. Tidy(S1, G0, T1, W)
  BY <1>1, <1>p1, <1>l1, TidyElseOn DEF S1, T1
<1>s2. Tidy(S2, G0, T2, W)
  BY <1>1, <1>s1, <1>p2, <1>l2, TidyNext DEF S2
<1>s3. Tidy(S3, G0, T3, W)
  BY <1>1, <1>s2, <1>p3, <1>l3, TidyNext DEF S3
<1>s4. Tidy(S4, G0, T4, W)
  BY <1>1, <1>s3, <1>p4, TidyAfter DEF S4
<1> QED BY <1>s4 DEF S1, S2, S3, S4, L1, L2, L3, G0, T4, Made!Decoders

LEMMA LibraryTidy ==
  ASSUME NEW init, NEW H, NEW T, NEW W, NEW G, Tidy(init, H, T, W), T \cap Made!Threads = {},
         G = H \cup {"video decoder", "audio decoder", "audio output", "session", "log"},
         {"video decoder", "audio decoder", "audio output", "session", "log"} \cap (H \cup T) = {}
  PROVE  Tidy(Made!Library(init), G, T \cup {"references"}, W)
<1> DEFINE L == <<"video decoder", "audio decoder", "audio output", "session", "log">>
           X == {"video decoder", "audio decoder", "audio output", "session", "log"}
           R == {"references"}
<1>1. X \subseteq Words /\ "references" \in Words /\ "references" # "hole"
  BY DEF Words, AppWords
<1>2. Releases(L, X)
  BY <1>1, ReleasesFive
<1>3. Tidy(<<Made!Sure("references")>>, G \cup T, R, W)
  BY <1>1, SureTidy
<1>4. G = H \cup X /\ X \cap (H \cup T) = {}
  OBVIOUS
<1> HIDE DEF L, X, R
<1>5. Tidy(Made!Else(init, L), H \cup X, T, W)
  BY <1>2, <1>4, TidyElse
<1>6. Tidy(Made!Else(init, L) \o <<Made!Sure("references")>>, G, T \cup R, W)
  BY <1>3, <1>4, <1>5, TidyConcat
<1> QED BY <1>6 DEF Made!Library, L, R
LEMMA PunchingTidy ==
  ASSUME NEW G, NEW W, "holepunch" \in G, {"devices", "device", "hole", "holepunch"} \subseteq W
  PROVE  Tidy(Made!Punching, G, {"hole"}, W)
<1> DEFINE E == {}  A == <<Made!Check("devices")>>  B == Made!Says(<<Made!Check("device")>>, "ok")
           C == <<Made!Take("hole")>>  H == {"hole"}
<1>1. {"devices", "device"} \subseteq Names /\ "hole" \notin {"devices", "device"} /\ "hole" \in Words
  BY DEF Names, Words, AppWords
<1>2. Tidy(A, {}, E, W) /\ Named(A, W)
  BY <1>1, CheckTidy, OneNamed
<1>3. Tidy(<<Made!Check("device")>>, {}, E, W) /\ Named(<<Made!Check("device")>>, W)
  BY <1>1, CheckTidy, OneNamed
<1>4. Tidy(C, G, H, W)
  <2>1. PICK p \in Step : p = Made!Take("hole") /\ p.name = "hole" /\ p.takes = {"hole"}
    BY <1>1, TakeStep
  <2>2. PICK s : s = <<p>>
    OBVIOUS
  <2>3. s \in Seq(Step) /\ Len(s) = 1 /\ s[1] = p
    BY <2>2, ShortSeqs
  <2>4. 1 .. 1 = {1}
    OBVIOUS
  <2>5. TakenBy(s, 1) = {"hole"}
    BY <2>1, <2>3, <2>4 DEF TakenBy
  <2>6. Tidy(s, G, {"hole"}, W)
    BY <2>1, <2>3, <2>4, <2>5 DEF Tidy
  <2> QED BY <2>1, <2>2, <2>6
<1>5. E \cap Made!Threads = {} /\ G \cup E = G /\ E \cup E = E /\ E \cup H = H
  OBVIOUS
<1>6. "ok" \in {"ok", "failed"}
  OBVIOUS
<1>7. Tidy(B, G, E, W)
  <2> HIDE DEF E
  <2> QED BY <1>3, <1>6, NamedSays
<1> HIDE DEF E, A, B, C, H
<1>8. Tidy(A, G, E, W)
  BY <1>2, NamedTidy
<1>9. Tidy(A \o B, G, E, W)
  BY <1>5, <1>7, <1>8, TidyAfter
<1>10. Tidy((A \o B) \o C, G, H, W)
  BY <1>4, <1>5, <1>9, TidyAfter
<1> QED BY <1>10 DEF Made!Punching, A, B, C, H

LEMMA CreateTidy ==
  ASSUME NEW W,
         {"notif mutex", "notif pipe", "stream mutex", "stream cond", "packet stats",
          "feedback mutex"} \subseteq W
  PROVE  Tidy(Made!SessionCreate, {},
              {"log", "session", "video decoder", "audio decoder", "audio output",
               "state cond", "state mutex", "stop pipe", "notif mutex", "notif pipe",
               "stream mutex", "stream cond", "packet stats", "feedback mutex", "host",
               "references"}, W)
<1> DEFINE G0 == {}  B1 == {"log"}  T1 == B1
           B2 == {"session", "video decoder", "audio decoder", "audio output"}
           T2 == {"log", "session", "video decoder", "audio decoder", "audio output"}
           B3 == {"state cond", "state mutex", "stop pipe", "notif mutex", "notif pipe",
                 "stream mutex", "stream cond", "packet stats", "feedback mutex", "host",
                 "references"}
           T3 == {"log", "session", "video decoder", "audio decoder", "audio output",
                 "state cond", "state mutex", "stop pipe", "notif mutex", "notif pipe",
                 "stream mutex", "stream cond", "packet stats", "feedback mutex", "host",
                 "references"}
           Y2 == T1  Y3 == T2  S1 == Made!Log  S2 == S1 \o Made!Decoders
           S3 == S2 \o Made!Library(Made!SessionInitV6)  N == T3
<1>1. /\ G0 = {}
      /\ T2 = T1 \cup B2 /\ T1 \cap Made!Threads = {} /\ Y2 = G0 \cup T1
      /\ T3 = T2 \cup B3 /\ T2 \cap Made!Threads = {} /\ Y3 = G0 \cup T2
  BY DEF Made!Threads
<1>2. /\ N \subseteq Words /\ "hole" \notin N
  BY DEF Words, SessionWords, AppWords
<1>p1. Tidy(Made!Log, G0, B1, W)
  BY LogTidy
<1>p2. Tidy(Made!Decoders, Y2, B2, W)
  BY DecodersTidy
<1>p3. Tidy(Made!Library(Made!SessionInitV6), Y3, B3, W)
  <2>1. Tidy(Made!SessionInitV6, {}, SessionWords, W)
    BY SessionV6Tidy
  <2> DEFINE H == {}  T == SessionWords
  <2>2. /\ T \cap Made!Threads = {} /\ B3 = T \cup {"references"}
        /\ Y3 = H \cup {"video decoder", "audio decoder", "audio output", "session", "log"}
        /\ {"video decoder", "audio decoder", "audio output", "session", "log"} \cap (H \cup T) = {}
    BY DEF Made!Threads, SessionWords
  <2>3. Tidy(Made!SessionInitV6, H, T, W)
    BY <2>1
  <2> HIDE DEF H, T, B3, Y3
  <2> QED BY <2>2, <2>3, LibraryTidy
<1> HIDE DEF G0, B1, T1, B2, T2, B3, T3, Y2, Y3, S1, S2, S3, N
<1>s1. Tidy(S1, G0, T1, W)
  BY <1>p1 DEF S1, T1
<1>s2. Tidy(S2, G0, T2, W)
  BY <1>1, <1>s1, <1>p2, TidyAfter DEF S2
<1>s3. Tidy(S3, G0, T3, W)
  BY <1>1, <1>s2, <1>p3, TidyAfter DEF S3
<1> QED BY <1>s3 DEF S1, S2, S3, G0, T3, Made!SessionCreate

LEMMA CreatePsnTidy ==
  ASSUME NEW W, {"devices", "device", "hole", "holepunch"} \subseteq W
  PROVE  Tidy(Made!SessionCreatePsn, {},
              {"log", "session", "video decoder", "audio decoder", "audio output", "holepunch",
               "state cond", "state mutex", "stop pipe", "notif mutex", "notif pipe",
               "stream mutex", "stream cond", "packet stats", "feedback mutex", "references",
               "hole"}, W)
<1> DEFINE G0 == {}  B1 == {"log"}  T1 == B1
           B2 == {"session", "video decoder", "audio decoder", "audio output"}
           T2 == {"log", "session", "video decoder", "audio decoder", "audio output"}
           B3 == {"holepunch"}
           T3 == {"log", "session", "video decoder", "audio decoder", "audio output",
                 "holepunch"}
           B4 == {"state cond", "state mutex", "stop pipe", "notif mutex", "notif pipe",
                 "stream mutex", "stream cond", "packet stats", "feedback mutex", "references"}
           T4 == {"log", "session", "video decoder", "audio decoder", "audio output",
                 "holepunch", "state cond", "state mutex", "stop pipe", "notif mutex",
                 "notif pipe", "stream mutex", "stream cond", "packet stats", "feedback mutex",
                 "references"}
           B5 == {"hole"}
           T5 == {"log", "session", "video decoder", "audio decoder", "audio output",
                 "holepunch", "state cond", "state mutex", "stop pipe", "notif mutex",
                 "notif pipe", "stream mutex", "stream cond", "packet stats", "feedback mutex",
                 "references", "hole"}
           Y2 == T1  Y3 == T2  Y4 == T3  Y5 == T4  S1 == Made!Log  S2 == S1 \o Made!Decoders
           S3 == S2 \o <<Made!Sure("holepunch")>>
           S4 == S3 \o Made!Library(Made!SessionInit(<<"holepunch">>))
           S5 == S4 \o Made!Punching  N == T4
<1>e1. G0 = {}
  OBVIOUS
<1>e2. T2 = T1 \cup B2 /\ T1 \cap Made!Threads = {} /\ Y2 = G0 \cup T1
  BY DEF Made!Threads
<1>e3. T3 = T2 \cup B3 /\ T2 \cap Made!Threads = {} /\ Y3 = G0 \cup T2
  BY DEF Made!Threads
<1>e4. T4 = T3 \cup B4 /\ T3 \cap Made!Threads = {} /\ Y4 = G0 \cup T3
  BY DEF Made!Threads
<1>e5. T5 = T4 \cup B5 /\ T4 \cap Made!Threads = {} /\ Y5 = G0 \cup T4
  BY DEF Made!Threads
<1>2. /\ N \subseteq Words /\ "hole" \notin N
  BY DEF Words, SessionWords, AppWords, SessionPsnWords
<1>p1. Tidy(Made!Log, G0, B1, W)
  BY LogTidy
<1>p2. Tidy(Made!Decoders, Y2, B2, W)
  BY DecodersTidy
<1>p3. Tidy(<<Made!Sure("holepunch")>>, Y3, B3, W)
  BY <1>2, SureTidy
<1>p4. Tidy(Made!Library(Made!SessionInit(<<"holepunch">>)), Y4, B4, W)
  <2>1. Tidy(Made!SessionInit(<<"holepunch">>), {"holepunch"}, SessionPsnWords, W)
    BY SessionPsnTidy
  <2> DEFINE H == {"holepunch"}  T == SessionPsnWords
  <2>2. /\ T \cap Made!Threads = {} /\ B4 = T \cup {"references"}
        /\ Y4 = H \cup {"video decoder", "audio decoder", "audio output", "session", "log"}
        /\ {"video decoder", "audio decoder", "audio output", "session", "log"} \cap (H \cup T) = {}
    BY DEF Made!Threads, SessionPsnWords
  <2>3. Tidy(Made!SessionInit(<<"holepunch">>), H, T, W)
    BY <2>1
  <2> HIDE DEF H, T, B4, Y4
  <2> QED BY <2>2, <2>3, LibraryTidy
<1>p5. Tidy(Made!Punching, Y5, B5, W)
  <2>1. "holepunch" \in Y5
    OBVIOUS
  <2> HIDE DEF Y5
  <2> QED BY <2>1, PunchingTidy
<1> HIDE DEF G0, B1, T1, B2, T2, B3, T3, B4, T4, B5, T5, Y2, Y3, Y4, Y5, S1, S2, S3, S4, S5, N
<1>s1. Tidy(S1, G0, T1, W)
  BY <1>p1 DEF S1, T1
<1>s2. Tidy(S2, G0, T2, W)
  BY <1>e2, <1>s1, <1>p2, TidyAfter DEF S2
<1>s3. Tidy(S3, G0, T3, W)
  BY <1>e3, <1>s2, <1>p3, TidyAfter DEF S3
<1>s4. Tidy(S4, G0, T4, W)
  BY <1>e4, <1>s3, <1>p4, TidyAfter DEF S4
<1>s5. Tidy(S5, G0, T5, W)
  BY <1>e5, <1>s4, <1>p5, TidyAfter DEF S5
<1> QED BY <1>s5 DEF S1, S2, S3, S4, S5, G0, T5, Made!SessionCreatePsn

-----------------------------------------------------------------------------
(* What is created is Orderly: its steps are tidy, and its end releases what *)
(* they took, the thread first, but for what is kept.                       *)
Orderly(o, T) ==
  /\ Tidy(Made!Course[o], Made!Given(o), T, Made!Wrong(o))
  /\ Releases(Made!End[o], (Made!Given(o) \cup T) \ Made!Kept(o))
  /\ Made!Kept(o) \subseteq Made!Given(o) \cup T /\ Made!Kept(o) \cap Made!Threads = {}
  /\ Made!Given(o) \cap Made!Threads = {} /\ Made!Given(o) \subseteq Words
  /\ T \cap Made!Threads \subseteq {Made!End[o][1]}
  /\ "none" \notin Made!Wrong(o)

LEMMA FirstOfBoth ==
  ASSUME NEW p, NEW q, NEW X, NEW Y, Releases(p, X), Releases(q, Y), Len(p) # 0
  PROVE  (p \o q)[1] = p[1]
<1>1. p \in Seq(Words) /\ q \in Seq(Words) /\ Len(p) \in Nat /\ Len(q) \in Nat
  BY LenProperties DEF Releases
<1>2. 1 \in 1 .. Len(p) + Len(q) /\ 1 <= Len(p)
  BY <1>1
<1> QED BY <1>1, <1>2, ConcatProperties

LEMMA SessionOrderly == Orderly("session", SessionWords)
<1>1. /\ Made!Course["session"] = Made!SessionInit(<<>>)
      /\ Made!End["session"] = Made!SessionFini(<<>>, <<"host">>)
  BY DEF Made!Course, Made!End
<1>2. /\ Made!Given("session") = {} /\ Made!Wrong("session") = {}
      /\ Made!Kept("session") = {}
  BY DEF Made!Given, Made!Wrong, Made!Kept
<1>3. Tidy(Made!SessionInit(<<>>), {}, SessionWords, {})
  BY SessionTidy
<1>4. Releases(Made!SessionFini(<<>>, <<"host">>), SessionWords)
  <2> DEFINE Y == ((Inner \cup {}) \cup {"stop pipe", "state cond", "state mutex"}) \cup {"host"}
  <2>1. "host" \in Words /\ "holepunch" \in Words
    BY DEF Words, SessionWords, AppWords
  <2>2. Releases(<<>>, {}) /\ Releases(<<"host">>, {"host"})
    BY <2>1, ReleasesNone, ReleasesOne
  <2>3. Releases(Made!SessionFini(<<>>, <<"host">>), Y)
    BY <2>2, SessionFiniReleases
  <2>4. Y = SessionWords
    BY DEF Inner, SessionWords
  <2> QED BY <2>3, <2>4
<1>5. /\ ({} \cup SessionWords) \ {} = SessionWords
      /\ SessionWords \cap Made!Threads = {}
  BY DEF Made!Threads, SessionWords
<1> QED BY <1>1, <1>2, <1>3, <1>4, <1>5 DEF Orderly
LEMMA SessionPsnOrderly == Orderly("sessionPsn", SessionPsnWords)
<1> DEFINE X == {"holepunch", "state cond", "state mutex", "stop pipe", "notif mutex",
                 "notif pipe", "stream mutex", "stream cond", "packet stats", "feedback mutex"}
<1>1. /\ Made!Course["sessionPsn"] = Made!SessionInit(<<"holepunch">>)
      /\ Made!End["sessionPsn"] = Made!SessionFini(<<"holepunch">>, <<>>)
  BY DEF Made!Course, Made!End
<1>2. /\ Made!Given("sessionPsn") = {"holepunch"} /\ Made!Wrong("sessionPsn") = {}
      /\ Made!Kept("sessionPsn") = {}
  BY DEF Made!Given, Made!Wrong, Made!Kept
<1>3. Tidy(Made!SessionInit(<<"holepunch">>), {"holepunch"}, SessionPsnWords, {})
  BY SessionPsnTidy
<1>4. Releases(Made!SessionFini(<<"holepunch">>, <<>>), X)
  <2> DEFINE Y == ((Inner \cup {"holepunch"}) \cup {"stop pipe", "state cond", "state mutex"}) \cup {}
  <2>1. "host" \in Words /\ "holepunch" \in Words
    BY DEF Words, SessionWords, AppWords, SessionPsnWords
  <2>2. Releases(<<"holepunch">>, {"holepunch"}) /\ Releases(<<>>, {})
    BY <2>1, ReleasesOne, ReleasesNone
  <2>3. Releases(Made!SessionFini(<<"holepunch">>, <<>>), Y)
    BY <2>2, SessionFiniReleases
  <2>4. Y = X
    BY DEF Inner, SessionPsnWords
  <2> QED BY <2>3, <2>4
<1>5. /\ ({"holepunch"} \cup SessionPsnWords) \ {} = X
      /\ {"holepunch"} \cap Made!Threads = {} /\ {"holepunch"} \subseteq Words
      /\ SessionPsnWords \cap Made!Threads = {}
  BY DEF Made!Threads, Words, SessionWords, AppWords, SessionPsnWords, SessionPsnWords
<1> HIDE DEF X
<1> QED BY <1>1, <1>2, <1>3, <1>4, <1>5 DEF Orderly
LEMMA SessionV6Orderly == Orderly("sessionV6", SessionWords)
<1> DEFINE W == {"notif mutex", "notif pipe", "stream mutex", "stream cond", "packet stats",
                 "feedback mutex"}
<1>1. /\ Made!Course["sessionV6"] = Made!SessionInitV6
      /\ Made!End["sessionV6"] = Made!SessionFini(<<>>, <<"host">>)
  BY DEF Made!Course, Made!End
<1>2. /\ Made!Given("sessionV6") = {} /\ Made!Wrong("sessionV6") = W
      /\ Made!Kept("sessionV6") = {}
  BY DEF Made!Given, Made!Wrong, Made!Kept
<1>3. Tidy(Made!SessionInitV6, {}, SessionWords, W)
  BY SessionV6Tidy
<1>4. Releases(Made!SessionFini(<<>>, <<"host">>), SessionWords)
  <2> DEFINE Y == ((Inner \cup {}) \cup {"stop pipe", "state cond", "state mutex"}) \cup {"host"}
  <2>1. "host" \in Words /\ "holepunch" \in Words
    BY DEF Words, SessionWords, AppWords
  <2>2. Releases(<<>>, {}) /\ Releases(<<"host">>, {"host"})
    BY <2>1, ReleasesNone, ReleasesOne
  <2>3. Releases(Made!SessionFini(<<>>, <<"host">>), Y)
    BY <2>2, SessionFiniReleases
  <2>4. Y = SessionWords
    BY DEF Inner, SessionWords
  <2> QED BY <2>3, <2>4
<1>5. /\ ({} \cup SessionWords) \ {} = SessionWords
      /\ SessionWords \cap Made!Threads = {}
      /\ "none" \notin W
  BY DEF Made!Threads, SessionWords
<1> HIDE DEF W
<1> QED BY <1>1, <1>2, <1>3, <1>4, <1>5 DEF Orderly
LEMMA TakionOrderly == Orderly("takion", TakionWords)
<1> DEFINE W == {"takion pipe", "takion thread"}
<1>1. /\ Made!Course["takion"] = Made!TakionConnect(FALSE)
      /\ Made!End["takion"] = Made!TakionClose
  BY DEF Made!Course, Made!End
<1>2. /\ Made!Given("takion") = {} /\ Made!Wrong("takion") = W
      /\ Made!Kept("takion") = {}
  BY DEF Made!Given, Made!Wrong, Made!Kept
<1>3. Tidy(Made!TakionConnect(FALSE), {}, TakionWords, W)
  BY TakionTidy
<1>4. Releases(Made!TakionClose, TakionWords) /\ (Made!TakionClose)[1] = "takion thread"
  <2>1. {"takion thread", "sock", "takion pipe", "seq num mutex", "key mutex"} \subseteq Words
    BY DEF Words, TakionWords
  <2>2. Releases(Made!TakionClose, {"takion thread", "sock", "takion pipe", "seq num mutex", "key mutex"})
    BY <2>1, ReleasesFive DEF Made!TakionClose
  <2>3. {"takion thread", "sock", "takion pipe", "seq num mutex", "key mutex"} = TakionWords
    BY DEF TakionWords
  <2>4. Made!TakionClose[1] = "takion thread"
    BY DEF Made!TakionClose
  <2> QED BY <2>2, <2>3, <2>4
<1>5. /\ ({} \cup TakionWords) \ {} = TakionWords
      /\ TakionWords \cap Made!Threads \subseteq {"takion thread"}
      /\ "none" \notin W
  BY DEF Made!Threads, TakionWords
<1> HIDE DEF W
<1> QED BY <1>1, <1>2, <1>3, <1>4, <1>5 DEF Orderly
LEMMA TakionPsnOrderly ==
  Orderly("takionPsn", {"key mutex", "seq num mutex", "takion pipe", "takion thread"})
<1> DEFINE T == {"key mutex", "seq num mutex", "takion pipe", "takion thread"}
           W == {"key mutex", "seq num mutex", "takion pipe", "extra messages", "takion thread"}
           X == {"sock", "key mutex", "seq num mutex", "takion pipe", "takion thread"}
<1>1. /\ Made!Course["takionPsn"] = Made!TakionConnect(TRUE)
      /\ Made!End["takionPsn"] = Made!TakionClose
  BY DEF Made!Course, Made!End
<1>2. /\ Made!Given("takionPsn") = {"sock"} /\ Made!Wrong("takionPsn") = W
      /\ Made!Kept("takionPsn") = {}
  BY DEF Made!Given, Made!Wrong, Made!Kept
<1>3. Tidy(Made!TakionConnect(TRUE), {"sock"}, T, W)
  BY TakionPsnTidy
<1>4. Releases(Made!TakionClose, X) /\ (Made!TakionClose)[1] = "takion thread"
  <2>1. {"takion thread", "sock", "takion pipe", "seq num mutex", "key mutex"} \subseteq Words
    BY DEF Words, TakionWords
  <2>2. Releases(Made!TakionClose, {"takion thread", "sock", "takion pipe", "seq num mutex", "key mutex"})
    BY <2>1, ReleasesFive DEF Made!TakionClose
  <2>3. {"takion thread", "sock", "takion pipe", "seq num mutex", "key mutex"} = X
    OBVIOUS
  <2>4. Made!TakionClose[1] = "takion thread"
    BY DEF Made!TakionClose
  <2> QED BY <2>2, <2>3, <2>4
<1>5. /\ ({"sock"} \cup T) \ {} = X
      /\ {"sock"} \cap Made!Threads = {} /\ {"sock"} \subseteq Words
      /\ T \cap Made!Threads \subseteq {"takion thread"}
      /\ "none" \notin W
  BY DEF Made!Threads, Words, TakionWords
<1> HIDE DEF T, W, X
<1>6. Orderly("takionPsn", T)
  BY <1>1, <1>2, <1>3, <1>4, <1>5 DEF Orderly
<1> QED BY <1>6 DEF T
LEMMA RemoteKeyOrderly == Orderly("remoteKey", KeyWords)
<1>1. /\ Made!Course["remoteKey"] = Made!GkcryptInit(TRUE)
      /\ Made!End["remoteKey"] = Made!GkcryptFini(TRUE)
  BY DEF Made!Course, Made!End
<1>2. /\ Made!Given("remoteKey") = {} /\ Made!Wrong("remoteKey") = {}
      /\ Made!Kept("remoteKey") = {}
  BY DEF Made!Given, Made!Wrong, Made!Kept
<1>3. Tidy(Made!GkcryptInit(TRUE), {}, KeyWords, {})
  BY RemoteKeyTidy
<1>4. Releases(Made!GkcryptFini(TRUE), KeyWords) /\ (Made!GkcryptFini(TRUE))[1] = "key thread"
  <2> DEFINE A == {"key thread", "buf cond", "buf mutex", "key buf"}  B == {"gkcrypt"}
             p == <<"key thread", "buf cond", "buf mutex", "key buf">>  q == <<"gkcrypt">>
  <2>1. A \subseteq Words /\ B \subseteq Words /\ A \cap B = {} /\ KeyWords = A \cup B
    BY DEF Words, KeyWords
  <2>2. Releases(p, A) /\ Releases(q, B)
    BY <2>1, ReleasesFour, ReleasesOne
  <2>3. Made!GkcryptFini(TRUE) = p \o q /\ Len(p) # 0 /\ p[1] = "key thread"
    BY DEF Made!GkcryptFini
  <2> HIDE DEF A, B, p, q
  <2>4. Releases(p \o q, KeyWords) /\ (p \o q)[1] = p[1]
    BY <2>1, <2>2, <2>3, ReleasesThen, FirstOfBoth
  <2> QED BY <2>3, <2>4
<1>5. /\ ({} \cup KeyWords) \ {} = KeyWords
      /\ KeyWords \cap Made!Threads \subseteq {"key thread"}
  BY DEF Made!Threads, KeyWords
<1> QED BY <1>1, <1>2, <1>3, <1>4, <1>5 DEF Orderly
LEMMA LocalKeyOrderly ==
  Orderly("localKey", {"gkcrypt"})
<1> DEFINE T == {"gkcrypt"}
<1>1. /\ Made!Course["localKey"] = Made!GkcryptInit(FALSE)
      /\ Made!End["localKey"] = Made!GkcryptFini(FALSE)
  BY DEF Made!Course, Made!End
<1>2. /\ Made!Given("localKey") = {} /\ Made!Wrong("localKey") = {}
      /\ Made!Kept("localKey") = {}
  BY DEF Made!Given, Made!Wrong, Made!Kept
<1>3. Tidy(Made!GkcryptInit(FALSE), {}, T, {})
  BY LocalKeyTidy
<1>4. Releases(Made!GkcryptFini(FALSE), T)
  <2> DEFINE A == {}  B == {"gkcrypt"}
             p == <<>>  q == <<"gkcrypt">>
  <2>1. A \subseteq Words /\ B \subseteq Words /\ A \cap B = {} /\ T = A \cup B
    BY DEF Words, KeyWords
  <2>2. Releases(p, A) /\ Releases(q, B)
    BY <2>1, ReleasesNone, ReleasesOne
  <2>3. Made!GkcryptFini(FALSE) = p \o q
    BY DEF Made!GkcryptFini
  <2> HIDE DEF A, B, p, q, T
  <2>4. Releases(p \o q, T)
    BY <2>1, <2>2, <2>3, ReleasesThen
  <2> QED BY <2>3, <2>4
<1>5. /\ ({} \cup T) \ {} = T
      /\ T \cap Made!Threads = {}
  BY DEF Made!Threads
<1> HIDE DEF T
<1>6. Orderly("localKey", T)
  BY <1>1, <1>2, <1>3, <1>4, <1>5 DEF Orderly
<1> QED BY <1>6 DEF T
LEMMA FeedbackOrderly == Orderly("feedback", FeedbackWords)
<1>1. /\ Made!Course["feedback"] = Made!FeedbackSenderInit
      /\ Made!End["feedback"] = Made!FeedbackSenderFini
  BY DEF Made!Course, Made!End
<1>2. /\ Made!Given("feedback") = {} /\ Made!Wrong("feedback") = {}
      /\ Made!Kept("feedback") = {}
  BY DEF Made!Given, Made!Wrong, Made!Kept
<1>3. Tidy(Made!FeedbackSenderInit, {}, FeedbackWords, {})
  BY FeedbackTidy
<1>4. Releases(Made!FeedbackSenderFini, FeedbackWords) /\ (Made!FeedbackSenderFini)[1] = "feedback thread"
  <2>1. {"feedback thread", "feedback cond", "feedback state mutex", "history buffer"} \subseteq Words
    BY DEF Words, FeedbackWords
  <2>2. Releases(Made!FeedbackSenderFini, {"feedback thread", "feedback cond", "feedback state mutex", "history buffer"})
    BY <2>1, ReleasesFour DEF Made!FeedbackSenderFini
  <2>3. {"feedback thread", "feedback cond", "feedback state mutex", "history buffer"} = FeedbackWords
    BY DEF FeedbackWords
  <2>4. Made!FeedbackSenderFini[1] = "feedback thread"
    BY DEF Made!FeedbackSenderFini
  <2> QED BY <2>2, <2>3, <2>4
<1>5. /\ ({} \cup FeedbackWords) \ {} = FeedbackWords
      /\ FeedbackWords \cap Made!Threads \subseteq {"feedback thread"}
  BY DEF Made!Threads, FeedbackWords
<1> QED BY <1>1, <1>2, <1>3, <1>4, <1>5 DEF Orderly
LEMMA SendBufferOrderly ==
  Orderly("sendBuffer", {"packets", "buffer mutex", "buffer cond", "resend thread"})
<1> DEFINE T == {"packets", "buffer mutex", "buffer cond", "resend thread"}
<1>1. /\ Made!Course["sendBuffer"] = Made!SendBufferInit
      /\ Made!End["sendBuffer"] = Made!SendBufferFini
  BY DEF Made!Course, Made!End
<1>2. /\ Made!Given("sendBuffer") = {} /\ Made!Wrong("sendBuffer") = {}
      /\ Made!Kept("sendBuffer") = {}
  BY DEF Made!Given, Made!Wrong, Made!Kept
<1>3. Tidy(Made!SendBufferInit, {}, T, {})
  BY SendBufferTidy
<1>4. Releases(Made!SendBufferFini, T) /\ (Made!SendBufferFini)[1] = "resend thread"
  <2>1. {"resend thread", "buffer cond", "buffer mutex", "packets"} \subseteq Words
    BY DEF Words, BufferWords
  <2>2. Releases(Made!SendBufferFini, {"resend thread", "buffer cond", "buffer mutex", "packets"})
    BY <2>1, ReleasesFour DEF Made!SendBufferFini
  <2>3. {"resend thread", "buffer cond", "buffer mutex", "packets"} = T
    OBVIOUS
  <2>4. Made!SendBufferFini[1] = "resend thread"
    BY DEF Made!SendBufferFini
  <2> QED BY <2>2, <2>3, <2>4
<1>5. /\ ({} \cup T) \ {} = T
      /\ T \cap Made!Threads \subseteq {"resend thread"}
  BY DEF Made!Threads
<1> HIDE DEF T
<1>6. Orderly("sendBuffer", T)
  BY <1>1, <1>2, <1>3, <1>4, <1>5 DEF Orderly
<1> QED BY <1>6 DEF T
LEMMA RudpOrderly == Orderly("rudp", BufferWords)
<1>1. /\ Made!Course["rudp"] = Made!RudpInit
      /\ Made!End["rudp"] = Made!RudpFini
  BY DEF Made!Course, Made!End
<1>2. /\ Made!Given("rudp") = {} /\ Made!Wrong("rudp") = {}
      /\ Made!Kept("rudp") = {}
  BY DEF Made!Given, Made!Wrong, Made!Kept
<1>3. Tidy(Made!RudpInit, {}, BufferWords, {})
  BY RudpTidy
<1>4. Releases(Made!RudpFini, BufferWords) /\ (Made!RudpFini)[1] = "resend thread"
  <2> DEFINE A == {"resend thread", "buffer cond", "buffer mutex", "packets"}  B == {"counter mutex", "rudp pipe", "rudp"}
             p == <<"resend thread", "buffer cond", "buffer mutex", "packets">>  q == <<"counter mutex", "rudp pipe", "rudp">>
  <2>1. A \subseteq Words /\ B \subseteq Words /\ A \cap B = {} /\ BufferWords = A \cup B
    BY DEF Words, BufferWords
  <2>2. Releases(p, A) /\ Releases(q, B)
    BY <2>1, ReleasesFour, ReleasesThree
  <2>3. Made!RudpFini = p \o q /\ Len(p) # 0 /\ p[1] = "resend thread"
    BY DEF Made!RudpFini, Made!RudpSendBufferFini
  <2> HIDE DEF A, B, p, q
  <2>4. Releases(p \o q, BufferWords) /\ (p \o q)[1] = p[1]
    BY <2>1, <2>2, <2>3, ReleasesThen, FirstOfBoth
  <2> QED BY <2>3, <2>4
<1>5. /\ ({} \cup BufferWords) \ {} = BufferWords
      /\ BufferWords \cap Made!Threads \subseteq {"resend thread"}
  BY DEF Made!Threads, BufferWords
<1> QED BY <1>1, <1>2, <1>3, <1>4, <1>5 DEF Orderly
LEMMA CongestionOrderly == Orderly("congestion", CongestionWords)
<1>1. /\ Made!Course["congestion"] = Made!CongestionControlStart
      /\ Made!End["congestion"] = Made!CongestionControlStop
  BY DEF Made!Course, Made!End
<1>2. /\ Made!Given("congestion") = {} /\ Made!Wrong("congestion") = {}
      /\ Made!Kept("congestion") = {}
  BY DEF Made!Given, Made!Wrong, Made!Kept
<1>3. Tidy(Made!CongestionControlStart, {}, CongestionWords, {})
  BY CongestionTidy
<1>4. Releases(Made!CongestionControlStop, CongestionWords) /\ (Made!CongestionControlStop)[1] = "congestion thread"
  <2>1. {"congestion thread", "stop cond", "stop mutex"} \subseteq Words
    BY DEF Words, CongestionWords
  <2>2. Releases(Made!CongestionControlStop, {"congestion thread", "stop cond", "stop mutex"})
    BY <2>1, ReleasesThree DEF Made!CongestionControlStop
  <2>3. {"congestion thread", "stop cond", "stop mutex"} = CongestionWords
    BY DEF CongestionWords
  <2>4. Made!CongestionControlStop[1] = "congestion thread"
    BY DEF Made!CongestionControlStop
  <2> QED BY <2>2, <2>3, <2>4
<1>5. /\ ({} \cup CongestionWords) \ {} = CongestionWords
      /\ CongestionWords \cap Made!Threads \subseteq {"congestion thread"}
  BY DEF Made!Threads, CongestionWords
<1> QED BY <1>1, <1>2, <1>3, <1>4, <1>5 DEF Orderly
LEMMA DiscoveryOrderly == Orderly("discovery", DiscoveryWords)
<1>1. /\ Made!Course["discovery"] = Made!DiscoveryInit \o Made!Else(Made!DiscoveryThreadStart, <<"socket">>)
      /\ Made!End["discovery"] = Made!DiscoveryThreadStop \o <<"socket">>
  BY DEF Made!Course, Made!End
<1>2. /\ Made!Given("discovery") = {} /\ Made!Wrong("discovery") = {}
      /\ Made!Kept("discovery") = {}
  BY DEF Made!Given, Made!Wrong, Made!Kept
<1>3. Tidy(Made!DiscoveryInit \o Made!Else(Made!DiscoveryThreadStart, <<"socket">>), {}, DiscoveryWords, {})
  BY DiscoveryTidy
<1>4. Releases(Made!DiscoveryThreadStop \o <<"socket">>, DiscoveryWords) /\ (Made!DiscoveryThreadStop \o <<"socket">>)[1] = "discovery thread"
  <2> DEFINE A == {"discovery thread", "pipe"}  B == {"socket"}
             p == <<"discovery thread", "pipe">>  q == <<"socket">>
  <2>1. A \subseteq Words /\ B \subseteq Words /\ A \cap B = {} /\ DiscoveryWords = A \cup B
    BY DEF Words, DiscoveryWords
  <2>2. Releases(p, A) /\ Releases(q, B)
    BY <2>1, ReleasesTwo, ReleasesOne
  <2>3. Made!DiscoveryThreadStop \o <<"socket">> = p \o q /\ Len(p) # 0 /\ p[1] = "discovery thread"
    BY DEF Made!DiscoveryThreadStop
  <2> HIDE DEF A, B, p, q
  <2>4. Releases(p \o q, DiscoveryWords) /\ (p \o q)[1] = p[1]
    BY <2>1, <2>2, <2>3, ReleasesThen, FirstOfBoth
  <2> QED BY <2>3, <2>4
<1>5. /\ ({} \cup DiscoveryWords) \ {} = DiscoveryWords
      /\ DiscoveryWords \cap Made!Threads \subseteq {"discovery thread"}
  BY DEF Made!Threads, DiscoveryWords
<1> QED BY <1>1, <1>2, <1>3, <1>4, <1>5 DEF Orderly
LEMMA AudioSenderOrderly == Orderly("audioSender", AudioWords)
<1> DEFINE W == {"packet buf", "audio mutex"}
<1>1. /\ Made!Course["audioSender"] = Made!AudioSenderInit
      /\ Made!End["audioSender"] = Made!AudioSenderFini
  BY DEF Made!Course, Made!End
<1>2. /\ Made!Given("audioSender") = {} /\ Made!Wrong("audioSender") = W
      /\ Made!Kept("audioSender") = {}
  BY DEF Made!Given, Made!Wrong, Made!Kept
<1>3. Tidy(Made!AudioSenderInit, {}, AudioWords, W)
  BY AudioSenderTidy
<1>4. Releases(Made!AudioSenderFini, AudioWords)
  <2>1. {"frame buf", "packet buf", "audio mutex"} \subseteq Words
    BY DEF Words, AudioWords
  <2>2. Releases(Made!AudioSenderFini, {"frame buf", "packet buf", "audio mutex"})
    BY <2>1, ReleasesThree DEF Made!AudioSenderFini
  <2>3. {"frame buf", "packet buf", "audio mutex"} = AudioWords
    BY DEF AudioWords
  <2> QED BY <2>2, <2>3
<1>5. /\ ({} \cup AudioWords) \ {} = AudioWords
      /\ AudioWords \cap Made!Threads = {}
      /\ "none" \notin W
  BY DEF Made!Threads, AudioWords
<1> HIDE DEF W
<1> QED BY <1>1, <1>2, <1>3, <1>4, <1>5 DEF Orderly
LEMMA HolepunchOrderly == Orderly("holepunch", PunchWords)
<1> DEFINE W == {"queue"}
           X == {"oauth header", "queue", "hole notif mutex", "hole notif cond",
                 "hole notif pipe", "select pipe", "hole state mutex", "hole state cond",
                 "curl share"}
<1>1. /\ Made!Course["holepunch"] = Made!HolepunchInit
      /\ Made!End["holepunch"] = Made!HolepunchFini
  BY DEF Made!Course, Made!End
<1>2. /\ Made!Given("holepunch") = {} /\ Made!Wrong("holepunch") = W
      /\ Made!Kept("holepunch") = {"hole session", "hole stop mutex"}
  BY DEF Made!Given, Made!Wrong, Made!Kept
<1>3. Tidy(Made!HolepunchInit, {}, PunchWords, W)
  BY HolepunchTidy
<1>4. Releases(Made!HolepunchFini, X)
  <2>1. {"oauth header", "curl share", "queue", "select pipe", "hole notif pipe",
         "hole notif mutex", "hole notif cond", "hole state mutex", "hole state cond"} \subseteq Words
    BY DEF Words, PunchWords, AppWords
  <2>2. Releases(Made!HolepunchFini, {"oauth header", "curl share", "queue", "select pipe", "hole notif pipe",
                 "hole notif mutex", "hole notif cond", "hole state mutex", "hole state cond"})
    BY <2>1, ReleasesNine DEF Made!HolepunchFini
  <2>3. {"oauth header", "curl share", "queue", "select pipe", "hole notif pipe",
         "hole notif mutex", "hole notif cond", "hole state mutex", "hole state cond"} = X
    BY DEF PunchWords
  <2> QED BY <2>2, <2>3
<1>5. /\ ({} \cup PunchWords) \ {"hole session", "hole stop mutex"} = X
      /\ {"hole session", "hole stop mutex"} \subseteq PunchWords /\ {"hole session", "hole stop mutex"} \cap Made!Threads = {}
      /\ PunchWords \cap Made!Threads = {}
      /\ "none" \notin W
  BY DEF Made!Threads, PunchWords
<1> HIDE DEF W, X
<1> QED BY <1>1, <1>2, <1>3, <1>4, <1>5 DEF Orderly
LEMMA CreateOrderly ==
  Orderly("create", {"log", "session", "video decoder", "audio decoder", "audio output",
                    "state cond", "state mutex", "stop pipe", "notif mutex", "notif pipe",
                    "stream mutex", "stream cond", "packet stats", "feedback mutex", "host",
                    "references"})
<1> DEFINE T == {"log", "session", "video decoder", "audio decoder", "audio output",
                 "state cond", "state mutex", "stop pipe", "notif mutex", "notif pipe",
                 "stream mutex", "stream cond", "packet stats", "feedback mutex", "host",
                 "references"}
           W == {"notif mutex", "notif pipe", "stream mutex", "stream cond", "packet stats",
                 "feedback mutex"}
<1>1. /\ Made!Course["create"] = Made!SessionCreate
      /\ Made!End["create"] = Made!SessionFree(<<>>, <<"host">>)
  BY DEF Made!Course, Made!End
<1>2. /\ Made!Given("create") = {} /\ Made!Wrong("create") = W
      /\ Made!Kept("create") = {}
  BY DEF Made!Given, Made!Wrong, Made!Kept
<1>3. Tidy(Made!SessionCreate, {}, T, W)
  BY CreateTidy
<1>4. Releases(Made!SessionFree(<<>>, <<"host">>), T)
  <2> DEFINE Y == ((Inner \cup {}) \cup {"stop pipe", "state cond", "state mutex"}) \cup {"host"}
  <2>1. "host" \in Words /\ "holepunch" \in Words
    BY DEF Words, SessionWords, AppWords
  <2>2. Releases(<<>>, {}) /\ Releases(<<"host">>, {"host"})
    BY <2>1, ReleasesNone, ReleasesOne
  <2>3. Releases(Made!SessionFini(<<>>, <<"host">>), Y)
    BY <2>2, SessionFiniReleases
  <2> DEFINE F == {"video decoder", "audio decoder", "audio output", "references", "log",
                  "session"}
             f == <<"video decoder", "audio decoder", "audio output", "references", "log", "session">>
  <2>4. F \subseteq Words
    BY DEF Words, SessionWords, AppWords
  <2>5. Releases(f, F)
    BY <2>4, ReleasesSix
  <2>6. Y \cap F = {} /\ T = Y \cup F
    BY DEF Inner
  <2> HIDE DEF T, Y, F, f
  <2>7. Releases(Made!SessionFini(<<>>, <<"host">>) \o f, T)
    BY <2>3, <2>5, <2>6, ReleasesThen
  <2> QED BY <2>7 DEF Made!SessionFree, f
<1>5. /\ ({} \cup T) \ {} = T
      /\ T \cap Made!Threads = {}
      /\ "none" \notin W
  BY DEF Made!Threads
<1> HIDE DEF T, W
<1>6. Orderly("create", T)
  BY <1>1, <1>2, <1>3, <1>4, <1>5 DEF Orderly
<1> QED BY <1>6 DEF T
LEMMA CreatePsnOrderly ==
  Orderly("createPsn", {"log", "session", "video decoder", "audio decoder", "audio output",
                       "holepunch", "state cond", "state mutex", "stop pipe", "notif mutex",
                       "notif pipe", "stream mutex", "stream cond", "packet stats",
                       "feedback mutex", "references", "hole"})
<1> DEFINE T == {"log", "session", "video decoder", "audio decoder", "audio output",
                 "holepunch", "state cond", "state mutex", "stop pipe", "notif mutex",
                 "notif pipe", "stream mutex", "stream cond", "packet stats", "feedback mutex",
                 "references", "hole"}
           W == {"devices", "device", "hole", "holepunch"}
<1>1. /\ Made!Course["createPsn"] = Made!SessionCreatePsn
      /\ Made!End["createPsn"] = <<"hole">> \o Made!SessionFree(<<"holepunch">>, <<>>)
  BY DEF Made!Course, Made!End
<1>2. /\ Made!Given("createPsn") = {} /\ Made!Wrong("createPsn") = W
      /\ Made!Kept("createPsn") = {}
  BY DEF Made!Given, Made!Wrong, Made!Kept
<1>3. Tidy(Made!SessionCreatePsn, {}, T, W)
  BY CreatePsnTidy
<1>4. Releases(<<"hole">> \o Made!SessionFree(<<"holepunch">>, <<>>), T)
  <2> DEFINE Y == ((Inner \cup {"holepunch"}) \cup {"stop pipe", "state cond", "state mutex"}) \cup {}
  <2>1. "host" \in Words /\ "holepunch" \in Words
    BY DEF Words, SessionWords, AppWords
  <2>2. Releases(<<"holepunch">>, {"holepunch"}) /\ Releases(<<>>, {})
    BY <2>1, ReleasesOne, ReleasesNone
  <2>3. Releases(Made!SessionFini(<<"holepunch">>, <<>>), Y)
    BY <2>2, SessionFiniReleases
  <2> DEFINE F == {"video decoder", "audio decoder", "audio output", "references", "log",
                  "session"}
             f == <<"video decoder", "audio decoder", "audio output", "references", "log", "session">>
  <2>4. F \subseteq Words
    BY DEF Words, SessionWords, AppWords
  <2>5. Releases(f, F)
    BY <2>4, ReleasesSix
  <2>6. /\ Y \cap F = {} /\ T = {"hole"} \cup (Y \cup F) /\ "hole" \notin Y \cup F
        /\ "hole" \in Words
    BY DEF Inner, Words, SessionWords, AppWords
  <2> HIDE DEF T, Y, F, f
  <2>7. Releases(Made!SessionFini(<<"holepunch">>, <<>>) \o f, Y \cup F)
    BY <2>3, <2>5, <2>6, ReleasesBoth
  <2>8. Releases(<<"hole">> \o (Made!SessionFini(<<"holepunch">>, <<>>) \o f), T)
    BY <2>6, <2>7, ReleasesNext
  <2> QED BY <2>8 DEF Made!SessionFree, f
<1>5. /\ ({} \cup T) \ {} = T
      /\ T \cap Made!Threads = {}
      /\ "none" \notin W
  BY DEF Made!Threads
<1> HIDE DEF T, W
<1>6. Orderly("createPsn", T)
  BY <1>1, <1>2, <1>3, <1>4, <1>5 DEF Orderly
<1> QED BY <1>6 DEF T

LEMMA CourseDomain == Made!Objects = {"session", "sessionPsn", "sessionV6", "takion", "takionPsn", "remoteKey",
    "localKey", "feedback", "sendBuffer", "rudp", "congestion", "discovery",
    "audioSender", "holepunch", "create", "createPsn"}
BY DEF Made!Objects, Made!Course

LEMMA ObjectsOrderly == ASSUME NEW o \in Made!Objects PROVE \E T : Orderly(o, T)
<1>1. \E T : Orderly("session", T)
  BY SessionOrderly
<1>2. \E T : Orderly("sessionPsn", T)
  BY SessionPsnOrderly
<1>3. \E T : Orderly("sessionV6", T)
  BY SessionV6Orderly
<1>4. \E T : Orderly("takion", T)
  BY TakionOrderly
<1>5. \E T : Orderly("takionPsn", T)
  BY TakionPsnOrderly
<1>6. \E T : Orderly("remoteKey", T)
  BY RemoteKeyOrderly
<1>7. \E T : Orderly("localKey", T)
  BY LocalKeyOrderly
<1>8. \E T : Orderly("feedback", T)
  BY FeedbackOrderly
<1>9. \E T : Orderly("sendBuffer", T)
  BY SendBufferOrderly
<1>10. \E T : Orderly("rudp", T)
  BY RudpOrderly
<1>11. \E T : Orderly("congestion", T)
  BY CongestionOrderly
<1>12. \E T : Orderly("discovery", T)
  BY DiscoveryOrderly
<1>13. \E T : Orderly("audioSender", T)
  BY AudioSenderOrderly
<1>14. \E T : Orderly("holepunch", T)
  BY HolepunchOrderly
<1>15. \E T : Orderly("create", T)
  BY CreateOrderly
<1>16. \E T : Orderly("createPsn", T)
  BY CreatePsnOrderly
<1> QED BY CourseDomain, <1>1, <1>2, <1>3, <1>4, <1>5, <1>6, <1>7, <1>8, <1>9, <1>10, <1>11, <1>12, <1>13, <1>14, <1>15, <1>16

LEMMA WholeIs ==
  ASSUME NEW o, NEW T, Orderly(o, T) PROVE Made!Whole(o) = Made!Given(o) \cup T
<1>1. PICK s : s = Made!Course[o]
  OBVIOUS
<1>2. s \in Seq(Step) /\ T = TakenBy(s, Len(s))
  BY <1>1 DEF Orderly, Tidy
<1>3. DOMAIN s = 1 .. Len(s)
  BY <1>2, LenProperties
<1>4. UNION {s[i].takes : i \in DOMAIN s} = T
  BY <1>2, <1>3 DEF TakenBy
<1> QED BY <1>1, <1>4 DEF Made!Whole

LEMMA TakenAreResources ==
  ASSUME NEW o \in Made!Objects, NEW T, Orderly(o, T) PROVE T \subseteq Made!Resources
<1>1. Made!Whole(o) \subseteq Made!Resources
  BY DEF Made!Resources
<1> QED BY <1>1, WholeIs
LEMMA WordsAreTaken == Words \subseteq Made!Resources
<1> DEFINE A1 == {"log", "session", "video decoder", "audio decoder", "audio output",
                  "holepunch", "state cond", "state mutex", "stop pipe", "notif mutex",
                  "notif pipe", "stream mutex", "stream cond", "packet stats",
                  "feedback mutex", "references", "hole"}
<1>1. {"createPsn", "session", "takion", "remoteKey", "feedback", "rudp",
       "congestion", "discovery", "audioSender", "holepunch"} \subseteq Made!Objects
  BY CourseDomain
<1>2. A1 \subseteq Made!Resources
  BY <1>1, CreatePsnOrderly, TakenAreResources
<1>3. SessionWords \subseteq Made!Resources
  BY <1>1, SessionOrderly, TakenAreResources
<1>4. TakionWords \subseteq Made!Resources
  BY <1>1, TakionOrderly, TakenAreResources
<1>5. KeyWords \subseteq Made!Resources
  BY <1>1, RemoteKeyOrderly, TakenAreResources
<1>6. FeedbackWords \subseteq Made!Resources
  BY <1>1, FeedbackOrderly, TakenAreResources
<1>7. BufferWords \subseteq Made!Resources
  BY <1>1, RudpOrderly, TakenAreResources
<1>8. CongestionWords \subseteq Made!Resources
  BY <1>1, CongestionOrderly, TakenAreResources
<1>9. DiscoveryWords \subseteq Made!Resources
  BY <1>1, DiscoveryOrderly, TakenAreResources
<1>10. AudioWords \subseteq Made!Resources
  BY <1>1, AudioSenderOrderly, TakenAreResources
<1>11. PunchWords \subseteq Made!Resources
  BY <1>1, HolepunchOrderly, TakenAreResources
<1>13. AppWords \subseteq A1
  BY DEF AppWords
<1> HIDE DEF A1
<1> QED BY <1>2, <1>3, <1>4, <1>5, <1>6, <1>7, <1>8, <1>9, <1>10, <1>11, <1>13 DEF Words

LEMMA TakenNext ==
  ASSUME NEW s, NEW k \in Nat PROVE TakenBy(s, k + 1) = TakenBy(s, k) \cup s[k + 1].takes
<1>1. 1 .. k + 1 = (1 .. k) \cup {k + 1}
  OBVIOUS
<1> QED BY <1>1 DEF TakenBy
LEMMA TakenWithin ==
  ASSUME NEW s, NEW n \in Nat, NEW k \in 0 .. n PROVE TakenBy(s, k) \subseteq TakenBy(s, n)
<1>1. \A j \in 1 .. k : j \in 1 .. n
  OBVIOUS
<1> QED BY <1>1 DEF TakenBy
LEMMA NoThreadYet ==
  ASSUME NEW s, NEW G, NEW T, NEW W, Tidy(s, G, T, W), NEW i \in 1 .. Len(s)
  PROVE  TakenBy(s, i - 1) \cap Made!Threads = {}
<1>1. PICK n \in Nat : n = Len(s)
  BY LenProperties DEF Tidy
<1>2. \A j \in 1 .. i - 1 : j \in 1 .. n /\ j # n
  BY <1>1
<1>3. \A j \in 1 .. i - 1 : s[j].takes \cap Made!Threads = {}
  BY <1>1, <1>2 DEF Tidy
<1> QED BY <1>3 DEF TakenBy
LEMMA ReleasesNothing == ASSUME NEW q, NEW X, Releases(q, X), q = <<>> PROVE X = {}
<1>1. Len(q) = 0 /\ 1 .. 0 = {}
  BY EmptySeq
<1> QED BY <1>1 DEF Releases
LEMMA ReleasesTail ==
  ASSUME NEW q, NEW X, Releases(q, X), q # <<>>
  PROVE  Head(q) = q[1] /\ Head(q) \in X /\ Releases(Tail(q), X \ {Head(q)})
<1>1. PICK n \in Nat : n = Len(q)
  BY LenProperties DEF Releases
<1>2. n # 0
  BY <1>1, EmptySeq DEF Releases
<1>3. PICK t, h : t = Tail(q) /\ h = Head(q)
  OBVIOUS
<1>4. h = q[1] /\ t \in Seq(Words) /\ Len(t) = n - 1 /\ \A i \in 1 .. n - 1 : t[i] = q[i + 1]
  BY <1>1, <1>3, HeadTailProperties DEF Releases
<1>5. 1 \in 1 .. n /\ (\A i \in 1 .. n - 1 : i + 1 \in 1 .. n) /\ \A i \in 1 .. n : i = 1 \/ (i - 1 \in 1 .. n - 1 /\ (i - 1) + 1 = i)
  BY <1>2
<1>6. h \in X
  BY <1>1, <1>4, <1>5 DEF Releases
<1>7. \A i, j \in 1 .. n - 1 : t[i] = t[j] => i = j
  BY <1>1, <1>4, <1>5 DEF Releases
<1>8. ASSUME NEW x, x \in X \ {h} PROVE \E i \in 1 .. n - 1 : t[i] = x
  <2>1. PICK i \in 1 .. n : q[i] = x
    BY <1>1, <1>8 DEF Releases
  <2>2. i - 1 \in 1 .. n - 1 /\ t[i - 1] = x
    BY <1>4, <1>5, <1>8, <2>1
  <2> QED BY <2>2
<1>9. \A i \in 1 .. n - 1 : t[i] \in X \ {h}
  <2> SUFFICES ASSUME NEW i \in 1 .. n - 1 PROVE t[i] \in X /\ t[i] # q[1]
    BY <1>4
  <2>1. i + 1 \in 1 .. n /\ i + 1 # 1 /\ t[i] = q[i + 1]
    BY <1>4, <1>5
  <2> QED BY <1>1, <1>5, <2>1 DEF Releases
<1>10. Releases(t, X \ {h})
  BY <1>4, <1>7, <1>8, <1>9 DEF Releases
<1> QED BY <1>3, <1>4, <1>6, <1>10

(* Unless what failed is named as wrong: a creation has taken what its steps *)
(* take, and when it has failed or is ended, what is released next is what  *)
(* there is; a thread is released before what it uses.                      *)
MadeInv ==
  /\ Made!TypeOK /\ releasing \in Seq(Words)
  /\ knows = "nothing" => failed = "none"
  /\ failed \notin Made!Wrong(object) =>
       /\ over = {}
       /\ knows = "nothing" =>
            releasing = <<>> /\ things = Made!Given(object) \cup TakenBy(Made!Course[object], at - 1)
       /\ knows = "ok" => releasing = <<>> /\ things = Made!Whole(object)
       /\ knows = "failed" => Releases(releasing, things) /\ things \cap Made!Threads = {}
       /\ knows = "over" => /\ Made!Kept(object) \subseteq things
                            /\ Releases(releasing, things \ Made!Kept(object))
                            /\ Made!Kept(object) \cap Made!Threads = {}
                            /\ things \cap Made!Threads \subseteq {releasing[1]}
       /\ things \cap Made!Threads # {} => uses \subseteq things

LEMMA MadeSafe == MadeInv => Made!TypeOK /\ Made!CreationSound
<1> SUFFICES ASSUME MadeInv PROVE Made!TypeOK /\ Made!CreationSound
  OBVIOUS
<1>1. Made!TypeOK
  BY DEF MadeInv
<1>2. ASSUME failed \notin Made!Wrong(object)
      PROVE  /\ over = {}
             /\ knows = "ok" => things = Made!Whole(object)
             /\ things \cap Made!Threads # {} => uses \subseteq things
  BY <1>2 DEF MadeInv
<1>3. ASSUME failed \notin Made!Wrong(object), knows = "failed", releasing = <<>> PROVE things = {}
  BY <1>3, ReleasesNothing DEF MadeInv
<1>4. ASSUME failed \notin Made!Wrong(object), knows = "over", releasing = <<>>
      PROVE  things = Made!Kept(object)
  <2>1. things \ Made!Kept(object) = {}
    BY <1>4, ReleasesNothing DEF MadeInv
  <2>2. Made!Kept(object) \subseteq things
    BY <1>4 DEF MadeInv
  <2> QED BY <2>1, <2>2
<1> QED BY <1>1, <1>2, <1>3, <1>4 DEF Made!CreationSound

LEMMA MadeStart == Made!Init => MadeInv
<1> SUFFICES ASSUME Made!Init PROVE MadeInv
  OBVIOUS
<1>1. PICK T : Orderly(object, T)
  BY ObjectsOrderly DEF Made!Init
<1>2. PICK s : s = Made!Course[object]
  OBVIOUS
<1>3. s \in Seq(Step) /\ Len(s) \in Nat
  BY <1>1, <1>2, LenProperties DEF Orderly, Tidy
<1>4. at = 1 /\ at \in 1 .. Len(s) + 1
  BY <1>3 DEF Made!Init
<1>5. releasing \in Seq(Words) /\ DOMAIN releasing = {}
  <2>1. releasing = <<>>
    BY DEF Made!Init
  <2>2. releasing \in Seq(Words) /\ Len(releasing) = 0
    BY <2>1, EmptySeq
  <2>3. DOMAIN releasing = 1 .. 0
    BY <2>2, LenProperties
  <2> QED BY <2>2, <2>3
<1>6. TakenBy(s, at - 1) = {}
  <2>1. 1 .. at - 1 = {}
    BY <1>4
  <2> QED BY <2>1 DEF TakenBy
<1>7. attempts \in 1 .. PunchAttempts
  BY CreationAssumption DEF Made!Init
<1>8. Made!TypeOK
  BY <1>2, <1>4, <1>5, <1>7 DEF Made!Init, Made!TypeOK
<1>9. things = Made!Given(object) /\ things \cap Made!Threads = {}
  BY <1>1 DEF Made!Init, Orderly
<1>10. knows = "nothing" /\ failed = "none" /\ over = {} /\ releasing = <<>>
  BY DEF Made!Init
<1>11. things = Made!Given(object) \cup TakenBy(Made!Course[object], at - 1)
  BY <1>2, <1>6, <1>9
<1> QED BY <1>5, <1>8, <1>9, <1>10, <1>11 DEF MadeInv

(* What the steps of a creation know.                                       *)
LEMMA MadeHere ==
  ASSUME MadeInv, Made!Creating
  PROVE  \E T, s : /\ Orderly(object, T) /\ s = Made!Course[object] /\ s \in Seq(Step)
                   /\ Tidy(s, Made!Given(object), T, Made!Wrong(object))
                   /\ at \in 1 .. Len(s) /\ Len(s) \in Nat /\ Made!Here = s[at] /\ s[at] \in Step
                   /\ failed \notin Made!Wrong(object) /\ over = {} /\ releasing = <<>>
                   /\ things = Made!Given(object) \cup TakenBy(s, at - 1)
                   /\ things \cap Made!Threads = {}
<1>1. PICK T : Orderly(object, T)
  BY ObjectsOrderly DEF MadeInv, Made!TypeOK
<1>2. PICK s : s = Made!Course[object]
  OBVIOUS
<1>3. s \in Seq(Step) /\ Len(s) \in Nat /\ Tidy(s, Made!Given(object), T, Made!Wrong(object))
  BY <1>1, <1>2, LenProperties DEF Orderly, Tidy
<1>4. at \in 1 .. Len(s) + 1 /\ at <= Len(s)
  BY <1>2 DEF MadeInv, Made!TypeOK, Made!Creating
<1>5. at \in 1 .. Len(s) /\ Made!Here = s[at]
  BY <1>2, <1>3, <1>4 DEF Made!Here
<1>6. s[at] \in Step
  BY <1>3, <1>5, ElementOfSeq
<1>7. failed \notin Made!Wrong(object)
  BY <1>1 DEF MadeInv, Made!Creating, Orderly
<1>8. /\ over = {} /\ releasing = <<>>
      /\ things = Made!Given(object) \cup TakenBy(s, at - 1)
  BY <1>2, <1>7 DEF MadeInv, Made!Creating
<1>9. things \cap Made!Threads = {}
  BY <1>1, <1>3, <1>5, <1>8, NoThreadYet DEF Orderly
<1> QED BY <1>1, <1>2, <1>3, <1>5, <1>6, <1>7, <1>8, <1>9

LEMMA MadeSucceeds == ASSUME MadeInv, Made!Succeeds PROVE MadeInv'
<1>1. PICK T, s : /\ Orderly(object, T) /\ s = Made!Course[object] /\ s \in Seq(Step)
                  /\ Tidy(s, Made!Given(object), T, Made!Wrong(object))
                  /\ at \in 1 .. Len(s) /\ Len(s) \in Nat /\ Made!Here = s[at] /\ s[at] \in Step
                  /\ failed \notin Made!Wrong(object) /\ over = {} /\ releasing = <<>>
                  /\ things = Made!Given(object) \cup TakenBy(s, at - 1)
                  /\ things \cap Made!Threads = {}
  BY MadeHere DEF Made!Succeeds
<1>2. /\ UNCHANGED <<object, releasing, knows, over, failed, attempts>>
      /\ at' = at + 1 /\ things' = things \cup s[at].takes
      /\ uses' = IF s[at].takes \cap Made!Threads # {} THEN things ELSE uses
      /\ knows = "nothing"
  BY <1>1 DEF Made!Succeeds, Made!Creating
<1>3. at' - 1 = (at - 1) + 1 /\ at' \in 1 .. Len(s) + 1 /\ at - 1 \in Nat /\ (at - 1) + 1 = at
  BY <1>1, <1>2
<1>4. TakenBy(s, at' - 1) = TakenBy(s, at - 1) \cup s[at].takes
  BY <1>3, TakenNext
<1>5. Made!TypeOK'
  BY <1>1, <1>2, <1>3 DEF MadeInv, Made!TypeOK
<1>6. things' = Made!Given(object)' \cup TakenBy(Made!Course[object], at - 1)'
  BY <1>1, <1>2, <1>4
<1>7. (things \cap Made!Threads # {} => uses \subseteq things)'
  BY <1>1, <1>2
<1>8. (releasing \in Seq(Words) /\ (knows = "nothing" => failed = "none"))'
  BY <1>2 DEF MadeInv
<1> QED BY <1>1, <1>2, <1>5, <1>6, <1>7, <1>8 DEF MadeInv

LEMMA MadeFails == ASSUME MadeInv, Made!Fails PROVE MadeInv'
<1>1. PICK T, s : /\ Orderly(object, T) /\ s = Made!Course[object] /\ s \in Seq(Step)
                  /\ Tidy(s, Made!Given(object), T, Made!Wrong(object))
                  /\ at \in 1 .. Len(s) /\ Len(s) \in Nat /\ Made!Here = s[at] /\ s[at] \in Step
                  /\ failed \notin Made!Wrong(object) /\ over = {} /\ releasing = <<>>
                  /\ things = Made!Given(object) \cup TakenBy(s, at - 1)
                  /\ things \cap Made!Threads = {}
  BY MadeHere DEF Made!Fails
<1>2. /\ UNCHANGED <<object, things, over, at, attempts, uses>> /\ s[at].may
      /\ releasing' = s[at].release /\ knows' = s[at].says /\ failed' = s[at].name
  BY <1>1 DEF Made!Fails
<1>3. releasing' \in Seq(Words) /\ knows' \in {"ok", "failed"}
  BY <1>1, <1>2, StepFields
<1>4. \A i \in DOMAIN releasing' : releasing'[i] \in Made!Resources
  <2>1. PICK q \in Seq(Words) : q = releasing'
    BY <1>3
  <2>2. \A i \in DOMAIN q : q[i] \in Words
    BY <2>1, ElementOfSeq, LenProperties
  <2> QED BY <2>1, <2>2, WordsAreTaken
<1>5. Made!TypeOK'
  BY <1>2, <1>3, <1>4 DEF MadeInv, Made!TypeOK
<1>6. ASSUME failed' \notin Made!Wrong(object) PROVE knows' = "failed" /\ Releases(releasing', things)
  BY <1>1, <1>2, <1>6 DEF Tidy
<1> QED BY <1>1, <1>2, <1>3, <1>5, <1>6 DEF MadeInv

LEMMA MadePunchAgain == ASSUME MadeInv, Made!PunchAgain PROVE MadeInv'
<1>1. PICK T, s : /\ Orderly(object, T) /\ s = Made!Course[object] /\ s \in Seq(Step)
                  /\ Tidy(s, Made!Given(object), T, Made!Wrong(object))
                  /\ at \in 1 .. Len(s) /\ Len(s) \in Nat /\ Made!Here = s[at] /\ s[at] \in Step
                  /\ failed \notin Made!Wrong(object) /\ over = {} /\ releasing = <<>>
                  /\ things = Made!Given(object) \cup TakenBy(s, at - 1)
                  /\ things \cap Made!Threads = {}
  BY MadeHere DEF Made!PunchAgain
<1>2. "holepunch" \in Made!Wrong(object) /\ "holepunch" \in things
  BY <1>1 DEF Tidy, Made!PunchAgain
<1>3. /\ UNCHANGED <<object, releasing, at, uses>> /\ attempts' = attempts + 1
      /\ attempts < PunchAttempts /\ over' = over \cup ({"holepunch"} \ things)
      /\ \/ things' = things \cup {"holepunch"} /\ UNCHANGED <<knows, failed>>
         \/ knows' = "failed" /\ failed' = "holepunch"
  BY DEF Made!PunchAgain
<1>4. attempts' \in 1 .. PunchAttempts
  BY <1>3, CreationAssumption DEF MadeInv, Made!TypeOK
<1>5. Made!TypeOK'
  BY <1>3, <1>4 DEF MadeInv, Made!TypeOK
<1>6. CASE things' = things \cup {"holepunch"} /\ UNCHANGED <<knows, failed>>
  <2>1. things' = things /\ over' = over
    BY <1>2, <1>3, <1>6
  <2> QED BY <1>3, <1>5, <1>6, <2>1 DEF MadeInv
<1>7. CASE knows' = "failed" /\ failed' = "holepunch"
  BY <1>2, <1>3, <1>5, <1>7 DEF MadeInv
<1> QED BY <1>3, <1>6, <1>7

LEMMA MadeSucceeded == ASSUME MadeInv, Made!Succeeded PROVE MadeInv'
<1>1. PICK T : Orderly(object, T)
  BY ObjectsOrderly DEF MadeInv, Made!TypeOK
<1>2. PICK s : s = Made!Course[object]
  OBVIOUS
<1>3. s \in Seq(Step) /\ Len(s) \in Nat /\ T = TakenBy(s, Len(s))
  BY <1>1, <1>2, LenProperties DEF Orderly, Tidy
<1>4. /\ UNCHANGED <<object, things, releasing, over, at, failed, attempts, uses>>
      /\ knows = "nothing" /\ knows' = "ok" /\ at > Len(s)
  BY <1>2 DEF Made!Succeeded, Made!made
<1>5. at - 1 = Len(s)
  BY <1>2, <1>3, <1>4 DEF MadeInv, Made!TypeOK
<1>6. failed \notin Made!Wrong(object)
  BY <1>1, <1>4 DEF MadeInv, Orderly
<1>7. things = Made!Whole(object) /\ releasing = <<>>
  BY <1>1, <1>2, <1>3, <1>4, <1>5, <1>6, WholeIs DEF MadeInv
<1>8. Made!TypeOK'
  BY <1>4 DEF MadeInv, Made!TypeOK
<1> QED BY <1>4, <1>7, <1>8 DEF MadeInv

LEMMA MadeReleases == ASSUME MadeInv, Made!Releases PROVE MadeInv'
<1>1. /\ UNCHANGED <<object, knows, at, failed, attempts, uses>> /\ releasing # <<>>
      /\ releasing' = Tail(releasing) /\ things' = things \ {Head(releasing)}
      /\ over' = over \cup ({Head(releasing)} \ things)
  BY DEF Made!Releases, Made!made
<1>2. releasing' \in Seq(Words)
  BY <1>1, HeadTailProperties DEF MadeInv
<1>3. \A i \in DOMAIN releasing' : releasing'[i] \in Made!Resources
  <2>1. PICK q \in Seq(Words) : q = releasing'
    BY <1>2
  <2>2. \A i \in DOMAIN q : q[i] \in Words
    BY <2>1, ElementOfSeq, LenProperties
  <2> QED BY <2>1, <2>2, WordsAreTaken
<1>4. Made!TypeOK'
  BY <1>1, <1>3 DEF MadeInv, Made!TypeOK
<1>5. ASSUME failed \notin Made!Wrong(object) PROVE knows \in {"failed", "over"}
  BY <1>1, <1>5 DEF MadeInv, Made!TypeOK
<1>6. ASSUME failed \notin Made!Wrong(object), knows = "failed"
      PROVE  over' = {} /\ Releases(releasing', things') /\ things' \cap Made!Threads = {}
  <2>1. Releases(releasing, things) /\ things \cap Made!Threads = {} /\ over = {}
    BY <1>6 DEF MadeInv
  <2>2. Head(releasing) \in things /\ Releases(Tail(releasing), things \ {Head(releasing)})
    BY <1>1, <2>1, ReleasesTail
  <2> QED BY <1>1, <2>1, <2>2
<1>7. ASSUME failed \notin Made!Wrong(object), knows = "over"
      PROVE  /\ over' = {} /\ Made!Kept(object) \subseteq things'
             /\ Releases(releasing', things' \ Made!Kept(object))
             /\ Made!Kept(object) \cap Made!Threads = {}
             /\ things' \cap Made!Threads = {}
  <2>1. /\ Made!Kept(object) \subseteq things /\ Releases(releasing, things \ Made!Kept(object))
        /\ Made!Kept(object) \cap Made!Threads = {} /\ over = {}
        /\ things \cap Made!Threads \subseteq {releasing[1]}
    BY <1>7 DEF MadeInv
  <2>2. /\ Head(releasing) = releasing[1] /\ Head(releasing) \in things \ Made!Kept(object)
        /\ Releases(Tail(releasing), (things \ Made!Kept(object)) \ {Head(releasing)})
    BY <1>1, <2>1, ReleasesTail
  <2>3. (things \ Made!Kept(object)) \ {Head(releasing)} = things' \ Made!Kept(object)
    BY <1>1
  <2> QED BY <1>1, <2>1, <2>2, <2>3
<1> QED BY <1>1, <1>2, <1>4, <1>5, <1>6, <1>7 DEF MadeInv

LEMMA MadeEnds == ASSUME MadeInv, Made!Ends PROVE MadeInv'
<1>1. PICK T : Orderly(object, T)
  BY ObjectsOrderly DEF MadeInv, Made!TypeOK
<1>2. /\ UNCHANGED <<object, things, over, at, failed, attempts, uses>>
      /\ knows = "ok" /\ knows' = "over" /\ releasing' = Made!End[object]
  BY DEF Made!Ends, Made!made
<1>3. Made!Whole(object) = Made!Given(object) \cup T
  BY <1>1, WholeIs
<1>4. releasing' \in Seq(Words)
  BY <1>1, <1>2 DEF Orderly, Releases
<1>5. \A i \in DOMAIN releasing' : releasing'[i] \in Made!Resources
  <2>1. PICK q \in Seq(Words) : q = releasing'
    BY <1>4
  <2>2. \A i \in DOMAIN q : q[i] \in Words
    BY <2>1, ElementOfSeq, LenProperties
  <2> QED BY <2>1, <2>2, WordsAreTaken
<1>6. Made!TypeOK'
  BY <1>2, <1>5 DEF MadeInv, Made!TypeOK
<1>7. ASSUME failed \notin Made!Wrong(object)
      PROVE  /\ Made!Kept(object) \subseteq things
             /\ Releases(releasing', things \ Made!Kept(object))
             /\ Made!Kept(object) \cap Made!Threads = {}
             /\ things \cap Made!Threads \subseteq {releasing'[1]}
  <2>1. things = Made!Given(object) \cup T
    BY <1>2, <1>3, <1>7 DEF MadeInv
  <2> QED BY <1>1, <1>2, <2>1 DEF Orderly
<1> QED BY <1>2, <1>4, <1>6, <1>7 DEF MadeInv

LEMMA MadeStep == MadeInv /\ Made!Next => MadeInv'
BY MadeSucceeds, MadeFails, MadePunchAgain, MadeSucceeded, MadeReleases, MadeEnds DEF Made!Next

LEMMA MadeStays == MadeInv /\ UNCHANGED making => MadeInv'
BY DEF MadeInv, Made!TypeOK, making

-----------------------------------------------------------------------------
(* All of it.  A step is one of the component the behaviour is about, and   *)
(* the others stay.                                                         *)
RemoteInv ==
  /\ part \in Parts
  /\ HostsInv /\ KeysInv /\ LinkInv /\ PortsInv /\ TriedInv /\ HolesInv /\ RequestInv /\ MadeInv

LEMMA RemoteStart == Init => RemoteInv
BY HostsStart, KeysStart, LinkStart, PortsStart, TriedStart, HolesStart, RequestStart, MadeStart
   DEF Init, RemoteInv

LEMMA RemoteStep == RemoteInv /\ [Next]_parts => RemoteInv'
<1> SUFFICES ASSUME RemoteInv, [Next]_parts PROVE RemoteInv'
  OBVIOUS
<1>1. /\ part' = part
      /\ Hosts!Next \/ UNCHANGED hosting
      /\ Keys!Next \/ UNCHANGED keying
      /\ Link!Next \/ UNCHANGED linking
      /\ Ports!Next \/ UNCHANGED predicting
      /\ Tried!Next \/ UNCHANGED trying
      /\ Holes!Next \/ UNCHANGED punching
      /\ Request!Next \/ UNCHANGED asking
      /\ Made!Next \/ UNCHANGED making
  <2>1. CASE HostsOnly /\ Hosts!Next
    <3>1. /\ Hosts!Next /\ part' = part
          /\ UNCHANGED keying /\ UNCHANGED linking /\ UNCHANGED predicting /\ UNCHANGED trying
          /\ UNCHANGED punching /\ UNCHANGED asking /\ UNCHANGED making
      BY <2>1 DEF HostsOnly
    <3> QED BY <3>1
  <2>2. CASE KeysOnly /\ Keys!Next
    <3>1. /\ Keys!Next /\ part' = part
          /\ UNCHANGED hosting /\ UNCHANGED linking /\ UNCHANGED predicting /\ UNCHANGED trying
          /\ UNCHANGED punching /\ UNCHANGED asking /\ UNCHANGED making
      BY <2>2 DEF KeysOnly
    <3> QED BY <3>1
  <2>3. CASE LinkOnly /\ Link!Next
    <3>1. /\ Link!Next /\ part' = part
          /\ UNCHANGED hosting /\ UNCHANGED keying /\ UNCHANGED predicting /\ UNCHANGED trying
          /\ UNCHANGED punching /\ UNCHANGED asking /\ UNCHANGED making
      BY <2>3 DEF LinkOnly
    <3> QED BY <3>1
  <2>4. CASE PortsOnly /\ Ports!Next
    <3>1. /\ Ports!Next /\ part' = part
          /\ UNCHANGED hosting /\ UNCHANGED keying /\ UNCHANGED linking /\ UNCHANGED trying
          /\ UNCHANGED punching /\ UNCHANGED asking /\ UNCHANGED making
      BY <2>4 DEF PortsOnly
    <3> QED BY <3>1
  <2>5. CASE TriedOnly /\ Tried!Next
    <3>1. /\ Tried!Next /\ part' = part
          /\ UNCHANGED hosting /\ UNCHANGED keying /\ UNCHANGED linking /\ UNCHANGED predicting
          /\ UNCHANGED punching /\ UNCHANGED asking /\ UNCHANGED making
      BY <2>5 DEF TriedOnly
    <3> QED BY <3>1
  <2>6. CASE HolesOnly /\ Holes!Next
    <3>1. /\ Holes!Next /\ part' = part
          /\ UNCHANGED hosting /\ UNCHANGED keying /\ UNCHANGED linking /\ UNCHANGED predicting
          /\ UNCHANGED trying /\ UNCHANGED asking /\ UNCHANGED making
      BY <2>6 DEF HolesOnly
    <3> QED BY <3>1
  <2>7. CASE RequestOnly /\ Request!Next
    <3>1. Request!Next /\ part' = part /\ UNCHANGED reaching /\ UNCHANGED making
      BY <2>7 DEF RequestOnly
    <3> QED BY <3>1 DEF reaching
  <2>8. CASE CreationOnly /\ Made!Next
    <3>1. Made!Next /\ part' = part /\ UNCHANGED reaching /\ UNCHANGED asking
      BY <2>8 DEF CreationOnly
    <3> QED BY <3>1 DEF reaching
  <2>9. CASE UNCHANGED parts
    <3>1. part' = part /\ UNCHANGED reaching /\ UNCHANGED asking /\ UNCHANGED making
      BY <2>9 DEF parts
    <3> QED BY <3>1 DEF reaching
  <2> QED BY <2>1, <2>2, <2>3, <2>4, <2>5, <2>6, <2>7, <2>8, <2>9 DEF Next
<1>2. HostsInv'
  BY <1>1, HostsStep, HostsStays DEF RemoteInv
<1>3. KeysInv'
  BY <1>1, KeysStep, KeysStays DEF RemoteInv
<1>4. LinkInv'
  BY <1>1, LinkStep, LinkStays DEF RemoteInv
<1>5. PortsInv'
  BY <1>1, PortsStep, PortsStays DEF RemoteInv
<1>6. TriedInv'
  BY <1>1, TriedStep, TriedStays DEF RemoteInv
<1>7. HolesInv'
  BY <1>1, HolesStep, HolesStays DEF RemoteInv
<1>8. RequestInv'
  BY <1>1, RequestStep, RequestStays DEF RemoteInv
<1>9. MadeInv'
  BY <1>1, MadeStep, MadeStays DEF RemoteInv
<1> QED BY <1>1, <1>2, <1>3, <1>4, <1>5, <1>6, <1>7, <1>8, <1>9 DEF RemoteInv

LEMMA RemoteHolds == Spec => []RemoteInv
BY RemoteStart, RemoteStep, PTL DEF Spec

-----------------------------------------------------------------------------
(* Every variable of the component a behaviour is about keeps its type: the *)
(* list of consoles, the datagram send buffer and the offered ports stay    *)
(* within their bounds (discoveryservice.c:211, rudpsendbuffer.c:109,       *)
(* stun.h:434), and nothing is released that nothing takes (session.c:346). *)
THEOREM RemoteTypes == Spec => []TypeOK
<1>1. RemoteInv => TypeOK
  <2> SUFFICES ASSUME RemoteInv PROVE TypeOK
    OBVIOUS
  <2>1. /\ part \in {"hosts", "keys", "link", "ports", "tried", "holes", "request", "creation"}
        /\ Hosts!TypeOK /\ Keys!TypeOK /\ Link!TypeOK /\ Ports!TypeOK /\ Tried!TypeOK
        /\ Holes!TypeOK /\ Request!TypeOK /\ Made!TypeOK
    BY HostsSafe, KeysSafe, LinkSafe, PortsSafe, TriedSafe, HolesSafe, RequestSafe, MadeSafe
       DEF RemoteInv, Parts
  <2>2. CASE part = "hosts"
    BY <2>1, <2>2 DEF TypeOK
  <2>3. CASE part = "keys"
    BY <2>1, <2>3 DEF TypeOK
  <2>4. CASE part = "link"
    BY <2>1, <2>4 DEF TypeOK
  <2>5. CASE part = "ports"
    BY <2>1, <2>5 DEF TypeOK
  <2>6. CASE part = "tried"
    BY <2>1, <2>6 DEF TypeOK
  <2>7. CASE part = "holes"
    BY <2>1, <2>7 DEF TypeOK
  <2>8. CASE part = "request"
    BY <2>1, <2>8 DEF TypeOK
  <2>9. CASE part = "creation"
    BY <2>1, <2>9 DEF TypeOK
  <2> QED BY <2>1, <2>2, <2>3, <2>4, <2>5, <2>6, <2>7, <2>8, <2>9
<1> QED BY <1>1, RemoteHolds, PTL

(* The application sees the consoles there are, registers at one, what it   *)
(* sends to one arrives once and in order, both agree on a version, and     *)
(* what a session is made of is created whole or not at all, whichever call *)
(* fails (discoveryservice.c:273, regist.c:412, rudp.c:214, session.c:573,  *)
(* 346).                                                                   *)
THEOREM PeersAreSound == Spec => []PeersSound
<1>1. RemoteInv => PeersSound
  BY HostsSafe, KeysSafe, LinkSafe, RequestSafe, MadeSafe DEF RemoteInv, PeersSound
<1> QED BY <1>1, RemoteHolds, PTL

(* The ports that are offered are those the NAT will give, the candidate    *)
(* that is chosen works both ways, and both sides accepted the hole,        *)
(* whatever the order in which the thread of the web socket, the caller and *)
(* the console go on (stun.h:434, holepunch.c:4187, 1666).                  *)
THEOREM HolesAreSound == Spec => []HolesSound
<1>1. RemoteInv => HolesSound
  BY PortsSafe, TriedSafe, HolesSafe DEF RemoteInv, HolesSound
<1> QED BY <1>1, RemoteHolds, PTL
=============================================================================
