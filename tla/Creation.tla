-------------------------------- MODULE Creation -------------------------------
(***************************************************************************)
(* How the parts of a session come into being and go.  Every *_init takes  *)
(* one thing after the other, a mutex, a condition, a pipe, a thread, and   *)
(* when one of them fails it jumps to a label from which the code falls     *)
(* through the releases of what was taken before; *_fini releases it all.  *)
(* Such a function is a sequence of steps, and a step has the releases that *)
(* follow its failure; a function that calls another contains its steps,    *)
(* with its own releases behind those of the other one.                    *)
(*                                                                         *)
(* The calls that fail are those of the system and of the allocator.  What  *)
(* the code asserts does not fail.  The copies of strings are left out.     *)
(***************************************************************************)
EXTENDS Naturals, Sequences

CONSTANTS PunchAttempts     \* holepunch_max_attempts

VARIABLES
  object,     \* what is created
  at,         \* the step it is at
  held,       \* what is taken and not released
  releasing,  \* what is released next
  told,       \* what the caller knows: nothing yet, "ok", "failed", or it is "over"
  failed,     \* the step that failed
  attempts,   \* to punch the hole
  over,       \* history: released without being held
  uses        \* history: what there was when the thread was created

made == <<at, failed, attempts, uses>>
vars == <<object, held, releasing, told, over, made>>
-----------------------------------------------------------------------------
Take(x) == [name |-> x, takes |-> {x}, release |-> <<>>, says |-> "failed", may |-> TRUE]
Check(x) == [Take(x) EXCEPT !.takes = {}]
Sure(x) == [Take(x) EXCEPT !.may = FALSE]
Says(steps, what) == [i \in DOMAIN steps |-> [steps[i] EXCEPT !.says = what]]

(* What follows a step's failure when it is one of several. *)
Else(steps, label) == [i \in DOMAIN steps |-> [steps[i] EXCEPT !.release = @ \o label]]

Mutex(m) == <<Take(m)>>
Cond(c) == <<Take(c)>>
BoolPredCond(m, c) == Mutex(m) \o Else(Cond(c), <<m>>)
Pipe(p) == <<Take(p)>> \o Else(<<Check(p)>>, <<p>>)          \* pipe, then fcntl
Threads ==
  {"takion thread", "key thread", "feedback thread", "resend thread", "congestion thread",
   "discovery thread"}
Thread(t) == <<Take(t)>>
-----------------------------------------------------------------------------
CtrlInitKeeping == Mutex("notif mutex") \o Pipe("notif pipe")
CtrlInit == Mutex("notif mutex") \o Else(Pipe("notif pipe"), <<"notif mutex">>)
CtrlFini == <<"notif pipe", "notif mutex">>

StreamConnectionInit ==
  LET stateMutex == <<"stream mutex">>
      stateCond == <<"stream cond">> \o stateMutex
      packetStats == <<"packet stats">> \o stateCond
  IN  Mutex("stream mutex") \o Else(Cond("stream cond"), stateMutex)
        \o Else(Mutex("packet stats"), stateCond) \o Else(Mutex("feedback mutex"), packetStats)
StreamConnectionFini == <<"packet stats", "feedback mutex", "stream cond", "stream mutex">>

\* A pointer that is NULL is not released.
SessionFini(hole, host) ==
  StreamConnectionFini \o CtrlFini \o hole \o <<"stop pipe", "state cond", "state mutex">> \o host

(* chiaki_session_init; hole is the holepunch session it is given, if any. *)
SessionInit(hole) ==
  LET error == hole
      stateCond == <<"state cond">> \o error
      stateMutex == <<"state mutex">> \o stateCond
      stopPipe == <<"stop pipe">> \o stateMutex
      ctrl == CtrlFini \o stopPipe
  IN  Else(Cond("state cond"), error) \o Else(Mutex("state mutex"), stateCond)
        \o Else(Pipe("stop pipe"), stateMutex) \o Else(CtrlInit, stopPipe)
        \o Else(StreamConnectionInit, ctrl)
        \o IF hole = <<>> THEN Else(<<Take("host")>>, SessionFini(hole, <<>>)) ELSE <<>>

(* chiaki_session_init_v6: its labels come in another order. *)
SessionInitV6 ==
  LET stateCond == <<"state cond">>
      stateMutex == <<"state mutex">> \o stateCond
      ctrl == CtrlFini \o stateMutex
      stopPipe == <<"stop pipe">> \o ctrl
  IN  Cond("state cond") \o Else(Mutex("state mutex"), stateCond)
        \o Else(Pipe("stop pipe"), stateMutex) \o Else(CtrlInit, stopPipe)
        \o Else(StreamConnectionInit, ctrl) \o Else(<<Take("host")>>, SessionFini(<<>>, <<>>))
-----------------------------------------------------------------------------
(* chiaki_takion_connect on the socket it is given, or on one of its own.    *)
(* "ret" is not "err": what fails with err alone is told as success.        *)
Mutexes ==
  Mutex("key mutex") \o Else(Mutex("seq num mutex"), <<"key mutex">>)
    \o Says(Else(Pipe("takion pipe"), <<"seq num mutex", "key mutex">>), "ok")
Socket(given) ==
  LET pipe == <<"takion pipe", "seq num mutex", "key mutex">>
      sock == <<"sock">> \o pipe
      options == Else(<<Check("receive buffer"), Check("fragments")>>, sock)
  IN  IF given
      THEN Says(Else(<<Check("extra messages")>>, sock), "ok") \o options
      ELSE Else(<<Take("sock")>>, pipe) \o options \o Else(<<Check("connect")>>, sock)
TakionConnect(given) == Mutexes \o Socket(given) \o Says(Thread("takion thread"), "ok")

\* The thread closes the socket when it ends.
TakionClose == <<"takion thread", "sock", "takion pipe", "seq num mutex", "key mutex">>

(* chiaki_gkcrypt_new and _init; the local key has no buffer.                *)
GkcryptInit(buffered) ==
  LET keyBuf == <<"key buf", "gkcrypt">>
      mutex == <<"buf mutex">> \o keyBuf
      cond == IF buffered THEN <<"buf cond">> \o mutex ELSE <<"gkcrypt">>
  IN  <<Take("gkcrypt")>>
        \o (IF buffered THEN Else(<<Take("key buf")>>, <<"gkcrypt">>)
                               \o Else(Mutex("buf mutex"), keyBuf) \o Else(Cond("buf cond"), mutex)
                        ELSE <<>>)
        \o Else(<<Check("key")>>, cond)
        \o IF buffered THEN Else(Thread("key thread"), cond) ELSE <<>>
GkcryptFini(buffered) ==
  (IF buffered THEN <<"key thread", "buf cond", "buf mutex", "key buf">> ELSE <<>>)
    \o <<"gkcrypt">>

(* What a thread sends from: chiaki_feedback_sender_init.                   *)
FeedbackSenderInit ==
  LET buffer == <<"history buffer">>
      mutex == <<"feedback state mutex">> \o buffer
      cond == <<"feedback cond">> \o mutex
  IN  <<Take("history buffer")>> \o Else(Mutex("feedback state mutex"), buffer)
        \o Else(Cond("feedback cond"), mutex) \o Else(Thread("feedback thread"), cond)
FeedbackSenderFini ==
  <<"feedback thread", "feedback cond", "feedback state mutex", "history buffer">>

(* chiaki_takion_send_buffer_init. *)
SendBufferInit ==
  LET packets == <<"packets">>
      mutex == <<"buffer mutex">> \o packets
      cond == <<"buffer cond">> \o mutex
  IN  <<Take("packets")>> \o Else(Mutex("buffer mutex"), packets)
        \o Else(Cond("buffer cond"), mutex) \o Else(Thread("resend thread"), cond)
SendBufferFini == <<"resend thread", "buffer cond", "buffer mutex", "packets">>

(* chiaki_rudp_send_buffer_init, and chiaki_rudp_init around it.            *)
RudpSendBufferInit ==
  LET mutex == <<"buffer mutex">>
      packets == <<"packets">> \o mutex
      cond == <<"buffer cond">> \o packets
  IN  Mutex("buffer mutex") \o Else(<<Take("packets")>>, mutex)
        \o Else(Cond("buffer cond"), packets) \o Else(Thread("resend thread"), cond)
RudpSendBufferFini == <<"resend thread", "buffer cond", "buffer mutex", "packets">>
RudpInit ==
  LET rudp == <<"rudp">>
      mutex == <<"counter mutex">> \o rudp
      stopPipe == <<"rudp pipe">> \o mutex
  IN  <<Take("rudp")>> \o Else(Mutex("counter mutex"), rudp) \o Else(Pipe("rudp pipe"), mutex)
        \o Else(RudpSendBufferInit, stopPipe)
RudpFini == RudpSendBufferFini \o <<"counter mutex", "rudp pipe", "rudp">>

(* chiaki_congestion_control_start. *)
CongestionControlStart ==
  BoolPredCond("stop mutex", "stop cond")
    \o Else(Thread("congestion thread"), <<"stop cond", "stop mutex">>)
CongestionControlStopEarly == <<"stop cond", "stop mutex", "congestion thread">>
CongestionControlStop == <<"congestion thread", "stop cond", "stop mutex">>

(* chiaki_discovery_init, and a thread on it. *)
DiscoveryInit == <<Take("socket")>> \o Else(<<Check("bind")>>, <<"socket">>)
DiscoveryThreadStart == Pipe("pipe") \o Else(Thread("discovery thread"), <<"pipe">>)
DiscoveryThreadStop == <<"discovery thread", "pipe">>

(* chiaki_audio_sender_init keeps what it has when it fails.                *)
AudioSenderInit == <<Take("frame buf"), Take("packet buf")>> \o Mutex("audio mutex")
AudioSenderFini == <<"frame buf", "packet buf", "audio mutex">>

(* chiaki_holepunch_session_init asserts all but the allocations; its        *)
(* session and one mutex are never released.                               *)
Asserted ==
  <<"hole notif mutex", "hole notif cond", "hole notif pipe", "select pipe", "hole state mutex",
    "hole stop mutex", "hole state cond", "curl share">>
HolepunchInit ==
  <<Take("hole session"), Sure("oauth header")>>
    \o Else(<<Take("queue")>>, <<"hole session">>) \o [i \in DOMAIN Asserted |-> Sure(Asserted[i])]
HolepunchFini ==
  <<"oauth header", "curl share", "queue", "select pipe", "hole notif pipe", "hole notif mutex",
    "hole notif cond", "hole state mutex", "hole state cond">>
-----------------------------------------------------------------------------
(* The session of the application (sessionCreate): its log, the keys that    *)
(* are looked at, the decoders, the session of the library, and what Java    *)
(* is called back through.  Label "beach" releases the log alone, and only   *)
(* when there is no session.                                               *)
Log == <<Take("log")>> \o Else(<<Check("host"), Check("keys")>>, <<"log">>)
Decoders ==
  LET memory == <<"session", "log">>
  IN  Else(<<Take("session")>>, <<"log">>) \o Else(Mutex("video decoder"), memory)
        \o Else(Mutex("audio decoder"), <<"video decoder">> \o memory) \o <<Sure("audio output")>>
Library(init) ==
  Else(init, <<"video decoder", "audio decoder", "audio output", "session", "log">>)
    \o <<Sure("references")>>

(* Over PSN the console is looked up and the hole punched, when there is a   *)
(* session already.                                                        *)
Punching == <<Check("devices")>> \o Says(<<Check("device")>>, "ok") \o <<Take("hole")>>
SessionCreate == Log \o Decoders \o Library(SessionInitV6)
SessionCreatePsn ==
  Log \o Decoders \o <<Sure("holepunch")>> \o Library(SessionInit(<<"holepunch">>)) \o Punching
SessionFree(hole, host) ==
  SessionFini(hole, host)
    \o <<"video decoder", "audio decoder", "audio output", "references", "log", "session">>
-----------------------------------------------------------------------------
(* Everything that is created, how, and how it ends.                        *)
Course ==
  [session |-> SessionInit(<<>>), sessionPsn |-> SessionInit(<<"holepunch">>),
   sessionV6 |-> SessionInitV6, takion |-> TakionConnect(FALSE), takionPsn |-> TakionConnect(TRUE),
   remoteKey |-> GkcryptInit(TRUE), localKey |-> GkcryptInit(FALSE),
   feedback |-> FeedbackSenderInit, sendBuffer |-> SendBufferInit, rudp |-> RudpInit,
   congestion |-> CongestionControlStart,
   discovery |-> DiscoveryInit \o Else(DiscoveryThreadStart, <<"socket">>),
   audioSender |-> AudioSenderInit, holepunch |-> HolepunchInit,
   create |-> SessionCreate, createPsn |-> SessionCreatePsn]
End ==
  [session |-> SessionFini(<<>>, <<"host">>), sessionPsn |-> SessionFini(<<"holepunch">>, <<>>),
   sessionV6 |-> SessionFini(<<>>, <<"host">>), takion |-> TakionClose, takionPsn |-> TakionClose,
   remoteKey |-> GkcryptFini(TRUE), localKey |-> GkcryptFini(FALSE),
   feedback |-> FeedbackSenderFini, sendBuffer |-> SendBufferFini, rudp |-> RudpFini,
   congestion |-> CongestionControlStop, discovery |-> DiscoveryThreadStop \o <<"socket">>,
   audioSender |-> AudioSenderFini, holepunch |-> HolepunchFini,
   create |-> SessionFree(<<>>, <<"host">>),
   createPsn |-> <<"hole">> \o SessionFree(<<"holepunch">>, <<>>)]
Objects == DOMAIN Course

(* What the caller brings. *)
Given(o) == CASE o = "sessionPsn" -> {"holepunch"} [] o = "takionPsn" -> {"sock"} [] OTHER -> {}

Init ==
  /\ object \in Objects
  /\ at = 1 /\ held = Given(object) /\ releasing = <<>> /\ told = "nothing"
  /\ failed = "none" /\ attempts = 1 /\ over = {} /\ uses = {}

Here == Course[object][at]
Creating == told = "nothing" /\ at <= Len(Course[object])

Succeeds ==
  /\ Creating
  /\ held' = held \cup Here.takes
  /\ uses' = IF Here.takes \cap Threads # {} THEN held ELSE uses
  /\ at' = at + 1
  /\ UNCHANGED <<object, releasing, told, over, failed, attempts>>

Fails ==
  /\ Creating /\ Here.may
  /\ releasing' = Here.release /\ told' = Here.says /\ failed' = Here.name
  /\ UNCHANGED <<object, held, over, at, attempts, uses>>

(* Another attempt at the hole, with a new holepunch session.               *)
PunchAgain ==
  /\ Creating /\ Here.name = "hole" /\ attempts < PunchAttempts
  /\ over' = over \cup ({"holepunch"} \ held)
  /\ \/ held' = held \cup {"holepunch"} /\ UNCHANGED <<told, failed>>
     \/ held' = held \ {"holepunch"} /\ told' = "failed" /\ failed' = "holepunch"
  /\ attempts' = attempts + 1
  /\ UNCHANGED <<object, releasing, at, uses>>

Succeeded ==
  /\ told = "nothing" /\ at > Len(Course[object]) /\ told' = "ok"
  /\ UNCHANGED <<object, held, releasing, over, made>>

Releases ==
  /\ releasing # <<>>
  /\ releasing' = Tail(releasing)
  /\ held' = held \ {Head(releasing)}
  /\ over' = over \cup ({Head(releasing)} \ held)
  /\ UNCHANGED <<object, told, made>>

(* The caller that was told of a success ends it later. *)
Ends ==
  /\ told = "ok" /\ releasing = <<>>
  /\ told' = "over" /\ releasing' = End[object]
  /\ UNCHANGED <<object, held, over, made>>

Next == Succeeds \/ Fails \/ PunchAgain \/ Succeeded \/ Releases \/ Ends
Spec == Init /\ [][Next]_vars
-----------------------------------------------------------------------------
(* All that is taken by a creation, and by all of them. *)
Whole(o) == LET steps == Course[o] IN Given(o) \cup UNION {steps[i].takes : i \in DOMAIN steps}
Resources == UNION {Whole(o) : o \in Objects}

(* Type invariant: what is released is something that is taken.            *)
TypeOK ==
  /\ object \in Objects /\ at \in 1 .. Len(Course[object]) + 1
  /\ told \in {"nothing", "ok", "failed", "over"}
  /\ attempts \in 1 .. PunchAttempts
  /\ {releasing[i] : i \in DOMAIN releasing} \subseteq Resources

(* The failures after which the code does something else: the labels of      *)
(* chiaki_session_init_v6 (session.c:242), the success that Takion reports   *)
(* (takion.c:396) and the socket it was given and has not looked at yet, the  *)
(* session that is forgotten when no hole is punched (chiaki-jni.c:828), and  *)
(* allocations that are kept.                                              *)
Wrong(o) ==
  CASE o \in {"sessionV6", "create"} ->
         {"notif mutex", "notif pipe", "stream mutex", "stream cond", "packet stats",
          "feedback mutex"}
    [] o = "takion" -> {"takion pipe", "takion thread"}
    [] o = "takionPsn" -> {"key mutex", "seq num mutex", "takion pipe", "extra messages",
                           "takion thread"}
    [] o = "createPsn" -> {"devices", "device", "hole", "holepunch"}
    [] o = "audioSender" -> {"packet buf", "audio mutex"}
    [] o = "holepunch" -> {"queue"}
    [] OTHER -> {}
Kept(o) == IF o = "holepunch" THEN {"hole session", "hole stop mutex"} ELSE {}

(* However far a creation gets, what it took is released once and nothing    *)
(* else is; a success is told when everything is there; at the end nothing   *)
(* is left; and while a thread runs all that it was created with is there   *)
(* (session.c:346, streamconnection.c:109, takion.c:389, gkcrypt.c:87).      *)
CreationSound ==
  failed \notin Wrong(object) =>
    /\ over = {}
    /\ told = "ok" => held = Whole(object)
    /\ told = "failed" /\ releasing = <<>> => held = {}
    /\ told = "over" /\ releasing = <<>> => held = Kept(object)
    /\ held \cap Threads # {} => uses \subseteq held
=============================================================================
