------------------------ MODULE SessionStreamProofs ------------------------
(* Proofs about the stream connection and about Senkusha, the measurement   *)
(* before it, for every sequence of messages and every interleaving.        *)
EXTENDS SessionStream, TLAPS

(* What the stages of the run thread know: which state it has announced to  *)
(* the Takion thread, what a finished wait means in that state, and what    *)
(* the outcome it is on its way out with is founded on.                     *)
Ending == rpc \in {"closing", "closed", "done"}
Stages ==
  /\ rpc = "off" => state = "idle" /\ tpc = "off"
  /\ rpc = "connect" => state = "takionConnect"
  /\ rpc = "bang" => state = "expectBang"
  /\ rpc \in {"streaminfo", "fsInit"} => state = "expectStreaminfo"
  /\ rpc = "fsInit" => secret /\ streams
  /\ rpc \in {"beat", "fsFini"} => state = "idle" /\ ~finished /\ secret /\ streams
  /\ rpc = "fsFini" => shouldStop \/ remote
  /\ rpc \in {"closed", "done"} => tpc \in {"off", "done"}
Announced ==
  /\ state = "expectBang" /\ finished => secret
  /\ state = "expectStreaminfo" => secret /\ (finished => streams)
Outcomes ==
  Ending => /\ result # "none"
            /\ result = "failed" => state # "idle"
            /\ result \in {"success", "canceled"} => shouldStop
            /\ result = "disconnected" => remote

(* What is owned: the receivers while a thread may use them, congestion     *)
(* control but for the one way out, the feedback sender by its user.        *)
Owned ==
  /\ rpc \notin {"off", "done"} => receivers
  /\ rpc = "off" => ~cc
  /\ Ending /\ cc => shouldStop /\ state = "takionConnect"
  /\ FeedbackGuard

(* A message of the console is under way once at most, and a stream info    *)
(* only while it is still wanted.                                           *)
UnderWay(m) == msg = m \/ InChannel(m)
Once ==
  /\ channel \in Seq(Messages)
  /\ \A i, j \in 1 .. Len(channel) : channel[i] = channel[j] => i = j
  /\ \A i \in 1 .. Len(channel) : channel[i] # msg
Wanted ==
  /\ UnderWay("streaminfo") => ~early /\ ~streams /\ bigSent
  /\ bigSent => state # "takionConnect" /\ (state = "idle" => streams)
  /\ rpc = "off" => ~bigSent
  /\ ~dropped

(* The type invariant, one variable at a time.                              *)
Flags ==
  /\ finished \in BOOLEAN /\ shouldStop \in BOOLEAN /\ remote \in BOOLEAN /\ early \in BOOLEAN
  /\ secret \in BOOLEAN /\ streams \in BOOLEAN /\ receivers \in BOOLEAN /\ cc \in BOOLEAN
  /\ active \in BOOLEAN /\ bigSent \in BOOLEAN /\ dropped \in BOOLEAN /\ lateSend \in BOOLEAN
Values ==
  /\ rpc \in {"off", "connect", "bang", "streaminfo", "fsInit", "beat", "fsFini", "closing",
              "closed", "done"}
  /\ state \in {"idle", "takionConnect", "expectBang", "expectStreaminfo"}
  /\ result \in {"none", "success", "canceled", "disconnected", "failed"}
Handing ==
  /\ tpc \in {"off", "handshake", "loop", "handing", "ending", "done"}
  /\ msg \in Messages \cup {NoMsg} /\ apc \in {"idle", "setState"}
  /\ tpc = "handing" <=> msg # NoMsg

Progress == Stages /\ Announced /\ Outcomes /\ Owned /\ Wanted
RunInv == Flags /\ Values /\ Handing /\ Once /\ Progress

-----------------------------------------------------------------------------
(* The type of the channel as a sequence is used once and for all here.     *)
LEMMA ChannelAppend ==
  ASSUME NEW m \in Messages, channel \in Seq(Messages), channel' = Append(channel, m)
  PROVE  /\ channel' \in Seq(Messages) /\ Len(channel') = Len(channel) + 1
         /\ \A i \in 1 .. Len(channel) : channel'[i] = channel[i]
         /\ channel'[Len(channel) + 1] = m
OBVIOUS

LEMMA ChannelTail ==
  ASSUME channel \in Seq(Messages), channel # <<>>, channel' = Tail(channel)
  PROVE  /\ channel' \in Seq(Messages) /\ Len(channel') = Len(channel) - 1
         /\ 1 \in 1 .. Len(channel) /\ Head(channel) = channel[1] /\ Head(channel) \in Messages
         /\ \A i \in 1 .. Len(channel') : i + 1 \in 1 .. Len(channel) /\ channel'[i] = channel[i + 1]
OBVIOUS

LEMMA Typed == TypeOK <=> Flags /\ Values /\ Handing /\ channel \in Seq(Messages)
BY DEF TypeOK, Flags, Values, Handing

LEMMA RunInitInv == Init => RunInv
<1> SUFFICES ASSUME Init PROVE RunInv
  OBVIOUS
<1>1. Flags
  BY DEF Init, Flags
<1>2. Values /\ Handing
  BY DEF Init, Values, Handing, Messages, NoMsg
<1>3. Progress
  BY DEF Init, Progress, Stages, Announced, Outcomes, Ending, Owned, FeedbackGuard,
         Wanted, UnderWay, InChannel, NoMsg
<1>4. Once
  BY DEF Init, Once
<1> QED
  BY <1>1, <1>2, <1>3, <1>4 DEF RunInv

(* What a step that leaves the messages alone need not be asked about.      *)
LEMMA MessagesKept ==
  ASSUME Once, UNCHANGED <<msg, channel>>
  PROVE  Once' /\ (UnderWay("streaminfo")' <=> UnderWay("streaminfo"))
BY DEF Once, UnderWay, InChannel

(* The steps of the run thread leave the messages alone.                    *)
LEMMA RunThreadInv ==
  ASSUME RunInv, Run \/ RunThread \/ Heartbeat
  PROVE  RunInv'
<1>1. UNCHANGED <<msg, channel>>
  BY DEF RunThread, Run, Waited, ConnectStopped, ConnectTimeout, ConnectDone, GiveUp, BangDone,
         StreamInfoDone, FeedbackStart, BeatEnd, FeedbackEnd, Closed, Return, Heartbeat,
         takion
<1>2. Once' /\ (UnderWay("streaminfo")' <=> UnderWay("streaminfo"))
  BY <1>1, MessagesKept DEF RunInv
<1>3. Values'
  BY DEF RunInv, Values, RunThread, Run, Waited, ConnectStopped, ConnectTimeout, ConnectDone,
         GiveUp, BangDone, StreamInfoDone, FeedbackStart, BeatEnd, FeedbackEnd, Closed, Return,
         Heartbeat, Sends, Disconnecting, Outcome, thread
<1>4. Handing'
  BY DEF RunInv, Handing, Progress, Stages, RunThread, Run, Waited, ConnectStopped,
         ConnectTimeout, ConnectDone, GiveUp, BangDone, StreamInfoDone, FeedbackStart, BeatEnd,
         FeedbackEnd, Closed, Return, Heartbeat, takion
<1>5. Flags' /\ Progress'
  <2> USE <1>2 DEF RunInv, Flags, Progress, Stages, Announced, Outcomes, Ending, Owned,
          FeedbackGuard, Wanted, thread, takion, owned
  <2>1. CASE Run
    <3>1. Flags'
      BY <2>1 DEF Run
    <3>2. Progress'
      BY <2>1 DEF Run
    <3> QED
      BY <3>1, <3>2
  <2>2. CASE Waited
    <3>1. Flags'
      BY <2>2 DEF Waited, ConnectStopped
    <3>2. Progress'
      BY <2>2 DEF Waited, ConnectStopped
    <3> QED
      BY <3>1, <3>2
  <2>3. CASE ConnectTimeout
    <3>1. Flags'
      BY <2>3 DEF ConnectTimeout
    <3>2. Progress'
      BY <2>3 DEF ConnectTimeout
    <3> QED
      BY <3>1, <3>2
  <2>4. CASE ConnectDone
    <3>1. Flags'
      BY <2>4 DEF ConnectDone, Sends, Disconnecting, Outcome
    <3>2. Progress'
      BY <2>4 DEF ConnectDone, Sends, Disconnecting, Outcome
    <3> QED
      BY <3>1, <3>2
  <2>5. CASE GiveUp
    <3>1. Flags'
      BY <2>5 DEF GiveUp, Disconnecting, Outcome
    <3>2. Progress'
      BY <2>5 DEF GiveUp, Disconnecting, Outcome
    <3> QED
      BY <3>1, <3>2
  <2>6. CASE BangDone
    <3>1. PICK good \in {FALSE, early} :
             /\ finished' = good /\ streams' = (streams \/ good)
             /\ rpc' = IF good THEN "fsInit" ELSE "streaminfo"
             /\ lateSend' = (lateSend \/ (good /\ ~TakionRuns))
      BY <2>6 DEF BangDone
    <3>2. CASE good = FALSE
      <4>1. Flags'
        BY <2>6, <3>1, <3>2 DEF BangDone
      <4>2. Progress'
        BY <2>6, <3>1, <3>2 DEF BangDone
      <4> QED
        BY <4>1, <4>2
    <3>3. CASE good = TRUE
      <4>1. Flags'
        BY <2>6, <3>1, <3>3 DEF BangDone
      <4>2. Progress'
        BY <2>6, <3>1, <3>3 DEF BangDone
      <4> QED
        BY <4>1, <4>2
    <3> QED
      BY <3>2, <3>3
  <2>7. CASE StreamInfoDone
    <3>1. Flags'
      BY <2>7 DEF StreamInfoDone
    <3>2. Progress'
      BY <2>7 DEF StreamInfoDone
    <3> QED
      BY <3>1, <3>2
  <2>8. CASE FeedbackStart
    <3>1. Flags'
      BY <2>8 DEF FeedbackStart, Disconnecting, Outcome
    <3>2. Progress'
      BY <2>8 DEF FeedbackStart, Disconnecting, Outcome
    <3> QED
      BY <3>1, <3>2
  <2>9. CASE BeatEnd
    <3>1. Flags'
      BY <2>9 DEF BeatEnd, Pred
    <3>2. Progress'
      BY <2>9 DEF BeatEnd, Pred
    <3> QED
      BY <3>1, <3>2
  <2>10. CASE FeedbackEnd
    <3>1. Flags'
      BY <2>10 DEF FeedbackEnd, Disconnecting, Outcome
    <3>2. Progress'
      BY <2>10 DEF FeedbackEnd, Disconnecting, Outcome
    <3> QED
      BY <3>1, <3>2
  <2>11. CASE Closed
    <3>1. Flags'
      BY <2>11 DEF Closed
    <3>2. Progress'
      BY <2>11 DEF Closed
    <3> QED
      BY <3>1, <3>2
  <2>12. CASE Return
    <3>1. Flags'
      BY <2>12 DEF Return
    <3>2. Progress'
      BY <2>12 DEF Return
    <3> QED
      BY <3>1, <3>2
  <2>13. CASE Heartbeat
    <3>1. Flags'
      BY <2>13 DEF Heartbeat, Sends
    <3>2. Progress'
      BY <2>13 DEF Heartbeat, Sends
    <3> QED
      BY <3>1, <3>2
  <2> HIDE DEF RunInv, Flags, Progress
  <2> QED
    BY <2>1, <2>2, <2>3, <2>4, <2>5, <2>6, <2>7, <2>8, <2>9, <2>10, <2>11, <2>12, <2>13
    DEF RunThread
<1> QED
  BY <1>2, <1>3, <1>4, <1>5 DEF RunInv

(* Messages are handed over in order; one is under way until it was         *)
(* handled.                                                                 *)
LEMMA Received ==
  ASSUME RunInv, Receive
  PROVE  Once' /\ (UnderWay("streaminfo")' <=> UnderWay("streaminfo"))
<1>1. channel \in Seq(Messages) /\ channel # <<>> /\ channel' = Tail(channel)
      /\ msg' = Head(channel) /\ msg = NoMsg
  BY DEF RunInv, Once, Receive, Handing
<1>2. /\ channel' \in Seq(Messages) /\ Len(channel') = Len(channel) - 1
      /\ Len(channel) \in Nat /\ 1 \in 1 .. Len(channel) /\ msg' = channel[1]
      /\ \A i \in 1 .. Len(channel') : i + 1 \in 1 .. Len(channel) /\ channel'[i] = channel[i + 1]
  BY <1>1, ChannelTail
<1>3. Once'
  <2>1. \A i, j \in 1 .. Len(channel) : channel[i] = channel[j] => i = j
    BY DEF RunInv, Once
  <2>2. ASSUME NEW i \in 1 .. Len(channel'), NEW j \in 1 .. Len(channel'),
               channel'[i] = channel'[j]
        PROVE  i = j
    <3>1. i + 1 \in 1 .. Len(channel) /\ channel'[i] = channel[i + 1]
      BY <1>2
    <3>2. j + 1 \in 1 .. Len(channel) /\ channel'[j] = channel[j + 1]
      BY <1>2
    <3>3. i + 1 = j + 1
      BY <2>1, <2>2, <3>1, <3>2
    <3> QED
      BY <1>2, <3>3
  <2>3. ASSUME NEW i \in 1 .. Len(channel') PROVE channel'[i] # msg'
    <3>1. i + 1 \in 1 .. Len(channel) /\ channel'[i] = channel[i + 1] /\ i + 1 # 1
      BY <1>2
    <3> QED
      BY <1>2, <2>1, <3>1
  <2> QED
    BY <1>2, <2>2, <2>3 DEF Once
<1>4. InChannel("streaminfo") <=> (channel[1] = "streaminfo" \/ InChannel("streaminfo")')
  <2>1. ASSUME NEW i \in 1 .. Len(channel), channel[i] = "streaminfo", i # 1
        PROVE  InChannel("streaminfo")'
    <3>1. i - 1 \in 1 .. Len(channel') /\ channel'[i - 1] = channel[(i - 1) + 1]
      BY <1>2, <2>1
    <3> QED
      BY <2>1, <3>1 DEF InChannel
  <2> QED
    BY <1>2, <2>1 DEF InChannel
<1> QED
  BY <1>1, <1>2, <1>3, <1>4 DEF UnderWay, NoMsg

LEMMA HandedOver ==
  ASSUME RunInv, Handed
  PROVE  /\ Once' /\ (UnderWay("streaminfo")' => UnderWay("streaminfo"))
         /\ msg = "streaminfo" => ~UnderWay("streaminfo")'
BY DEF RunInv, Once, Handed, UnderWay, InChannel, Messages, NoMsg

LEMMA SentMessage ==
  ASSUME RunInv, NEW m \in Messages, ConsoleSends(m)
  PROVE  Once' /\ (UnderWay("streaminfo")' => UnderWay("streaminfo") \/ m = "streaminfo")
<1>1. channel \in Seq(Messages) /\ channel' = Append(channel, m) /\ msg' = msg
  BY DEF RunInv, Once, ConsoleSends
<1>2. /\ channel' \in Seq(Messages) /\ Len(channel') = Len(channel) + 1
      /\ Len(channel) \in Nat
      /\ \A i \in 1 .. Len(channel) : channel'[i] = channel[i]
      /\ channel'[Len(channel) + 1] = m
  BY <1>1, ChannelAppend
<1>3. msg # m /\ \A i \in 1 .. Len(channel) : channel[i] # m
  BY DEF ConsoleSends, InChannel
<1>4. \A i \in 1 .. Len(channel') : i \in 1 .. Len(channel) \/ i = Len(channel) + 1
  BY <1>2
<1> QED
  BY <1>1, <1>2, <1>3, <1>4 DEF RunInv, Once, UnderWay, InChannel

LEMMA TakionThreadInv ==
  ASSUME RunInv, TakionThread
  PROVE  RunInv'
<1>1. Once' /\ (UnderWay("streaminfo")' => UnderWay("streaminfo"))
  BY MessagesKept, Received, HandedOver
  DEF RunInv, TakionThread, Connected, TakionEnds, TakionDone, HandDisconnect, HandBang,
      HandStreaminfo
<1>2. Values'
  BY DEF RunInv, Values, TakionThread, Connected, TakionEnds, TakionDone, Receive,
         HandDisconnect, HandBang, HandStreaminfo, TakionUnchanged
<1>3. Handing'
  <2>1. CASE Receive
    <3>1. Head(channel) \in Messages
      BY <2>1, ChannelTail DEF RunInv, Once, Receive
    <3> QED
      BY <2>1, <3>1 DEF RunInv, Handing, Receive, TakionUnchanged, Messages, NoMsg
  <2>2. CASE Connected \/ TakionEnds \/ TakionDone
    BY <2>2 DEF RunInv, Handing, Connected, TakionEnds, TakionDone, TakionUnchanged
  <2>3. CASE HandDisconnect \/ HandBang \/ HandStreaminfo
    BY <2>3 DEF RunInv, Handing, Handed, HandDisconnect, HandBang, HandStreaminfo,
                TakionUnchanged
  <2> QED
    BY <2>1, <2>2, <2>3 DEF TakionThread
<1>4. Flags' /\ Progress'
  <2> USE <1>1 DEF RunInv, Flags, Progress, Stages, Announced, Outcomes, Ending, Owned,
          FeedbackGuard, Wanted, TakionUnchanged, StateFree
  <2>1. CASE Connected
    <3>1. Flags'
      BY <2>1 DEF Connected
    <3>2. Progress'
      BY <2>1 DEF Connected
    <3> QED
      BY <3>1, <3>2
  <2>2. CASE TakionEnds
    <3>1. Flags'
      BY <2>2 DEF TakionEnds
    <3>2. Progress'
      BY <2>2 DEF TakionEnds
    <3> QED
      BY <3>1, <3>2
  <2>3. CASE TakionDone
    <3>1. Flags'
      BY <2>3 DEF TakionDone
    <3>2. Progress'
      BY <2>3 DEF TakionDone
    <3> QED
      BY <3>1, <3>2
  <2>4. CASE Receive
    <3>1. Flags'
      BY <2>4 DEF Receive
    <3>2. Progress'
      BY <2>4 DEF Receive
    <3> QED
      BY <3>1, <3>2
  <2>5. CASE HandDisconnect
    <3>1. Flags'
      BY <2>5 DEF HandDisconnect, Handed
    <3>2. Progress'
      BY <2>5 DEF HandDisconnect, Handed
    <3> QED
      BY <3>1, <3>2
  <2>6. CASE HandBang
    <3>1. Flags'
      BY <2>6 DEF HandBang, Handed
    <3>2. Progress'
      BY ZenonT(60), <2>6 DEF HandBang, Handed
    <3> QED
      BY <3>1, <3>2
  <2>7. CASE HandStreaminfo
    <3>1. Flags'
      BY ZenonT(60), <2>7 DEF HandStreaminfo, Handed
    <3>2. Progress'
      BY <2>7, HandedOver DEF HandStreaminfo, Handed, UnderWay
    <3> QED
      BY <3>1, <3>2
  <2> HIDE DEF RunInv, Flags, Progress
  <2> QED
    BY <2>1, <2>2, <2>3, <2>4, <2>5, <2>6, <2>7 DEF TakionThread
<1> QED
  BY <1>1, <1>2, <1>3, <1>4 DEF RunInv

LEMMA OthersInv ==
  ASSUME RunInv, Stop \/ SetState \/ SetStateDone \/ \E m \in Messages : ConsoleSends(m)
  PROVE  RunInv'
<1>1. ASSUME NEW m \in Messages, ConsoleSends(m) PROVE RunInv'
  <2>1. Once' /\ (UnderWay("streaminfo")' => UnderWay("streaminfo") \/ m = "streaminfo")
    BY <1>1, SentMessage
  <2>2. Flags' /\ Values' /\ Handing'
    BY <1>1 DEF RunInv, Flags, Values, Handing, ConsoleSends, thread, owned
  <2>3. m = "streaminfo" => ~early /\ ~streams /\ bigSent
    BY <1>1 DEF ConsoleSends
  <2>4. Progress'
    BY <1>1, <2>1, <2>3
    DEF RunInv, Progress, Stages, Announced, Outcomes, Ending, Owned, FeedbackGuard, Wanted,
        ConsoleSends, thread, owned
  <2> QED
    BY <2>1, <2>2, <2>4 DEF RunInv
<1>2. CASE Stop \/ SetState \/ SetStateDone
  <2>1. Once' /\ (UnderWay("streaminfo")' <=> UnderWay("streaminfo"))
    BY <1>2, MessagesKept DEF RunInv, Stop, SetState, SetStateDone, takion
  <2>2. Flags' /\ Values' /\ Handing'
    <3>1. Flags'
      <4>1. CASE Stop
        BY <4>1 DEF RunInv, Flags, Stop, thread, owned
      <4>2. CASE SetState \/ SetStateDone
        BY <4>2 DEF RunInv, Flags, SetState, SetStateDone, thread, owned
      <4> QED
        BY <1>2, <4>1, <4>2
    <3>2. Values' /\ Handing'
      BY <1>2 DEF RunInv, Values, Handing, Stop, SetState, SetStateDone, thread, takion
    <3> QED
      BY <3>1, <3>2
  <2>3. Progress'
    BY <1>2, <2>1
    DEF RunInv, Flags, Progress, Stages, Announced, Outcomes, Ending, Owned, FeedbackGuard,
        Wanted, Stop, SetState, SetStateDone, thread, owned, takion
  <2> QED
    BY <2>1, <2>2, <2>3 DEF RunInv
<1> QED
  BY <1>1, <1>2

LEMMA StepInv == RunInv /\ [Next]_vars => RunInv'
<1> SUFFICES ASSUME RunInv, [Next]_vars PROVE RunInv'
  OBVIOUS
<1>1. CASE UNCHANGED vars
  BY <1>1 DEF vars, RunInv, Flags, Values, Handing, Once, Progress, Stages, Announced, Outcomes,
              Ending, Owned, FeedbackGuard, Wanted, UnderWay, InChannel
<1> QED
  BY <1>1, RunThreadInv, TakionThreadInv, OthersInv DEF Next

LEMMA RunInvHolds == Spec => []RunInv
  BY RunInitInv, StepInv, PTL DEF Spec

-----------------------------------------------------------------------------
(* The stream connection by itself: its types.                              *)
THEOREM TypeCorrect == Spec => []TypeOK
<1>1. RunInv => TypeOK
  BY Typed DEF RunInv, Once
<1> QED
  BY <1>1, RunInvHolds, PTL

(* Nothing is reported connected before the encryption and the streams are  *)
(* known, and no early stream info is lost (streamconnection.c:237-330,     *)
(* :815-836), in whatever order messages, timeouts and stops come.          *)
THEOREM HandshakeHolds == Spec => []HandshakeSound
<1>1. RunInv => HandshakeSound
  BY DEF RunInv, Progress, Stages, Wanted, HandshakeSound, HandshakeComplete, EarlyKept
<1> QED
  BY <1>1, RunInvHolds, PTL

(* Nothing is torn down under a thread that uses it.                        *)
THEOREM TeardownHolds == Spec => []TeardownOrder
<1>1. RunInv => TeardownOrder
  BY DEF RunInv, Progress, Stages, Owned, Ending, TeardownOrder, ReceiversAlive, FeedbackGuard,
         CongestionStopped, TakionRuns
<1> QED
  BY <1>1, RunInvHolds, PTL

-----------------------------------------------------------------------------
(* The refinement: each step is a step of what run promises, or none.       *)
LEMMA RefineInit == Init => Promise!Init
BY DEF Init, Promise!Init

LEMMA RefineRunThread ==
  ASSUME RunInv, RunInv', Run \/ RunThread \/ Heartbeat
  PROVE  [Promise!Next]_(Promise!vars)
<1> USE DEF RunInv, Progress, Stages, Outcomes, Ending, Values
<1>1. CASE Run
  <2>1. Promise!Start
    BY <1>1 DEF Run, Promise!Start
  <2> QED
    BY <2>1 DEF Promise!Next
<1>2. CASE FeedbackStart /\ state' = "idle"
  <2>1. Promise!Connect
    BY <1>2 DEF FeedbackStart, Promise!Connect, Disconnecting
  <2> QED
    BY <2>1 DEF Promise!Next
<1>3. CASE Return
  <2>1. result \in Promise!Results
    BY DEF Promise!Results
  <2>2. Promise!Return(result)
    BY <1>3 DEF Return, Promise!Return, Promise!Active, Promise!Allowed
  <2> QED
    BY <2>1, <2>2 DEF Promise!Next
<1>4. CASE Waited \/ ConnectTimeout \/ ConnectDone \/ GiveUp \/ BangDone \/ StreamInfoDone
  BY <1>4 DEF Waited, ConnectStopped, ConnectTimeout, ConnectDone, GiveUp, BangDone,
              StreamInfoDone, Disconnecting, Promise!vars
<1>5. CASE (FeedbackStart /\ state' # "idle") \/ BeatEnd \/ FeedbackEnd \/ Closed \/ Heartbeat
  BY ZenonT(60), <1>5 DEF FeedbackStart, BeatEnd, FeedbackEnd, Closed, Heartbeat, Disconnecting, thread,
              Promise!vars
<1> QED
  BY <1>1, <1>2, <1>3, <1>4, <1>5 DEF RunThread

LEMMA RefineOthers ==
  ASSUME RunInv, TakionThread \/ Stop \/ SetState \/ SetStateDone
                 \/ \E m \in Messages : ConsoleSends(m)
  PROVE  [Promise!Next]_(Promise!vars)
<1> USE DEF RunInv, Progress, Stages, Handing
<1>1. CASE HandDisconnect
  <2>1. Promise!RemoteDisconnect \/ Promise!LateDisconnect
    BY <1>1 DEF HandDisconnect, Handed, TakionUnchanged, Promise!RemoteDisconnect,
                Promise!LateDisconnect, Promise!Active
  <2> QED
    BY <2>1 DEF Promise!Next
<1>2. CASE Stop
  <2>1. Promise!Stop
    BY <1>2 DEF Stop, Promise!Stop, thread
  <2> QED
    BY <2>1 DEF Promise!Next
<1>3. CASE Connected \/ TakionEnds \/ TakionDone \/ Receive \/ HandBang \/ HandStreaminfo
  BY <1>3 DEF Connected, TakionEnds, TakionDone, Receive, HandBang, HandStreaminfo,
              TakionUnchanged, Promise!vars
<1>4. CASE SetState \/ SetStateDone \/ \E m \in Messages : ConsoleSends(m)
  BY <1>4 DEF SetState, SetStateDone, ConsoleSends, thread, Promise!vars
<1> QED
  BY <1>1, <1>2, <1>3, <1>4 DEF TakionThread

(* The stream connection keeps what chiaki_stream_connection_run promises   *)
(* its caller: it fails only before it is connected, and is stopped or      *)
(* disconnected only if it was told so.                                     *)
THEOREM KeepsPromise == Spec => StreamRunSpec
<1>1. RunInv /\ RunInv' /\ [Next]_vars => [Promise!Next]_(Promise!vars)
  <2> SUFFICES ASSUME RunInv, RunInv', [Next]_vars PROVE [Promise!Next]_(Promise!vars)
    OBVIOUS
  <2>1. CASE UNCHANGED vars
    BY <2>1 DEF vars, Promise!vars
  <2> QED
    BY <2>1, RefineRunThread, RefineOthers DEF Next
<1> QED
  BY <1>1, RefineInit, RunInvHolds, PTL DEF Spec, StreamRunSpec, Promise!Spec

-----------------------------------------------------------------------------
(* Senkusha.  Its types, the parts of it that are counted apart.            *)
MPlaces ==
  /\ pc \in Measure!Waits \cup {"off", "disconnect", "close", "done"}
  /\ err \in {"none", "success", "timeout", "failed"}
MAnswers ==
  /\ n \in {0, 1} /\ answered \in BOOLEAN
  /\ want \in Measure!Kinds \X {0, 1} /\ air \subseteq Measure!Kinds \X {0, 1}
MNoted == lossy \in BOOLEAN /\ refused \in BOOLEAN
MPings ==
  /\ ping \in Nat /\ pongs \in Nat /\ pongs <= ping /\ ping <= Pings
  /\ pc = "ping" => ping < Pings

(* The bounds of the search: they are bounds while it is on, and each       *)
(* probe but the first lies strictly between them.                          *)
Seeking == pc \in {"mtuIn", "mtuOut"}
Bounds ==
  /\ lo \in Nat /\ cur \in Nat /\ hi \in Nat /\ lo <= cur /\ cur <= hi /\ hi <= MaxMtu
  /\ tries \in Nat /\ tries <= Retries
  /\ Seeking => MinMtu <= lo
  /\ pathIn \in Nat /\ pathOut \in Nat /\ mtuIn \in Nat /\ mtuOut \in Nat
  /\ pc \in {"clientMtu", "mtuOut"} => MinMtu <= mtuIn /\ mtuIn <= MaxMtu

(* What a probe waits for cannot be confused with what the wait before      *)
(* waited for, so an answer means that the present size passes.             *)
Asked ==
  /\ pc = "echoOff" => want = <<"ack", n>>
  /\ pc = "mtuIn" => want = <<"mtu", n>>
  /\ pc = "clientMtu" => want = <<"clientMtu", 1>>
  /\ pc = "mtuOut" => want = <<"pong", n>>
Answerable == answered \/ want \in air
Passing ==
  /\ pc = "mtuIn" /\ Answerable => cur <= pathIn
  /\ pc = "mtuOut" /\ Answerable => cur <= pathOut

(* The upper bound is a size that does not pass, or the largest of all,     *)
(* which is tried first (inbound) or never (outbound).                      *)
Faithful == ~refused /\ ~lossy
Upper ==
  /\ pc = "mtuIn" /\ Faithful => pathIn < hi \/ (hi = MaxMtu /\ cur = MaxMtu)
  /\ pc = "mtuOut" /\ Faithful /\ mtuIn = MaxMtu =>
       pathOut < hi \/ (hi = MaxMtu /\ cur = MaxMtu)
  /\ pc = "mtuOut" /\ mtuIn < MaxMtu =>
       cur < hi /\ (Faithful => pathOut < hi \/ hi = MaxMtu)
Found ==
  /\ ~refused => mtuIn <= Measure!Largest(pathIn) /\ mtuOut <= Measure!Largest(pathOut)
  /\ ~refused /\ pc = "mtuIn" => lo <= Measure!Largest(pathIn)
  /\ ~refused /\ pc = "mtuOut" => lo <= Measure!Largest(pathOut)
  /\ Measure!MtuExact
  /\ pc \notin {"final", "disconnect", "close", "done"} => mtuOut = 0
Results == Bounds /\ Passing /\ Upper /\ Found

MInv == MPlaces /\ MAnswers /\ MNoted /\ MPings /\ Asked /\ Results

LEMMA MInit == Measure!Init => MInv
<1> SUFFICES ASSUME Measure!Init PROVE MInv
  OBVIOUS
<1> USE MtuAssumption DEF Measure!Init
<1>1. MPlaces /\ MNoted
  BY DEF MPlaces, MNoted
<1>2. MAnswers
  BY DEF MAnswers, Measure!Kinds
<1>3. MPings /\ Asked
  BY DEF MPings, Asked
<1>4. Bounds /\ Passing /\ Upper
  BY DEF Bounds, Passing, Upper, Seeking
<1>5. Found
  BY DEF Found, Measure!MtuExact, Measure!Largest, Measure!LargestOut
<1> QED
  BY <1>1, <1>2, <1>3, <1>4, <1>5 DEF MInv, Results

(* How the search halves what is left.                                      *)
LEMMA Middle ==
  ASSUME NEW a \in Nat, NEW b \in Nat, a <= b
  PROVE  /\ a + (b - a) \div 2 \in Nat
         /\ a <= a + (b - a) \div 2 /\ a + (b - a) \div 2 <= b
         /\ b > a + 1 => a + (b - a) \div 2 < b
         /\ ~(b > a + 1) => b <= a + 1
BY SMT

(* Steps that leave the search alone.                                       *)
quiet == <<lo, hi, cur, tries, mtuIn, mtuOut, pathIn, pathOut, lossy, refused>>
LEMMA Undisturbed ==
  ASSUME MInv, UNCHANGED quiet, pc' \notin {"mtuIn", "clientMtu", "mtuOut"},
         mtuOut = 0 \/ pc' \in {"final", "disconnect", "close", "done"}
  PROVE  Results'
<1> USE DEF MInv, Results, quiet
<1>1. Bounds'
  BY DEF Bounds, Seeking
<1>2. Passing' /\ Upper'
  BY DEF Passing, Upper
<1>3. Measure!MtuExact'
  BY DEF Found, Measure!MtuExact, Measure!Largest, Measure!LargestOut
<1>4. Found'
  BY <1>3 DEF Found, Measure!Largest
<1> QED
  BY <1>1, <1>2, <1>4

LEMMA AskingPlain ==
  ASSUME MInv, NEW p, NEW kind \in Measure!Kinds, Measure!Ask(p, kind, 0, TRUE), n' = n
  PROVE  pc' = p /\ want' = <<kind, 0>> /\ MAnswers'
<1>1. pc' = p /\ want' = <<kind, 0>> /\ answered' = FALSE
  BY DEF Measure!Ask
<1>2. air' \subseteq air \cup {want'}
  BY DEF Measure!Ask
<1>3. want' \in Measure!Kinds \X {0, 1}
  BY <1>1
<1> QED
  BY <1>1, <1>2, <1>3 DEF MInv, MAnswers

LEMMA AskingAcked ==
  ASSUME MInv, NEW p, Measure!AskAcked(p)
  PROVE  pc' = p /\ want' = <<"ack", n'>> /\ MAnswers'
<1>1. pc' = p /\ want' = <<"ack", n'>> /\ answered' = FALSE /\ n' = 1 - n
  BY DEF Measure!AskAcked, Measure!Ask, Measure!Fresh
<1>2. air' \subseteq air \cup {want'}
  BY DEF Measure!AskAcked, Measure!Ask
<1>3. n' \in {0, 1}
  BY <1>1 DEF MInv, MAnswers
<1>4. want' \in Measure!Kinds \X {0, 1}
  BY <1>1, <1>3 DEF Measure!Kinds
<1> QED
  BY <1>1, <1>2, <1>3, <1>4 DEF MInv, MAnswers

LEMMA Pinging ==
  ASSUME MInv, Measure!SendPing
  PROVE  pc' = "ping" /\ MAnswers'
<1>1. pc' = "ping" /\ want' = <<"pong", n'>> /\ answered' = FALSE /\ n' = 1 - n
  BY DEF Measure!SendPing, Measure!Ask, Measure!Fresh
<1>2. air' \subseteq air \cup {want'}
  BY DEF Measure!SendPing, Measure!Ask
<1>3. n' \in {0, 1}
  BY <1>1 DEF MInv, MAnswers
<1>4. want' \in Measure!Kinds \X {0, 1}
  BY <1>1, <1>3 DEF Measure!Kinds
<1> QED
  BY <1>1, <1>2, <1>3, <1>4 DEF MInv, MAnswers

LEMMA Leaving ==
  ASSUME MInv, NEW p, NEW e, Measure!Leave(p, e)
  PROVE  pc' = p /\ err' = e /\ MAnswers'
BY DEF Measure!Leave, MInv, MAnswers

LEMMA HandshakeStep ==
  ASSUME MInv, Measure!Connect \/ Measure!Handshake
  PROVE  MInv'
<1>1. /\ pc' \in {"connect", "version", "bang", "echoOn", "close", "disconnect", "done"}
      /\ MPlaces' /\ MAnswers' /\ UNCHANGED Measure!results
  <2>1. CASE Measure!Connect
    <3>1. CASE Measure!Ask("connect", "connected", 0, TRUE) /\ UNCHANGED <<n, err>>
      <4>1. pc' = "connect" /\ MAnswers'
        BY <3>1, AskingPlain DEF Measure!Kinds
      <4> QED
        BY <2>1, <3>1, <4>1 DEF Measure!Connect, MInv, MPlaces, Measure!Waits
    <3>2. CASE Measure!Leave("done", "failed")
      BY <2>1, <3>2, Leaving DEF Measure!Connect, MInv, MPlaces
    <3> QED
      BY <2>1, <3>1, <3>2 DEF Measure!Connect
  <2>2. CASE Measure!Handshake
    <3>1. PICK e \in {"success", "timeout"} :
            \/ Measure!Leave("close", e)
            \/ Measure!Leave(IF pc = "bang" THEN "disconnect" ELSE "close", "failed")
            \/ /\ UNCHANGED err
               /\ \/ Measure!Ask("version", "protocolAck", 0, TRUE) /\ UNCHANGED n
                  \/ Measure!Ask("bang", "bang", 0, TRUE) /\ UNCHANGED n
                  \/ Measure!AskAcked("echoOn")
      BY <2>2 DEF Measure!Handshake
    <3>2. /\ pc' \in {"version", "bang", "echoOn", "close", "disconnect"} /\ MAnswers'
          /\ err' \in {err, e, "failed"}
      <4>1. CASE Measure!Leave("close", e)
        BY <4>1, Leaving
      <4>2. CASE Measure!Leave(IF pc = "bang" THEN "disconnect" ELSE "close", "failed")
        BY <4>2, Leaving
      <4>3. CASE Measure!Ask("version", "protocolAck", 0, TRUE) /\ UNCHANGED <<n, err>>
        BY <4>3, AskingPlain DEF Measure!Kinds
      <4>4. CASE Measure!Ask("bang", "bang", 0, TRUE) /\ UNCHANGED <<n, err>>
        BY <4>4, AskingPlain DEF Measure!Kinds
      <4>5. CASE Measure!AskAcked("echoOn") /\ UNCHANGED err
        BY <4>5, AskingAcked
      <4> QED
        BY <3>1, <4>1, <4>2, <4>3, <4>4, <4>5
    <3> QED
      BY <2>2, <3>2 DEF Measure!Handshake, MInv, MPlaces, Measure!Waits
  <2> QED
    BY <2>1, <2>2
<1>2. UNCHANGED quiet /\ MNoted' /\ MPings'
  BY <1>1 DEF Measure!results, Measure!search, quiet, MInv, MNoted, MPings
<1>3. mtuOut = 0
  BY DEF Measure!Connect, Measure!Handshake, MInv, Results, Found
<1> QED
  BY <1>1, <1>2, <1>3, Undisturbed DEF MInv, Asked

LEMMA PingStep ==
  ASSUME MInv, Measure!EchoOn \/ Measure!Pong
  PROVE  MInv'
<1> USE MtuAssumption
<1>1. /\ pc' \in {"ping", "echoOff", "disconnect"} /\ (pc' = "echoOff" => want' = <<"ack", n'>>)
      /\ MPlaces' /\ MAnswers' /\ MPings'
  <2>1. CASE Measure!EchoOn
    <3>1. PICK e \in {"success", "timeout"} :
            \/ Measure!SendPing /\ UNCHANGED err
            \/ Measure!Leave("disconnect", IF e = "success" THEN "failed" ELSE e)
      BY <2>1 DEF Measure!EchoOn
    <3>2. pc' \in {"ping", "disconnect"} /\ MAnswers' /\ err' \in {err, e, "failed"}
      <4>1. CASE Measure!SendPing /\ UNCHANGED err
        BY <4>1, Pinging
      <4>2. CASE Measure!Leave("disconnect", IF e = "success" THEN "failed" ELSE e)
        BY <4>2, Leaving
      <4> QED
        BY <3>1, <4>1, <4>2
    <3> QED
      BY <2>1, <3>2 DEF Measure!EchoOn, MInv, MPlaces, Measure!Waits, MPings
  <2>2. CASE Measure!Pong
    <3>1. CASE ping + 1 < Pings /\ Measure!SendPing /\ UNCHANGED err
      <4>1. pc' = "ping" /\ MAnswers'
        BY <3>1, Pinging
      <4> QED
        BY <2>2, <3>1, <4>1 DEF Measure!Pong, MInv, MPlaces, Measure!Waits, MPings
    <3>2. CASE Measure!AskAcked("echoOff") /\ UNCHANGED err
      <4>1. pc' = "echoOff" /\ want' = <<"ack", n'>> /\ MAnswers'
        BY <3>2, AskingAcked
      <4> QED
        BY <2>2, <3>2, <4>1 DEF Measure!Pong, MInv, MPlaces, Measure!Waits, MPings
    <3>3. CASE Measure!Leave("disconnect", "failed")
      <4>1. pc' = "disconnect" /\ err' = "failed" /\ MAnswers'
        BY <3>3, Leaving
      <4> QED
        BY <2>2, <4>1 DEF Measure!Pong, MInv, MPlaces, Measure!Waits, MPings
    <3> QED
      BY <2>2, <3>1, <3>2, <3>3 DEF Measure!Pong
  <2> QED
    BY <2>1, <2>2
<1>2. UNCHANGED quiet /\ MNoted'
  BY DEF Measure!EchoOn, Measure!Pong, Measure!search, quiet, MInv, MNoted
<1>3. mtuOut = 0
  BY DEF Measure!EchoOn, Measure!Pong, MInv, Results, Found
<1> QED
  BY <1>1, <1>2, <1>3, Undisturbed DEF MInv, Asked

LEMMA EchoOffStep ==
  ASSUME MInv, Measure!EchoOff
  PROVE  MInv'
<1> USE MtuAssumption
<1>1. PICK e \in {"success", "timeout"} :
        \/ /\ lo' = MinMtu /\ hi' = MaxMtu /\ cur' = MaxMtu /\ tries' = 0 /\ UNCHANGED err
           /\ Measure!ProbeIn(MaxMtu)
        \/ Measure!Leave("disconnect", IF e = "success" THEN "failed" ELSE e) /\ UNCHANGED Measure!search
  BY DEF Measure!EchoOff
<1>2. /\ pc = "echoOff" /\ ping' = 0 /\ pongs' = 0 /\ mtuOut = 0 /\ n \in {0, 1}
      /\ want = <<"ack", n>>
      /\ UNCHANGED <<mtuIn, mtuOut, pathIn, pathOut, lossy, refused>>
  BY DEF Measure!EchoOff, MInv, MAnswers, Asked, Results, Found
<1>3. MNoted' /\ MPings'
  BY <1>2 DEF MInv, MNoted, MPings
<1>4. CASE Measure!Leave("disconnect", IF e = "success" THEN "failed" ELSE e) /\ UNCHANGED Measure!search
  <2>1. pc' = "disconnect" /\ err' \in {e, "failed"} /\ MAnswers'
    BY <1>4, Leaving
  <2>2. Results'
    BY <1>2, <1>4, <2>1, Undisturbed DEF quiet, Measure!search
  <2> QED
    BY <1>3, <2>1, <2>2 DEF MInv, MPlaces, Asked
<1>5. CASE /\ lo' = MinMtu /\ hi' = MaxMtu /\ cur' = MaxMtu /\ tries' = 0 /\ UNCHANGED err
           /\ Measure!ProbeIn(MaxMtu)
  <2>1. /\ pc' = "mtuIn" /\ want' = <<"mtu", n'>> /\ answered' = FALSE /\ n' = 1 - n
    BY <1>5 DEF Measure!ProbeIn, Measure!Ask, Measure!Fresh
  <2>2. air' \subseteq {want} \cup IF MaxMtu <= pathIn THEN {want'} ELSE {}
    BY <1>5 DEF Measure!ProbeIn, Measure!Ask, Measure!Fresh
  <2>3. want' # want
    BY <1>2, <2>1
  <2>4. MPlaces' /\ Asked'
    BY <1>5, <2>1 DEF MInv, MPlaces, Asked, Measure!Waits
  <2>5. MAnswers'
    <3>1. want' \in Measure!Kinds \X {0, 1}
      BY <1>2, <2>1 DEF Measure!Kinds
    <3> QED
      BY <1>2, <2>1, <2>2, <3>1 DEF MInv, MAnswers
  <2>6. Bounds'
    BY <1>2, <1>5, <2>1 DEF MInv, Results, Bounds, Seeking
  <2>7. Passing'
    BY <1>2, <1>5, <2>1, <2>2, <2>3 DEF Passing, Answerable
  <2>8. Upper'
    BY <1>5, <2>1 DEF Upper
  <2>9. Found'
    <3>1. Measure!MtuExact'
      BY <1>2 DEF MInv, Results, Found, Measure!MtuExact, Measure!Largest, Measure!LargestOut
    <3> QED
      BY <1>2, <1>5, <2>1, <3>1 DEF MInv, Results, Bounds, Found, Measure!Largest
  <2> QED
    BY <1>3, <2>4, <2>5, <2>6, <2>7, <2>8, <2>9 DEF MInv, Results
<1> QED
  BY <1>1, <1>4, <1>5

(* Narrowing: what is left of the search, and what is known of its ends.    *)
LEMMA Narrowing ==
  ASSUME MInv, Seeking, NEW e, Measure!Narrowed(e)
  PROVE  /\ lo' \in Nat /\ cur' \in Nat /\ hi' \in Nat /\ lo' <= cur' /\ cur' <= hi'
         /\ hi' <= MaxMtu /\ MinMtu <= lo' /\ tries' = 0
         /\ lo' <= hi' /\ Measure!Searching => cur' < hi'
         /\ ~Measure!Searching => hi' <= lo' + 1
         /\ \/ (answered \/ e # "timeout") /\ lo' = cur /\ hi' = hi
            \/ ~answered /\ e = "timeout" /\ lo' = lo /\ hi' = cur
<1> USE MtuAssumption
<1>1. /\ lo \in Nat /\ cur \in Nat /\ hi \in Nat /\ lo <= cur /\ cur <= hi
      /\ hi <= MaxMtu /\ MinMtu <= lo
  BY DEF MInv, Results, Bounds, Seeking
<1>2. /\ \/ (answered \/ e # "timeout") /\ lo' = cur /\ hi' = hi
         \/ ~answered /\ e = "timeout" /\ lo' = lo /\ hi' = cur
      /\ cur' = lo' + (hi' - lo') \div 2 /\ tries' = 0
  BY DEF Measure!Narrowed, Measure!Counted
<1>3. lo' \in Nat /\ hi' \in Nat /\ lo' <= hi' /\ hi' <= MaxMtu /\ MinMtu <= lo'
  <2>1. CASE lo' = cur /\ hi' = hi
    BY <1>1, <2>1
  <2>2. CASE lo' = lo /\ hi' = cur
    BY <1>1, <2>2
  <2> QED
    BY <1>2, <2>1, <2>2
<1>4. /\ cur' \in Nat /\ lo' <= cur' /\ cur' <= hi'
      /\ hi' > lo' + 1 => cur' < hi'
      /\ ~(hi' > lo' + 1) => hi' <= lo' + 1
  BY <1>2, <1>3, Middle
<1> QED
  BY <1>2, <1>3, <1>4 DEF Measure!Searching

(* What a wait that is over says of the size that was tried.                *)
LEMMA Tried ==
  ASSUME MInv, NEW path \in Nat, NEW e,
         Measure!Woken(e), Measure!Noted(e, cur <= path), answered => cur <= path
  PROVE  /\ MNoted' /\ (Faithful' => Faithful) /\ (~refused' => ~refused)
         /\ (answered \/ e # "timeout") /\ ~refused' => cur <= path
         /\ ~answered /\ e = "timeout" /\ Faithful' => path < cur
<1>1. answered \in BOOLEAN /\ lossy \in BOOLEAN /\ refused \in BOOLEAN /\ cur \in Nat
  BY DEF MInv, MAnswers, MNoted, Results, Bounds
<1>2. e \in {"success", "timeout", "unknown"} /\ (e = "success" => answered)
  BY DEF Measure!Woken, Measure!TimedOut
<1>3. /\ lossy' \in BOOLEAN /\ (~lossy' => ~lossy)
      /\ ~lossy' => answered \/ e # "timeout" \/ ~(cur <= path)
  BY <1>1 DEF Measure!Noted
<1>4. refused' \in BOOLEAN /\ (~refused' => ~refused /\ e # "unknown")
  BY <1>1 DEF Measure!Noted
<1>5. ~(cur <= path) <=> path < cur
  BY <1>1
<1> QED
  BY <1>1, <1>2, <1>3, <1>4, <1>5 DEF MNoted, Faithful

LEMMA Converged ==
  ASSUME NEW a \in Nat, NEW b \in Nat, NEW path \in Nat, b <= a + 1, b <= MaxMtu,
         MinMtu <= a, a <= b, path < b \/ a = MaxMtu, a <= Measure!Largest(path)
  PROVE  a = Measure!Largest(path)
<1>1. MinMtu \in Nat /\ MaxMtu \in Nat /\ MinMtu < MaxMtu
  BY MtuAssumption
<1>2. CASE path < b
  <2>1. path <= a /\ path < MaxMtu
    BY <1>1, <1>2
  <2> QED
    BY <1>1, <2>1 DEF Measure!Largest
<1>3. CASE a = MaxMtu
  BY <1>1, <1>3 DEF Measure!Largest
<1> QED
  BY <1>2, <1>3

LEMMA ConvergedBelow ==
  ASSUME NEW a \in Nat, NEW b \in Nat, NEW path \in Nat, b <= a + 1, b <= MaxMtu,
         MinMtu <= a, a <= b, path < b \/ (b = MaxMtu /\ a < b), a <= Measure!Largest(path)
  PROVE  a = IF path >= MaxMtu THEN MaxMtu - 1 ELSE Measure!Largest(path)
<1>1. MinMtu \in Nat /\ MaxMtu \in Nat /\ MinMtu < MaxMtu
  BY MtuAssumption
<1>2. CASE path < b
  <2>1. a = Measure!Largest(path)
    BY <1>2, Converged
  <2>2. ~(path >= MaxMtu)
    BY <1>1, <1>2
  <2> QED
    BY <2>1, <2>2
<1>3. CASE ~(path < b) /\ b = MaxMtu /\ a < b
  BY <1>1, <1>3
<1> QED
  BY <1>2, <1>3

LEMMA MtuInStep ==
  ASSUME MInv, Measure!MtuIn
  PROVE  MInv'
<1> USE MtuAssumption
<1>1. PICK e \in {"success", "timeout", "unknown"} :
        /\ Measure!Woken(e) /\ Measure!Noted(e, cur <= pathIn)
        /\ \/ /\ tries + 1 < Retries /\ tries' = tries + 1 /\ Measure!ProbeIn(cur)
              /\ UNCHANGED <<lo, hi, cur, mtuIn, err>>
           \/ /\ Measure!Narrowed(e) /\ Measure!Searching /\ Measure!ProbeIn(cur')
              /\ UNCHANGED <<mtuIn, err>>
           \/ /\ Measure!Narrowed(e) /\ ~Measure!Searching
              /\ mtuIn' = lo' /\ Measure!Ask("clientMtu", "clientMtu", 1, TRUE)
              /\ UNCHANGED <<n, err>>
           \/ Measure!Leave("disconnect", "failed") /\ UNCHANGED <<Measure!search, mtuIn>>
  BY DEF Measure!MtuIn, Measure!TriedAgain
<1>2. /\ pc = "mtuIn" /\ Seeking /\ mtuOut = 0 /\ n \in {0, 1} /\ want = <<"mtu", n>>
      /\ UNCHANGED <<ping, pongs, mtuOut, pathIn, pathOut>>
  BY DEF Measure!MtuIn, MInv, MAnswers, Asked, Results, Found, Seeking
<1>3. /\ lo \in Nat /\ cur \in Nat /\ hi \in Nat /\ lo <= cur /\ cur <= hi
      /\ hi <= MaxMtu /\ MinMtu <= lo /\ tries \in Nat
      /\ pathIn \in Nat /\ pathOut \in Nat /\ mtuIn \in Nat /\ mtuOut \in Nat
  BY <1>2 DEF MInv, Results, Bounds
<1>4. answered => cur <= pathIn
  BY <1>2 DEF MInv, Results, Passing, Answerable
<1>5. /\ MNoted' /\ (Faithful' => Faithful) /\ (~refused' => ~refused)
      /\ (answered \/ e # "timeout") /\ ~refused' => cur <= pathIn
      /\ ~answered /\ e = "timeout" /\ Faithful' => pathIn < cur
  BY <1>1, <1>3, <1>4, Tried
<1>6. /\ ~refused => mtuIn <= Measure!Largest(pathIn) /\ lo <= Measure!Largest(pathIn)
      /\ Faithful => pathIn < hi \/ (hi = MaxMtu /\ cur = MaxMtu)
      /\ Faithful => (mtuIn # 0 => mtuIn = Measure!Largest(pathIn))
  BY <1>2 DEF MInv, Results, Found, Upper, Faithful, Measure!MtuExact
<1>7. MPings'
  <2>1. pc' # "ping"
    BY <1>1 DEF Measure!ProbeIn, Measure!Ask, Measure!Leave
  <2> QED
    BY <1>2, <2>1 DEF MInv, MPings
\* The next probe, of any size.
<1>8. ASSUME NEW size \in Nat, UNCHANGED err, pc' = "mtuIn", want' = <<"mtu", n'>>,
             answered' = FALSE, n' = 1 - n,
             air' \subseteq {want} \cup (IF size <= pathIn THEN {want'} ELSE {}), size = cur'
      PROVE  MPlaces' /\ MAnswers' /\ Asked' /\ Passing'
  <2>1. want' # want /\ want' \in Measure!Kinds \X {0, 1} /\ n' \in {0, 1}
    BY <1>2, <1>8 DEF Measure!Kinds
  <2>2. MPlaces' /\ Asked'
    BY <1>8 DEF MInv, MPlaces, Asked, Measure!Waits
  <2>3. MAnswers'
    BY <1>8, <2>1 DEF MInv, MAnswers
  <2> QED
    BY <1>2, <1>8, <2>1, <2>2, <2>3 DEF Passing, Answerable
<1>9. CASE /\ tries + 1 < Retries /\ tries' = tries + 1 /\ Measure!ProbeIn(cur)
           /\ UNCHANGED <<lo, hi, cur, mtuIn, err>>
  <2>1. /\ pc' = "mtuIn" /\ want' = <<"mtu", n'>> /\ answered' = FALSE /\ n' = 1 - n
        /\ air' \subseteq {want} \cup (IF cur <= pathIn THEN {want'} ELSE {})
    BY <1>9 DEF Measure!ProbeIn, Measure!Ask, Measure!Fresh
  <2>2. MPlaces' /\ MAnswers' /\ Asked' /\ Passing'
    BY <1>3, <1>8, <1>9, <2>1
  <2>3. Bounds'
    BY <1>2, <1>3, <1>9, <2>1 DEF Bounds, Seeking
  <2>4. Upper'
    BY <1>2, <1>5, <1>6, <1>9, <2>1 DEF Upper
  <2>5. Measure!MtuExact'
    BY <1>2, <1>5, <1>6, <1>9 DEF Measure!MtuExact, Measure!Largest, Faithful
  <2>6. Found'
    BY <1>2, <1>3, <1>5, <1>6, <1>9, <2>1, <2>5 DEF Found, Measure!Largest
  <2> QED
    BY <1>5, <1>7, <2>2, <2>3, <2>4, <2>6 DEF MInv, Results
\* What is left of the search.
<1>10. ASSUME Measure!Narrowed(e)
       PROVE  /\ ~refused' => lo' <= Measure!Largest(pathIn)
              /\ Faithful' => pathIn < hi' \/ (hi' = MaxMtu /\ lo' = MaxMtu)
  <2>1. \/ (answered \/ e # "timeout") /\ lo' = cur /\ hi' = hi
        \/ ~answered /\ e = "timeout" /\ lo' = lo /\ hi' = cur
    BY <1>2, <1>10, Narrowing
  <2>2. ~refused' => lo' <= Measure!Largest(pathIn)
    BY <1>3, <1>5, <1>6, <2>1 DEF Measure!Largest
  <2>3. Faithful' => pathIn < hi' \/ (hi' = MaxMtu /\ lo' = MaxMtu)
    BY <1>5, <1>6, <2>1
  <2> QED
    BY <2>2, <2>3
<1>11. CASE /\ Measure!Narrowed(e) /\ Measure!Searching /\ Measure!ProbeIn(cur')
            /\ UNCHANGED <<mtuIn, err>>
  <2>1. /\ pc' = "mtuIn" /\ want' = <<"mtu", n'>> /\ answered' = FALSE /\ n' = 1 - n
        /\ air' \subseteq {want} \cup (IF cur' <= pathIn THEN {want'} ELSE {})
    BY <1>11 DEF Measure!ProbeIn, Measure!Ask, Measure!Fresh
  <2>2. /\ lo' \in Nat /\ cur' \in Nat /\ hi' \in Nat /\ lo' <= cur' /\ cur' <= hi'
        /\ hi' <= MaxMtu /\ MinMtu <= lo' /\ tries' = 0 /\ hi' > lo' + 1
    BY <1>2, <1>11, Narrowing DEF Measure!Searching
  <2>3. MPlaces' /\ MAnswers' /\ Asked' /\ Passing'
    BY <1>8, <1>11, <2>1, <2>2
  <2>4. Bounds'
    BY <1>2, <1>3, <1>11, <2>1, <2>2 DEF Bounds, Seeking
  <2>5. Upper'
    BY <1>2, <1>10, <1>11, <2>1, <2>2 DEF Upper
  <2>6. Measure!MtuExact'
    BY <1>2, <1>5, <1>6, <1>11 DEF Measure!MtuExact, Measure!Largest, Faithful
  <2>7. Found'
    BY <1>2, <1>3, <1>5, <1>6, <1>10, <1>11, <2>1, <2>6 DEF Found, Measure!Largest
  <2> QED
    BY <1>5, <1>7, <2>3, <2>4, <2>5, <2>7 DEF MInv, Results
<1>12. CASE /\ Measure!Narrowed(e) /\ ~Measure!Searching
            /\ mtuIn' = lo' /\ Measure!Ask("clientMtu", "clientMtu", 1, TRUE)
            /\ UNCHANGED <<n, err>>
  <2>1. /\ pc' = "clientMtu" /\ want' = <<"clientMtu", 1>> /\ answered' = FALSE
        /\ air' \subseteq {want, want'}
    BY <1>12 DEF Measure!Ask
  <2>2. /\ lo' \in Nat /\ cur' \in Nat /\ hi' \in Nat /\ lo' <= cur' /\ cur' <= hi'
        /\ hi' <= MaxMtu /\ MinMtu <= lo' /\ tries' = 0 /\ hi' <= lo' + 1
    BY <1>2, <1>12, Narrowing DEF Measure!Searching
  <2>3. MPlaces' /\ Asked'
    BY <1>12, <2>1 DEF MInv, MPlaces, Asked, Measure!Waits
  <2>4. MAnswers'
    <3>1. want' \in Measure!Kinds \X {0, 1} /\ want \in Measure!Kinds \X {0, 1}
      BY <1>2, <2>1 DEF Measure!Kinds
    <3> QED
      BY <1>2, <1>12, <2>1, <3>1 DEF MAnswers
  <2>5. Bounds'
    BY <1>2, <1>3, <1>12, <2>1, <2>2 DEF Bounds, Seeking
  <2>6. Passing' /\ Upper'
    BY <2>1 DEF Passing, Upper
  <2>7. Faithful' => lo' = Measure!Largest(pathIn)
    <3> SUFFICES ASSUME Faithful' PROVE lo' = Measure!Largest(pathIn)
      OBVIOUS
    <3>1. lo' <= Measure!Largest(pathIn)
      BY <1>10, <1>12 DEF Faithful
    <3>2. pathIn < hi' \/ (hi' = MaxMtu /\ lo' = MaxMtu)
      BY <1>10, <1>12
    <3>3. /\ lo' \in Nat /\ hi' \in Nat /\ hi' <= lo' + 1 /\ hi' <= MaxMtu
          /\ MinMtu <= lo' /\ lo' <= hi'
      BY <1>2, <1>12, Narrowing
    <3> QED
      <4>1. pathIn \in Nat /\ (pathIn < hi' \/ lo' = MaxMtu)
        BY <1>3, <3>2
      <4> HIDE MtuAssumption
      <4> QED
        BY <3>1, <3>3, <4>1, Converged
  <2>8. Measure!MtuExact'
    BY <1>2, <1>12, <2>7 DEF Measure!MtuExact, Measure!Largest, Faithful
  <2>9. Found'
    BY <1>2, <1>3, <1>5, <1>10, <1>12, <2>1, <2>8 DEF Found, Measure!Largest
  <2> QED
    BY <1>5, <1>7, <2>3, <2>4, <2>5, <2>6, <2>9 DEF MInv, Results
<1>13. CASE Measure!Leave("disconnect", "failed") /\ UNCHANGED <<Measure!search, mtuIn>>
  <2>1. pc' = "disconnect" /\ err' = "failed" /\ MAnswers'
    BY <1>13, Leaving
  <2>2. MPlaces' /\ Asked'
    BY <2>1 DEF MPlaces, Asked
  <2>3. Bounds' /\ Passing' /\ Upper'
    BY <1>2, <1>3, <1>13, <2>1 DEF MInv, Results, Bounds, Seeking, Passing, Upper,
       Measure!search
  <2>4. Measure!MtuExact'
    BY <1>2, <1>5, <1>6, <1>13 DEF Measure!MtuExact, Measure!Largest, Faithful
  <2>5. Found'
    BY <1>2, <1>3, <1>5, <1>6, <1>13, <2>1, <2>4 DEF Found, Measure!Largest
  <2> QED
    BY <1>5, <1>7, <2>1, <2>2, <2>3, <2>5 DEF MInv, Results
<1> QED
  BY <1>1, <1>9, <1>11, <1>12, <1>13

LEMMA ClientMtuStep ==
  ASSUME MInv, Measure!ClientMtu
  PROVE  MInv'
<1> USE MtuAssumption
<1>1. PICK e \in {"success", "timeout"} :
        \/ /\ lo' = MinMtu /\ hi' = MaxMtu /\ cur' = mtuIn /\ tries' = 0 /\ UNCHANGED err
           /\ Measure!ProbeOut(mtuIn)
        \/ Measure!Leave("disconnect", e) /\ UNCHANGED Measure!search
  BY DEF Measure!ClientMtu
<1>2. /\ pc = "clientMtu" /\ mtuOut = 0 /\ n \in {0, 1} /\ want = <<"clientMtu", 1>>
      /\ UNCHANGED <<ping, pongs, mtuIn, mtuOut, pathIn, pathOut, lossy, refused>>
  BY DEF Measure!ClientMtu, MInv, MAnswers, Asked, Results, Found
<1>3. /\ MinMtu <= mtuIn /\ mtuIn <= MaxMtu /\ mtuIn \in Nat /\ pathIn \in Nat /\ pathOut \in Nat
      /\ mtuOut \in Nat
  BY <1>2 DEF MInv, Results, Bounds
<1>4. MNoted'
  BY <1>2 DEF MInv, MNoted
<1>5. CASE Measure!Leave("disconnect", e) /\ UNCHANGED Measure!search
  <2>1. pc' = "disconnect" /\ err' = e /\ MAnswers'
    BY <1>5, Leaving
  <2>2. Results'
    BY <1>2, <1>5, <2>1, Undisturbed DEF quiet, Measure!search
  <2> QED
    BY <1>2, <1>4, <2>1, <2>2 DEF MInv, MPlaces, MPings, Asked
<1>6. CASE /\ lo' = MinMtu /\ hi' = MaxMtu /\ cur' = mtuIn /\ tries' = 0 /\ UNCHANGED err
           /\ Measure!ProbeOut(mtuIn)
  <2>1. /\ pc' = "mtuOut" /\ want' = <<"pong", n'>> /\ answered' = FALSE /\ n' = 1 - n
        /\ air' \subseteq {want} \cup IF mtuIn <= pathOut THEN {want'} ELSE {}
    BY <1>6 DEF Measure!ProbeOut, Measure!Ask, Measure!Fresh
  <2>2. want' # want /\ n' \in {0, 1} /\ want' \in Measure!Kinds \X {0, 1}
    BY <1>2, <2>1 DEF Measure!Kinds
  <2>3. MPlaces' /\ Asked' /\ MPings'
    BY <1>2, <1>6, <2>1 DEF MInv, MPlaces, Asked, MPings, Measure!Waits
  <2>4. MAnswers'
    BY <2>1, <2>2 DEF MInv, MAnswers
  <2>5. Bounds'
    BY <1>2, <1>3, <1>6, <2>1 DEF Bounds, Seeking
  <2>6. Passing'
    BY <1>2, <1>6, <2>1, <2>2 DEF Passing, Answerable
  <2>7. Upper'
    BY <1>2, <1>3, <1>6, <2>1 DEF Upper
  <2>8. Measure!MtuExact'
    BY <1>2 DEF MInv, Results, Found, Measure!MtuExact, Measure!Largest, Measure!LargestOut
  <2>9. Found'
    BY <1>2, <1>3, <1>6, <2>1, <2>8 DEF MInv, Results, Found, Measure!Largest
  <2> QED
    BY <1>4, <2>3, <2>4, <2>5, <2>6, <2>7, <2>9 DEF MInv, Results
<1> QED
  BY <1>1, <1>5, <1>6

LEMMA MtuOutStep ==
  ASSUME MInv, Measure!MtuOut
  PROVE  MInv'
<1> USE MtuAssumption
<1>1. PICK e \in {"success", "timeout", "unknown"} :
        /\ Measure!Woken(e) /\ Measure!Noted(e, cur <= pathOut)
        /\ \/ /\ tries + 1 < Retries /\ tries' = tries + 1 /\ Measure!ProbeOut(cur)
              /\ UNCHANGED <<lo, hi, cur, mtuOut>>
           \/ /\ Measure!Narrowed(e) /\ Measure!Searching /\ Measure!ProbeOut(cur')
              /\ UNCHANGED mtuOut
           \/ /\ Measure!Narrowed(e) /\ ~Measure!Searching
              /\ mtuOut' = lo' /\ Measure!AskAcked("final")
  BY DEF Measure!MtuOut, Measure!TriedAgain
<1>2. /\ pc = "mtuOut" /\ Seeking /\ mtuOut = 0 /\ n \in {0, 1} /\ want = <<"pong", n>>
      /\ UNCHANGED <<ping, pongs, mtuIn, pathIn, pathOut, err>>
  BY DEF Measure!MtuOut, MInv, MAnswers, Asked, Results, Found, Seeking
<1>3. /\ lo \in Nat /\ cur \in Nat /\ hi \in Nat /\ lo <= cur /\ cur <= hi
      /\ hi <= MaxMtu /\ MinMtu <= lo /\ tries \in Nat
      /\ pathIn \in Nat /\ pathOut \in Nat /\ mtuIn \in Nat /\ mtuIn <= MaxMtu
      /\ MinMtu <= mtuIn
  BY <1>2 DEF MInv, Results, Bounds
<1>4. answered => cur <= pathOut
  BY <1>2 DEF MInv, Results, Passing, Answerable
<1>5. /\ MNoted' /\ (Faithful' => Faithful) /\ (~refused' => ~refused)
      /\ (answered \/ e # "timeout") /\ ~refused' => cur <= pathOut
      /\ ~answered /\ e = "timeout" /\ Faithful' => pathOut < cur
  BY <1>1, <1>3, <1>4, Tried
<1>6. /\ ~refused => mtuIn <= Measure!Largest(pathIn) /\ lo <= Measure!Largest(pathOut)
      /\ Faithful /\ mtuIn = MaxMtu => pathOut < hi \/ (hi = MaxMtu /\ cur = MaxMtu)
      /\ mtuIn < MaxMtu => cur < hi /\ (Faithful => pathOut < hi \/ hi = MaxMtu)
      /\ Faithful => (mtuIn # 0 => mtuIn = Measure!Largest(pathIn))
  BY <1>2 DEF MInv, Results, Found, Upper, Faithful, Measure!MtuExact
<1>7. MPings'
  <2>1. pc' # "ping"
    BY <1>1 DEF Measure!ProbeOut, Measure!AskAcked, Measure!Ask
  <2> QED
    BY <1>2, <2>1 DEF MInv, MPings
\* The next probe, of any size.
<1>8. ASSUME NEW size \in Nat, pc' = "mtuOut", want' = <<"pong", n'>>,
             answered' = FALSE, n' = 1 - n,
             air' \subseteq {want} \cup (IF size <= pathOut THEN {want'} ELSE {}), size = cur'
      PROVE  MPlaces' /\ MAnswers' /\ Asked' /\ Passing'
  <2>1. want' # want /\ want' \in Measure!Kinds \X {0, 1} /\ n' \in {0, 1}
    BY <1>2, <1>8 DEF Measure!Kinds
  <2>2. MPlaces' /\ Asked'
    BY <1>2, <1>8 DEF MInv, MPlaces, Asked, Measure!Waits
  <2>3. MAnswers'
    BY <1>8, <2>1 DEF MInv, MAnswers
  <2> QED
    BY <1>2, <1>8, <2>1, <2>2, <2>3 DEF Passing, Answerable
<1>9. CASE /\ tries + 1 < Retries /\ tries' = tries + 1 /\ Measure!ProbeOut(cur)
           /\ UNCHANGED <<lo, hi, cur, mtuOut>>
  <2>1. /\ pc' = "mtuOut" /\ want' = <<"pong", n'>> /\ answered' = FALSE /\ n' = 1 - n
        /\ air' \subseteq {want} \cup (IF cur <= pathOut THEN {want'} ELSE {})
    BY <1>9 DEF Measure!ProbeOut, Measure!Ask, Measure!Fresh
  <2>2. MPlaces' /\ MAnswers' /\ Asked' /\ Passing'
    BY <1>3, <1>8, <1>9, <2>1
  <2>3. Bounds'
    BY <1>2, <1>3, <1>9, <2>1 DEF Bounds, Seeking
  <2>4. Upper'
    BY <1>2, <1>5, <1>6, <1>9, <2>1 DEF Upper
  <2>5. Measure!MtuExact'
    BY <1>2, <1>5, <1>6, <1>9 DEF Measure!MtuExact, Measure!Largest, Faithful
  <2>6. Found'
    BY <1>2, <1>3, <1>5, <1>6, <1>9, <2>1, <2>5 DEF Found, Measure!Largest
  <2> QED
    BY <1>5, <1>7, <2>2, <2>3, <2>4, <2>6 DEF MInv, Results
\* What is left of the search.
<1>10. ASSUME Measure!Narrowed(e)
       PROVE  /\ ~refused' => lo' <= Measure!Largest(pathOut)
              /\ Faithful' /\ mtuIn = MaxMtu => pathOut < hi' \/ (hi' = MaxMtu /\ lo' = MaxMtu)
              /\ Faithful' /\ mtuIn < MaxMtu => pathOut < hi' \/ (hi' = MaxMtu /\ lo' < hi')
  <2>1. \/ (answered \/ e # "timeout") /\ lo' = cur /\ hi' = hi
        \/ ~answered /\ e = "timeout" /\ lo' = lo /\ hi' = cur
    BY <1>2, <1>10, Narrowing
  <2>2. ~refused' => lo' <= Measure!Largest(pathOut)
    BY <1>3, <1>5, <1>6, <2>1 DEF Measure!Largest
  <2>3. Faithful' /\ mtuIn = MaxMtu => pathOut < hi' \/ (hi' = MaxMtu /\ lo' = MaxMtu)
    BY <1>5, <1>6, <2>1
  <2>4. Faithful' /\ mtuIn < MaxMtu => pathOut < hi' \/ (hi' = MaxMtu /\ lo' < hi')
    BY <1>5, <1>6, <2>1
  <2> QED
    BY <2>2, <2>3, <2>4
<1>11. CASE /\ Measure!Narrowed(e) /\ Measure!Searching /\ Measure!ProbeOut(cur')
            /\ UNCHANGED mtuOut
  <2>1. /\ pc' = "mtuOut" /\ want' = <<"pong", n'>> /\ answered' = FALSE /\ n' = 1 - n
        /\ air' \subseteq {want} \cup (IF cur' <= pathOut THEN {want'} ELSE {})
    BY <1>11 DEF Measure!ProbeOut, Measure!Ask, Measure!Fresh
  <2>2. /\ lo' \in Nat /\ cur' \in Nat /\ hi' \in Nat /\ lo' <= cur' /\ cur' <= hi'
        /\ hi' <= MaxMtu /\ MinMtu <= lo' /\ tries' = 0 /\ hi' > lo' + 1 /\ cur' < hi'
    BY <1>2, <1>11, Narrowing DEF Measure!Searching
  <2>3. MPlaces' /\ MAnswers' /\ Asked' /\ Passing'
    BY <1>8, <1>11, <2>1, <2>2
  <2>4. Bounds'
    BY <1>2, <1>3, <1>11, <2>1, <2>2 DEF Bounds, Seeking
  <2>5. Upper'
    BY <1>2, <1>10, <1>11, <2>1, <2>2 DEF Upper
  <2>6. Measure!MtuExact'
    BY <1>2, <1>5, <1>6, <1>11 DEF Measure!MtuExact, Measure!Largest, Faithful
  <2>7. Found'
    BY <1>2, <1>3, <1>5, <1>6, <1>10, <1>11, <2>1, <2>6 DEF Found, Measure!Largest
  <2> QED
    BY <1>5, <1>7, <2>3, <2>4, <2>5, <2>7 DEF MInv, Results
<1>12. CASE /\ Measure!Narrowed(e) /\ ~Measure!Searching
            /\ mtuOut' = lo' /\ Measure!AskAcked("final")
  <2>1. pc' = "final" /\ MAnswers'
    BY <1>12, AskingAcked
  <2>2. /\ lo' \in Nat /\ cur' \in Nat /\ hi' \in Nat /\ lo' <= cur' /\ cur' <= hi'
        /\ hi' <= MaxMtu /\ MinMtu <= lo' /\ tries' = 0 /\ hi' <= lo' + 1 /\ lo' <= hi'
    BY <1>2, <1>12, Narrowing DEF Measure!Searching
  <2>3. MPlaces' /\ Asked'
    BY <1>2, <1>12, <2>1 DEF MInv, MPlaces, Asked, Measure!Waits
  <2>5. Bounds'
    BY <1>2, <1>3, <1>12, <2>1, <2>2 DEF Bounds, Seeking
  <2>6. Passing' /\ Upper'
    BY <2>1 DEF Passing, Upper
  <2>7. ASSUME Faithful'
        PROVE  lo' = IF mtuIn < MaxMtu /\ pathOut >= MaxMtu THEN MaxMtu - 1
                     ELSE Measure!Largest(pathOut)
    <3>1. lo' <= Measure!Largest(pathOut)
      BY <1>10, <1>12, <2>7 DEF Faithful
    <3>2. /\ lo' \in Nat /\ hi' \in Nat /\ hi' <= lo' + 1 /\ hi' <= MaxMtu
          /\ MinMtu <= lo' /\ lo' <= hi'
      BY <1>2, <1>12, Narrowing
    <3>3. CASE mtuIn = MaxMtu
      <4>1. pathOut < hi' \/ lo' = MaxMtu
        BY <1>10, <1>12, <2>7, <3>3
      <4>2. lo' = Measure!Largest(pathOut)
        BY <1>3, <3>1, <3>2, <4>1, Converged
      <4>3. ~(mtuIn < MaxMtu)
        BY <1>3, <3>3
      <4> QED
        BY <4>2, <4>3
    <3>4. CASE mtuIn < MaxMtu
      <4>1. pathOut < hi' \/ (hi' = MaxMtu /\ lo' < hi')
        BY <1>10, <1>12, <2>7, <3>4
      <4>2. lo' = IF pathOut >= MaxMtu THEN MaxMtu - 1 ELSE Measure!Largest(pathOut)
        BY <1>3, <3>1, <3>2, <4>1, ConvergedBelow
      <4> QED
        BY <3>4, <4>2
    <3> QED
      BY <1>3, <3>3, <3>4
  <2>8. Measure!MtuExact'
    <3> SUFFICES ASSUME Faithful'
                 PROVE  /\ mtuIn # 0 => mtuIn = Measure!Largest(pathIn)
                        /\ mtuOut' = IF mtuIn < MaxMtu /\ pathOut >= MaxMtu THEN MaxMtu - 1
                                     ELSE Measure!Largest(pathOut)
      BY <1>2 DEF Measure!MtuExact, Measure!Largest, Measure!LargestOut, Faithful
    <3> QED
      BY <1>5, <1>6, <1>12, <2>7
  <2>9. Found'
    BY <1>2, <1>3, <1>5, <1>6, <1>10, <1>12, <2>1, <2>8 DEF Found, Measure!Largest
  <2> QED
    BY <1>5, <1>7, <2>1, <2>3, <2>5, <2>6, <2>9 DEF MInv, Results
<1> QED
  BY <1>1, <1>9, <1>11, <1>12

LEMMA MeasureEnding ==
  ASSUME MInv, Measure!Final \/ Measure!Disconnect \/ Measure!Close
  PROVE  MInv'
<1>1. /\ pc' \in {"disconnect", "close", "done"} /\ MAnswers'
      /\ err' \in {"none", "success", "timeout", "failed"} /\ UNCHANGED Measure!results
  <2>1. CASE Measure!Final
    <3>1. PICK e \in {"success", "timeout"} : Measure!Leave("disconnect", e)
      BY <2>1 DEF Measure!Final
    <3> QED
      BY <2>1, <3>1, Leaving DEF Measure!Final
  <2>2. CASE Measure!Disconnect
    <3>1. Measure!Leave("close", err)
      BY <2>2 DEF Measure!Disconnect
    <3> QED
      BY <2>2, <3>1 DEF Measure!Disconnect, Measure!Leave, MInv, MAnswers, MPlaces
  <2>3. CASE Measure!Close
    <3>1. Measure!Leave("done", err)
      BY <2>3 DEF Measure!Close
    <3> QED
      BY <2>3, <3>1 DEF Measure!Close, Measure!Leave, MInv, MAnswers, MPlaces
  <2> QED
    BY <2>1, <2>2, <2>3
<1>2. UNCHANGED quiet /\ MNoted' /\ MPings'
  BY <1>1 DEF Measure!results, Measure!search, quiet, MInv, MNoted, MPings
<1>3. Results'
  BY <1>1, <1>2, Undisturbed
<1> QED
  BY <1>1, <1>2, <1>3 DEF MInv, MPlaces, Asked

(* An answer that comes, whichever it is, ends only the wait it is for.     *)
LEMMA AnswerStep ==
  ASSUME MInv, Measure!Answer \/ Measure!TakionDisconnect
  PROVE  MInv'
<1>1. UNCHANGED <<pc, want, n, err>> /\ UNCHANGED Measure!results
  BY DEF Measure!Answer, Measure!TakionDisconnect
<1>2. /\ air' \subseteq air /\ answered' \in BOOLEAN
      /\ answered' => answered \/ want \in air
  BY DEF Measure!Answer, Measure!TakionDisconnect, Measure!Finishes, MInv, MAnswers
<1>3. MPlaces' /\ MAnswers' /\ MNoted' /\ MPings' /\ Asked'
  BY <1>1, <1>2 DEF MInv, MPlaces, MAnswers, MNoted, MPings, Asked, Measure!results
<1>4. Bounds' /\ Upper'
  BY <1>1 DEF MInv, Results, Bounds, Seeking, Upper, Faithful, Measure!results, Measure!search
<1>5. Passing'
  BY <1>1, <1>2 DEF MInv, Results, Passing, Answerable, Measure!results, Measure!search
<1>6. Found'
  BY <1>1 DEF MInv, Results, Found, Measure!MtuExact, Measure!Largest, Measure!LargestOut,
              Measure!results, Measure!search
<1> QED
  BY <1>3, <1>4, <1>5, <1>6 DEF MInv, Results

LEMMA MeasureStep ==
  ASSUME MInv, Measure!Next
  PROVE  MInv'
BY HandshakeStep, PingStep, EchoOffStep, MtuInStep, ClientMtuStep, MtuOutStep, MeasureEnding,
   AnswerStep DEF Measure!Next, Measure!Run

-----------------------------------------------------------------------------
(* One connection after the other.                                          *)
SInv ==
  /\ RunInv
  /\ pc # "used" => MInv /\ Init
  /\ values \in {"none", "measured", "fallback"} /\ (values = "none" <=> pc # "used")

LEMMA MeasureOver == pc = "used" => ~Measure!Next
BY DEF Measure!Next, Measure!Run, Measure!Connect, Measure!Handshake, Measure!EchoOn,
       Measure!Pong, Measure!EchoOff, Measure!MtuIn, Measure!ClientMtu, Measure!MtuOut,
       Measure!Final, Measure!Disconnect, Measure!Close, Measure!Answer,
       Measure!TakionDisconnect, Measure!Waits

LEMMA SInvStep == SInv /\ [SNext]_all => SInv'
<1> SUFFICES ASSUME SInv, [SNext]_all PROVE SInv'
  OBVIOUS
<1>1. CASE Measure!Next /\ UNCHANGED <<vars, values>>
  <2>1. pc # "used" /\ MInv /\ Init
    BY <1>1, MeasureOver DEF SInv
  <2>2. MInv'
    BY <1>1, <2>1, MeasureStep
  <2>3. pc' # "used"
    BY <2>2 DEF MInv, MPlaces, Measure!Waits
  <2>4. RunInv'
    BY <1>1, StepInv DEF SInv
  <2>5. Init'
    BY <1>1, <2>1 DEF Init, vars
  <2> QED
    BY <1>1, <2>1, <2>2, <2>3, <2>4, <2>5 DEF SInv
<1>2. CASE UseValues
  <2>1. RunInv'
    BY <1>2, StepInv DEF SInv, UseValues
  <2> QED
    BY <1>2, <2>1 DEF SInv, UseValues
<1>3. CASE values # "none" /\ Next /\ UNCHANGED <<measuring, values>>
  BY <1>3, StepInv DEF SInv, measuring
<1>4. CASE UNCHANGED all
  <2>1. UNCHANGED <<vars, values>> /\ UNCHANGED measuring
    BY <1>4 DEF all
  <2>2. RunInv'
    BY <2>1, StepInv DEF SInv
  <2>3. Init => Init'
    BY <2>1 DEF Init, vars
  <2>4. pc # "used" => MInv'
    BY <2>1 DEF SInv, measuring, MInv, MPlaces, MAnswers, MNoted, MPings, Asked, Results,
       Bounds, Seeking, Passing, Answerable, Upper, Faithful, Found, Measure!MtuExact,
       Measure!Largest, Measure!LargestOut
  <2> QED
    BY <2>1, <2>2, <2>3, <2>4 DEF SInv, measuring
<1> QED
  BY <1>1, <1>2, <1>3, <1>4 DEF SNext

LEMMA SInvHolds == SSpec => []SInv
<1>1. SInit => SInv
  <2> SUFFICES ASSUME SInit PROVE SInv
    OBVIOUS
  <2>1. pc # "used" /\ values = "none"
    BY DEF SInit, Measure!Init
  <2> QED
    BY <2>1, MInit, RunInitInv DEF SInit, SInv
<1> QED
  BY <1>1, SInvStep, PTL DEF SSpec

(* Every value both connections keep is of its type, and the stream         *)
(* connection does nothing before the measurement is over.                  *)
THEOREM BothTypesCorrect == SSpec => []STypeOK
<1>1. SInv => STypeOK
  <2> SUFFICES ASSUME SInv PROVE STypeOK
    OBVIOUS
  <2>1. TypeOK
    BY Typed DEF SInv, RunInv, Once
  <2>2. ASSUME pc # "used"
        PROVE  Measure!TypeOK /\ rpc = "off"
    <3>1. MInv /\ rpc = "off"
      BY <2>2 DEF SInv, Init
    <3> QED
      BY <3>1, MtuAssumption DEF MInv, MPlaces, MAnswers, MNoted, MPings, Results, Bounds,
         Measure!TypeOK
  <2> QED
    BY <2>1, <2>2 DEF SInv, STypeOK
<1> QED
  BY <1>1, SInvHolds, PTL

(* What Senkusha hands to the session never exceeds what the network        *)
(* passes, and is exactly that if no probe was lost: for any sizes, any     *)
(* number of attempts and any paths.                                        *)
THEOREM MtuHolds == SSpec => []MtuFound
<1>1. SInv => MtuFound
  BY DEF SInv, MInv, Results, Found, MtuFound, Measure!MtuPasses
<1> QED
  BY <1>1, SInvHolds, PTL

(* With the measurement before it, the stream connection behaves as it      *)
(* does alone; so what is proved of Spec holds of SSpec.                    *)
THEOREM MeasureThenStream == SSpec => Spec
<1>1. SInit => Init
  BY DEF SInit
<1>2. [SNext]_all => [Next]_vars
  BY DEF SNext, UseValues, all
<1> QED
  BY <1>1, <1>2, PTL DEF SSpec, Spec

(* What the session relies on, with the measurement before: the order of    *)
(* the handshake, the order of the teardown, and the promise of run.        *)
THEOREM StreamAfterMeasure ==
  SSpec => []HandshakeSound /\ []TeardownOrder /\ StreamRunSpec
BY MeasureThenStream, HandshakeHolds, TeardownHolds, KeepsPromise
=============================================================================
