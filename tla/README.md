# Verification of PeaSyo

PeaSyo is a PlayStation Remote Play client for Android. Its protocol engine is a
modified copy of the Chiaki C library under `lib/`; a JNI bridge and Kotlin and Java code
under `android/` put it on a device, and a React Native application under `src/`
is the user interface. (Paths in this document are relative to the root of the
repository.)

The project models the parts that run concurrently, against a network, and without
tests: the threads of the C library and of the native players, the buffers
they share, the order in which things arrive, and the ways a session is reached and
left. Each module names the files it models; `PROJECT.json` maps its definitions to lines.

Contents: [the system](#1-the-system), [the modules](#2-the-modules),
[the runs](#3-the-runs), [bounds](#4-bounds), [fairness](#5-fairness),
[what is proved](#6-what-is-proved), [where the code does something
else](#7-where-the-code-deviates), [what is not modelled](#8-what-is-not-modelled),
[plan](#9-plan), [how to run it](#10-how-to-run-it).

## 1. The system

A console is found (discovery), the application registers at it, and a session is
requested: over the local network, or through PSN over a hole punched into the
NATs on the way. A session connects three protocols one after the other, each with its own thread.

```
 stream page ──▶ StreamSession ──stop, PIN, controller──▶ Session thread ──▶ Ctrl thread (TCP, or rudp
 (JavaScript)    (main thread)                                │                       over the ctrl hole)
      USB controllers' threads ──states──▶                    ├─ (holepunch: data hole; registration over PSN)
                                                              ├─ session request (up to three versions)
                                                              ├─ Senkusha (MTU, RTT) ─▶ Takion thread (UDP)
                                                              └─ Stream connection ───▶ Takion thread (UDP)
        video decoder: output + choreographer threads              │                      ├ reorder queue
          ▲        audio decoder: output thread ─▶ ring ─▶ audio   │  callbacks ◀─────────┤ send buffer + resend thread
          │          ▲                              callback       │                      └ GKCrypt + key stream thread
          └──────────┴── video, audio, haptics receivers ◀─────────┤
                                                                   ├─ feedback sender thread
                                                                   └─ congestion control thread ◀─ packet statistics
```

### Components: state, operations, what makes them correct

| component (files, in `lib/src` if not said) | state | operations | correct means | modelled in |
|---|---|---|---|---|
| sequence numbers (`seqnum.h`) | none | compare, add, modulo 2^16 or 2^32 | the order of the unwrapped numbers within half of the space | `SeqNum` |
| reorder queue (`reorderqueue.c`) | ring of entries, `begin`, `count`, drop strategy | init, push, pull, peek, fini, (drop) | in order, nothing twice, every buffer with one owner | `ReorderQueue`, `ReorderWindow` |
| Takion send buffer (`takionsendbuffer.c`) | array of packets with tries and times; mutex, condition; a thread | push, ack, fini; resend and give up | kept until acknowledged or given up, freed once, released in the end | `TakionSendBuffer`, `TakionDelivery` |
| Takion sending (`takion.c`, `gkcrypt.c`) | key position, sequence number, GMAC key | control, data, congestion, feedback, microphone packets from several threads | no byte of the key stream twice, the right key for each MAC | `TakionSend` |
| GKCrypt key stream (`gkcrypt.c`) | ring of chunks, `key_buf_key_pos_min`, populated, `last_key_pos`; mutex, condition; a thread | get/decrypt, generate, fini | what is populated is the key stream; there is room; the thread keeps ahead | `GKCryptKeyBuf` |
| key positions (`gkcrypt.c`, end) | `prev` | request, commit | the right 64 bit position behind 32 bits | `PacketKeys` |
| Takion thread (`takion.c`) | handshake state, data queue, postponed packets, crypt, stop pipe | handshake, receive loop, close, set crypt, callbacks | order, no packet forgotten, CONNECTED before DISCONNECT, close ends it; what is sent is pulled or known to be lost | `TakionThread`, `TakionDelivery`, `PacketKeys` |
| stream connection (`streamconnection.c`) | `state`, `state_finished`, `state_failed`, `should_stop`, `remote_disconnected`, early stream info, `feedback_sender_active`; motion counter, intensities | run, stop, the Takion callback, heartbeat, set controller state; BIG message, pad info | complete handshake before use, teardown in order, stop and disconnect end it; pieces fit, events agree with the console | `StreamConnection`, `StreamRun`, `StreamMessages` |
| Senkusha (`senkusha.c`) | state as above; MTU interval, ids | run: RTT, MTU in, MTU out | the MTU found passes, and is the largest | `Senkusha` |
| session (`session.c`) | `should_stop`, `ctrl_*`, PIN, session id, `quit_reason`, target; mutex, condition, stop pipe | start, stop, set PIN, join; the session thread; the request | QUIT last and once with the true reason; a stop ends it; both sides agree on a version | `Session`, `SessionRequest` |
| Ctrl (`ctrl.c`) | `should_stop`, login PIN, message queue, notification pipe; receive buffer, cipher counters, display flags | its thread, stop, set PIN, send message, handlers | messages and PIN get out; stop ends it; counters agree with the console's | `Session`, `CtrlMessages` |
| video receiver, frame processor, bitstream (`videoreceiver.c`, `frameprocessor.c`, `bitstream.c`) | frame being built, units, previous frames, reference frames, profile | a packet, flush | whole frames, each once, decodable; every gap reported | `VideoReceiver` |
| audio, haptics (`audioreceiver.c`, `audiosender.c`) | previous frame index; the last microphone frames | a packet; a microphone frame | frames in order, none twice | `AudioUnits` |
| feedback sender (`feedbacksender.c`, `feedback.c`) | controller states now and before, history ring; mutex, condition; a thread | set controller state, fini; the loop | the console's picture of the controller converges | `FeedbackSender` |
| packet statistics, congestion control (`packetstats.c`, `congestioncontrol.c`) | counters; a thread that reads and resets them | push generation, push seq, get | the report is what was received and lost | `PacketStats`; lifetime of the thread in `StreamConnection` |
| discovery (`discovery.c`, `discoveryservice.c`) | hosts with ping counts; two threads | ping, answer, drop, fini | each host once, silent ones go, the application knows the list | `Discovery` |
| registration (`regist.c`; JNI, `session.c`) | stop pipe, sockets; a thread | start, stop, fini; over PSN too | reported once and truthfully, joinable | `Regist` |
| reliable datagrams (`remote/rudp.c`, `rudpsendbuffer.c`) | counter, send buffer; a thread | exchanges with tries, ctrl messages, acks | an exchange gets its own answer; a message is kept until the console has it | `Rudp` |
| holepunching (`remote/holepunch.c`, `stun.h`) | PSN session state bits, notification queue, sockets; websocket thread | create, start, offers, punch, fini; STUN; candidates | both sides accepted each hole, the chosen address works, ports are predicted | `Holepunch`, `Candidates`, `StunPorts` |
| video decoder (`android …/video-decoder.c`) | codec, queue for the vsync, pacing; three threads | sample, set surface, set pacing, shutdown | frames once and in order, none used after the codec is gone | `VideoDecoder` |
| audio output (`android …/audio-decoder.c`, `audio-output.cpp`, `circular-*.hpp`) | codec, lock-free ring of chunks; thread and callback | header, frame, shutdown, free; reopen | samples once and in order; the session can be freed | `AudioPlayer` |
| stream page, sessions, external display (`Stream.tsx`, `StreamSession.kt`, `ExternalDisplayController.kt`) | active session, surfaces, presentation, timers | open, leave, resume, switch | every session is stopped by someone, and the picture is where a surface is | `Player` |
| USB controllers (`android …/input/*`, `haptic_usb.cpp`) | list of controllers, flags, one native descriptor; a thread each | claim, stop, haptics | closed once stopped; haptics go to who asked for them | `UsbDrivers` |
| input (`StreamView.java`, `Stream.tsx`, `Touchpad.tsx`, `VirtualGamepad.tsx`) | one controller state; a view's flags, a page's timers | keys, axes, touchpads, gestures, reports, gyroscope | nothing is shown that the user no longer does | `ControllerInput` |
| rumble and triggers (`StreamSession.kt`, `Stream.tsx`, `UsbRumbleManager.java`) | last event, cache of triggers; coroutines | rumble, triggers, haptics, shutdown | motors and triggers as the console said last | `Rumble` |
| threads, stop pipe, sockets (`thread.c`, `stoppipe.c`, `sock.c`) | wrappers | | | modelled where used |
| formats (`http.c`, `launchspec.c`, `pb/`), ciphers (`ecdh.c`, `rpcrypt.c`), desktop decoders, DualSense tester, vendored code | none | | | not modelled |

### How the components interact

* **Calls down, callbacks up.** The session thread runs the stream connection, which
  owns a Takion connection. The Takion thread calls the stream connection's callback
  for events, control data and audio/video packets; the callback takes
  `state_mutex` of the stream connection and signals the condition its run waits for. Frames
  go on to the native decoders on the Takion thread, too.
* **Shared state.** Session and Ctrl read and write each other's fields under
  `session->state_mutex` and `ctrl->notif_mutex`. The send buffer is pushed by
  the heartbeat (the session's thread), the feedback and congestion threads and
  the Takion thread; its own thread re-sends from it. All of them take key positions from
  one local crypt. The Takion thread decrypts from a ring a GKCrypt thread fills. The list
  of USB controllers, and the native descriptor for haptics, are shared without a lock.
* **Pipes.** Takion, Ctrl, the session and a registration each own a stop pipe, which select looks
  at beside the socket. Ctrl uses its pipe for messages and PINs too.
* **Messages.** PSN passes notifications between the application and the console; JavaScript
  and the main thread pass commands and events to each other.

### What is hard about it

* every thread can be stopped at any point, from any other;
* condition variables wake spuriously, a signal is lost when nobody waits, and some
  of the flags are set without the mutex their waiter holds;
* locks are released in the middle of loops (resend thread, Ctrl), are left locked on
  early returns (holepunch, audio decoder) or are taken in
  different orders by two threads (session and Ctrl, session and registration);
* the peer's messages come in an order the state machine did not expect, or before the
  state that waits for them, and name neither the attempt nor the hole they are about;
* packets are lost, duplicated and reordered, and their numbers wrap around;
* buffers pass from one owner to the next through callbacks, codecs and lock-free queues;
* surfaces, displays and devices come and go while threads use them.

The hazards found while reading, each at its line, are in `PROJECT.json`.

## 2. The modules

| module | composes | actions and the code they stand for |
|---|---|---|
| `SeqNum` | – | `SeqLt`, `SeqGt`, `SeqAdd`: `seqnum.h`. `Half` is half of the space, so that runs wrap around after a few numbers. |
| `ReorderQueue` | `SeqNum`; implements `ReorderWindow` | `Push` in the cases of `chiaki_reorder_queue_push` (set, drop, evict with `DROP_STRATEGY_BEGIN`), `Pull`, `Fini`. `pos` and `slot` unwrap the ring for the properties. |
| `ReorderWindow` | – | what the queue promises: accept within the window, slide, deliver the next number. |
| `TakionSendBuffer` | `SeqNum` | `Push`, `Ack` under the mutex; the resend thread with a program counter, because it unlocks in the middle of its scan (`RGiveUp`, `RReadSeq`, `RAckIt`, `RRelock`); `Fini*` sets the flag and signals without the mutex, as the code does. |
| `TakionDelivery` | – | both ends of the data channel. Outward: `Draw`, `Send`, `Push` of any thread, `Resend` and `GiveUp` of the buffer's thread, `AckArrives`. Inward: `Arrive` is a push into the data queue with the flush and its acknowledgement. The console and the network are assumptions. The parts appear as what `TakionSendBuffer` and `ReorderQueue` do with whole messages. |
| `TakionSend` | – | a send from a thread in its critical sections: take a position, take a number, seal, send; or all under the recursive lock (feedback, microphone). Setting the crypt takes no mutex. |
| `GKCryptKeyBuf` | – | `Get` (with `key_buf_request`), `Gen*` for the thread (room made under the mutex, chunk written outside it), `Fini*`. |
| `PacketKeys` | `GKCryptKeyBuf` | a packet from the 32 bits in its header to the key stream it is decrypted with: request, check of the MAC, commit, decrypt. |
| `TakionThread` | the queue as `ReorderWindow` promises it | the handshake, the loop's top, one action per kind of packet, the end of the thread, `chiaki_takion_close`. |
| `StreamConnection` | implements `StreamRun` | the run with its waits, the callback of the Takion thread, the heartbeat, feedback and congestion threads' lifetime, stop, an application thread that sets the controller state. |
| `StreamRun` | – | what the run promises the session. |
| `StreamMessages` | – | one piece of `send_big` per step; one pad info per step with the events it makes. |
| `Senkusha` | – | what `chiaki_senkusha_run` does between two waits; an answer of the present or the former request, lost or late; a deadline that the system call refuses. |
| `SessionStream` | `Senkusha`, then `StreamConnection` | the part of `session_thread_func` that runs one and then the other, with fallback values. |
| `Session` | the stream connection as `StreamRun` promises it | the session thread, the Ctrl thread, application and console. |
| `SessionRequest` | – | connect, send, reply: per address and per version; over a hole the rudp exchange instead. |
| `CtrlMessages` | – | the reading loop over a buffer of units (half a header or payload), the handlers' replies, flags and counters; `ctrl_message_send` of two threads; datagrams that come again. |
| `VideoReceiver` | `SeqNum` | one packet is one action; a function of the record `rcv` for each function of the code. |
| `AudioUnits` | – | one packet is one action; a microphone frame is one. |
| `FeedbackSender` | – | set, fini, the thread's wait and its iteration; history is pushed event by event because the mutex is held throughout but the properties look at the ring. |
| `PacketStats` | `SeqNum` | both pushes (`push_seq` in its unlocked steps), the report. |
| `Discovery` | – | a ping of the service thread, an answer on the discovery thread, fini with both joins. |
| `Regist` | – | the registration thread in the steps between which it can be stopped, and its two callers. |
| `Rudp` | `SeqNum` | exchanges (send, retry, select an answer) and the send buffer as above; a message's number and its key are drawn in two steps. |
| `StunPorts` | – | one STUN request after the other against a NAT that counts, with late answers; the arithmetic of the prediction. |
| `Candidates` | – | the loop of `check_candidates` per datagram, timeouts, the confirmation, every exit with the sockets it closes. |
| `Holepunch` | – | the main thread from call to call of the external service, the websocket thread per notification. |
| `VideoDecoder`, `AudioPlayer` | – | sections under `codec_mutex` are steps; the lock-free ring in the steps between accesses to shared variables. |
| `Player` | – | a block posted to the main thread is a step; JavaScript's handlers and timers. |
| `UsbDrivers` | – | the main thread, an input thread per controller, module and haptics threads, with each unlocked access to the list a step. |
| `ControllerInput` | – | an event on the main thread, a command or timer of JavaScript: a step each. `pad` and `screen` are what the user does, `controllerState` what is sent. |
| `Rumble` | – | an event of the native session, the page's listener, a coroutine with the mutex: a step each. |
| `Streams`, `Media`, `Control`, `Remote` | see section 3 | one state space for the components of an area. |
| `Creation` | – | every init function as the list of what it takes and of what it releases when a step fails (the labels it jumps to), every fini as what it releases; one system call per step, and any of them fails. |
| `*Proofs` | the module of that name | theorems. |

**Areas.** A run checks the components of one area. In `Streams`, `Media`, `Control` and
`Remote` the variable `part` says which component a behaviour is about; the others stay at one initial
state. Such a module is a disjoint union of the components, not an interleaving of them: they meet
only through calls that the called side takes at any time, with any argument, and that is how
each component's environment is written. Where components really depend on each other's
progress they are composed: `PacketKeys`, `SessionStream`, `Session` (two threads and the
stream's promise), `TakionThread` (with the queue's promise).

The big components do not share a state space: `TakionThread` has in the place of the
queue what the queue is *proved* to implement, and `Session` has in the place of the stream
connection what the run of `StreamConnection` shows it to implement. That is
how the sizes stay small without assumptions that nobody checks.

**Mutants in the modules.** An operator preceded by "Mutant:" is a plausible mistake in
the definition below it: a dropped guard, a missing signal, an off-by-one. No specification
uses it. Each shows, substituted, that a property notices that mistake.

**Histories.** Variables marked "history" exist in no program: what was delivered, which
buffers are alive, the unwrapped numbers. No guard that stands for a condition of
the code reads them; guards that bound the environment (`Near`) do.

## 3. The runs

A run ends in one to three minutes with two workers. A property that
has parts is a conjunction of named definitions, given in parentheses; each is stated in
the module of its component. The type invariant is checked in every passing run.

| run | what it asks | what it shows |
|---|---|---|
| `Streams` | what packets and messages of a stream go through: reorder queue, video units, audio units, BIG message and pad info, concurrent sends, ctrl messages, the sources of the controller state | entries refer to live buffers and none leaks (`Ownership`); delivered in order, without a gap unless the strategy may skip (`Delivery`); the ring implements the window (`WindowSpec`). `FramesSound`: the frame in progress is accounted for and handed on at most once (`FrameInProgress`), whole and with its header and reference (`HandedDecodable`), the console is told of every missing frame (`NoSilentGap`) and no other (`NoFalseAlarm`). `UnitsSound`: sound in order and from packets that came (`AudioUnits`); pieces fit the MTU and are the message, events say what the console said last (`StreamMessages`); a byte of key stream masks one byte and MACs use the key of their position (`TakionSend`); ctrl messages get the counters of the console in both directions, unless a datagram came twice or two threads were sending, and what is shown about the display is what was said (`CtrlMessages`); a button, trigger, stick or touch in the controller state is still held by someone or about to be let go by a timer, and a finger keeps its slot (`ButtonsMeant`, `TriggersMeant`, `SticksMeant`, `TouchesMeant`, `SlotsKept` of `ControllerInput`) |
| `TakionSendBuffer` | two senders, acks of any sent number, resends, give-up, teardown | `BufferKept`: one owner per packet (`OwnedOnce`), kept while no packet has used up its tries (`KeptWhileTrying`); the shifting in `ack` removes exactly what is covered and keeps the rest in order with its retry state (`ShrinksByAck`); a push wakes the thread (`PushWakes`); every packet goes in the end, unless a refused wait has ended the thread, and fini ends while packets are held (`BufferDrains`) |
| `PacketKeys` | reordered and corrupt packets while the ring is filled | positions right (`Reconstructs`); populated means key stream, and there is room when it is needed (`BufferSound`); a packet is decrypted with the key stream of its own position (`DecryptsRight`); the generator catches up and ends (`GeneratorWakes`) |
| `Media` | from the socket to the screen: the Takion thread, the data channel, the video decoder, the audio player, the stream page | `PacketsKept`: order of AV packets and of events (`CallbackOrder`), nothing waits for a packet that may not come (`NothingForgotten`), buffers counted (`BuffersOwned`); a message not yet received in order is kept to be sent again, unless its send failed, found the buffer full or was given up, and none is acknowledged that was not pulled (`Carried`). `OutputSound`: every frame in one place until given back, shown in order, the vsync asked for, no thread without a codec (`DecoderSound`); chunks of the ring with one owner, samples once and in order (`AudioSound`); a running session is the active one, and renders where its surface is (`PlayerSound`). `MediaEnds`: close ends the thread, all the console sends is pulled and all we send is acknowledged or given up unless a refused wait has ended the thread that re-sends (`Settled`), the decoder can be shut down, the audio player freed, but for a mutex left locked and a codec without a buffer for the end of the stream (`Freed`) |
| `StreamConnection` (module `SessionStream`) | the MTU test and then the stream connection, messages in any order, lost, early, late; stop at any moment | the MTU found is one that passes, and the largest if nothing was lost (`MtuFound`); no heartbeat without a complete handshake, an early stream info kept (`HandshakeSound`); callbacks find what they use, and who is stopped when (`TeardownOrder`); the measurement ends (`MeasureEnds`), the run ends when told to (`EndsWhenTold`); it implements `StreamRun` (`StreamRunSpec`) |
| `Session` | six kinds of Ctrl messages, PIN, stop, queued messages | nothing runs after QUIT and its reason is true (`QuitTrue`); messages and PIN wake Ctrl and a stream has an id (`CtrlSound`); a stop ends the session but in two named situations (`StopEnds`) |
| `Control` | controller changes at any moment of the sending loop; USB controllers claimed, failing, unplugged, stopped, with haptics; rumble and triggers | the ring is the latest events (`HistoryWindow`). `ControlSound`: they lead to the controller's keys and leave no touch down, a change wakes the thread; native haptics belong to a controller that has them enabled, the service lists open controllers (`UsbSound`); motors and triggers are as the console said last, and Android's controller rumbles only during a pulse (`RumbleSound`). The sticks arrive unless a refused wait has ended the sender (`StickArrives`); stopped controllers close and threads end (`UsbStops`) |
| `Remote` | discovery, registration, session request, reliable datagrams, port prediction, candidates, holepunching; the creation and the end of all that a session is made of | `PeersSound`: the list is what the application was told, silent hosts go (`DiscoverySound`); one true report after everything was given back (`RegistSound`); a message is kept until the console has it, an exchange never takes another's answer (`RudpSound`); the version is the one named last, and a reason is given (`RequestSound`); a creation that fails releases what it took and nothing else, one that is reported as a success is complete, a thread outlives nothing it uses (`CreationSound`, with the failures of section 7 excepted by name). `HolesSound`: the next port of a counting NAT is offered (`PortPredicted`), the address works both ways and no socket is lost (`CandidatesSound`), both sides accepted each hole (`HolepunchSound`). All of it ends but in the named ways (`ConnectEnds`) |
| `TakionThreadRecheck` | the loop's "Re-checking MACs" can be carried out | violated: 7.1 |
| `StreamConnectionLateSend` | data is sent only while Takion runs | violated: 7.2 |
| `SessionPinDeadlock` | a PIN is forwarded | violated: 7.3 |
| `PacketStatsWrap` | the difference of maximum and minimum is a distance | violated: 7.4 |

## 4. Bounds

* **Sequence spaces** (`Half`, `VideoHalf`, `AudioHalf`) shrink from 2^15 to 3..8, so that every run crosses the wrap.
  `StreamsProofs` proves that nothing depends on the size; what matters is that
  numbers in flight are within half of it, which `Near` and `Lag` state as conditions on the
  network and which the sizes of the code's windows (64, 16 of 65536) justify.
* **Streams.** Queue: 4 slots (a power of two in the code), 5 buffers (a full queue and one packet
  more), 6 numbers over the wrap; the theorems are for every size. Video: 9 frames of 3+2 units modulo 8, two
  reference frames, a profile switch at frame 6,
  the next packet less than `Gap` = 4 frames after the last complete frame (with the code's 16 references and 2^16 numbers the
  theorem allows gaps of 4096 frames, a minute of them; after longer ones a reference could be a frame from one space ago). Audio: 17 frames modulo 16, 2+2 units, packets three
  frames late. Messages: every total that takes one to four pieces, for three MTUs. Sends: two
  threads, two numbered packets and the unnumbered ones, keys refreshed every 4 bytes. Ctrl: three messages of the console
  (of `Mixes`: those that are answered, or those about the display) in a buffer of four units, which holds two
  small messages and not the long one; one datagram comes again. Input: every two sources at a
  time, the fewest that can get in each other's way, one timer of a kind at a time.
* **TakionSendBuffer**: 3 slots, 2 senders, 3 packets in a row over the wrap, one retry: enough for
  compaction with a gap in the middle, a full buffer, and a push in each
  unlocked moment of the scan. An age of a packet is "recent", "old" or
  "ahead" (stamped after the scan's `now`), all that the code's comparison distinguishes.
* **PacketKeys**: chunks of 2 blocks, 3 chunks, key stream to position 12, packets to 9 with a low word of 6: the ring
  is lapped and the low word wraps around with packets reordered across the wrap.
* **Media.** Takion: 4 data packets, one of which switches encryption on, 3 queue slots, 4 AV
  packets, 2 places to postpone: one beyond each limit. Data channel: 3 messages one way or the other, a queue
  and a buffer of 2, one repetition: both are exceeded. Video decoder: 3 frames, a queue of 2, 2 calls
  that change surface or pacing. Audio: 2 frames of 3 samples into 2 chunks of 2, so that a frame
  crosses chunks and the ring fills; one device switch, a second header. Player: two pages, two changes of
  surfaces or displays.
* **StreamConnection**: MTUs 2..7 with five paths (below, at and inside the interval and at its top, which the outward search
  never tries), two tries each, two pings; a channel holds one copy of each message on its way.
* **Session**: at most one queued application message (the queue's length matters only as empty or not); the deadlock
  needs only two kinds of messages.
* **Control.** Sender: one key of two levels, one touch slot, a ring of 3, three
  changes: the ring overflows and a touch ends and starts between two looks. USB: two controllers,
  one of which is unplugged, one start, two haptics calls, one frame in a queue of one. Rumble: strengths around the
  least that is felt and one step apart, two settings of the triggers, four events.
* **Remote.** Discovery: three ids and lists of three, hosts dropped after one ping (silent hosts meet talking ones). Rudp: two
  connections with two tries, two ctrl threads, buffer of 2 with keys modulo 8. STUN: 5 servers, a NAT that counts by one below 32, two
  addresses, one silent server, one late answer. Candidates: two offered and two other addresses, three datagrams, two
  timeouts. Holepunch: two attempts, two tries, one repeated offer, one notification under way.
  Session request: two addresses. Creation: sixteen objects, each with every step failing; two of the three attempts at a hole.
* **PacketStats**: numbers modulo 6, a word of 36 as the 64 bits, 7 audio packets.

## 5. Fairness

Threads that have something to do do it (weak fairness of their steps); a mutex that is
given back again and again is got in the end (strong fairness, where a
guard stands for a mutex). Nobody owes anything else: the network need not deliver, the console need not
answer, PSN need not notify, the application need not call. In particular:

* `TakionSendBuffer`: packets age (`SF` on `Age`) because time passes. A timed wait ends; one that is refused
  (`thread.c:246`) ends the thread. No fairness asks for a refusal or forbids it, and what ends with it is excepted by name.
* `GKCryptKeyBuf`: only the generator and a call of fini that has begun. `GetsAhead`
  is about the positions requests stop at.
* `TakionThread`: the loop and its end; not the socket, so that close rests
  on the stop pipe alone. select looks at the pipe before the socket.
* `StreamConnection`: the waits with a timeout end; the heartbeat loop runs until it is told to stop;
  the Takion thread hands over what it received, and sees its pipe even if
  packets keep coming. `Senkusha`: every wait has a timeout, and its thread goes on.
* `Session`: both threads; neither the console nor the application.
* `FeedbackSender`: the deadline is absolute, so early wakeups cannot put it off for ever (`SF` on `Timeout`); the
  network does not lose *every* feedback state (`SF` on `Deliver`), as the code
  relies on by repeating them. A refused deadline ends it at any time.
* `VideoDecoder`: vsyncs come (`SF` on `KFrame`), because a display has a refresh rate; the codec's
  output calls have timeouts. `AudioPlayer`: its threads; the stream's callback is called while it is
  open. `TakionDelivery`: the network does not lose every repetition of the message that is waited
  for, nor is the console silent about it (`SF` on `Arrive`, `WF` on `ConsoleResends`). `MediaFairness`
  states the conditions of its parts together, which is the same because a behaviour stays in its part.
* `UsbDrivers`: the main, module and controllers' threads, whose transfers have timeouts.
* `Remote`: `Regist`'s, `SessionRequest`'s and `Candidates`' waits have timeouts; of `Holepunch` both threads,
  where an external call returns somehow. `Discovery` and `StunPorts` claim no liveness.

## 6. What is proved

For all values of the constants, by TLAPS. The runs show the same properties on
a small instance.

| theorem | module | statement |
|---|---|---|
| `SeqOrder` | `StreamsProofs` | wrapped comparison is the order of the unwrapped numbers if they are less than half of the space apart |
| `TypeCorrect`, `OwnershipHolds`, `DeliveryInOrder` | `StreamsProofs` | the queue's `TypeOK`, `Ownership`, `Delivery`, by the inductive `IInv` (`Invariant`) |
| `Refinement` | `StreamsProofs` | the queue implements the window: `Spec => WindowSpec` |
| `FramesHold` | `StreamsProofs` | `FramesSound`: the whole of the video receiver |
| `UnitsHold` | `StreamsProofs` | `UnitsSound`, from the next five |
| `AudioHolds`, `MessagesHold`, `InputHolds`, `CtrlHolds` | `StreamsProofs` | its parts about sound, the stream's messages, the controller state and the ctrl messages |
| `SendCorrect` | `StreamsProofs` | `SendSound` of `TakionSend`, for any set of threads, sizes and refresh interval |
| `StreamsQueue`, `StreamsSenders` | `StreamsProofs` | behaviours of the run's specification are behaviours of the queue's and of the senders' |
| `TypeCorrect`, `PacketsKept`, `NoLostPush` | `TakionSendBufferProofs` | `TypeOK`, `BufferKept` (one owner per packet, kept while it is tried), `PushWakes` |
| `BufferIsKeyStream`, `EveryPositionRight` | `PacketKeysProofs` | `BufferSound` of `GKCryptKeyBuf` alone, and `Reconstructs` of the positions alone (`KeysSpec`) |
| `TypeCorrect`, `PositionsRight`, `BufferIsSound`, `DecryptionRight` | `PacketKeysProofs` | `TypeOK`, `Reconstructs`, `BufferSound`, `DecryptsRight` of the composition |
| `TypeCorrect`, `HandshakeHolds`, `TeardownHolds` | `SessionStreamProofs` | the stream connection's `TypeOK`, `HandshakeSound`, `TeardownOrder` |
| `KeepsPromise` | `SessionStreamProofs` | the stream connection implements `StreamRun` as far as safety goes |
| `BothTypesCorrect`, `MtuHolds` | `SessionStreamProofs` | `STypeOK`, `MtuFound` of the test and the stream one after the other |
| `MeasureThenStream`, `StreamAfterMeasure` | `SessionStreamProofs` | the composition is first the one, then the other |
| `TypeCorrect`, `QuitHolds`, `CtrlHolds` | `SessionProofs` | `TypeOK`, `QuitTrue`, `CtrlSound` |
| `TypeCorrect`, `HistoryWindowHolds` | `ControlProofs` | `TypeOK`, `HistoryWindow` of the feedback sender alone |
| `ControlHolds`, `ControlWindow` | `ControlProofs` | `ControlSound`: sender, USB drivers, rumble; `TypeOK`, `HistoryWindow` of the composition |
| `MediaTypes` | `MediaProofs` | `MediaTypeOK`: the types of receiving thread, data channel, video decoder, audio player and page |
| `NoPacketForgotten` | `MediaProofs` | `PacketsKept`: the receiving thread, and the data channel over any network |
| `OutputIsSound` | `MediaProofs` | `OutputSound`: frames through the codec, sound through the lock-free ring, surfaces of the page |
| `RemoteTypes` | `RemoteProofs` | `TypeOK`: the types of all eight parts of `Remote` |
| `PeersAreSound` | `RemoteProofs` | `PeersSound`: discovery, registration, the datagram link, the session request, the creation of all sixteen objects |
| `HolesAreSound` | `RemoteProofs` | `HolesSound`: the ports predicted, the candidates chosen, the holes punched |

The assumptions are those on the constants, named in the modules: sizes are positive; the queue's size
divides the space of its numbers and is less than half of it (the code: at most 2^8 of 2^16 or 2^32, a power of
two); the model value for "no buffer" is not a buffer; bounds are natural numbers; the lowest MTU that is tried is below the
highest (`MtuAssumption`); a frame has a unit, and the frames a reference can be away are less than half of the space
of frame numbers (`VideoAssumption`, section 4); repeated and late audio frames are within half of the space of frame
indices (`AudioAssumption`); a packet has room behind its headers, of which the first is one longer
(`MessageAssumption`); `recv_buf` holds a message of the smallest kind that has a payload (`CtrlAssumption`); a controller is none
of the other threads (`DriversAssumption`); strengths are natural numbers and 0 is one (`RumbleAssumption`); the frame queue,
the chunks of the ring and the samples of a chunk are not none (`DecoderAssumption`, the `AudioAssumption` of `Media`: 32 chunks of 1024
samples in `audio-output.cpp:14`); `Remote` counts connections, attempts and tries by natural numbers, of which those that begin at one are
positive, the sets of addresses are finite, and two assumptions bound what is around the code. `LinkAssumption`: the
numbers of a link stay within half of their space of each other; the counter is below 0x6000 in the beginning
(`rudp.c:80`), so this is so for the first 0x8000 messages, and no number has started over by then. `PortsAssumption`: the steps of a NAT over
all servers do not span the port numbers; without it `PortPredicted` is false, as TLC shows for a step of 10
and 6 servers below 32: a difference of -1 between two ports is what the code's initial value stands for too
(`stun.h`), so a test that found it is taken for one not made. Nothing else is
assumed. The theorems hold for specifications whose environment keeps to the window conditions of section 4
(`Near`): they are guards of the actions, not assumptions.

**The queue.** None of its properties is inductive. A slot found set says nothing unless it is known
which number it was set for, and the code never stores that. `IInv` therefore relates
the ring to an unwrapped position `pos`: `begin` is `pos` modulo the
space, a slot within the window `pos .. pos + count - 1` that is set belongs to the unwrapped number at that
distance, and slots outside the window are not asked about. The proof that a push
preserves it needs that two numbers of one window never share a slot
(their distance is less than the size) and that a wrapped comparison with `begin` is that
of the numbers with `pos` (`SeqOrder`). Both facts are lemmas. Refinement then maps the
window `pos`, the set of numbers with a set slot, and the deliveries; an eviction by
`DROP_STRATEGY_BEGIN` is one `Slide` of the abstract window although the code
drops in a loop.

**The video receiver.** `FramesSound` speaks of frames; the code has 16 bit numbers, sixteen references and
the units of one frame. `VideoInv` says what ties them together: the numbers kept are those of the
unwrapped frames, and what is between them is a bounded gap (`NumbersMatch`); slots hold units of the
frame in progress only (`SlotsOwn`); every missing frame up to the present one was reported and none that was accepted
(`Reports`); the k-th reference is a frame
that was accepted, not more than k gaps back (`ReferencesHeld`), which is why a number found among
the references is that frame and not one a whole space older; the last frame handed on was whole, with its
profile and a reference the decoder has (`HandedRight`). The counters of the frame in progress are exact (`Exact`)
and too low to flush it (`Lacks`): this is why the flush that comes late, with the first packet of the
next frame, always fails and reports the frame, as one that could be completed has
been flushed by the unit that completed it.

**The send buffer.** The array is written by three parties in pieces: the shifting in `ack` is a
recursion over the slots, and the resend thread gives a packet up with the mutex given back in
between. The inductive invariant says that no number is in the array twice, and that exactly the packets that are
owned are in it. The shifting is described by which slots an index ends at
(its lemmas are by induction over the slots, `SetInduction`), so that what is not covered by an ack keeps
its place in order. `PushWakes` needs that the thread decides for
a wait without timeout only while it holds the mutex and the array is empty.

**The key stream.** The chunk that is being written lies outside the populated part and stays
there: a request moves the end of what is *wanted*, never the ring; only the thread
moves `key_buf_key_pos_min`, and before it unlocks. The
lemmas say which slots the ring index arithmetic maps apart.

**The key positions.** A commit may move the reference either way, to the position of any authentic packet that still arrives; the
invariant says that the reference and the packets under way are all less than half of the space behind the last one sent
(`Recent`), so less than half from each other. A 32 bit number
within half of the space of the reference has one completion (the proof is about
the code's two comparisons and one addition of 2^32).

**Key stream and positions together.** The steps of `PacketKeys` are steps of `GKCryptKeyBuf`, of
the positions (`KeysNext`) or of both, so that the
two invariants hold in the composition by the same lemmas. What is added is
about the read: a request that lies in the populated part, in one piece or in two around the end of
the ring, copies units that are the key stream from the requested position on (`CopyRight`), and that this
position is the one the packet was encrypted at is `Reconstructs`.

**The stream connection.** The invariant says what each place in the run knows (`Stages`): which state it has announced to
the Takion thread, what it means there that the callback set `state_finished` (`Announced`), on what the result it is on its
way out with is founded (`Outcomes`), and what is owned (`Owned`). An early stream info is not lost because each message is under
way once, and the stream info only while it is wanted (`Once`, `Wanted`). The refinement maps the place in the run to
the phase of `StreamRun`; every step but the begin, the announcement, the end and a stop stutters.

**The MTU test.** A probe's answer cannot be confused with that to the request before it (`Asked`), so an answer means that
the present size passes (`Passing`); the upper bound is a size that does not pass, or the largest, which is tried
first inwards and never outwards (`Upper`). `Bounds` are the arithmetic of the bisection. `MtuExact` is `Found` at the end of a search
in which nothing was lost and no wait was refused.

**The session.** Which threads run at each place of the session thread (`Lifetimes`), and that
every reason is true when it is set and what makes it true is never taken back (`Reasons`), give `QuitTrue`; that what is queued for Ctrl keeps its
stop pipe signaled wherever the thread is, not only in its select (`Signals`), gives `CtrlSound`.

**The history.** A push moves `begin` back by one, so the entry at distance `i` becomes
the entry at distance `i + 1`; the lemma on the ring's indices is
`(b + Size - 1 + i) % Size`. While the thread writes it, the console has been told of the present state up to the key or slot the
thread is at, and of `prev` beyond (`KeysTold`, `TouchesTold`); `prev` is the present state whenever nothing changed since the
last look (`Looked`). A touch that is down has an event after which none speaks of it, so an end written for
the old touch of a slot takes down exactly that one.

**Controllers over USB.** `MonitorHeld` says at which step the holder of each controller's monitor is, and that the module
thread, while it starts haptics, finds the descriptor its own or nobody's: another controller that stops only ever clears it. A
controller is claimed once and listed once, so what the service takes out of its list never comes back (`Victim`), and while a controller is
listed nobody but its own input thread stops it (`Claimed`): that is why the unlocked `stopped` and list
do not leave a closed controller behind.

**Rumble.** Motors are as in the last event that was not dropped (`MotorLast`), which is within one step of the console's last; the
last report of triggers in the queue to the page is the console's last, and the cache has it before (`TriggersLast`), so
a rumble in between writes no older triggers.

**Sending.** A thread encrypts only while it holds the mutex; what it is about to use lies before
`key_pos_local` and past every byte that was used (`StreamOwned`). The key of a MAC is that of the
period of the packet's own position, whether the current key is that, an older or a newer
one; the invariant adds that the current key is the one its index names, and that a packet about to be
sent already has its key (`KeysAgree`), as a later send may move the current key on in between.

**Sound.** The receiver compares 16 bit indices and hands a frame on if it is newer than the last. `Heard` says that the index kept
is that of the last frame heard, and `Flying` that no packet on its way is more than half of the index space from
it, so that "newer" is the order of the frames (`NewerMeaning`). A packet holds a frame and repeats of earlier ones;
that the loop over them hands on only frames of this packet, in order, is an induction over the turns of the loop.

**Messages.** The sum of the pieces is a recursive function; that it exists, and that a piece more adds its size, is proved first (`SumOf`).
Each middle piece fills its packet, so a message that was split and has nothing left ended with a full one
(the piece that is last but not marked so); that the first packet is no exception needs that only its header
is longer. For the pad, what was told last is what the console said last, as news are told whenever they differ from what is kept.

**The controller state.** `InputInv` gives for everything the state shows a reason in what the user does: a button rests on
a finger, a key or a report, or on a timer that will take it back (`ButtonsRest`); a trigger, a stick or a touch on the source that last moved it
(`TriggersRest`, `SticksRest`, `TouchesRest`). Every handler, timer and gesture is shown to keep
this, also those that write what another source owns. `SlotsApart` keeps the two touches of a controller over USB different.

**Ctrl messages.** The console's units are a recursive function (`UnitsLaid` proves that it exists). While nothing came twice,
what is in `recv_buf` followed by what is still to come is that function from the first unhandled message on, and the counter is the number
of payloads before it (`InOrder`): moving units into the buffer and taking a
message off it leave this as it is (`MoveOver`, `TakeOff`). Toward the console, either nobody sends and both counters
are equal, or one thread does and has the counter the console expects (`OneSends`), as long as `clash` is false. `ShownFor` ties what
is shown to the handled messages; that a taken back first message leaves it shown needs that `cantB` stands for a second
message that was not taken back (`SecondStands`).

**The receiving thread.** Every buffer is counted: what the queue holds, what is postponed and what was lost is
what is alive (`Counted`), and what arrived is either postponed, handed on, refused or lost (`Accounted`). The order
needs that packets are postponed only while there is no encryption although there is to be, and that none is handed on
meanwhile (`AVOrder`): so the loop that hands on the postponed ones (a recursive function; what it returns is an
induction, `HandedOnIs`) continues an empty sequence.

**The data channel.** `Carried` is nearly inductive; what is missing is that acknowledgements name only what the other side
has (`AcksTrue`), and that the window and the room of the buffer bound what is under way.

**The picture.** The frames are in order along their way, from the one being shown over the queue, the codec's output and input to the one
that waits for an input buffer (`FrameOrder`). This gives the order on the screen, and also why no frame is in two
places. Which thread may hold a frame at which of its steps (`ThreadsFit`, `PacingFits`) is a matter of the pacing
it has read, which may have been changed since; what was queued under the old one is dropped before anything else is shown
(`StaleFits`). Each vsync that was asked for goes back to a call of `set_surface` (`VsyncFits`).

**The sound.** The ring has no lock, so the invariant speaks of the state between any two accesses. A thread that takes a chunk has it in
its hand while it is still at the head; one that gives a chunk has written it behind the tail, where
nobody looks yet (`ChunksHeld`). The chunks of both queues and both hands are all of them, and as many places as chunks
(`Owned`): so none is in two places, and a queue into which a thread gives has room. `InOrder` says that what was
played, what is still to be heard of the chunk being played, the full chunks in their order and the filled part of the one being filled
are, one after the other, what was accepted. The chain of full chunks is a recursive function; that it exists, what a
chunk more or less at either end does to it, and that writing into a chunk outside of it changes nothing, are
inductions (`ChainJoins`, `ChainAppend`, `ChainTail`, `ChainBehind`, `ChainSame`). The positions in a queue go around; the content of a
queue whose index is moved, and of one into which is written behind the tail, is computed in `RingPut`, `RingShown`, `RingTaken`.
`LettingGo` says when the threads have let go of codec and ring.

**The page.** What the decoder renders to follows each step of a session (`ViewFits`). That no picture goes to a display
that is gone speaks of the time when all posted blocks are through; the invariant says of the blocks that are still
posted that the last of them that switches the active session goes to the phone, unless there is a display (`EndsOnPhone`).

**Who is out there.** `HostsInv` adds to the list of hosts what each thread of discovery may still do with it. The positions at which
hosts stay are described by the increasing function onto them (`InOrder`); that it exists and is the only one is an induction over the
length (`Ranked`), and from it a scan that deletes keeps the order and the ids apart. `KeysInv` says of each
step of the registration what it holds and what its outcome rests on.

**The link.** The exchange of connection steps and the sending of messages are invariants of their own. `ExchangeInv`: what is
under way, the answers in the socket before the requests that are not answered yet, is in the order of the steps, and nothing of it
belongs to a step below the one finished last (`Flow`); so an answer of the kind that is expected is an answer to this very step.
Only the last step of a connection may be given up without one, which is why the next connection begins with a bound that is one lower
(`Lowest4`). `MessagesInv`: two senders may confuse their keys, but a key lies above the number of its own message and
not above the counter. An acknowledgement names at most the first number the console lacks, so by `LinkAssumption`, under which
comparing wrapped numbers is comparing numbers, what it covers the console has; and no key is twice in the buffer.

**The ports.** `mapped` is an arithmetic sequence that starts over at most once (`Turned`, `PortsCounted`), and the answers are the
ports of some of the requests in their order, given by an increasing function (`PortsAnswered`). Four answers give three
differences, of which the turn spoils at most one, so two are equal to the step: the increment that the code's vote takes. With one
answer missing the differences add up to the distance. A late answer is refused by the request that reads it, which goes without its own; that changes
who answered but not the order of the ports.

**Candidates and holes.** `TriedInv`: once an address is chosen it has answered, on the only socket that is left, and this socket had asked
somebody; when it fails no socket is open. `HolesInv` says how many request ids are taken by each place of the main thread
(`IdsTaken`), which thread may run in it, what every message that was sent had for its cause (`Caused`), and where the messages of
`ctrl` may stand in the queue and on the wire (`HolesOrder`, `HolesLater`): the ACCEPT is never before an OFFER of that hole and comes
once, so the wait for the second hole finds nothing that belongs to the first.

**What a session is made of.** The courses of the sixteen objects are composed as the code composes its init functions, and so is the
proof: `Tidy` says of a list of steps that whichever of them fails, but for those named, releases what was there by then once and nothing
else; that a list of releases is for a set is `Releases`. Both are closed under appending one course to another
and under giving every step of a course more to release (`TidyConcat`, `TidyElse`, `TidyNext`), so each init function is proved
from those it calls, in the order of its labels. `Orderly` adds the end of each object: it releases what was taken, the
thread first. The invariant of `Creation` then needs only the place in the course.

**Only model-checked.** Every liveness property: fairness and `ENABLED` are beyond the
prover. `ShrinksByAck`, which compares the array with the part of it that `SelectSeq` leaves:
that operator of the library takes a LAMBDA and is recursive, so the prover has no facts about it (which packets an ack
removes, and that the rest stays, is part of `PacketsKept`, the theorem on `BufferKept`). Every invariant that
a run checks is proved. No module declares a RECURSIVE operator; recursion is written as functions over
an index, which can be reasoned about once it is shown that such a function exists.

## 7. Where the code deviates

Shown by a run that finds the violation:

1. `takion.c:905` peeks the data queue with `seq_num` NULL, `reorderqueue.c:158` writes
   through it. The process dies if the queue holds an out-of-order packet at the
   moment encryption is switched on. (`RecheckCompletes`)
2. `streamconnection.c:441` looks at DISCONNECT only while it waits for CONNECTED. After the Takion
   thread ended by itself, the heartbeat loop keeps sending on a
   connection whose send buffer is freed. (`SendsWhileRunning`)
3. `session.c:640` calls into Ctrl with `state_mutex` held and takes `notif_mutex`; Ctrl's handlers
   take them in the other order. (`PinForwarded`)
4. `packetstats.c:71` subtracts 16 bit numbers as `int` and stores the result in 64 bits; the
   wrap its comment speaks of becomes a difference near 2^64. (`DiffIsDistance`)

The models contain the following as well. Properties are stated so that they hold
with them, and say in their comments where.

### Transport and stream

* `takionsendbuffer.c:72` sets `should_stop` and signals without the mutex. With an empty
  buffer the signal can fall between test and wait, and the join never returns;
  `FiniWithPackets` is the case in which a timeout saves it.
* `takionsendbuffer.c:261`: giving up a packet is a cumulative acknowledgement, so older packets with tries left go
  too; and the number is read from the slot after the mutex was released, so it may be another
  packet's (`KeptWhileTrying` ends with the first packet that is given up).
* `takion.c:571`: a data message whose send fails has used up its number; nothing fills the gap.
  Nor is `:579`, the error of a push into a full buffer, looked at: the message is sent once
  (`dropped` of `TakionDelivery` in both cases).
  `chiaki_takion_set_crypt` stores without the mutex the senders hold.
* `takion.c:1051`: a packet that finds `postponed_packets` full is not freed, and those still
  postponed when the thread ends are not either (`BuffersOwned`).
* `takion.c:1177`: data is acknowledged only after a pull, so the retransmission of a pulled
  packet is never acknowledged. If the last acknowledgement was lost, the console repeats its
  message without end (`Settled` excepts it).
* `reorderqueue.c:177`: `chiaki_reorder_queue_drop` frees an entry and leaves it set. Its one
  caller is the loop of 1. that is not reached alive.
* `streamconnection.c:235`: a stop during the connect jumps past the stop of congestion control, whose
  thread outlives `chiaki_takion_close` (`CongestionStopped`). `:1161`: when the rest of a BIG message
  just fills a packet, no piece is flagged as the last; an error of an earlier piece is overwritten by a
  later success. The LED event compares the motion counter with its bytes reversed, which is
  consistent but not the order they are sent in.
* `thread.c:246`: a deadline whose nanoseconds add up to exactly one second is not normalised and the wait returns EINVAL at
  once. It can happen to every wait that is not of whole seconds. In `senkusha.c:421` and `:560` an assertion says that no
  wait ends that way; where it is compiled out, the wait counts as an answer (`DeadlineRefused` of `Senkusha`; `WaitsTimely`
  would be violated, `MtuPasses` excepts it). At `takionsendbuffer.c:231` it ends the thread: what is held is never sent again, given up or
  released until fini (`RRefused` of `TakionSendBuffer`, `Desert` of `TakionDelivery`; `EventuallyReleased` and
  `Settled` except it). At `feedbacksender.c:268` it ends the sender: the last feedback state is not repeated and later
  changes are not sent (`Refused` of `FeedbackSender`, which `StickArrives` excepts). At
  `discoveryservice.c:149` it ends the pings (`LoopEnds` of `Discovery`). It also ends the
  loops of congestion control (`congestioncontrol.c:18`) and of the re-send thread of rudp (`rudpsendbuffer.c:271`), about
  which only safety is stated, and at `session.c:630` it would end the wait for a PIN, where an assertion follows;
  these three are not modelled. `session.c:600` ignores how its wait ends.
* `videoreceiver.c:131`: the special case for frame 1 is dead, because the comparison before it is
  already false. The late flush (`:123`) never has a frame to hand on: `EnoughFlushed`.
  `frames_lost` (`:173`) counts a frame again for each failed flush and goes negative
  at the wrap. `frameprocessor.c:152` is off by one in a check for malformed headers, outside the
  model's well-formed packets.
* `audioreceiver.c:105`: the units repeated for error correction come after newer ones in every packet, so they
  are never used and repair no loss (`HeardOwn`). A microphone packet carries the new frame twice and the one before it.
  If the first 2^15 frames were lost the first index would be taken for an old one.
* `packetstats.c:72`: the conditional counts duplicates and late packets as lost, and
  `chiaki_packet_stats_push_seq` takes no mutex although a report resets the counters.
* `feedbacksender.c:228`: of a touch that ended and another that began in the same slot between two
  looks only the end is sent; a key pressed and released between two looks is not sent at all.
  The history is not repeated without a new event, so the console stays stale
  if its last packet is lost: there is no liveness property for it. The
  minimum interval of `feedbacksender.c:5` is not enforced: the wait returns at once if there was a
  change.

### Session and ctrl

* `ctrl.c:385`: the pipe is reset after a PIN was sent although a stop had signaled it too; `ctrl.c:866`: a
  PIN request may come after the session stopped waiting for one; `ctrl.c:233`: a message queued
  while Ctrl connects cancels the connect; `ctrl.c:394`: a byte that is
  left in the pipe with an empty queue keeps Ctrl busy without serving its socket, so that there is no
  property that a queued message is sent in the end (`StopEnds` and `CtrlSound` say what is left).
* `ctrl.c:548`: `crypt_counter_local` and the socket have no lock in common when the session thread enables
  features for an id it made up (`session.c:684`): counters collide and header and payload interleave
  (`clash` of `CtrlMessages`).
* `ctrl.c:430`: over rudp a datagram that is resent after a lost acknowledgement is handled twice, and
  `crypt_counter_remote` is ahead of the console's for the rest of the session. `ctrl.c:459`: a message of an
  unknown type is acknowledged as number 0, which drops keys of the upper half from the send buffer.
* `ctrl.c:884`, `:894`, `:1389` call `display_sink`, which the Android application never sets: the
  messages about content that cannot be shown end the process ("crashed"). `ctrl.c:880`: `cant_displaya`
  stays set if the first message is withdrawn before the second.
* `ctrl.c:767`: the session id is tested and stored under two holds of the mutex, so that the
  console's id may replace a fallback id in use.
* `session.c:629`: `pin_incorrect` of the second request is not derived from the answer but from
  having asked before.
* `session.c:898`: a quit reason of an earlier address or request stays although a later one is granted
  (`ReasonGiven` allows "refused" and "version"). Over rudp a failed exchange gives no reason and does not look at the stop
  pipe. A PS5 that names version "5.0" is asked for the protocol of PS4 9.0. A second refusal repeats the
  request for the target of the first. `session.c:534`: after a failed rudp init the session goes on over TCP.

### Discovery, registration, internet

* `session.c:558`: the session thread holds `state_mutex` while `chiaki_regist_fini` joins; the callback of the
  registration (`session.c:1188`) takes it. Both wait for ever (`RegistEnded` is about the bridge only).
* `regist.c:557`: the return of `regist_start` is ignored; a check for a stop overwrites a failure with
  "stopped"; a connect over TCP does not look at the stop pipe. `regist.c:333`: any end of the wait but the timeout is
  told as canceled ("interrupted").
* `rudp.c:214`: the key a message is kept under is read after its counter was drawn and without the mutex. Two
  threads may get one key; the second push is refused and the call fails although the message was
  sent. After a give-up at index 0 the scan skips the next packet.
* `holepunch.c`: `session.c:653` shadows `err`, so a failed offer for the data hole goes on to punch with
  `our_offer_msg` NULL (dereferenced at `:1550`, "crashed"); returns with the mutex locked (`:955`, `:962`, `:969`, `:982`, `:991`,
  `:1168`); an unlock of an unlocked mutex (`:1175`); a wait without a timeout for a websocket that may never open (`:883`);
  sockets that are leaked after an error or a failed wait for an offer; a RESULT of the
  hole before that keeps `:4916` looking for ever. After the last failed try the bridge (`chiaki-jni.c:948`) returns without
  `chiaki_holepunch_session_fini`, so that the session and its websocket thread stay ("left"). The data hole is punched with `state_mutex` held, so a stop
  waits for it.
* `holepunch.c:4168`: a failed send of a confirmation closes the sockets and returns SUCCESS with `*out` unset
  ("hollow" in `Candidates`). `:4266` compares a prefix including its NUL, so no address counts as private.
  `:3917` puts an invalid descriptor into a set.
* Creation (the steps in `Wrong` and `Kept` of `Creation`). `session.c:242`: in `chiaki_session_init_v6` the labels come in another order than
  the acquisitions, so a failure of Ctrl or of the stream connection releases what was not taken and keeps what was.
  `takion.c:396`: `chiaki_takion_connect` returns `ret`, which a failed stop pipe, socket option for extra messages or thread leaves at SUCCESS;
  a socket it was given stays open after its first failures. `chiaki-jni.c:828`: over PSN the session is made before the console is
  looked up and the hole punched, and is forgotten when either fails. `audiosender.c` keeps its first buffers when a later step fails; the holepunch
  session keeps a header when its queue fails, and never gives back one mutex and its own memory.
* `stun.h`: an answer that comes late is read by the request to the next server, which rejects it by its transaction id (`:562`)
  and goes without its own; a NAT that counts down is missed by one;
  with three of four differences equal the sign is wrong; a primary port of 0 can be offered (`Regular`).
* `chiaki-jni.c:854`: a console that is not found ends in the error path with SUCCESS as the error.

### Android

* `video-decoder.c`: each `set_surface` while BALANCED adds another vsync callback that renews itself;
  the output thread loops without a pause on codec errors; a sample that waits for an input buffer
  holds the mutex the surface needs.
* `audio-decoder.c:200`: a frame that finds no input buffer returns with the mutex locked; freeing the session
  hangs (`Freed` excepts it). `audio-decoder.c:46`: a codec that gives no buffer for the end of the stream is not told of it, and
  its thread is joined for ever ("stuck", excepted too). A failed reopen of the output leaves `stream_open` false; a reopened one first
  plays what was buffered before.
* `StreamSession.kt:201`: leaving a page within the second of its timer starts a session that nobody stops
  (`astray` of `Player`); `attachToSurfaceView`'s posted block does not look at `externalDisplayActive`;
  `ExternalDisplayController.kt:100` reports success without switching when the presentation of the session before is still
  there; timers of the page are not cleared (`Stream.tsx:633`, `StreamView.java:410`) and may come in the next one.
* `UsbDriverService.java:377`: taking the first of a list another thread has just emptied ends the process ("crashed"). A
  permission that is granted after the stop claims a controller nobody stops. `startHaptics` between the two halves of a stop leaves a
  native descriptor of a closed connection; the haptics of two controllers go to the last
  one that enabled them, and either one's end turns off both. `Xbox360WirelessDongle.start` always returns false.
* `StreamView.java:731`: a finger on the screen's touchpad sets all buttons to 0, those that are held on a gamepad
  too. `:1295`: in the short trigger mode the axes of both triggers lose their say with the first
  trigger key; one that was pulled stays pulled (`orphaned`). `:1401`: `isRightstickMoving` is left only with a later
  event; with `swapDpad` the right stick itself is not used, and what the gyroscope set stays (`SticksMeant`
  excepts it). `:992`: ACTION_DOWN has one pointer, so a second finger is never shown.
* `Stream.tsx:205`: a trigger that is to be held begins with a release; `:77`: `gpState` outlives the page, whose
  controller state is neutral; `:224`: a button pressed again within 16 ms is let go by the timer of the release before.
  `StreamViewManager.java:318` has no `break`: a keyboard command goes on to set a login PIN.
* `StreamSession.kt:419`: while haptics are active a rumble is skipped, also one that would stop the motors (`missed`).
  `Stream.tsx:983`: a report of triggers turns the motors off, and an equal rumble is then dropped (`silenced`).
  `StreamSession.kt:177`: `DualSenseController.rumble` is empty, so the motors of a DualSense run on at the end.

## 8. What is not modelled

* **Formats and ciphers.** Parsing, formatting, AES, GMAC, ECDH, FEC arithmetic, HTTP, JSON, protobuf, the text of
  requests. A MAC is right or wrong, a frame with enough units can be put together, an external call succeeds or fails.
* **Failed allocations** outside the init functions of `Creation`.
* **Malformed packets.** Inputs are those of a console that follows the protocol, in any
  order and number; the length checks are left out.
* **Clock arithmetic**, but for the refused deadline of `Senkusha`, `TakionSendBuffer`, `TakionDelivery`, `FeedbackSender`
  and `Discovery`: a timeout may come at any time. The refused waits of congestion control, rudp's
  re-send thread and `session.c:630` are left out.
* **Ctrl**: the keyboard messages, the downgrade of the video profile, partial sends. **Holepunch**: cancelling
  (`main_thread_cancel`, which nothing in the application calls) and its returns with `state_mutex` locked
  (`holepunch.c:991`, `:1168`), the account functions, UPnP. **Creation**: a holepunch session that cannot be made
  (`chiaki-jni.c:712`), after which `chiaki_session_init` takes the path of a console at home. **USB controllers**: that a listener set
  late is told of the controllers there are (`UsbDriverService.java:139`); each controller is claimed once. **Discovery**: waking a console. **Congestion control**: the loss
  fraction and its thresholds.
* **Android**: the bytes of device reports, motion sensors, the choice of a vibrator, battery, wake lock, brightness, refresh rates, the
  choice of codecs, conversion of Java objects. **React Native**: pages other than the stream page.
* **Desktop decoders** (not built), **the DualSense tester**, **vendored code**.
* `Rudp` assumes a network in order, which understates what UDP does; losses and repetitions are there. That no connection goes on
  with the answer to another step (`misled`, a half of `RudpSound`) rests on it.

## 9. Plan

Done: all modules of section 2 and the theorems of section 6. Left, in this order:

1. Keyboard messages of ctrl, and the drop of the reorder queue.
2. `CongestionControl`: loss fractions from `PacketStats`, and the passing side of its properties.

## 10. How to run it

`tlc -config Streams.cfg Streams` checks a module; the run's module and configuration
are listed in `PROJECT.json` (the run `StreamConnection` checks the module `SessionStream`).
`tlapm StreamsProofs.tla` checks proofs. Deadlock
checking is on only for `PacketStats`, which can always take another packet or report within
its bounds, and off where the system is used once and then ends (each
configuration says what ends).
