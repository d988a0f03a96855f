# TLA+ specification of arduino-mqtt-sn-client

The library lets an Arduino sketch talk MQTT-SN to a gateway over UDP, TCP or
LoRa, and, as a second program, lets a host use a board as a modem over a serial
line (the UART bridge). This directory holds TLA+ modules of both, the TLC
configurations that check them, and theorems proved with TLAPS. `PROJECT.json`
lists runs, mutants, hazards and, definition by definition, the source lines each
module models. Paths below are those of the repository.

| To check | Run |
|---|---|
| client and gateway | `tlc -config delivery.cfg MCMqttSn`, likewise `wrap`, `reliable`, `tcp`, `overlap`, `qos1`, `tcp_coalesced` |
| heartbeat | `tlc -config heartbeat.cfg MCHeartbeat` |
| addresses and messages | `tlc -config datapath.cfg MCDatapath` |
| UART bridge | `tlc -config bridge_send.cfg MCUartBridge`, likewise `bridge_ends`, `bridge_torn` |
| proofs | `tlapm MqttSnProofs.tla`, likewise every other `*Proofs.tla` |

## 1. The system

One thread runs everything: the sketch calls the library, the library pumps the
socket, and the socket calls back into the library with each message it reads.
There is no preemption. What is hard is that most calls *block in a loop that runs
the handler*, so that any message may be handled in the middle of any call, over
networks that lose, duplicate and reorder, with one variable, `await_msg_type`, as
the only guard.

| Component | State | Operations | Talks to | Correct when |
|---|---|---|---|---|
| `MqttSnClient.h` | connection flags, `await_msg_type`, message id, two topic registrations | `begin connect subscribe publish register_topic loop` | handler (calls), socket (`loop`), `System` | calls return, ids belong to their topics, one request at a time |
| `MqttSnMessageHandler.h` | none of its own | `receiveData`, `parse_*`, `send_*` | socket (callback and `send`), client (friend) | an answer is taken only for the request it answers |
| `SocketInterface.h` and its sockets (`WiFiUdpSocket`, `UdpSocket`, `RHDatagramSocket`, `RHGenericDriverSocket`, `ClientSocket`, `SX1276Socket`) | receive buffer, addresses, TCP connection | `begin send loop` | network driver, handler, bridge | one message in, one message handed on |
| `mqttsn_messages.h` | none | constructors | handler | lengths and flags are those of MQTT-SN |
| `System.{h,cpp}` | heartbeat period and time | `set_heartbeat has_beaten sleep exit` | client | a timeout is neither missed nor early, also when `millis()` wraps |
| `TransmissionProtocolUartBridge.h` | status of the exchange, serial, send and receive buffer | `begin putChar receiveData loop` | serial stream, socket | what is sent is what was typed, no buffer is overrun, no exchange sticks |
| sketches in `examples/` | - | `setup`, `loop` | client or bridge | - |
| sniffers and transmitters in `examples/rf95/` | - | radio tests without the library | - | not modelled |

The gateway and the network are not in the repository.

### Behaviours that are hard

- An answer arrives after its caller has given up, or twice, or in another order,
  and meets the next call's wait (`parse_suback`, `handle_regack`, `parse_connack`).
- Two records, `registration` and `publish_registration`, share the job of mapping
  names to ids; a call that fails half-way leaves one of them half changed.
- The keep-alive of `loop()` and the requests of the other calls share one
  `await_msg_type`.
- Waiting loops without a timeout; a lost answer is waited for for ever.
- TCP has no message boundaries.
- The bridge reads one character a turn, checks its buffer with `==`, and lets a
  finished line wait for the end of the exchange before it.
- `millis()` wraps, `duration * 1000` overflows on AVR, length bytes are taken
  modulo 256.
- Addresses are six bytes made and read by hand in every sketch and every socket.
- A packet overwrites the one the host is just fetching.
- The host can reset the board in the middle of an exchange.

`PROJECT.json` lists every hazard with its line, and with the property that would
catch it or the reason why there is none yet.

## 2. The modules

They fall into four groups, each with its own view of the same code:

| Group | Modules | View |
|---|---|---|
| session | `MqttSnLink`, `MqttSnClient`, `MqttSnSystem`, `Exchange` (abstract), `MCMqttSn` | order of calls, messages, losses, copies |
| time | `Heartbeat`, `Timer` (abstract), `MCHeartbeat` | `millis()` and the timeouts |
| bytes | `MqttSnMessages`, `MqttSnSockets`, `MqttSnDatapath`, `MCDatapath` | addresses, flags, lengths, the line buffer of the sketch |
| bridge | `UartBridge`, `MCUartBridge` | lines and exchanges of the serial host |

### `MqttSnLink` - messages and sockets

Messages are records with the fields the client looks at. Two queues hold what is
under way. `Transport = "datagram"`: `socketInterface.loop()` reads one datagram,
any one if not `Ordered`; `Lose` and `Duplicate` act on either queue.
`Transport = "stream"`: `ClientSocket`. It is not connected until the first
`send()`, which also connects again after a break (`SocketSend`); one `loop()` takes
any non-empty prefix of what has arrived, and only its first message is handled
(`StreamReceive`). `send()` may fail if `SendMayFail`. `Budget` bounds the API
calls, gateway initiatives, losses, duplications and connection breaks of a
behaviour; `Spend` takes one.

### `MqttSnClient` - client and handler

Everything the thread does between two calls of `socketInterface.loop()` is one
step. `pc` is the place it has reached: `"app"`, one of the waiting loops
(`Waits`), or the code after such a loop.

| Code | Actions |
|---|---|
| `connect()` | `Connect`, `PumpNothing` or a read, `ConnectCheck` / `ConnectBeat` (timeout, second try) |
| `subscribe()` | `Subscribe` (first wait), `SendSubscribe`, second wait, `SubscribeReturns` |
| `publish()`, `register_topic()` | `PublishRefused`, `Publish`, `PublishIdle`, `PublishRegistered` or `PublishUnregistered`, `SendRegister`, `RegisterReturns`, `PublishReturns` |
| `loop()` | `Loop`, a read or `PumpNothing`, `LoopPing` |
| a waiting loop whose socket fails | `PumpFails` |
| `receiveData()` and the parse functions | `Ignore`, `ParsePingreq`, `ParsePingresp`, `ParseConnack`, `ParseSuback`, `ParseRegack`, `ParsePublish` |

Kept on purpose: `notify_socket_connected()` is never called, so
`socket_disconnected` stays set; the missing `break` after `parse_regack()`; QoS -1
stored as 255 in `granted_qos`; `memset(this, 0, sizeof(this))`, which clears two
bytes on AVR, leaves the flags of a SUBSCRIBE uninitialised, so that the QoS asked
for is a nondeterministic choice (`FlagsCleared`, `SentQos`).

Abstracted: time (`has_beaten()` returns anything in `loop()`; in `connect()` it is
true only when nothing is under way, or at any time if `PrematureTimeout`), payloads,
the retain and dup flags, byte lengths, addresses (a message comes from the gateway
or from another node). `called` records the names of the last `callback()`.
The `topic` field of a PUBLISH is not on the wire: it records what the sketch
passed to `publish()`, so that a property can speak of it. No action reads it.

### `MqttSnSystem` - with the gateway

The gateway (`Gw*` actions, external) is what the handler expects of one: it answers
each request once, keeps one session, gives distinct non-zero ids to topics, may
grant a lower QoS than asked for, may reject, forwards publications and pings.
`Noise` is another node that sends to the client. `LinkDrop` breaks the TCP
connection with everything on it. `MCMqttSn` gives topics, ids and budgets.

The gateway also is the reason for `Exchange`, the abstract specification of what
subscribe(), register_topic() and the keep-alive do: `Ask` when nothing is on its way,
`Answer` once, `Take` the answer before anything else. `MqttSnSystem` instantiates it
with `await_msg_type` and the numbers of requests and answers in the two queues
(`OneAtATime`), and `ExchangesOneAtATime` says that every step of client, gateway and
network is a step of it or leaves it unchanged.

### `Heartbeat` and `Timer` - real time

`System` over a `millis()` that wraps at `ClockRange`, with its two users: the timeout
of `connect()` (`Connect`, `ConnectSent`, `ConnectPolls`, `ConnectReturns`, `Wakes`) and
the keep-alive of `loop()` (`LoopPump`, `LoopPolls`). `Tick` advances the time; `MayPass`
bounds how long a turn of a loop, a `send()`, a `sleep()` and an answer take.
`duration * 1000` is taken modulo `IntRange`, 2^16 on AVR. The real time `now`, `since`
and `poll` are there for the properties: no guard of the program reads them.
Left to `MqttSnSystem`: what the network loses (here a PINGREQ is answered within
`MaxReply`), and the other calls of the sketch, which are time between two turns.

`Timer` is what the client relies on: a timer on a clock that never wraps, which
beats at the first poll more than a period after it was set. `Heartbeat` instantiates
it (`Timing`), and `HeartbeatIsTimer` says that it implements it.

### `MqttSnMessages`, `MqttSnSockets`, `MqttSnDatapath` - bytes

`MqttSnMessages` has one operator for each constructor of `mqttsn_messages.h`, under its
name: the length byte in 8 bits, the flags byte as a set of bits, where the text of a
struct starts and how long it may be. A text is what it says and its length.

`MqttSnSockets` has, for each datagram socket, `send()` (which endpoint a six byte
address reaches, and the result) and `loop()` (with which address a packet is handed
on, if it is). Sockets with code of their own have operators of their own, since that
they agree is the question. Drivers are external.

`MqttSnDatapath` puts them together: the client sketch (`Setup`, `ReadSerial`,
`Subscribe` ... `EndsLine`), the parse functions, a bridge board with the gateway's
host behind it (`GatewayReceives`, `GatewayAnswers`, `GatewayPublishes`,
`GatewaySendsOther`) and a third node on the same network (`OtherSends`). `Networks`
pairs the sketches that can talk to each other, with the addresses written in them;
`PromiscuousBridge` is the only pairing no sketch sets up, and the reason why
`RHGenericDriverSocket` filters at all. `meant` (what the sender of a PUBLISH means by it),
`typed` (the line typed) and `overlong` (a line has reached the last byte of the buffer) are
there for the properties. The session is the one of `MqttSnClient` with QoS 0, without timers.

Nothing in the sketches bounds `buffer_pos`. `ReadSerial` has no bound either, up to the end
of the array `buffer[buffer_length + 1]`: a line of `buffer_length + 1` characters fills it and leaves
no NUL, so that `strlen()` runs on into what lies behind it (`Strings`, over the strings in
`Behind`). What a still longer line overwrites is undefined and not modelled.
`memset(buffer, 0x0, buffer_length)` then leaves the last byte as it is (`Cleared`).

### `UartBridge`

One turn of the bridge sketch's `loop()`: at most one character (`ReadChar` or
`NoChar`: `putChar`), then the socket (`SocketLoop`: `receiveData`), the test for
RESET (`CheckReset`), the command (`ParseCommand`), one step of the exchange
(`SendStep`, `ReceiveStep`, `ConfigurationStep` or `NoExchange`) and the end of the
turn (`EndOfTurn`: PARSE_FAILURE and ERROR). `pc` is the part of the turn.

A character of the model is a keyword, a number, `"JUNK"` or the end of line: the
host types faster than a real one, which makes every overflow and every typing
ahead easier to reach, not harder. `resetChip()` restarts an ESP8266 or an Uno and
only prints elsewhere (`ChipResets`). `socketInterface.loop()` fails only for
`ClientSocket`, and there as long as it is not connected. With `SocketMayFail` the variable
`connected` is its connection: it may never have been made (`Connections`) or break at any
time (`ConnectionBreaks`), and only `send()` makes it again (`sendDataToAddress`), which a bridge whose
`loop()` returns at once (line 197) does not come to. No sketch builds a bridge on a `ClientSocket`.
The variables `line`, `typed`, `lines`, `sent` and
`reported` are the host's side: what it typed and what it was told.

## 3. The runs

Every configuration says `CHECK_DEADLOCK FALSE`. In the client runs the call budget
ends, and a blocked wait is a loop that reads nothing, which the model shows as no
step. `heartbeat` ends at `MaxTime`. In `datapath` and the bridge runs a board whose
`begin()` fails stops in `setup()`, and the bounds on lines and packets are used up.

| Run | Setting | Checks |
|---|---|---|
| `delivery` | 2 subscribed, 2 other published topics, 3 calls, 1 publication, 1 loss, 1 duplicate, any order, rejecting acknowledgements, AVR flags | `SubscribedIdIsGateways`, `CallbackNamesTopic`, `PublishCarriesOwnTopic` |
| `wrap` | message ids 0..2, all QoS, 3 calls, 1 loss, 1 duplicate | `TypeOK`, `ConnectSurvivesOneLoss` |
| `reliable` | message ids 0..2, 4 calls, 1 message of the gateway's own or of another node, any order, no loss, all CONNACK codes; fair | `AwaitsWhatIsInFlight`, `SessionAgrees`, `ExchangesOneAtATime`, `CallsReturn`, `KeepAliveAnswered` |
| `tcp` | stream, 4 calls, 1 break, failing writes, early timeouts | `SubscribedIdIsGateways` |
| `heartbeat` | a second of 1 tick, `millis()` wraps every 24 ticks, `duration * 1000` every 5, durations 3 and 7, 80 ticks | `KeepAliveKept`, `HeartbeatIsTimer`, `PingsPaced`, `ConnectPatient` |
| `datapath` | 7 pairs of boards, names of the sketch and the longest that fit, payloads of 0 and 248 bytes, a line buffer of 2 (and a byte) with nothing or one character behind it, 1 try of `connect()`, 3 lines, 1 unasked packet | `GatewayRecognised`, `AnswerReachesSender`, `HandedForMe`, `ParsedAsBuilt`, `PublishedAsTyped`, `LengthHonest` |
| `bridge_send` | any mix of 11 lines, good and bad, buffer of 8, restarts | `SentAsTyped`, `SerialBufferFits` |
| `bridge_ends` | board without restart, a `ClientSocket` whose connection may break, buffer of 4; fair | `TypeOK`, `LineTaken`, `ExchangeEnds` |

Bounds. Confusing two answers takes two requests and a copy of the first answer:
three calls (the first is `connect()`), one duplicate; the mutants show that each
property breaks within them. Four topics make every pair of a subscribed and a
published topic differ. Ids of topics and messages are small so that they collide
when they can: `MaxMsgId = 2` makes the counter wrap at the second request.
In `heartbeat` the clock wraps three times, in any state of the client; 24 ticks leave
room for the timeout of `connect()` and no more (`PollsInTime`, an assumption TLC
evaluates); 3 seconds fit into an int of 5, 7 do not. In `datapath` a name of 249 and a
payload of 248 bytes make the length byte 255, its largest value, so that the modulo of the
length byte is not exercised; two lines of different length are what it takes for one to leave
something behind for the next, and three characters overrun the buffer. The
bridge's buffer of 8 characters is shorter than the longest line and longer than a
CONFIGURATION exchange; the property that depends on its size is proved for every
size. `MaxBuffered` stops a host that types while the board does not read.

### Disagreements found

| Run | Violates | What the code does |
|---|---|---|
| `overlap` | `PublishCarriesOwnTopic` | `publish()` to the *subscribed* topic stores that topic's id into `publish_registration`, beside the other topic's name; the next `publish()` to the other topic goes to the subscribed one (`MqttSnClient.h:203`). |
| `qos1` | `CallsReturn` | `publish()` with QoS 1 never returns: no handler for PUBACK (`MqttSnMessageHandler.h:71`), though the sketches say QoS 1 is supported. |
| `tcp_coalesced` | `AwaitsWhatIsInFlight` | two messages in one TCP read: a SUBACK behind a PINGREQ of the gateway is dropped, and `subscribe()` waits for ever (`ClientSocket.h:91`). |
| `bridge_torn` | `ReportedIsOnePacket` | a packet between the two lines of a RECEIVE: its bytes stand behind an address that is not its own, an empty one or that of an earlier packet (`TransmissionProtocolUartBridge.h:133`). |

More counterexamples show with the same modules when a setting is changed, and
have no run of their own:

- `delivery` with a topic both subscribed and published violates
  `CallbackNamesTopic`: `publish_registration` takes the id without a name, and the
  next publication of the topic reaches `callback()` with a null name
  (`MqttSnClient.h:317`).
- `reliable` with `PrematureTimeout = TRUE` violates `AwaitsWhatIsInFlight`: the
  CONNACK of the first try connects the client, that of the second makes it send a
  DISCONNECT (`MqttSnMessageHandler.h:121`).
- `reliable` with one duplicate violates `SessionAgrees` in the same way: a CONNACK that
  arrives twice makes the connected client send a DISCONNECT, await one, and go on
  believing that it is connected.
- `reliable` with one loss violates `KeepAliveAnswered` and `AwaitsWhatIsInFlight`: after
  one lost PINGREQ or PINGRESP the client neither pings nor subscribes nor registers
  again (`MqttSnClient.h:97`).
- `reliable` with `ConnectsFirst = FALSE` (the SX1276 sketch) violates `CallsReturn`:
  `subscribe()` waits for the initial GWINFO state to end
  (`MqttSnClient.h:48`, `LoRaMqttsnClient.ino:43`).
- `tcp` with `PublishCarriesOwnTopic` and two published topics
  violates it: a `register_topic()` that a broken connection ends leaves its name
  beside the old id (`MqttSnClient.h:235`).
- `datapath` without the exemption of the SX1276 socket violates `GatewayRecognised`
  and `AnswerReachesSender`: it hands a packet on with the address it was sent to, and
  sends to the second byte of an address (`SX1276Socket.h:58-70`).
- `datapath` without the exemption of `overlong` in `PublishedAsTyped` violates it: behind a line
  of `buffer_length + 1` characters its last character stays in the buffer, and a later line of
  `buffer_length` is published with it and what lies behind (`UdpMqttSnClient.ino:134`).
- `bridge_ends` without the exemption of `~connected` violates `LineTaken` and `ExchangeEnds`: a
  `ClientSocket` that is not connected stays so (`TransmissionProtocolUartBridge.h:197`).

The comment at `System.h:28` names a default of 30 000 ms for a heartbeat that
`System.h:21` sets to 10 000; `connect()` sets it before anything polls it.

### Fairness

`MqttSnSystem!Fairness`: the thread keeps running (`WF` of what it does by itself);
a loop that pumps the socket reads, in the end, what keeps being there, and
`has_beaten()` becomes true when it keeps being asked (`SF`: the pump is enabled and
disabled by turns); the gateway answers (`WF`). Nothing is assumed of the sketch but
that it calls `loop()` again and again, which every client sketch does; the
network need not lose, and in `reliable` it may not. `UartBridge!Fairness`: the sketch
turns for ever (`WF` of `ReadChar \/ Turn`). The host need not type, no packet need arrive,
and a connection that is lost need not come back.

## 4. The proofs

All proofs are checked by `tlapm` down to the last leaf, for every value of the
constants that satisfies the named assumptions of the modules. TLC checked each
inductive invariant on the runs' instances before it was proved. Every safety invariant
and every action property of a passing run is a theorem:

| Theorem | States | Assumes |
|---|---|---|
| `MqttSnProofs!TypeCorrect` | `TypeOK` | - |
| `MqttSnProofs!ConnectCorrect` | `ConnectSurvivesOneLoss` | `OneLoss` |
| `MqttSnSubscribeProofs!SubscribedIdCorrect` | `SubscribedIdIsGateways` | `NoWrap` |
| `MqttSnPublishProofs!CallbackCorrect` | `CallbackNamesTopic` | `NoWrap`, `SeparateTopics` |
| `MqttSnPublishProofs!PublishTopicCorrect` | `PublishCarriesOwnTopic` | the same, datagrams |
| `MqttSnSessionProofs!SessionCorrect` | `SessionAgrees` | `NoCopies` |
| `MqttSnSessionProofs!AwaitCorrect` | `AwaitsWhatIsInFlight` | `Reliable` |
| `MqttSnSessionProofs!ExchangesImplemented` | `ExchangesOneAtATime` (refinement) | `Reliable` |
| `HeartbeatProofs!HeartbeatImplementsTimer` | `HeartbeatIsTimer` (refinement) | `PollsInTime` |
| `HeartbeatProofs!KeepAliveCorrect` | `KeepAliveKept` | `PollsInTime` |
| `HeartbeatProofs!PacingCorrect` | `PingsPaced` | `PollsInTime` |
| `HeartbeatProofs!PatienceCorrect` | `ConnectPatient` | `PollsInTime` |
| `MqttSnDatapathProofs!RecognisedCorrect` | `GatewayRecognised` | - |
| `MqttSnDatapathProofs!AnswersCorrect` | `AnswerReachesSender` | - |
| `MqttSnDatapathProofs!FilteringCorrect` | `HandedForMe` | - |
| `MqttSnDatapathProofs!ParsedCorrect` | `ParsedAsBuilt` | - |
| `MqttSnDatapathProofs!PublishedCorrect` | `PublishedAsTyped` | - |
| `MqttSnDatapathProofs!LengthsCorrect` | `LengthHonest` | - |
| `UartBridgeProofs!SerialBufferNeverOverrun` | `SerialBufferFits` | `Roomy`, `~SocketMayFail` |
| `UartBridgeSendProofs!BridgeTypeCorrect` | `TypeOK` | - |
| `UartBridgeSendProofs!SentIsTyped` | `SentAsTyped` | the last two and `AddressLeads`, `ResetEnds` |

A "-" means: nothing but the `ASSUME`s of the modules.

### Session

- **`MqttSnProofs!TypeCorrect`: `Spec => []TypeOK`.** Assumptions: those of the three
  modules. `TypeOK` is not inductive: the gateway looks up the topic of a SUBSCRIBE
  or REGISTER, so such a message must carry a topic, and the call under way must be
  about one. `TypeInv` adds both.
- **`MqttSnProofs!ConnectCorrect`: `OneLoss => (Spec => []ConnectSurvivesOneLoss)`.**
  `OneLoss`: datagrams whose sending does not fail, at most one of them lost, a gateway that
  accepts, and tries that outlast what is under way (`~PrematureTimeout`). Copies, reordering and
  other nodes' CONNACKs are arbitrary. With a second loss, or a try that is too short, both
  tries may go unanswered, so that neither can be dropped. `ConnectInv` counts the loss against the
  tries (`TryInv`): in the first, a CONNECT or the CONNACK to it is under way, or the loss
  has happened; the second starts with the loss behind it, and one of them is under way.
  `receiveData()` cannot waste the CONNACK, as `connect()` awaits it until it is connected and
  every CONNACK of the gateway in the queue accepts (`LossInv`).
- **`MqttSnSubscribeProofs!SubscribedIdCorrect`:
  `NoWrap => (Spec => []SubscribedIdIsGateways)`.** For any topics, loss, duplication,
  reordering, connection breaks and failing sends. `NoWrap` says that the bounded
  number of calls takes fewer ids than there are; with a wrap an old answer could
  match, so that it is a real assumption. The invariant `IInv` says: every id in
  flight was taken before (`IdBound`, `Requests`, `Replies`); a SUBSCRIBE or an accepted SUBACK
  with the last id is about the topic of `registration`; no REGACK has that id while
  a SUBACK is awaited (a REGACK with it would end the wait without an id); and while
  `subscribe()` waits, being idle means that the id has come (`SubscribeInv`). One lemma per group
  of actions.
- **`MqttSnPublishProofs!CallbackCorrect`, `PublishTopicCorrect`:** the topic of each
  publication and of each `publish()`, from `NoWrap` and `SeparateTopics` (nothing is both
  subscribed and published: `overlap`), the second over datagrams only (the
  counterexample of `tcp` above). `TopicInv` extends the invariant of the subscription:
  what is in flight with the last id is about the topic of the record that waits
  for it, and `publish_registration` pairs a name with its id except while
  `register_topic()` waits; that a lost or late REGACK cannot end that wait is where
  the message id is needed.
- **`MqttSnSessionProofs!SessionCorrect`:
  `NoCopies => (Spec => []SessionAgrees)`**, with any losses, and
  **`AwaitCorrect`: `Reliable => (Spec => []AwaitsWhatIsInFlight)`**, for any number of
  calls and ids that wrap. Every exchange has one *token* in flight, first the request and
  then its answer (`InTransit`), or none (`Absent`). `SessionInv` says that of the
  CONNECT, `WaitInv` of the three kinds of requests: the token is there exactly while
  `await_msg_type` awaits it, it carries the last message id (`Fresh`: so the
  handler takes it), and the thread is where it waits for it (`AwaitPlaces`). The
  counterexamples with one loss and with one duplicate show that neither `NoCopies` nor
  `Reliable` can be dropped.
- **`MqttSnSessionProofs!ExchangesImplemented`:
  `Reliable => (Spec => ExchangesOneAtATime)`**, the refinement of `Exchange`. Under
  `AwaitInv`, before and after the step, the abstract state is one of "nothing", "a request
  of this kind", "an answer of this kind" (`View`). A step either leaves `toClient` and a
  wait alone (`AsksAtMost`: it asks or stutters), or asks for nothing and ends a wait
  only with its answer (`AsksNothing`: it answers, takes or stutters).

### Time

`HeartbeatProofs!HeartbeatImplementsTimer`, `KeepAliveCorrect`, `PacingCorrect`, for all
values of the constants with `PollsInTime`: between two polls less passes than `millis()`
takes to go round (weeks). `IInv`: the wrapped difference is the true one for as long as it can
be (`ElapsedTrue`), a poll without a beat was not late (`PolledEarly`), and in each place of
the thread the time since it last sent is bounded by what it has done since (`Sending`,
`Connecting`, `Connected`). That the overflow of `duration * 1000` is harmless for the
gateway follows: the period only gets shorter.

### Bytes

`MqttSnDatapathProofs!RecognisedCorrect`, `AnswersCorrect`, `FilteringCorrect`,
`PublishedCorrect`, `LengthsCorrect`, for all names and payloads that fit (`DatapathAssumption`), line buffers of any
size and anything behind them as long as a string fits into a PUBLISH (`BehindAssumption`), and any bounds. The first
two exempt the SX1276 socket. `IInv`: every packet in an inbox was heard, comes
from one of three nodes, and is honest about its length (`Box`); what was handed on can
be answered (`HandedInv`); the gateway's address is set before anything is read
(`AddressInv`); the buffer holds the line typed and NULs behind it up to where `memset()` ends, and
its last byte is NUL until a line has reached it (`BufferInv`). Hence what `PublishedAsTyped` says, and no
more: a line of fewer than `buffer_length` characters, newline included, finds a NUL that `memset()` wrote,
whatever was typed before it; one of `buffer_length` needs the last byte; a longer one has none.

`ParsedCorrect` is about a publication from the gateway's host to `callback()`, through the
constructor, the two boards and `parse_publish()`. That the QoS matches the granted one relates
four places, and `ParseInv` follows the grant through them (`GrantInv`): the one SUBSCRIBE of a
behaviour is on its way to the bridge, handed on there, or already its one SUBACK, whose flags hold
what the gateway has granted; the client has an id for the subscription only after that, and then
the granted QoS with it. `ReadInv` says that only the gateway's messages, built by their
constructors, are read by a client that listens to it; `SessionInv` keeps the sketch that never
connects (SX1276) away from every handler; `PrintedInv` is the property with the fact that a
callback of the subscription had one.

### Bridge

**`UartBridgeProofs!SerialBufferNeverOverrun`:
`Roomy /\ ~SocketMayFail => (Spec => []SerialBufferFits)`.** `putChar()` tests its
counter with `==` and does not test it at all for an end of line, so that the bound
rests on pace: a turn reads one character and takes one step of an exchange, and the
longest exchange with a line waiting behind it, CONFIGURATION, has five. `BridgeInv`
counts characters against steps (`Paced`, `Fresh`). `Roomy` (a buffer of at least 6;
the code's has 200) and a socket whose `loop()` does not fail are needed: with
`ClientSocket` the turn may end before PARSE_FAILURE is handled, and the counter
passes the buffer's end.

**`UartBridgeSendProofs!BridgeTypeCorrect`: `Spec => []TypeOK`,** whatever fails: `begin()`, `send()`,
`loop()` of a socket that is not connected. Its
core is the parser: `Operands` is a recursive function over the characters of a line, and that it
only yields characters of the line, and of a well-formed line all of them, is proved by induction over
positions. The library's induction theorem takes a predicate; `SetInduction` states it for a set,
from `WFMin`, which the provers can use.

**`UartBridgeSendProofs!SentIsTyped`:
`Roomy /\ ~SocketMayFail /\ AddressLeads /\ ResetEnds => (Spec => []SentAsTyped)`,** for any set of
lines. `HostInv` says that the host is always within one line of its set, `SendInv` what
the serial buffer has to do with it: while ADDRESS is awaited the buffer is an *end* of the line being
typed (the beginning may have been cleared by `resetSerialBuffer()` behind a command); from the accepted
ADDRESS on it is all of it. Two hypotheses are about the host, and each is needed: without it
the property fails, as TLC shows.

- `AddressLeads`, that ADDRESS stands only at the start of a line: of a line
  "ADDRESS ADDRESS n" typed ahead, the first word may be cleared with the command before it
  (`TransmissionProtocolUartBridge.h:471`), and the rest is accepted.
- `ResetEnds`: on a board that cannot restart (`ChipResets = FALSE`) a RESET between ADDRESS and
  DATA is taken out of the exchange, which goes on, so that the packet's lines are not the last two.

### Only model-checked

What is temporal under fairness: `CallsReturn`, `KeepAliveAnswered`, `LineTaken`,
`ExchangeEnds`. Liveness and `ENABLED` are beyond the prover. No module declares a
`RECURSIVE` operator.

## 5. What is left out, and the plan

Not modelled:

- the drivers and libraries below the sockets, the radio test sketches (sniffers and
  transmitters), which do not use the library, network set-up and printing of the
  other sketches: input and output only;
- bytes of the TCP stream: segments that split a message and the 255 bytes at which
  `ClientSocket::loop()` reads no more. The stream of `MqttSnLink` counts messages;
- `get_elapsed_time()` and `exit()` of `System`, and multicast of `UDPSocket`, which nothing calls;
- the order of the bytes of an id within a message;
- what a line of more than `buffer_length + 1` characters overwrites behind the buffer of a sketch,
  and what more than `SEND_BUFFER_SIZE` numbers on a DATA line overwrite: the code checks neither;
- names and payloads that do not fit into their message, whose length byte would be taken modulo 256;
- return codes other than the four of `return_code_t` (`handle_regack()` would then end the wait and
  leave the id as it is);
- `strtol`: numbers typed at the bridge are symbols;
- status STARTING of the bridge, which `begin()` leaves.

Done, in the order in which it matters: client, handler and link; gateway; bridge;
types, subscription and buffer bound proved; heartbeat and its timer; messages,
sockets and their composition; publications, session and waits proved; the exchange as
an abstract specification, and its refinement proved; what the bridge sends and what the
client parses proved; `connect()` under one loss proved.

What could follow:

1. `ClientSocket` with byte counts, as an implementation of a message channel where
   the peer waits for its answers and segments are whole.
2. The bridge as "typed packets go out in order", an abstract specification for a host that
   waits for the bridge's answers, and its refinement.
