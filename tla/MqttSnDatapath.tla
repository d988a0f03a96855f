--------------------------- MODULE MqttSnDatapath ---------------------------
(***************************************************************************)
(* What the bytes say on their way through a client board and a bridge     *)
(* board: addresses through the sockets, QoS, texts and lengths through    *)
(* the messages, a typed line through the buffer of the example sketch.    *)
(*                                                                         *)
(* The gateway is a host on the serial line of a bridge board: it answers  *)
(* the address of the packet the bridge has last received.  A third node   *)
(* shares the network.  A packet lies in the inbox of every node that can  *)
(* hear it; one that is never read is a lost one.  The session is that of  *)
(* MqttSnClient with QoS 0, without keep-alive and timers; there are its   *)
(* other cases.                                                            *)
(***************************************************************************)
EXTENDS Sequences, MqttSnMessages, MqttSnSockets

CONSTANTS
  buffer_length,   \* of the sketch: 10
  Characters,      \* a sketch reads from its serial line, but newline and NUL
  Behind,          \* what may lie behind the sketch's buffer, up to a NUL
  Names,           \* lengths of client id, subscribed and published topic
  Payloads,        \* lengths of the payloads the gateway publishes
  MaxConnects,     \* bound on the CONNECTs of a behaviour
  MaxLines,        \* on the lines typed
  MaxUnasked       \* on what the gateway and the third node send of themselves

ASSUME DatapathAssumption ==
  /\ buffer_length \in 1..246
  /\ "NUL" \notin Characters /\ "\n" \notin Characters
  /\ Names \subseteq [client_id : Nat, subscribe : 0..249, publish : 0..248]
  /\ Payloads \subseteq 0..248
  /\ MaxConnects \in Nat /\ MaxLines \in Nat /\ MaxUnasked \in Nat

(* What strlen() counts fits into a PUBLISH.                                 *)
ASSUME BehindAssumption ==
  \A rest \in Behind : rest \in Seq(Characters) /\ Len(rest) <= 246 - buffer_length

VARIABLES
  net,         \* the sketches of the two boards
  names,
  inbox,       \* the packets each board's driver has for its socket
  handed,      \* what each socket last gave to receiveData()
  pc,          \* where the client's thread is
  buffer,      \* the sketch's buffer and buffer_pos
  buffer_pos,
  typed,       \* what was typed since the last line; no code reads it
  overlong,    \* a line filled the buffer to its last byte; no code reads it
  gw_address,
  session,     \* the other members of MqttSnClient
  printed,     \* the callbacks of the last packet
  gateway,     \* the host: addresses that connected, QoS it granted
  spent        \* against the bounds

network == <<net, names, inbox, handed>>
line == <<buffer, buffer_pos, typed, overlong>>
sketch == <<pc, line>>
client == <<gw_address, session, printed>>
vars == <<network, sketch, client, gateway, spent>>

-----------------------------------------------------------------------------
(* The sketches *)

Ip(host, port) == [ip |-> <<192, 168, 178, host>>, port |-> port]

UnoUdpMqttSnClient ==
  [socket |-> "UDPSocket", endpoint |-> Ip(3, 8888), gateway |-> Ip(88, 8888),
   connects |-> TRUE]
UdpMqttSnClient == [UnoUdpMqttSnClient EXCEPT !.endpoint = Ip(4, 8888)]
WiFiUdpMqttSnClient ==
  [socket |-> "WiFiUdpSocket", endpoint |-> Ip(5, 8888), gateway |-> Ip(20, 8888),
   connects |-> TRUE]
RF95DatagramMqttSnClient ==
  [socket |-> "RHDatagramSocket", endpoint |-> 4, gateway |-> 2, connects |-> TRUE]
LoRaMqttsnClient ==
  [socket |-> "SX1276Socket", endpoint |-> 3, gateway |-> 2, connects |-> FALSE]

WiFiUdpUartBridge == [socket |-> "WiFiUdpSocket", promiscuous |-> FALSE]
RF95DatagramConsoleBridge == [socket |-> "RHDatagramSocket", promiscuous |-> FALSE]
RF95GenericDriverSocketConsoleBridge ==
  [socket |-> "RHGenericDriverSocket", promiscuous |-> FALSE]

(* No sketch calls RadioHead's setPromiscuous(), but it is why a socket that *)
(* takes the driver without RHDatagram around it looks at the header.        *)
PromiscuousBridge == [RF95GenericDriverSocketConsoleBridge EXCEPT !.promiscuous = TRUE]

(* The bridge board is given the address that the client's sketch names.     *)
Networks ==
  [client : {UnoUdpMqttSnClient, UdpMqttSnClient, WiFiUdpMqttSnClient},
   bridge : {WiFiUdpUartBridge}]
  \cup [client : {RF95DatagramMqttSnClient},
        bridge : {RF95DatagramConsoleBridge, RF95GenericDriverSocketConsoleBridge,
                  PromiscuousBridge}]
  \cup [client : {LoRaMqttsnClient}, bridge : {RF95DatagramConsoleBridge}]

Socket == [client |-> net.client.socket, bridge |-> net.bridge.socket]

(* The third node: on an IP network, another port of the gateway's machine   *)
Other == IF net.client.socket \in IpSockets
         THEN [net.client.gateway EXCEPT !.port = @ + 1] ELSE 7

Endpoint == [client |-> net.client.endpoint, bridge |-> net.client.gateway]

(* The function of the same name in the UDP sketches; the RF95 sketch fills  *)
(* the first byte.                                                           *)
GatewayDeviceAddress ==
  LET g == net.client.gateway IN
  IF net.client.socket \in IpSockets
  THEN <<g.ip[1], g.ip[2], g.ip[3], g.ip[4], g.port \div 256, g.port % 256>>
  ELSE device_address(g)

qos == 0

-----------------------------------------------------------------------------
(* The network *)

Boards == {"client", "bridge"}

Packet(from, to, message, meant) ==
  [from |-> from, to |-> to, message |-> message, meant |-> meant]

(* What the sender means by a PUBLISH; nothing that is sent depends on it.   *)
Meant(q, retain, text) == [qos |-> q, retain |-> retain, text |-> text]
Nothing == Meant(0, FALSE, NoText)

Hears(board, packet) ==
  /\ packet.from # Endpoint[board]
  /\ DriverHears(Socket[board], Endpoint[board],
                 board = "bridge" /\ net.bridge.promiscuous, packet)

Heard(box, packet) ==
  [b \in Boards |-> IF Hears(b, packet) THEN box[b] \cup {packet} ELSE box[b]]

HandedOn(address, packet) ==
  [address |-> address, from |-> packet.from, to |-> packet.to,
   type |-> packet.message.type, message_id |-> packet.message.message_id]

Removed(board, packet) == [inbox EXCEPT ![board] = @ \ {packet}]

(* A driver may refuse any packet.                                           *)
Outcomes(board, message) ==
  IF DriverTakes(Socket[board], message.length) THEN BOOLEAN ELSE {FALSE}

Sent(box, board, destination, message, meant, accepted) ==
  IF accepted
  THEN Heard(box, Packet(Endpoint[board],
                         Send(Socket[board], destination, TRUE).to, message, meant))
  ELSE box

Spend(what, bound) ==
  /\ spent[what] < bound
  /\ spent' = [spent EXCEPT ![what] = @ + 1]

-----------------------------------------------------------------------------
(* The client: sending.  s is the session that the call leaves.              *)

ClientSends(box, destination, message, meant, s) ==
  \E accepted \in Outcomes("client", message) :
    LET returns == Send(Socket["client"], destination, accepted).returns IN
    /\ inbox' = Sent(box, "client", destination, message, meant, accepted)
    /\ session' = [s EXCEPT !.socket_disconnected = @ \/ ~returns]

Named(what, length) == [says |-> <<what>>, length |-> length]

-----------------------------------------------------------------------------
(* The client: receiving *)

Outcome(s, reply, callbacks) == [session |-> s, reply |-> reply, callbacks |-> callbacks]
Ignored(s) == Outcome(s, NoText, {})

parse_pingreq(m, s) ==
  IF m.length = 2 /\ s.awaits = "PINGREQ" THEN Outcome(s, PINGRESP, {}) ELSE Ignored(s)

parse_connack(m, s) ==
  IF s.awaits = "CONNACK"
  THEN Ignored([s EXCEPT !.awaits = "PINGREQ", !.connected = TRUE])
  ELSE Outcome([s EXCEPT !.awaits = "DISCONNECT"], DISCONNECT, {})

parse_suback(m, s) ==
  IF m.message_id = s.msg_id
  THEN Ignored([s EXCEPT !.awaits = "PINGREQ", !.topic_id = m.topic_id,
                         !.granted_qos = QosOf(m.flags)])
  ELSE Ignored(s)

handle_regack(m, s) ==
  IF m.message_id = s.msg_id
  THEN Ignored([s EXCEPT !.awaits = "PINGREQ", !.publish_id = m.topic_id])
  ELSE Ignored(s)

Callback(topic, m, meant) ==
  [topic |-> topic, says |-> m.text.says, length |-> m.length - 7,
   retain |-> FLAG_RETAIN \subseteq m.flags, meant |-> meant]

parse_publish(m, meant, s) ==
  LET q == QosOf(m.flags) IN
  IF m.length > 7 /\ (q \in {0, -1} => m.message_id = 0)
  THEN Outcome(s, NoText,
         {Callback(topic, m, meant) : topic \in
            {t \in {"publish", "subscribe"} :
               IF t = "publish" THEN m.topic_id = s.publish_id
               ELSE m.topic_id = s.topic_id /\ q = s.granted_qos}})
  ELSE Ignored(s)

receiveData(address, packet, s) ==
  LET m == packet.message IN
  IF \/ m.length < 2 \/ m.type = "ADVERTISE"
     \/ address # gw_address
     \/ ~s.connected /\ m.type # "CONNACK"
  THEN Ignored(s)
  ELSE CASE m.type = "PINGREQ" -> parse_pingreq(m, s)
         [] m.type = "CONNACK" -> parse_connack(m, s)
         [] m.type = "SUBACK" -> parse_suback(m, s)
         [] m.type = "REGACK" -> handle_regack(m, s)
         [] m.type = "PUBLISH" -> parse_publish(m, packet.meant, s)
         [] OTHER -> Ignored(s)

(* Where the thread calls socketInterface.loop()                             *)
Pumping ==
  \/ pc \in {"connecting", "waiting", "subscribing", "register", "registering"}
  \/ pc = "pump" /\ session.connected /\ ~session.socket_disconnected

ClientReceives(packet) ==
  LET addresses == Loop(Socket["client"], Endpoint["client"], packet) IN
  /\ Pumping
  /\ IF addresses = {}
     THEN /\ inbox' = Removed("client", packet)
          /\ UNCHANGED <<handed, session, printed>>
     ELSE \E address \in addresses :
            LET o == receiveData(address, packet, session) IN
            /\ handed' = [handed EXCEPT !["client"] = {HandedOn(address, packet)}]
            /\ printed' = o.callbacks
            /\ IF o.reply = NoText
               THEN inbox' = Removed("client", packet) /\ session' = o.session
               ELSE ClientSends(Removed("client", packet), address, o.reply, Nothing, o.session)
  /\ pc' = IF pc = "pump" THEN "loop" ELSE pc
  /\ UNCHANGED <<net, names, line, gw_address, gateway, spent>>

-----------------------------------------------------------------------------
(* The client: the sketch and the calls it makes *)

(* setup(): a begin() that fails is the end.                                 *)
Setup(begins) ==
  /\ pc = "setup"
  /\ pc' = IF begins THEN "loop" ELSE "halted"
  /\ UNCHANGED <<network, line, client, gateway, spent>>

(* connect(), and the next try in it                                         *)
ConnectTry ==
  /\ pc \in {"loop", "connecting"} /\ net.client.connects /\ ~session.connected
  /\ Spend("connects", MaxConnects)
  /\ gw_address' = GatewayDeviceAddress
  /\ ClientSends(inbox, GatewayDeviceAddress,
                 msg_connect(TRUE, Named("client id", names.client_id)), Nothing,
                 [session EXCEPT !.awaits = "CONNACK"])
  /\ pc' = "connecting"
  /\ UNCHANGED <<net, names, handed, line, printed, gateway>>

ConnectFails ==
  /\ pc = "connecting" /\ ~session.connected
  /\ pc' = "loop"
  /\ UNCHANGED <<network, line, client, gateway, spent>>

(* To the first wait of subscribe(): after connect(), or from the start      *)
Subscribe ==
  /\ \/ pc = "connecting" /\ session.connected
     \/ pc = "loop" /\ ~net.client.connects
  /\ pc' = "waiting"
  /\ UNCHANGED <<network, line, client, gateway, spent>>

NextMsgId == session.msg_id + 1

SendSubscribe ==
  /\ pc = "waiting" /\ session.awaits = "PINGREQ"
  /\ ClientSends(inbox, gw_address,
                 msg_subscribe_topicname(Named("subscribe", names.subscribe), NextMsgId, qos, FALSE),
                 Nothing,
                 [session EXCEPT !.awaits = "SUBACK", !.msg_id = NextMsgId,
                                 !.topic_id = 0, !.granted_qos = qos])
  /\ pc' = "subscribing"
  /\ UNCHANGED <<net, names, handed, line, gw_address, printed, gateway, spent>>

SubscribeReturns ==
  /\ pc = "subscribing" /\ session.awaits = "PINGREQ"
  /\ pc' = "serial"
  /\ UNCHANGED <<network, line, client, gateway, spent>>

AtSerial == pc = "serial" \/ (pc = "loop" /\ session.connected)

NoSerial ==
  /\ AtSerial
  /\ pc' = "pump"
  /\ UNCHANGED <<network, line, client, gateway, spent>>

(* Nothing in the sketch bounds buffer_pos.  The model ends where the array   *)
(* does: a line of buffer_length + 1 characters still fills it, without a    *)
(* NUL, and what a longer one overwrites is not modelled.                    *)
ReadSerial(c) ==
  /\ AtSerial
  /\ buffer_pos \in DOMAIN buffer
  /\ IF c = "\n" THEN Spend("lines", MaxLines) ELSE UNCHANGED spent
  /\ buffer' = [buffer EXCEPT ![buffer_pos] = c]
  /\ buffer_pos' = buffer_pos + 1
  /\ typed' = Append(typed, c)
  /\ overlong' = (overlong \/ buffer_pos = buffer_length)
  /\ pc' = IF c = "\n" THEN "publish" ELSE "pump"
  /\ UNCHANGED <<network, client, gateway>>

(* The text strlen() finds in b: with no NUL in the array it runs on into    *)
(* whatever the linker has put behind it.                                    *)
Strings(b) ==
  LET ends == {n \in DOMAIN b : b[n] = "NUL"}
      Chars(n) == [i \in 1..n |-> b[i - 1]]
  IN  IF ends = {} THEN {Chars(buffer_length + 1) \o rest : rest \in Behind}
      ELSE {Chars(n) : n \in {n \in ends : \A i \in ends : n <= i}}

Payload(says) == [says |-> says, length |-> Len(says) + 1]

(* Mutant: memset() with the length of the longest text, not of a line.      *)
ClearedOneLess(b) == [i \in DOMAIN b |-> IF i < buffer_length - 1 THEN "NUL" ELSE b[i]]

(* memset(buffer, 0x0, buffer_length): not the last of its characters        *)
Cleared(b) == [i \in DOMAIN b |-> IF i < buffer_length THEN "NUL" ELSE b[i]]

EndsLine ==
  /\ buffer' = Cleared(buffer)
  /\ buffer_pos' = 0
  /\ typed' = <<>>
  /\ UNCHANGED overlong
  /\ pc' = "pump"

(* publish() with an id                                                      *)
Publish ==
  /\ pc = "publish" \/ (pc = "registering" /\ session.awaits = "PINGREQ")
  /\ session.publish_id # 0
  /\ \E says \in Strings(buffer) :
       ClientSends(inbox, gw_address,
                   msg_publish(FALSE, qos, FALSE, TRUE, session.publish_id, 0, Payload(says)),
                   Meant(qos, FALSE, Payload(typed)),
                   [session EXCEPT !.msg_id = NextMsgId])
  /\ EndsLine
  /\ UNCHANGED <<net, names, handed, gw_address, printed, gateway, spent>>

(* register_topic(), from its first wait to its second                       *)
RegisterTopic ==
  /\ pc = "publish" /\ session.publish_id = 0
  /\ pc' = "register"
  /\ UNCHANGED <<network, line, client, gateway, spent>>

SendRegister ==
  /\ pc = "register" /\ session.awaits = "PINGREQ"
  /\ ClientSends(inbox, gw_address,
                 msg_register(0, NextMsgId, Named("publish", names.publish)), Nothing,
                 [session EXCEPT !.awaits = "REGACK", !.msg_id = NextMsgId])
  /\ pc' = "registering"
  /\ UNCHANGED <<net, names, handed, line, gw_address, printed, gateway, spent>>

(* mqttSnClient.loop() without a packet                                      *)
LoopReturns ==
  /\ pc = "pump"
  /\ session' = IF session.connected /\ session.socket_disconnected
                THEN [session EXCEPT !.awaits = "PINGREQ"] ELSE session
  /\ pc' = "loop"
  /\ UNCHANGED <<network, line, gw_address, printed, gateway, spent>>

-----------------------------------------------------------------------------
(* The gateway's host and its bridge *)

GatewayReceives(packet) ==
  LET addresses == Loop(Socket["bridge"], Endpoint["bridge"], packet) IN
  /\ inbox' = Removed("bridge", packet)
  /\ handed' = IF addresses = {} THEN handed
               ELSE [handed EXCEPT !["bridge"] = {HandedOn(a, packet) : a \in addresses}]
  /\ gateway' = IF packet.message.type = "CONNECT"
                THEN [gateway EXCEPT !.peers = @ \cup addresses] ELSE gateway
  /\ UNCHANGED <<net, names, sketch, client, spent>>

GatewaySends(destination, message, meant) ==
  inbox' = Sent(inbox, "bridge", destination, message, meant,
                DriverTakes(Socket["bridge"], message.length))

(* It answers what the bridge last received, once.                           *)
GatewayAnswers(h, q) ==
  LET answer == CASE h.type = "CONNECT" -> msg_connack("ACCEPTED")
                  [] h.type = "SUBSCRIBE" -> msg_suback(q, 1, h.message_id, "ACCEPTED")
                  [] OTHER -> msg_regack(2, h.message_id, "ACCEPTED")
  IN
  /\ h.type \in {"CONNECT", "SUBSCRIBE", "REGISTER"}
  /\ GatewaySends(h.address, answer, Nothing)
  /\ gateway' = IF h.type = "SUBSCRIBE" /\ h.from = Endpoint["client"]
                THEN [gateway EXCEPT !.granted = q] ELSE gateway
  /\ handed' = [handed EXCEPT !["bridge"] = {}]
  /\ UNCHANGED <<net, names, sketch, client, spent>>

GatewayPublishes(q, retain, topic_id, length) ==
  LET text == [says |-> <<"publication">>, length |-> length]
      msg_id == IF q \in {1, 2} THEN 1 ELSE 0 IN
  /\ Spend("unasked", MaxUnasked)
  /\ \E address \in gateway.peers :
       GatewaySends(address, msg_publish(FALSE, q, retain, FALSE, topic_id, msg_id, text),
                    Meant(q, retain, text))
  /\ UNCHANGED <<net, names, handed, sketch, client, gateway>>

(* All other messages of mqttsn_messages.h                                   *)
OtherMessages ==
  LET topic == Named("publish", names.publish) IN
  {PINGREQ, PINGRESP, msg_advertise, msg_searchgw, msg_gwinfo, msg_unsuback(1),
   msg_pubrec(1), msg_pubrel(1), msg_pubcomp(1), msg_puback(1, 1, "ACCEPTED"),
   msg_connack("ACCEPTED"), msg_connect(TRUE, Named("other id", names.client_id)),
   init_msg_pingreq(Named("other id", names.client_id)),
   msg_willtopic(topic, 1, TRUE), msg_willmsg(topic),
   msg_subscribe_shorttopic(TRUE, 1, 1, 1, FALSE),
   msg_publish(FALSE, -1, FALSE, FALSE, 1, 0, topic)}

(* Those that would do something, were they taken for the gateway's         *)
NoiseMessages ==
  {msg_advertise, msg_connack("ACCEPTED"),
   msg_connect(TRUE, Named("other id", names.client_id)),
   msg_publish(FALSE, -1, FALSE, FALSE, 1, 0, Named("other", names.publish))}

GatewaySendsOther(message) ==
  /\ Spend("unasked", MaxUnasked)
  /\ \E address \in gateway.peers : GatewaySends(address, message, Nothing)
  /\ UNCHANGED <<net, names, handed, sketch, client, gateway>>

OtherSends(to, message) ==
  /\ Spend("unasked", MaxUnasked)
  /\ DriverTakes(Socket["client"], message.length)
  /\ inbox' = Heard(inbox, Packet(Other, to, message, Nothing))
  /\ UNCHANGED <<net, names, handed, sketch, client, gateway>>

-----------------------------------------------------------------------------
Init ==
  /\ net \in Networks
  /\ names \in Names
  /\ inbox = [b \in Boards |-> {}]
  /\ handed = [b \in Boards |-> {}]
  /\ pc = "setup"
  /\ buffer = [i \in 0..buffer_length |-> "NUL"]
  /\ buffer_pos = 0
  /\ typed = <<>> /\ overlong = FALSE
  /\ gw_address = device_address(0)
  /\ session = [connected |-> FALSE, socket_disconnected |-> FALSE, awaits |-> "GWINFO",
                msg_id |-> 1, topic_id |-> 0, granted_qos |-> 0, publish_id |-> 0]
  /\ printed = {}
  /\ gateway = [peers |-> {}, granted |-> 0]
  /\ spent = [connects |-> 0, lines |-> 0, unasked |-> 0]

Next ==
  \/ \E begins \in BOOLEAN : Setup(begins)
  \/ ConnectTry \/ ConnectFails
  \/ Subscribe \/ SendSubscribe \/ SubscribeReturns
  \/ NoSerial \/ \E c \in Characters \cup {"\n"} : ReadSerial(c)
  \/ Publish \/ RegisterTopic \/ SendRegister
  \/ LoopReturns
  \/ \E packet \in inbox["client"] : ClientReceives(packet)
  \/ \E packet \in inbox["bridge"] : GatewayReceives(packet)
  \/ \E h \in handed["bridge"], q \in 0..2 : GatewayAnswers(h, q)
  \/ \E q \in -1..2, retain \in BOOLEAN, topic_id \in 1..2, length \in Payloads :
       GatewayPublishes(q, retain, topic_id, length)
  \/ \E message \in OtherMessages : GatewaySendsOther(message)
  \/ \E to \in {Endpoint["client"], Endpoint["bridge"], BroadcastEndpoint(Socket["client"])} :
       \E message \in NoiseMessages : OtherSends(to, message)

Spec == Init /\ [][Next]_vars

-----------------------------------------------------------------------------
(* Properties.  The SX1276 socket has none of the first two: it hands on a   *)
(* packet with the address it was sent to.                                   *)

(* A packet passes the handler's test on the gateway's address if and only   *)
(* if the gateway sent it: sketch and socket, each with code of its own,     *)
(* make the same six bytes of the same endpoint and others of another.       *)
GatewayRecognised ==
  Socket["client"] # "SX1276Socket" =>
    \A h \in handed["client"] :
      h.address = gw_address <=> h.from = Endpoint["bridge"]

(* An answer sent to the address receiveData() was called with goes to the   *)
(* node that sent the packet, from either board: the PINGRESP of the client, *)
(* and what the gateway's host sends back through the bridge.                *)
AnswerReachesSender ==
  \A b \in {b \in Boards : Socket[b] # "SX1276Socket"} :
    \A h \in handed[b] : Send(Socket[b], h.address, TRUE).to = h.from

(* No socket hands on a packet that was meant for another node, also when    *)
(* the driver delivers all it hears.                                         *)
HandedForMe ==
  \A b \in Boards : \A h \in handed[b] :
    h.to \in {Endpoint[b], BroadcastEndpoint(Socket[b])}

(* What callback() gets is what the gateway published, and a subscription    *)
(* gets only what was published at the QoS the gateway had granted, with     *)
(* the flags packed and unpacked on either way.                              *)
ParsedAsBuilt ==
  \A c \in printed :
    /\ c.says = c.meant.text.says
    /\ c.length = c.meant.text.length
    /\ c.retain = c.meant.retain
    /\ c.topic = "subscribe" => c.meant.qos = gateway.granted

(* A PUBLISH of the sketch carries the line just typed and its NUL, nothing   *)
(* less, nothing of the lines before and nothing from behind the buffer: of a *)
(* line of up to buffer_length - 1 characters, newline included, whatever was *)
(* typed before it; of one of buffer_length, unless a line of more has left   *)
(* its last character where memset() does not reach.                         *)
PublishedAsTyped ==
  \A packet \in inbox["bridge"] :
    packet.from = Endpoint["client"] /\ packet.message.type = "PUBLISH" =>
      LET characters == Len(packet.meant.text.says) IN
      \/ packet.message.text = packet.meant.text
      \/ characters = buffer_length /\ overlong
      \/ characters > buffer_length

(* The length byte, which tells send() how much to send, covers the fields   *)
(* and the whole text of every message under way, and the text fits into the *)
(* array of its struct, for names up to the longest that fit.                *)
LengthHonest ==
  \A b \in Boards : \A packet \in inbox[b] :
    LET m == packet.message IN
    m.text # NoText => /\ m.length = TextOffset(m.type) + m.text.length
                       /\ m.text.length <= TextSize(m.type)
=============================================================================
