------------------------ MODULE MqttSnDatapathProofs ------------------------
(***************************************************************************)
(* Proofs about MqttSnDatapath, for buffers, names and payloads of any     *)
(* length that the assumptions allow.                                      *)
(***************************************************************************)
EXTENDS MqttSnDatapath, TLAPS

-----------------------------------------------------------------------------
(* The inductive invariant *)

Nodes == {Endpoint["client"], Endpoint["bridge"], Other}

Honest(m) ==
  m.text # NoText => /\ m.length = TextOffset(m.type) + m.text.length
                     /\ m.text.length <= TextSize(m.type)

(* What PublishedAsTyped says of a PUBLISH.                                  *)
AsTyped(message, meant) ==
  LET characters == Len(meant.text.says) IN
  \/ message.text = meant.text
  \/ characters = buffer_length /\ overlong
  \/ characters > buffer_length

Carries(p) ==
  p.from = Endpoint["client"] /\ p.message.type = "PUBLISH" =>
    AsTyped(p.message, p.meant)

Proper(b, p) == Hears(b, p) /\ p.from \in Nodes /\ Honest(p.message) /\ Carries(p)

Box(box) ==
  /\ DOMAIN box = Boards
  /\ \A b \in Boards : \A p \in box[b] : Proper(b, p)

(* GatewayRecognised for a sketch that has set the gateway's address.        *)
Recognised(h) ==
  Socket["client"] # "SX1276Socket" =>
    (h.address = GatewayDeviceAddress <=> h.from = Endpoint["bridge"])

Answerable(b, h) ==
  /\ Socket[b] # "SX1276Socket" => Send(Socket[b], h.address, TRUE).to = h.from
  /\ h.to \in {Endpoint[b], BroadcastEndpoint(Socket[b])}

HandedInv ==
  /\ DOMAIN handed = Boards
  /\ \A b \in Boards : \A h \in handed[b] : Answerable(b, h)
  /\ \A h \in handed["client"] : Recognised(h)

(* The address is set before the first packet is read.                       *)
AddressInv ==
  net.client.connects =>
    \/ gw_address = GatewayDeviceAddress
    \/ pc \in {"setup", "halted", "loop"} /\ ~session.connected /\ handed["client"] = {}

(* What was typed lies at the start of the buffer, and NULs follow it up to   *)
(* where memset() ends; the last byte is NUL until a line has reached it.    *)
BufferInv ==
  /\ buffer_pos \in 0..buffer_length + 1
  /\ buffer \in [0..buffer_length -> Characters \cup {"\n", "NUL"}]
  /\ typed \in Seq(Characters \cup {"\n"})
  /\ Len(typed) = buffer_pos
  /\ \A i \in 1..buffer_pos : buffer[i - 1] = typed[i]
  /\ \A i \in buffer_pos..buffer_length - 1 : buffer[i] = "NUL"
  /\ overlong \in BOOLEAN
  /\ ~overlong => buffer_pos <= buffer_length /\ buffer[buffer_length] = "NUL"

ConstantInv == net \in Networks /\ names \in Names

IInv == ConstantInv /\ Box(inbox) /\ HandedInv /\ AddressInv /\ BufferInv
-----------------------------------------------------------------------------
(* Addresses *)

(* An endpoint of the IP networks.                                           *)
IsIp(e) == \E host : e = Ip(host, 8888) \/ e = Ip(host, 8889)

(* A UDP socket reads back the endpoint it has written.                      *)
LEMMA RoundTrip ==
  ASSUME NEW e, IsIp(e)
  PROVE  convertDeviceAddressToIPAddressAndPort(convertIPAddressAndPortToDeviceAddress(e)) = e
<1>1. PICK host : e = Ip(host, 8888) \/ e = Ip(host, 8889)
  BY DEF IsIp
<1>2. CASE e = Ip(host, 8888)
  <2>1. (8888 \div 256) * 256 + (8888 % 256) = 8888
    OBVIOUS
  <2> QED
    BY <1>2, <2>1 DEF Ip, convertIPAddressAndPortToDeviceAddress,
       convertDeviceAddressToIPAddressAndPort
<1>3. CASE e = Ip(host, 8889)
  <2>1. (8889 \div 256) * 256 + (8889 % 256) = 8889
    OBVIOUS
  <2> QED
    BY <1>3, <2>1 DEF Ip, convertIPAddressAndPortToDeviceAddress,
       convertDeviceAddressToIPAddressAndPort
<1> QED
  BY <1>1, <1>2, <1>3

(* The two kinds of network and what their nodes are called.                 *)
LEMMA IpNetwork ==
  ASSUME net \in Networks, Socket["client"] \in IpSockets
  PROVE  /\ Socket["bridge"] \in IpSockets
         /\ ~net.bridge.promiscuous
         /\ \A e \in Nodes : IsIp(e)
<1>1. net.client \in {UnoUdpMqttSnClient, UdpMqttSnClient, WiFiUdpMqttSnClient}
  BY DEF Networks, Socket, IpSockets, RF95DatagramMqttSnClient, LoRaMqttsnClient
<1>2. net.bridge = WiFiUdpUartBridge
  BY <1>1 DEF Networks, UnoUdpMqttSnClient, UdpMqttSnClient, WiFiUdpMqttSnClient,
     RF95DatagramMqttSnClient, LoRaMqttsnClient
<1>3. PICK i, j : net.client.endpoint = Ip(i, 8888) /\ net.client.gateway = Ip(j, 8888)
  BY <1>1 DEF UnoUdpMqttSnClient, UdpMqttSnClient, WiFiUdpMqttSnClient
<1>4. Other = [Ip(j, 8888) EXCEPT !.port = @ + 1]
  BY <1>3 DEF Other, Socket
<1>5. Other = Ip(j, 8889)
  BY <1>4 DEF Ip
<1>6. IsIp(Endpoint["client"]) /\ IsIp(Endpoint["bridge"])
  BY <1>3 DEF IsIp, Endpoint
<1>7. IsIp(Other)
  BY <1>5 DEF IsIp
<1>8. Socket["bridge"] \in IpSockets /\ ~net.bridge.promiscuous
  BY <1>2 DEF Socket, IpSockets, WiFiUdpUartBridge
<1> QED
  BY <1>6, <1>7, <1>8 DEF Nodes

LEMMA RadioNetwork ==
  ASSUME net \in Networks, Socket["client"] \notin IpSockets
  PROVE  /\ Socket["client"] \in {"RHDatagramSocket", "SX1276Socket"}
         /\ Socket["bridge"] \in RadioHeadSockets
         /\ net.bridge.promiscuous => Socket["bridge"] = "RHGenericDriverSocket"
         /\ Nodes \subseteq Nat
<1>1. net.client \in {RF95DatagramMqttSnClient, LoRaMqttsnClient}
  BY DEF Networks, Socket, IpSockets, UnoUdpMqttSnClient, UdpMqttSnClient, WiFiUdpMqttSnClient
<1>2. net.bridge \in {RF95DatagramConsoleBridge, RF95GenericDriverSocketConsoleBridge,
                      PromiscuousBridge}
  BY <1>1 DEF Networks, UnoUdpMqttSnClient, UdpMqttSnClient, WiFiUdpMqttSnClient,
     RF95DatagramMqttSnClient, LoRaMqttsnClient
<1> QED
  BY <1>1, <1>2 DEF Nodes, Endpoint, Other, Socket, IpSockets, RadioHeadSockets,
     RF95DatagramMqttSnClient, LoRaMqttsnClient, RF95DatagramConsoleBridge,
     RF95GenericDriverSocketConsoleBridge, PromiscuousBridge

(* A socket hands on only what was meant for its board, and with an address  *)
(* that leads back.                                                          *)
LEMMA HandedOnAnswerable ==
  ASSUME net \in Networks, NEW b \in Boards, NEW p, Hears(b, p), p.from \in Nodes,
         NEW a \in Loop(Socket[b], Endpoint[b], p)
  PROVE  Answerable(b, HandedOn(a, p))
<1>1. /\ HandedOn(a, p).address = a
      /\ HandedOn(a, p).from = p.from
      /\ HandedOn(a, p).to = p.to
  BY DEF HandedOn
<1>2. CASE Socket["client"] \in IpSockets
  <2>1. Socket[b] \in IpSockets /\ ~net.bridge.promiscuous
    BY <1>2, IpNetwork DEF Boards
  <2>2. a = convertIPAddressAndPortToDeviceAddress(p.from)
    BY <2>1 DEF Loop, UDPSocketLoop, WiFiUdpSocketLoop, IpSockets
  <2>3. IsIp(p.from)
    BY <1>2, IpNetwork
  <2>4. convertDeviceAddressToIPAddressAndPort(a) = p.from
    BY <2>2, <2>3, RoundTrip
  <2>5. Send(Socket[b], a, TRUE).to = p.from
    BY <2>1, <2>4 DEF Send, UDPSocketSend, WiFiUdpSocketSend, IpSockets
  <2>6. p.to \in {Endpoint[b], BroadcastEndpoint(Socket[b])}
    BY <2>1 DEF Hears, DriverHears
  <2> QED
    BY <1>1, <2>5, <2>6 DEF Answerable
<1>3. CASE Socket["client"] \notin IpSockets
  <2>1. Socket[b] \in RadioHeadSockets \cup {"SX1276Socket"}
    BY <1>3, RadioNetwork DEF Boards, RadioHeadSockets
  <2>2. Socket[b] # "SX1276Socket" => Send(Socket[b], a, TRUE).to = p.from
    <3>1. CASE Socket[b] = "RHDatagramSocket"
      <4>1. a = device_address(p.from)
        BY <3>1 DEF Loop, IpSockets, RHDatagramSocketLoop
      <4>2. Send(Socket[b], a, TRUE).to = a[1]
        BY <3>1 DEF Send, IpSockets, RHDatagramSocketSend
      <4> QED
        BY <4>1, <4>2 DEF device_address
    <3>2. CASE Socket[b] = "RHGenericDriverSocket"
      <4>1. a = device_address(p.from)
        BY <3>2 DEF Loop, IpSockets, RHGenericDriverSocketLoop
      <4>2. Send(Socket[b], a, TRUE).to = a[1]
        BY <3>2 DEF Send, IpSockets, RHGenericDriverSocketSend
      <4> QED
        BY <4>1, <4>2 DEF device_address
    <3> QED
      BY <2>1, <3>1, <3>2 DEF RadioHeadSockets
  <2>3. p.to \in {Endpoint[b], BroadcastEndpoint(Socket[b])}
    <3>1. CASE b = "bridge" /\ net.bridge.promiscuous
      <4>1. Socket[b] = "RHGenericDriverSocket"
        BY <3>1, <1>3, RadioNetwork
      <4> QED
        BY <4>1 DEF Loop, IpSockets, RHGenericDriverSocketLoop, device_address
    <3>2. CASE ~(b = "bridge" /\ net.bridge.promiscuous)
      BY <3>2 DEF Hears, DriverHears
    <3> QED
      BY <3>1, <3>2
  <2> QED
    BY <1>1, <2>2, <2>3 DEF Answerable
<1> QED
  BY <1>2, <1>3

LEMMA ClientEndpointUnique ==
  ASSUME net \in Networks
  PROVE  Endpoint["client"] # Endpoint["bridge"] /\ Endpoint["client"] # Other
<1>1. CASE Socket["client"] \in IpSockets
  <2>1. net.client \in {UnoUdpMqttSnClient, UdpMqttSnClient, WiFiUdpMqttSnClient}
    BY <1>1 DEF Networks, Socket, IpSockets, RF95DatagramMqttSnClient, LoRaMqttsnClient
  <2>2. net.client.endpoint.ip[4] \in {3, 4, 5} /\ net.client.gateway.ip[4] \in {88, 20}
    BY <2>1 DEF UnoUdpMqttSnClient, UdpMqttSnClient, WiFiUdpMqttSnClient, Ip
  <2>3. Other.ip = net.client.gateway.ip
    BY <1>1, <2>1 DEF Other, Socket, UnoUdpMqttSnClient, UdpMqttSnClient, WiFiUdpMqttSnClient, Ip
  <2> QED
    BY <2>2, <2>3 DEF Endpoint
<1>2. CASE Socket["client"] \notin IpSockets
  <2>1. net.client \in {RF95DatagramMqttSnClient, LoRaMqttsnClient}
    BY <1>2 DEF Networks, Socket, IpSockets, UnoUdpMqttSnClient, UdpMqttSnClient,
       WiFiUdpMqttSnClient
  <2> QED
    BY <1>2, <2>1 DEF Endpoint, Other, Socket, RF95DatagramMqttSnClient, LoRaMqttsnClient
<1> QED
  BY <1>1, <1>2

(* The client tells the gateway from the other nodes by the address alone.   *)
LEMMA HandedOnRecognised ==
  ASSUME net \in Networks, NEW p, p.from \in Nodes,
         NEW a \in Loop(Socket["client"], Endpoint["client"], p)
  PROVE  Recognised(HandedOn(a, p))
<1>1. HandedOn(a, p).address = a /\ HandedOn(a, p).from = p.from
  BY DEF HandedOn
<1>2. Endpoint["bridge"] = net.client.gateway /\ Socket["client"] = net.client.socket
  BY DEF Endpoint, Socket
<1>3. CASE Socket["client"] \in IpSockets
  <2>1. a = convertIPAddressAndPortToDeviceAddress(p.from)
    BY <1>3 DEF Loop, UDPSocketLoop, WiFiUdpSocketLoop, IpSockets
  <2>2. GatewayDeviceAddress = convertIPAddressAndPortToDeviceAddress(Endpoint["bridge"])
    BY <1>2, <1>3 DEF GatewayDeviceAddress, convertIPAddressAndPortToDeviceAddress
  <2>3. IsIp(p.from) /\ IsIp(Endpoint["bridge"])
    BY <1>3, IpNetwork DEF Nodes
  <2>4. a = GatewayDeviceAddress <=> p.from = Endpoint["bridge"]
    BY <2>1, <2>2, <2>3, RoundTrip
  <2> QED
    BY <1>1, <2>4 DEF Recognised
<1>4. CASE Socket["client"] \notin IpSockets
  <2>1. SUFFICES ASSUME Socket["client"] = "RHDatagramSocket"
                 PROVE  a = GatewayDeviceAddress <=> p.from = Endpoint["bridge"]
    BY <1>1, <1>4, RadioNetwork DEF Recognised
  <2>2. a = device_address(p.from)
    BY <2>1 DEF Loop, IpSockets, RHDatagramSocketLoop
  <2>3. GatewayDeviceAddress = device_address(Endpoint["bridge"])
    BY <1>2, <1>4 DEF GatewayDeviceAddress
  <2> QED
    BY <2>2, <2>3 DEF device_address
<1> QED
  BY <1>3, <1>4

-----------------------------------------------------------------------------
(* Messages *)

LEMMA HonestMessages ==
  ASSUME DatapathAssumption, names \in Names
  PROVE  /\ Honest(PINGREQ) /\ Honest(PINGRESP) /\ Honest(DISCONNECT)
         /\ \A w : Honest(msg_connect(TRUE, Named(w, names.client_id)))
         /\ \A w : Honest(init_msg_pingreq(Named(w, names.client_id)))
         /\ \A id, q : Honest(msg_subscribe_topicname(Named("subscribe", names.subscribe), id, q, FALSE))
         /\ \A id : Honest(msg_register(0, id, Named("publish", names.publish)))
<1>1. /\ names.client_id \in Nat /\ names.subscribe \in 0..249 /\ names.publish \in 0..248
  BY DEF DatapathAssumption
<1>2. Honest(PINGREQ) /\ Honest(PINGRESP) /\ Honest(DISCONNECT)
  BY DEF Honest, PINGREQ, PINGRESP, DISCONNECT, Message
<1>3. Clipped(names.client_id) \in 0..23
  BY <1>1 DEF Clipped
<1>4. \A w : Honest(msg_connect(TRUE, Named(w, names.client_id)))
  BY <1>3 DEF Honest, msg_connect, Message, Named, TextOffset, TextSize
<1>5. \A w : Honest(init_msg_pingreq(Named(w, names.client_id)))
  BY <1>3 DEF Honest, init_msg_pingreq, Message, Named, TextOffset, TextSize
<1>6. \A id, q : Honest(msg_subscribe_topicname(Named("subscribe", names.subscribe), id, q, FALSE))
  BY <1>1 DEF Honest, msg_subscribe_topicname, Message, Named, TextOffset, TextSize
<1>7. \A id : Honest(msg_register(0, id, Named("publish", names.publish)))
  BY <1>1 DEF Honest, msg_register, Message, Named, TextOffset, TextSize
<1> QED
  BY <1>2, <1>4, <1>5, <1>6, <1>7

LEMMA HonestPublish ==
  ASSUME NEW dup, NEW q, NEW retain, NEW short, NEW topic_id, NEW msg_id, NEW text,
         text.length \in 0..248
  PROVE  Honest(msg_publish(dup, q, retain, short, topic_id, msg_id, text))
BY DEF Honest, msg_publish, Message, TextOffset, TextSize

(* A message without a text is honest.                                       *)
LEMMA HonestBare ==
  ASSUME NEW m, m.text = NoText
  PROVE  Honest(m)
BY DEF Honest

LEMMA HonestAnswers ==
  /\ Honest(msg_connack("ACCEPTED"))
  /\ \A q, t, id : Honest(msg_suback(q, t, id, "ACCEPTED"))
  /\ \A t, id : Honest(msg_regack(t, id, "ACCEPTED"))
<1>1. Honest(msg_connack("ACCEPTED"))
  BY HonestBare DEF msg_connack, Message
<1>2. \A q, t, id : Honest(msg_suback(q, t, id, "ACCEPTED"))
  BY HonestBare DEF msg_suback, Message
<1>3. \A t, id : Honest(msg_regack(t, id, "ACCEPTED"))
  BY HonestBare DEF msg_regack, Message
<1> QED
  BY <1>1, <1>2, <1>3

LEMMA HonestOtherMessages ==
  ASSUME DatapathAssumption, names \in Names,
         NEW m \in OtherMessages
  PROVE  Honest(m)
<1> DEFINE topic == Named("publish", names.publish)
<1>1. names.publish \in 0..248 /\ topic.length = names.publish
  BY DEF DatapathAssumption, Named
<1>2. Honest(msg_willtopic(topic, 1, TRUE))
  BY <1>1 DEF Honest, msg_willtopic, Message, TextOffset, TextSize
<1>3. Honest(msg_willmsg(topic))
  BY <1>1 DEF Honest, msg_willmsg, Message, TextOffset, TextSize
<1>4. Honest(msg_publish(FALSE, -1, FALSE, FALSE, 1, 0, topic))
  BY <1>1, HonestPublish
<1>5. /\ Honest(msg_advertise) /\ Honest(msg_searchgw) /\ Honest(msg_gwinfo)
      /\ Honest(msg_unsuback(1)) /\ Honest(msg_puback(1, 1, "ACCEPTED"))
  BY HonestBare DEF msg_advertise, msg_searchgw, msg_gwinfo, msg_unsuback, msg_puback, Message
<1>6. Honest(msg_pubrec(1)) /\ Honest(msg_pubrel(1)) /\ Honest(msg_pubcomp(1))
  BY HonestBare DEF msg_pubrec, msg_pubrel, msg_pubcomp, Message
<1>7. Honest(msg_subscribe_shorttopic(TRUE, 1, 1, 1, FALSE))
  BY HonestBare DEF msg_subscribe_shorttopic, Message
<1>8. /\ Honest(msg_connect(TRUE, Named("other id", names.client_id)))
      /\ Honest(init_msg_pingreq(Named("other id", names.client_id)))
      /\ Honest(PINGREQ) /\ Honest(PINGRESP)
  BY HonestMessages
<1>9. Honest(msg_connack("ACCEPTED"))
  BY HonestAnswers
<1> HIDE DEF topic
<1>10. OtherMessages =
        {PINGREQ, PINGRESP, msg_advertise, msg_searchgw, msg_gwinfo, msg_unsuback(1),
         msg_pubrec(1), msg_pubrel(1), msg_pubcomp(1), msg_puback(1, 1, "ACCEPTED"),
         msg_connack("ACCEPTED"), msg_connect(TRUE, Named("other id", names.client_id)),
         init_msg_pingreq(Named("other id", names.client_id)),
         msg_willtopic(topic, 1, TRUE), msg_willmsg(topic),
         msg_subscribe_shorttopic(TRUE, 1, 1, 1, FALSE),
         msg_publish(FALSE, -1, FALSE, FALSE, 1, 0, topic)}
  BY DEF OtherMessages, topic
<1> QED
  BY <1>2, <1>3, <1>4, <1>5, <1>6, <1>7, <1>8, <1>9, <1>10

LEMMA HonestNoise ==
  ASSUME DatapathAssumption, names \in Names,
         NEW m \in NoiseMessages
  PROVE  Honest(m)
<1> DEFINE other == Named("other", names.publish)
<1>1. names.publish \in 0..248 /\ other.length = names.publish
  BY DEF DatapathAssumption, Named
<1>2. Honest(msg_publish(FALSE, -1, FALSE, FALSE, 1, 0, other))
  BY <1>1, HonestPublish
<1>3. Honest(msg_advertise)
  BY HonestBare DEF msg_advertise, Message
<1>4. Honest(msg_connect(TRUE, Named("other id", names.client_id)))
  BY HonestMessages
<1>5. Honest(msg_connack("ACCEPTED"))
  BY HonestAnswers
<1> QED
  BY <1>2, <1>3, <1>4, <1>5 DEF NoiseMessages

-----------------------------------------------------------------------------
(* The inboxes *)

LEMMA HeardInBox ==
  ASSUME NEW box, Box(box), NEW p, p.from \in Nodes, Honest(p.message), Carries(p)
  PROVE  Box(Heard(box, p))
BY DEF Box, Heard, Proper

LEMMA SentInBox ==
  ASSUME net \in Networks, NEW box, Box(box), NEW b \in Boards, NEW destination,
         NEW message, Honest(message), NEW meant, NEW accepted,
         b = "client" /\ message.type = "PUBLISH" => AsTyped(message, meant)
  PROVE  Box(Sent(box, b, destination, message, meant, accepted))
<1> DEFINE p == Packet(Endpoint[b], Send(Socket[b], destination, TRUE).to, message, meant)
<1>1. /\ p.from = Endpoint[b]
      /\ p.message = message
      /\ p.meant = meant
  BY DEF Packet
<1>2. p.from \in Nodes
  BY <1>1 DEF Nodes, Boards
<1>3. Carries(p)
  BY <1>1, ClientEndpointUnique DEF Carries, Boards
<1> HIDE DEF p
<1>4. Box(Heard(box, p))
  BY <1>1, <1>2, <1>3, HeardInBox
<1> QED
  BY <1>4 DEF Sent, p

LEMMA RemovedInBox ==
  ASSUME Box(inbox), NEW b \in Boards, NEW p
  PROVE  Box(Removed(b, p))
BY DEF Box, Removed

LEMMA ClientSendsInBox ==
  ASSUME net \in Networks, NEW box, Box(box), NEW destination,
         NEW message, Honest(message), NEW meant, NEW s,
         message.type = "PUBLISH" => AsTyped(message, meant),
         ClientSends(box, destination, message, meant, s)
  PROVE  Box(inbox')
<1>1. PICK accepted : inbox' = Sent(box, "client", destination, message, meant, accepted)
  BY DEF ClientSends
<1> QED
  BY <1>1, SentInBox DEF Boards

LEMMA GatewaySendsInBox ==
  ASSUME net \in Networks, Box(inbox), NEW destination, NEW message, Honest(message),
         NEW meant, GatewaySends(destination, message, meant)
  PROVE  Box(inbox')
BY SentInBox DEF GatewaySends, Boards

-----------------------------------------------------------------------------
(* Steps.  Sketches do not change, and so neither do endpoints.              *)

Quiet ==
  \/ \E begins \in BOOLEAN : Setup(begins)
  \/ ConnectFails \/ Subscribe \/ SubscribeReturns \/ NoSerial \/ RegisterTopic

ClientSending == ConnectTry \/ SendSubscribe \/ SendRegister

Environment ==
  \/ \E packet \in inbox["bridge"] : GatewayReceives(packet)
  \/ \E h \in handed["bridge"], q \in 0..2 : GatewayAnswers(h, q)
  \/ \E q \in -1..2, retain \in BOOLEAN, topic_id \in 1..2, length \in Payloads :
       GatewayPublishes(q, retain, topic_id, length)
  \/ \E message \in OtherMessages : GatewaySendsOther(message)
  \/ \E to \in {Endpoint["client"], Endpoint["bridge"], BroadcastEndpoint(Socket["client"])} :
       \E message \in NoiseMessages : OtherSends(to, message)

Typing == \E c \in Characters \cup {"\n"} : ReadSerial(c)
Reading == \E packet \in inbox["client"] : ClientReceives(packet)

LEMMA Steps ==
  Next <=> Quiet \/ ClientSending \/ Typing \/ Publish \/ LoopReturns \/ Reading \/ Environment
BY DEF Next, Quiet, ClientSending, Typing, Reading, Environment

LEMMA QuietKeeps ==
  ASSUME Quiet
  PROVE  UNCHANGED <<network, line, client>>
BY DEF Quiet, Setup, ConnectFails, Subscribe, SubscribeReturns, NoSerial, RegisterTopic

LEMMA ClientSendingKeeps ==
  ASSUME ClientSending
  PROVE  UNCHANGED <<net, names, handed, line>>
BY DEF ClientSending, ConnectTry, SendSubscribe, SendRegister

LEMMA EnvironmentKeeps ==
  ASSUME Environment
  PROVE  UNCHANGED <<net, names, sketch, client>>
BY DEF Environment, GatewayReceives, GatewayAnswers, GatewayPublishes, GatewaySendsOther, OtherSends

LEMMA ReadingKeeps ==
  ASSUME Reading
  PROVE  UNCHANGED <<net, names, line, gw_address>>
BY DEF Reading, ClientReceives

LEMMA ConstantStep ==
  ASSUME [Next]_vars
  PROVE  UNCHANGED <<net, names>>
<1>1. CASE UNCHANGED vars
  BY <1>1 DEF vars, network
<1>2. CASE Typing \/ Publish \/ LoopReturns
  BY <1>2 DEF Typing, ReadSerial, Publish, LoopReturns, network
<1> QED
  BY <1>1, <1>2, Steps, QuietKeeps, ClientSendingKeeps, EnvironmentKeeps, ReadingKeeps DEF network

LEMMA Frame ==
  ASSUME net' = net
  PROVE  /\ Socket' = Socket /\ Endpoint' = Endpoint /\ Other' = Other
         /\ GatewayDeviceAddress' = GatewayDeviceAddress
BY DEF Socket, Endpoint, Other, GatewayDeviceAddress

LEMMA BoxFrame ==
  ASSUME net' = net, overlong => overlong', Box(inbox')
  PROVE  Box(inbox)'
BY Frame DEF Box, Proper, Carries, AsTyped, Hears, Nodes

-----------------------------------------------------------------------------
(* The buffer *)

LEMMA TypedIsNotNul ==
  ASSUME DatapathAssumption, BufferInv, NEW i \in 1..buffer_pos
  PROVE  buffer[i - 1] = typed[i] /\ buffer[i - 1] # "NUL"
<1>1. buffer[i - 1] = typed[i] /\ typed[i] \in Characters \cup {"\n"}
  BY DEF BufferInv
<1> QED
  BY <1>1 DEF DatapathAssumption

(* A line that ends before the array does, with a NUL behind it, is the only *)
(* text strlen() can find.                                                   *)
LEMMA LineIsString ==
  ASSUME DatapathAssumption, BufferInv,
         buffer_pos <= buffer_length, buffer[buffer_pos] = "NUL",
         NEW says \in Strings(buffer)
  PROVE  says = typed
<1> DEFINE ends == {n \in DOMAIN buffer : buffer[n] = "NUL"}
           Chars(n) == [i \in 1..n |-> buffer[i - 1]]
<1>1. DOMAIN buffer = 0..buffer_length /\ buffer_length \in Nat
  BY DEF BufferInv, DatapathAssumption
<1>2. buffer_pos \in ends /\ buffer_pos \in Nat
  BY <1>1 DEF BufferInv
<1>3. ASSUME NEW n \in ends
      PROVE  n >= buffer_pos
  <2>1. SUFFICES ASSUME n < buffer_pos PROVE FALSE
    BY <1>1, <1>2
  <2>2. n + 1 \in 1..buffer_pos /\ (n + 1) - 1 = n
    BY <1>1, <1>2, <2>1
  <2> QED
    BY <2>2, TypedIsNotNul
<1>4. PICK n \in ends : (\A i \in ends : n <= i) /\ says = Chars(n)
  BY <1>2 DEF Strings
<1>5. n = buffer_pos
  BY <1>1, <1>2, <1>3, <1>4
<1>6. typed = [i \in 1..buffer_pos |-> typed[i]]
  BY <1>2 DEF BufferInv
<1>7. \A i \in 1..buffer_pos : buffer[i - 1] = typed[i]
  BY DEF BufferInv
<1> QED
  BY <1>4, <1>5, <1>6, <1>7

(* Every text strlen() finds fits into a PUBLISH, also behind the array.      *)
LEMMA StringFits ==
  ASSUME DatapathAssumption, BehindAssumption, BufferInv, NEW says \in Strings(buffer)
  PROVE  Len(says) \in 0..247
<1> DEFINE ends == {n \in DOMAIN buffer : buffer[n] = "NUL"}
           Chars(n) == [i \in 1..n |-> buffer[i - 1]]
           All == Characters \cup {"\n", "NUL"}
<1>1. DOMAIN buffer = 0..buffer_length /\ buffer_length \in 1..246
  BY DEF BufferInv, DatapathAssumption
<1>2. \A n \in 0..buffer_length + 1 : Chars(n) \in Seq(All) /\ Len(Chars(n)) = n
  <2>1. SUFFICES ASSUME NEW n \in 0..buffer_length + 1
                 PROVE  Chars(n) \in Seq(All) /\ Len(Chars(n)) = n
    OBVIOUS
  <2>2. n \in Nat /\ \A i \in 1..n : buffer[i - 1] \in All
    BY <1>1 DEF BufferInv
  <2> QED
    BY <2>2
<1>3. CASE ends = {}
  <2>1. PICK rest \in Behind : says = Chars(buffer_length + 1) \o rest
    BY <1>3 DEF Strings
  <2>2. rest \in Seq(Characters)
    BY DEF BehindAssumption
  <2>3. Chars(buffer_length + 1) \in Seq(All) /\ Len(Chars(buffer_length + 1)) = buffer_length + 1
    BY <1>1, <1>2
  <2> HIDE DEF Chars
  <2>4. rest \in Seq(All)
    BY <2>2
  <2> DEFINE l == Len(says)
             r == Len(rest)
  <2>5. r <= 246 - buffer_length
    BY DEF BehindAssumption
  <2>6. r \in Nat
    BY <2>2
  <2>7. l = buffer_length + 1 + r
    BY <2>1, <2>3, <2>4
  <2> HIDE DEF l, r
  <2>8. l \in 0..247
    BY <1>1, <2>5, <2>6, <2>7
  <2> QED
    BY <2>8 DEF l
<1>4. CASE ends # {}
  <2>1. PICK n \in ends : says = Chars(n)
    BY <1>4 DEF Strings
  <2>2. n \in 0..buffer_length
    BY <1>1, <2>1
  <2>3. Len(Chars(n)) = n
    BY <1>1, <1>2, <2>2
  <2> QED
    BY <1>1, <2>1, <2>2, <2>3
<1> QED
  BY <1>3, <1>4

(* Of a line of buffer_length - 1 characters the NUL is one that memset()     *)
(* wrote; of one of buffer_length it is the last byte of the array.          *)
LEMMA PublishedLine ==
  ASSUME DatapathAssumption, BufferInv, NEW says \in Strings(buffer)
  PROVE  \/ says = typed
         \/ Len(typed) = buffer_length /\ overlong
         \/ Len(typed) > buffer_length
<1>1. Len(typed) = buffer_pos /\ buffer_pos \in Nat /\ buffer_length \in Nat
  BY DEF BufferInv, DatapathAssumption
<1>2. CASE buffer_pos < buffer_length
  <2>1. buffer[buffer_pos] = "NUL"
    BY <1>1, <1>2 DEF BufferInv
  <2> QED
    BY <1>1, <1>2, <2>1, LineIsString
<1>3. CASE buffer_pos = buffer_length /\ ~overlong
  <2>1. buffer[buffer_pos] = "NUL"
    BY <1>3 DEF BufferInv
  <2> QED
    BY <1>1, <1>3, <2>1, LineIsString
<1> QED
  BY <1>1, <1>2, <1>3

LEMMA ClearedBuffer ==
  ASSUME DatapathAssumption, BufferInv, EndsLine
  PROVE  BufferInv'
<1>1. buffer_length \in Nat \ {0} /\ DOMAIN buffer = 0..buffer_length
  BY DEF BufferInv, DatapathAssumption
<1>2. /\ buffer' = [i \in 0..buffer_length |-> IF i < buffer_length THEN "NUL" ELSE buffer[i]]
      /\ buffer_pos' = 0 /\ typed' = <<>> /\ overlong' = overlong
  BY <1>1 DEF EndsLine, Cleared
<1>3. buffer' \in [0..buffer_length -> Characters \cup {"\n", "NUL"}]
  BY <1>1, <1>2 DEF BufferInv
<1>4. buffer'[buffer_length] = buffer[buffer_length]
  BY <1>1, <1>2
<1>5. \A i \in 0..buffer_length - 1 : buffer'[i] = "NUL"
  BY <1>1, <1>2
<1> QED
  BY <1>1, <1>2, <1>3, <1>4, <1>5 DEF BufferInv

LEMMA TypedBuffer ==
  ASSUME DatapathAssumption, BufferInv, NEW c \in Characters \cup {"\n"}, ReadSerial(c)
  PROVE  BufferInv'
<1> DEFINE All == Characters \cup {"\n"}
<1>1. /\ buffer_pos \in DOMAIN buffer
      /\ buffer' = [buffer EXCEPT ![buffer_pos] = c]
      /\ buffer_pos' = buffer_pos + 1
      /\ typed' = Append(typed, c)
      /\ overlong' = (overlong \/ buffer_pos = buffer_length)
  BY DEF ReadSerial
<1>2. buffer_pos \in 0..buffer_length /\ buffer_length \in Nat
  BY <1>1 DEF BufferInv, DatapathAssumption
<1>3. buffer \in [0..buffer_length -> All \cup {"NUL"}] /\ typed \in Seq(All)
      /\ Len(typed) = buffer_pos
  BY DEF BufferInv
<1>4. buffer_pos' \in 0..buffer_length + 1
  BY <1>1, <1>2
<1>5. buffer' \in [0..buffer_length -> All \cup {"NUL"}]
  BY <1>1, <1>3
<1>6. typed' \in Seq(All) /\ Len(typed') = buffer_pos'
  BY <1>1, <1>3
<1>7. \A i \in 1..buffer_pos' : buffer'[i - 1] = typed'[i]
  <2>1. SUFFICES ASSUME NEW i \in 1..buffer_pos + 1
                 PROVE  buffer'[i - 1] = typed'[i]
    BY <1>1
  <2>2. CASE i = buffer_pos + 1
    BY <2>2, <1>1, <1>2, <1>3
  <2>3. CASE i \in 1..buffer_pos
    <3>1. buffer[i - 1] = typed[i]
      BY <2>3 DEF BufferInv
    <3> QED
      BY <2>3, <3>1, <1>1, <1>2, <1>3
  <2> QED
    BY <2>2, <2>3, <1>2
<1>8. \A i \in buffer_pos'..buffer_length - 1 : buffer'[i] = "NUL"
  <2>1. \A i \in buffer_pos..buffer_length - 1 : buffer[i] = "NUL"
    BY DEF BufferInv
  <2> QED
    BY <2>1, <1>1, <1>2, <1>3
<1>9. overlong' \in BOOLEAN
  BY <1>1 DEF BufferInv
<1>10. ASSUME ~overlong'
       PROVE  buffer_pos' <= buffer_length /\ buffer'[buffer_length] = "NUL"
  <2>1. ~overlong /\ buffer_pos # buffer_length
    BY <1>1, <1>10
  <2>2. buffer[buffer_length] = "NUL"
    BY <2>1 DEF BufferInv
  <2> QED
    BY <1>1, <1>2, <1>3, <2>1, <2>2
<1> QED
  BY <1>4, <1>5, <1>6, <1>7, <1>8, <1>9, <1>10 DEF BufferInv

LEMMA LineKept ==
  ASSUME [Next]_vars, ~Typing, ~Publish
  PROVE  UNCHANGED line
BY Steps, QuietKeeps, ClientSendingKeeps, EnvironmentKeeps, ReadingKeeps
   DEF LoopReturns, vars, sketch

LEMMA BufferStep ==
  ASSUME DatapathAssumption, BufferInv, [Next]_vars
  PROVE  BufferInv'
<1>1. CASE Typing
  BY <1>1, TypedBuffer DEF Typing
<1>2. CASE Publish
  BY <1>2, ClearedBuffer DEF Publish
<1>3. CASE ~Typing /\ ~Publish
  BY <1>3, LineKept DEF BufferInv, line
<1> QED
  BY <1>1, <1>2, <1>3

LEMMA OverlongStep ==
  ASSUME [Next]_vars
  PROVE  overlong => overlong'
<1>1. CASE Typing \/ Publish
  BY <1>1 DEF Typing, ReadSerial, Publish, EndsLine
<1>2. CASE ~Typing /\ ~Publish
  BY <1>2, LineKept DEF line
<1> QED
  BY <1>1, <1>2

-----------------------------------------------------------------------------
(* The packets under way *)

LEMMA BoxStep ==
  ASSUME DatapathAssumption, BehindAssumption, ConstantInv, Box(inbox), BufferInv,
         [Next]_vars
  PROVE  Box(inbox')
<1> USE DEF ConstantInv
<1>1. CASE UNCHANGED inbox
  BY <1>1
<1>2. CASE ConnectTry
  <2>1. \E s : ClientSends(inbox, GatewayDeviceAddress,
                           msg_connect(TRUE, Named("client id", names.client_id)), Nothing, s)
    BY <1>2 DEF ConnectTry
  <2>2. msg_connect(TRUE, Named("client id", names.client_id)).type = "CONNECT"
    BY DEF msg_connect, Message
  <2> QED
    BY <2>1, <2>2, HonestMessages, ClientSendsInBox
<1>3. CASE SendSubscribe
  <2> DEFINE m == msg_subscribe_topicname(Named("subscribe", names.subscribe), NextMsgId, qos, FALSE)
  <2>1. \E s : ClientSends(inbox, gw_address, m, Nothing, s)
    BY <1>3 DEF SendSubscribe
  <2>2. m.type = "SUBSCRIBE"
    BY DEF msg_subscribe_topicname, Message
  <2>3. Honest(m)
    BY HonestMessages
  <2> HIDE DEF m
  <2> QED
    BY <2>1, <2>2, <2>3, ClientSendsInBox
<1>4. CASE SendRegister
  <2> DEFINE m == msg_register(0, NextMsgId, Named("publish", names.publish))
  <2>1. \E s : ClientSends(inbox, gw_address, m, Nothing, s)
    BY <1>4 DEF SendRegister
  <2>2. m.type = "REGISTER"
    BY DEF msg_register, Message
  <2>3. Honest(m)
    BY HonestMessages
  <2> HIDE DEF m
  <2> QED
    BY <2>1, <2>2, <2>3, ClientSendsInBox
<1>5. CASE Publish
  <2>1. PICK says \in Strings(buffer) :
          \E s : ClientSends(inbox, gw_address,
                             msg_publish(FALSE, qos, FALSE, TRUE, session.publish_id, 0, Payload(says)),
                             Meant(qos, FALSE, Payload(typed)), s)
    BY <1>5 DEF Publish
  <2> DEFINE m == msg_publish(FALSE, qos, FALSE, TRUE, session.publish_id, 0, Payload(says))
             meant == Meant(qos, FALSE, Payload(typed))
  <2>2. Payload(says).length \in 0..248
    <3> DEFINE l == Len(says)
    <3>1. l \in 0..247
      BY StringFits
    <3>2. Payload(says).length = l + 1
      BY DEF Payload
    <3> HIDE DEF l
    <3> QED
      BY <3>1, <3>2
  <2>3. Honest(m)
    BY <2>2, HonestPublish
  <2>4. m.text = Payload(says) /\ meant.text = Payload(typed) /\ Payload(typed).says = typed
    BY DEF msg_publish, Message, Meant, Payload
  <2> HIDE DEF m, meant
  <2>5. AsTyped(m, meant)
    BY <2>4, PublishedLine DEF AsTyped
  <2>6. \E s : ClientSends(inbox, gw_address, m, meant, s)
    BY <2>1 DEF m, meant
  <2> QED
    BY <2>3, <2>5, <2>6, ClientSendsInBox
<1>6. CASE Reading
  <2>1. PICK packet \in inbox["client"] : ClientReceives(packet)
    BY <1>6 DEF Reading
  <2>2. CASE inbox' = Removed("client", packet)
    BY <2>2, RemovedInBox DEF Boards
  <2>3. CASE inbox' # Removed("client", packet)
    <3>1. PICK address \in Loop(Socket["client"], Endpoint["client"], packet) :
            LET o == receiveData(address, packet, session) IN
            /\ o.reply # NoText
            /\ ClientSends(Removed("client", packet), address, o.reply, Nothing, o.session)
      BY <2>1, <2>3 DEF ClientReceives
    <3>2. receiveData(address, packet, session).reply \in {NoText, PINGRESP, DISCONNECT}
      <4> USE DEF Ignored, Outcome
      <4>1. parse_pingreq(packet.message, session).reply \in {NoText, PINGRESP}
        BY DEF parse_pingreq
      <4>2. parse_connack(packet.message, session).reply \in {NoText, DISCONNECT}
        BY DEF parse_connack
      <4>3. parse_suback(packet.message, session).reply = NoText
        BY DEF parse_suback
      <4>4. handle_regack(packet.message, session).reply = NoText
        BY DEF handle_regack
      <4>5. parse_publish(packet.message, packet.meant, session).reply = NoText
        BY DEF parse_publish
      <4>6. Ignored(session).reply = NoText
        OBVIOUS
      <4> QED
        BY <4>1, <4>2, <4>3, <4>4, <4>5, <4>6 DEF receiveData
    <3>3. PINGRESP.type = "PINGRESP" /\ DISCONNECT.type = "DISCONNECT"
      BY DEF PINGRESP, DISCONNECT, Message
    <3>4. Box(Removed("client", packet))
      BY RemovedInBox DEF Boards
    <3> QED
      BY <3>1, <3>2, <3>3, <3>4, HonestMessages, ClientSendsInBox
  <2> QED
    BY <2>2, <2>3
<1>7. CASE Environment
  <2>1. ASSUME NEW packet, GatewayReceives(packet)
        PROVE  Box(inbox')
    BY <2>1, RemovedInBox DEF GatewayReceives, Boards
  <2>2. ASSUME NEW h, NEW q, GatewayAnswers(h, q)
        PROVE  Box(inbox')
    <3>1. PICK m : Honest(m) /\ GatewaySends(h.address, m, Nothing)
      <4>1. CASE h.type = "CONNECT"
        BY <2>2, <4>1, HonestAnswers DEF GatewayAnswers
      <4>2. CASE h.type = "SUBSCRIBE"
        BY <2>2, <4>2, HonestAnswers DEF GatewayAnswers
      <4>3. CASE h.type = "REGISTER"
        BY <2>2, <4>3, HonestAnswers DEF GatewayAnswers
      <4> QED
        BY <2>2, <4>1, <4>2, <4>3 DEF GatewayAnswers
    <3> QED
      BY <3>1, GatewaySendsInBox
  <2>3. ASSUME NEW q, NEW retain, NEW topic_id, NEW length \in Payloads,
               GatewayPublishes(q, retain, topic_id, length)
        PROVE  Box(inbox')
    <3> DEFINE text == [says |-> <<"publication">>, length |-> length]
               msg_id == IF q \in {1, 2} THEN 1 ELSE 0
               m == msg_publish(FALSE, q, retain, FALSE, topic_id, msg_id, text)
    <3>1. \E address : GatewaySends(address, m, Meant(q, retain, text))
      BY <2>3 DEF GatewayPublishes
    <3>2. text.length \in 0..248
      BY DEF DatapathAssumption
    <3>3. Honest(m)
      BY <3>2, HonestPublish
    <3> HIDE DEF m
    <3> QED
      BY <3>1, <3>3, GatewaySendsInBox
  <2>4. ASSUME NEW m \in OtherMessages, GatewaySendsOther(m)
        PROVE  Box(inbox')
    BY <2>4, HonestOtherMessages, GatewaySendsInBox DEF GatewaySendsOther
  <2>5. ASSUME NEW to, NEW m \in NoiseMessages, OtherSends(to, m)
        PROVE  Box(inbox')
    <3> DEFINE p == Packet(Other, to, m, Nothing)
    <3>1. p.from = Other /\ p.message = m
      BY DEF Packet
    <3>2. Honest(p.message) /\ p.from \in Nodes
      BY <3>1, HonestNoise DEF Nodes
    <3>3. Carries(p)
      BY <3>1, ClientEndpointUnique DEF Carries
    <3>4. inbox' = Heard(inbox, p)
      BY <2>5 DEF OtherSends
    <3> HIDE DEF p
    <3> QED
      BY <3>2, <3>3, <3>4, HeardInBox
  <2> QED
    BY <1>7, <2>1, <2>2, <2>3, <2>4, <2>5 DEF Environment
<1> QED
  BY <1>1, <1>2, <1>3, <1>4, <1>5, <1>6, <1>7, Steps, QuietKeeps
     DEF ClientSending, Typing, ReadSerial, LoopReturns, vars, network

-----------------------------------------------------------------------------
(* What the sockets handed on, and the gateway's address *)

LEMMA HandedStep ==
  ASSUME ConstantInv, Box(inbox), HandedInv, [Next]_vars
  PROVE  HandedInv'
<1> USE DEF ConstantInv
<1>1. SUFFICES /\ DOMAIN handed' = Boards
               /\ \A b \in Boards : \A h \in handed'[b] : Answerable(b, h)
               /\ \A h \in handed'["client"] : Recognised(h)
  <2>1. net' = net
    BY ConstantStep
  <2> QED
    BY <2>1, Frame DEF HandedInv, Answerable, Recognised
<1>2. CASE UNCHANGED handed
  BY <1>2 DEF HandedInv
<1>3. ASSUME NEW b \in Boards, NEW p \in inbox[b],
             NEW a \in Loop(Socket[b], Endpoint[b], p)
      PROVE  /\ Answerable(b, HandedOn(a, p))
             /\ b = "client" => Recognised(HandedOn(a, p))
  <2>1. Hears(b, p) /\ p.from \in Nodes
    BY DEF Box, Proper
  <2> QED
    BY <2>1, HandedOnAnswerable, HandedOnRecognised
<1>4. CASE Reading
  <2>1. PICK packet \in inbox["client"] : ClientReceives(packet)
    BY <1>4 DEF Reading
  <2>2. SUFFICES ASSUME handed' # handed
                 PROVE  \E a \in Loop(Socket["client"], Endpoint["client"], packet) :
                          handed' = [handed EXCEPT !["client"] = {HandedOn(a, packet)}]
    BY <1>2, <1>3 DEF HandedInv, Boards
  <2> QED
    BY <2>1, <2>2 DEF ClientReceives
<1>5. ASSUME NEW packet \in inbox["bridge"], GatewayReceives(packet), handed' # handed
      PROVE  handed' = [handed EXCEPT !["bridge"] =
               {HandedOn(a, packet) : a \in Loop(Socket["bridge"], Endpoint["bridge"], packet)}]
  BY <1>5 DEF GatewayReceives
<1>6. ASSUME NEW packet \in inbox["bridge"], GatewayReceives(packet), handed' # handed
      PROVE  /\ DOMAIN handed' = Boards
             /\ \A b \in Boards : \A h \in handed'[b] : Answerable(b, h)
             /\ \A h \in handed'["client"] : Recognised(h)
  BY <1>3, <1>5, <1>6 DEF HandedInv, Boards
<1>7. ASSUME NEW h, NEW q, GatewayAnswers(h, q)
      PROVE  handed' = [handed EXCEPT !["bridge"] = {}]
  BY <1>7 DEF GatewayAnswers
<1>8. CASE Environment
  <2>1. \/ \E packet \in inbox["bridge"] : GatewayReceives(packet)
        \/ \E h \in handed["bridge"], q \in 0..2 : GatewayAnswers(h, q)
        \/ UNCHANGED handed
    BY <1>8 DEF Environment, GatewayPublishes, GatewaySendsOther, OtherSends
  <2> QED
    BY <2>1, <1>2, <1>6, <1>7 DEF HandedInv, Boards
<1> QED
  BY <1>2, <1>4, <1>8, Steps, QuietKeeps, ClientSendingKeeps
     DEF Typing, ReadSerial, Publish, LoopReturns, vars, network

LEMMA AddressStep ==
  ASSUME AddressInv, HandedInv, [Next]_vars
  PROVE  AddressInv'
<1>1. net' = net /\ GatewayDeviceAddress' = GatewayDeviceAddress
  BY ConstantStep, Frame
<1>2. SUFFICES ASSUME net.client.connects
               PROVE  \/ gw_address' = GatewayDeviceAddress
                      \/ /\ pc' \in {"setup", "halted", "loop"}
                         /\ ~session'.connected /\ handed'["client"] = {}
  BY <1>1 DEF AddressInv
<1>3. CASE ConnectTry
  BY <1>3 DEF ConnectTry
<1>4. CASE ~ConnectTry /\ gw_address = GatewayDeviceAddress
  <2>1. UNCHANGED gw_address
    BY <1>4, Steps, QuietKeeps, ReadingKeeps, EnvironmentKeeps
       DEF ClientSending, SendSubscribe, SendRegister, Typing, ReadSerial, Publish,
           LoopReturns, vars, client
  <2> QED
    BY <1>4, <2>1
<1>5. CASE /\ ~ConnectTry
           /\ pc \in {"setup", "halted", "loop"} /\ ~session.connected
           /\ handed["client"] = {}
  <2>1. ~Typing /\ ~Publish /\ ~LoopReturns /\ ~Reading
    BY <1>5 DEF Typing, ReadSerial, AtSerial, Publish, LoopReturns, Reading, ClientReceives, Pumping
  <2>2. ~ClientSending
    BY <1>5 DEF ClientSending, SendSubscribe, SendRegister
  <2>3. CASE Quiet
    <3>1. \E begins \in BOOLEAN : Setup(begins)
      BY <2>3, <1>2, <1>5 DEF Quiet, ConnectFails, Subscribe, SubscribeReturns, NoSerial,
         AtSerial, RegisterTopic
    <3> QED
      BY <3>1, <1>5 DEF Setup, network, client
  <2>4. CASE Environment
    <3>1. UNCHANGED <<pc, session>>
      BY <2>4, EnvironmentKeeps DEF sketch, client
    <3>2. handed'["client"] = handed["client"]
      BY <2>4 DEF HandedInv, Boards, Environment, GatewayReceives, GatewayAnswers,
         GatewayPublishes, GatewaySendsOther, OtherSends
    <3> QED
      BY <1>5, <3>1, <3>2
  <2>5. CASE UNCHANGED vars
    BY <2>5, <1>5 DEF vars, network, sketch, client
  <2> QED
    BY <2>1, <2>2, <2>3, <2>4, <2>5, Steps
<1> QED
  BY <1>2, <1>3, <1>4, <1>5 DEF AddressInv

-----------------------------------------------------------------------------
LEMMA InitInv ==
  ASSUME DatapathAssumption, Init
  PROVE  IInv
<1>1. ConstantInv /\ Box(inbox) /\ HandedInv /\ AddressInv
  BY DEF Init, ConstantInv, Box, HandedInv, AddressInv, Boards
<1>2. BufferInv
  <2>1. buffer_length \in Nat /\ typed = <<>> /\ buffer_pos = 0 /\ overlong = FALSE
    BY DEF Init, DatapathAssumption
  <2>2. buffer = [i \in 0..buffer_length |-> "NUL"]
    BY DEF Init
  <2>3. /\ buffer_pos \in 0..buffer_length + 1
        /\ typed \in Seq(Characters \cup {"\n"})
        /\ Len(typed) = buffer_pos
    BY <2>1
  <2>4. buffer \in [0..buffer_length -> Characters \cup {"\n", "NUL"}]
    BY <2>2
  <2>5. \A i \in 1..buffer_pos : buffer[i - 1] = typed[i]
    BY <2>1
  <2>6. \A i \in buffer_pos..buffer_length - 1 : buffer[i] = "NUL"
    BY <2>1, <2>2
  <2>7. overlong \in BOOLEAN
    BY <2>1
  <2>8. buffer_pos <= buffer_length /\ buffer[buffer_length] = "NUL"
    BY <2>1, <2>2
  <2> QED
    BY <2>3, <2>4, <2>5, <2>6, <2>7, <2>8 DEF BufferInv
<1> QED
  BY <1>1, <1>2 DEF IInv

LEMMA StepInv ==
  ASSUME DatapathAssumption, BehindAssumption, IInv, [Next]_vars
  PROVE  IInv'
<1>1. ConstantInv'
  BY ConstantStep DEF IInv, ConstantInv
<1>2. Box(inbox)'
  BY BoxStep, BoxFrame, ConstantStep, OverlongStep DEF IInv
<1>3. HandedInv' /\ AddressInv' /\ BufferInv'
  BY HandedStep, AddressStep, BufferStep DEF IInv
<1> QED
  BY <1>1, <1>2, <1>3 DEF IInv

LEMMA InvImplies ==
  ASSUME IInv
  PROVE  /\ GatewayRecognised /\ AnswerReachesSender /\ HandedForMe
         /\ PublishedAsTyped /\ LengthHonest
<1>1. net \in Networks
  BY DEF IInv, ConstantInv
<1>2. GatewayRecognised
  <2>1. SUFFICES ASSUME Socket["client"] # "SX1276Socket", NEW h \in handed["client"]
                 PROVE  h.address = gw_address <=> h.from = Endpoint["bridge"]
    BY DEF GatewayRecognised
  <2>2. net.client.connects
    BY <1>1, <2>1 DEF Networks, Socket, UnoUdpMqttSnClient, UdpMqttSnClient,
       WiFiUdpMqttSnClient, RF95DatagramMqttSnClient, LoRaMqttsnClient
  <2>3. gw_address = GatewayDeviceAddress
    BY <2>1, <2>2 DEF IInv, AddressInv
  <2>4. Recognised(h)
    BY DEF IInv, HandedInv
  <2> QED
    BY <2>1, <2>3, <2>4 DEF Recognised
<1>3. AnswerReachesSender
  BY DEF AnswerReachesSender, IInv, HandedInv, Answerable
<1>4. HandedForMe
  BY DEF HandedForMe, IInv, HandedInv, Answerable
<1>5. PublishedAsTyped
  BY DEF PublishedAsTyped, IInv, Box, Proper, Carries, AsTyped, Boards
<1>6. LengthHonest
  BY DEF LengthHonest, IInv, Box, Proper, Honest
<1> QED
  BY <1>2, <1>3, <1>4, <1>5, <1>6

LEMMA Inductive == Spec => []IInv
<1>1. Init => IInv
  BY InitInv, DatapathAssumption
<1>2. IInv /\ [Next]_vars => IInv'
  BY StepInv, DatapathAssumption, BehindAssumption
<1> QED
  BY <1>1, <1>2, PTL DEF Spec

-----------------------------------------------------------------------------
(* What is parsed *)

Faithful(p) ==
  /\ p.message.topic_id # 0
  /\ p.message.text = p.meant.text
  /\ p.message.length = 7 + p.message.text.length
  /\ p.message.text.length \in Nat
  /\ (FLAG_RETAIN \subseteq p.message.flags) = p.meant.retain
  /\ QosOf(p.message.flags) = p.meant.qos

(* The PUBLISH of the OtherMessages: at topic 1, which is never registered,  *)
(* and at QoS -1, which is never granted                                     *)
Unheard(m) == m.topic_id = 1 /\ QosOf(m.flags) = -1

Readable(p) ==
  /\ p.message.type = "REGACK" => p.message.topic_id = 2
  /\ p.message.type = "SUBACK" => /\ p.message.topic_id = 1
                                  /\ QosOf(p.message.flags) \in 0..2
  /\ p.message.type = "PUBLISH" /\ p.from = Endpoint["bridge"] =>
       Faithful(p) \/ Unheard(p.message)

Asked == {p \in inbox["bridge"] : p.message.type = "SUBSCRIBE"}
Heeded == {h \in handed["bridge"] : h.type = "SUBSCRIBE"}
Granted == {p \in inbox["client"] : p.message.type = "SUBACK"}

ReadInv ==
  /\ \A p \in inbox["client"] : Readable(p)
  /\ \A p \in Asked : p.from = Endpoint["client"]
  /\ \A h \in Heeded : h.from = Endpoint["client"]

Connected == {"subscribing", "serial", "pump", "publish", "register", "registering"}

SessionFields ==
  {"connected", "socket_disconnected", "awaits", "msg_id", "topic_id", "granted_qos",
   "publish_id"}

SessionInv ==
  /\ DOMAIN session = SessionFields /\ "granted" \in DOMAIN gateway
  /\ session.topic_id \in {0, 1}
  /\ session.publish_id \in {0, 2}
  /\ session.granted_qos \in 0..2
  /\ pc \in Connected => session.connected
  /\ IF net.client.connects
     THEN pc = "waiting" => session.connected
     ELSE /\ pc \in {"setup", "halted", "loop", "waiting"}
          /\ ~session.connected
          /\ session.awaits \notin {"CONNACK", "PINGREQ"}

(* The client has not sent its SUBSCRIBE.                                    *)
NotAsked ==
  \/ pc \in {"setup", "halted", "connecting", "waiting"}
  \/ pc = "loop" /\ ~session.connected

(* The one SUBSCRIBE of a behaviour becomes its one SUBACK; the granted QoS  *)
(* does not change after that.                                              *)
GrantInv ==
  /\ \A p, q \in Asked : p = q
  /\ Heeded # {} => Asked = {}
  /\ Granted # {} \/ session.topic_id = 1 => Asked = {} /\ Heeded = {}
  /\ \A p \in Granted : QosOf(p.message.flags) = gateway.granted
  /\ session.topic_id = 1 => session.granted_qos = gateway.granted
  /\ NotAsked => /\ Asked = {} /\ Heeded = {} /\ Granted = {}
                 /\ session.topic_id = 0

PrintedInv ==
  /\ ParsedAsBuilt
  /\ \A c \in printed : c.topic = "subscribe" => session.topic_id = 1

ParseInv == ReadInv /\ SessionInv /\ GrantInv /\ PrintedInv

(* Flags are read as they are written.                                       *)
LEMMA QosRead ==
  ASSUME NEW q \in 0..2
  PROVE  QosOf(QosFlags(q)) = q
BY DEF QosOf, QosFlags, FLAG_QOS_0, FLAG_QOS_1, FLAG_QOS_2, FLAG_QOS_M1

LEMMA BitsRead ==
  ASSUME NEW q \in {-1, 0, 1, 2}, NEW flags,
         5 \in flags <=> q \in {-1, 1}, 6 \in flags <=> q \in {-1, 2}
  PROVE  QosOf(flags) = q
<1>1. /\ FLAG_QOS_M1 \subseteq flags <=> 5 \in flags /\ 6 \in flags
      /\ FLAG_QOS_2 \subseteq flags <=> 6 \in flags
      /\ FLAG_QOS_1 \subseteq flags <=> 5 \in flags
  BY DEF FLAG_QOS_1, FLAG_QOS_2, FLAG_QOS_M1
<1>2. CASE q = -1
  BY <1>1, <1>2 DEF QosOf
<1>3. CASE q = 2
  BY <1>1, <1>3 DEF QosOf
<1>4. CASE q = 1
  BY <1>1, <1>4 DEF QosOf
<1>5. CASE q = 0
  BY <1>1, <1>5 DEF QosOf
<1> QED
  BY <1>2, <1>3, <1>4, <1>5

LEMMA PublishFlagsRead ==
  ASSUME NEW q \in -1..2, NEW retain \in BOOLEAN,
         NEW flags, flags = FlagIf(FALSE, FLAG_DUP) \cup FlagIf(retain, FLAG_RETAIN)
                            \cup FLAG_TOPIC_PREDEFINED_ID \cup PublishQosFlags(q)
  PROVE  QosOf(flags) = q /\ (FLAG_RETAIN \subseteq flags) = retain
<1>1. q \in {-1, 0, 1, 2}
  OBVIOUS
<1>2. /\ 4 \in flags <=> retain
      /\ 5 \in flags <=> q \in {-1, 1}
      /\ 6 \in flags <=> q \in {-1, 2}
  BY <1>1 DEF FlagIf, PublishQosFlags, QosFlags, FLAG_DUP, FLAG_RETAIN, FLAG_QOS_0,
     FLAG_QOS_1, FLAG_QOS_2, FLAG_QOS_M1, FLAG_TOPIC_PREDEFINED_ID
<1> QED
  BY <1>1, <1>2, BitsRead DEF FLAG_RETAIN

LEMMA PublishRead ==
  ASSUME NEW q \in -1..2, NEW retain \in BOOLEAN, NEW topic_id \in 1..2, NEW msg_id,
         NEW text, text.length \in 0..248, NEW p,
         p.message = msg_publish(FALSE, q, retain, FALSE, topic_id, msg_id, text),
         p.meant = Meant(q, retain, text)
  PROVE  Faithful(p)
<1>1. /\ p.message.text = text /\ p.message.length = (7 + text.length) % 256
      /\ p.message.topic_id = topic_id
      /\ p.message.flags = FlagIf(FALSE, FLAG_DUP) \cup FlagIf(retain, FLAG_RETAIN)
                           \cup FLAG_TOPIC_PREDEFINED_ID \cup PublishQosFlags(q)
  BY DEF msg_publish, Message
<1>2. p.meant.qos = q /\ p.meant.retain = retain /\ p.meant.text = text
  BY DEF Meant
<1>3. (7 + text.length) % 256 = 7 + text.length /\ text.length \in Nat
  OBVIOUS
<1>4. QosOf(p.message.flags) = q /\ (FLAG_RETAIN \subseteq p.message.flags) = retain
  BY <1>1, PublishFlagsRead
<1>5. p.message.topic_id # 0 /\ p.message.length = 7 + p.message.text.length
  <2>1. topic_id # 0
    OBVIOUS
  <2> QED
    BY <1>1, <1>3, <2>1, Zenon
<1>6. (FLAG_RETAIN \subseteq p.message.flags) = p.meant.retain
  BY <1>2, <1>4, Zenon
<1> QED
  BY <1>1, <1>2, <1>3, <1>4, <1>5, <1>6, Zenon DEF Faithful

LEMMA UnheardPublish ==
  ASSUME NEW text
  PROVE  LET m == msg_publish(FALSE, -1, FALSE, FALSE, 1, 0, text) IN
         Unheard(m) /\ m.type = "PUBLISH"
<1> DEFINE m == msg_publish(FALSE, -1, FALSE, FALSE, 1, 0, text)
<1>1. /\ m.topic_id = 1 /\ m.type = "PUBLISH"
      /\ m.flags = FlagIf(FALSE, FLAG_DUP) \cup FlagIf(FALSE, FLAG_RETAIN)
                   \cup FLAG_TOPIC_PREDEFINED_ID \cup PublishQosFlags(-1)
  BY DEF msg_publish, Message
<1>2. QosOf(m.flags) = -1
  <2> HIDE DEF m
  <2>1. -1 \in -1..2 /\ FALSE \in BOOLEAN
    OBVIOUS
  <2> QED
    BY <1>1, <2>1, PublishFlagsRead
<1> QED
  BY <1>1, <1>2 DEF Unheard

(* Of the messages that are no answers none is taken for one.                *)
LEMMA OtherMessagesRead ==
  ASSUME NEW m \in OtherMessages
  PROVE  m.type \notin {"SUBACK", "REGACK"} /\ (m.type = "PUBLISH" => Unheard(m))
<1> DEFINE topic == Named("publish", names.publish)
<1>1. /\ PINGREQ.type = "PINGREQ" /\ PINGRESP.type = "PINGRESP"
      /\ msg_advertise.type = "ADVERTISE" /\ msg_searchgw.type = "SEARCHGW"
      /\ msg_gwinfo.type = "GWINFO" /\ msg_unsuback(1).type = "UNSUBACK"
      /\ msg_pubrec(1).type = "PUBREC" /\ msg_pubrel(1).type = "PUBREL"
      /\ msg_pubcomp(1).type = "PUBCOMP" /\ msg_puback(1, 1, "ACCEPTED").type = "PUBACK"
      /\ msg_connack("ACCEPTED").type = "CONNACK"
  BY DEF PINGREQ, PINGRESP, msg_advertise, msg_searchgw, msg_gwinfo, msg_unsuback,
         msg_pubrec, msg_pubrel, msg_pubcomp, msg_puback, msg_connack, Message
<1>2. /\ \A w : msg_connect(TRUE, w).type = "CONNECT"
      /\ \A w : init_msg_pingreq(w).type = "PINGREQ"
      /\ \A w : msg_willtopic(w, 1, TRUE).type = "WILLTOPIC"
      /\ \A w : msg_willmsg(w).type = "ADVERTISE"
      /\ msg_subscribe_shorttopic(TRUE, 1, 1, 1, FALSE).type = "SUBSCRIBE"
  BY DEF msg_connect, init_msg_pingreq, msg_willtopic, msg_willmsg,
         msg_subscribe_shorttopic, Message
<1>3. Unheard(msg_publish(FALSE, -1, FALSE, FALSE, 1, 0, topic))
      /\ msg_publish(FALSE, -1, FALSE, FALSE, 1, 0, topic).type = "PUBLISH"
  BY UnheardPublish
<1>4. \/ m \in {PINGREQ, PINGRESP, msg_advertise, msg_searchgw, msg_gwinfo, msg_unsuback(1),
                msg_pubrec(1), msg_pubrel(1), msg_pubcomp(1), msg_puback(1, 1, "ACCEPTED"),
                msg_connack("ACCEPTED")}
      \/ m \in {msg_connect(TRUE, Named("other id", names.client_id)),
                init_msg_pingreq(Named("other id", names.client_id)),
                msg_willtopic(topic, 1, TRUE), msg_willmsg(topic),
                msg_subscribe_shorttopic(TRUE, 1, 1, 1, FALSE)}
      \/ m = msg_publish(FALSE, -1, FALSE, FALSE, 1, 0, topic)
  BY DEF OtherMessages
<1> HIDE DEF topic
<1> QED
  BY <1>1, <1>2, <1>3, <1>4

LEMMA NoiseRead ==
  ASSUME NEW m \in NoiseMessages
  PROVE  m.type \notin {"SUBACK", "REGACK", "SUBSCRIBE"}
<1>1. /\ msg_advertise.type = "ADVERTISE" /\ msg_connack("ACCEPTED").type = "CONNACK"
      /\ \A w : msg_connect(TRUE, w).type = "CONNECT"
  BY DEF msg_advertise, msg_connack, msg_connect, Message
<1>2. \A w : msg_publish(FALSE, -1, FALSE, FALSE, 1, 0, w).type = "PUBLISH"
  BY UnheardPublish
<1> QED
  BY <1>1, <1>2 DEF NoiseMessages

LEMMA OtherIsOther ==
  ASSUME net \in Networks
  PROVE  Other # Endpoint["bridge"]
<1>1. CASE Socket["client"] \in IpSockets
  <2>1. net.client \in {UnoUdpMqttSnClient, UdpMqttSnClient, WiFiUdpMqttSnClient}
    BY <1>1 DEF Networks, Socket, IpSockets, RF95DatagramMqttSnClient, LoRaMqttsnClient
  <2>2. net.client.gateway.port = 8888 /\ Other.port = 8889
    BY <1>1, <2>1 DEF Other, Socket, UnoUdpMqttSnClient, UdpMqttSnClient,
       WiFiUdpMqttSnClient, Ip
  <2> QED
    BY <2>2 DEF Endpoint
<1>2. CASE Socket["client"] \notin IpSockets
  <2>1. net.client \in {RF95DatagramMqttSnClient, LoRaMqttsnClient}
    BY <1>2 DEF Networks, Socket, IpSockets, UnoUdpMqttSnClient, UdpMqttSnClient,
       WiFiUdpMqttSnClient
  <2> QED
    BY <1>2, <2>1 DEF Endpoint, Other, Socket, RF95DatagramMqttSnClient, LoRaMqttsnClient
<1> QED
  BY <1>1, <1>2

LEMMA ClientSentBox ==
  ASSUME NEW box, DOMAIN box = Boards, NEW destination, NEW m, NEW meant, NEW s,
         ClientSends(box, destination, m, meant, s)
  PROVE  \E p : /\ p.message = m /\ p.from = Endpoint["client"]
                /\ inbox'["client"] = box["client"]
                /\ inbox'["bridge"] \subseteq box["bridge"] \cup {p}
<1>1. PICK accepted : inbox' = Sent(box, "client", destination, m, meant, accepted)
  BY DEF ClientSends
<1> DEFINE p == Packet(Endpoint["client"], Send(Socket["client"], destination, TRUE).to, m, meant)
<1>2. p.message = m /\ p.from = Endpoint["client"]
  BY DEF Packet
<1>3. ~Hears("client", p)
  BY <1>2 DEF Hears
<1>4. inbox' = box \/ inbox' = Heard(box, p)
  BY <1>1 DEF Sent
<1> HIDE DEF p
<1> QED
  BY <1>2, <1>3, <1>4 DEF Heard, Boards

LEMMA GatewaySentBox ==
  ASSUME DOMAIN inbox = Boards, NEW destination, NEW m, NEW meant,
         GatewaySends(destination, m, meant)
  PROVE  \E p : /\ p.message = m /\ p.meant = meant /\ p.from = Endpoint["bridge"]
                /\ inbox'["bridge"] = inbox["bridge"]
                /\ inbox'["client"] \subseteq inbox["client"] \cup {p}
<1> DEFINE p == Packet(Endpoint["bridge"], Send(Socket["bridge"], destination, TRUE).to, m, meant)
<1>1. p.message = m /\ p.meant = meant /\ p.from = Endpoint["bridge"]
  BY DEF Packet
<1>2. ~Hears("bridge", p)
  BY <1>1 DEF Hears
<1>3. inbox' = inbox \/ inbox' = Heard(inbox, p)
  BY DEF GatewaySends, Sent
<1> HIDE DEF p
<1> QED
  BY <1>1, <1>2, <1>3 DEF Heard, Boards

(* Whatever a client sends but a SUBSCRIBE changes nothing here.             *)
LEMMA ClientSentRead ==
  ASSUME DOMAIN inbox = Boards, NEW destination, NEW m, NEW meant, NEW s,
         m.type # "SUBSCRIBE", ClientSends(inbox, destination, m, meant, s)
  PROVE  Asked' \subseteq Asked /\ inbox'["client"] = inbox["client"]
BY ClientSentBox DEF Asked

(* Nothing is asked, answered or granted in the step.                        *)
LEMMA GrantQuiet ==
  ASSUME GrantInv, Asked' \subseteq Asked, Heeded' \subseteq Heeded,
         Granted' \subseteq Granted, gateway'.granted = gateway.granted,
         session'.topic_id = session.topic_id, session'.granted_qos = session.granted_qos,
         NotAsked' => NotAsked
  PROVE  GrantInv'
BY DEF GrantInv

LEMMA ReadQuiet ==
  ASSUME ReadInv, net' = net, Asked' \subseteq Asked, Heeded' \subseteq Heeded,
         \A p \in inbox'["client"] : p \in inbox["client"] \/ Readable(p)
  PROVE  ReadInv'
<1>1. Endpoint' = Endpoint
  BY Frame
<1> QED
  BY <1>1 DEF ReadInv, Readable

LEMMA PrintedQuiet ==
  ASSUME PrintedInv, printed' = printed, session'.topic_id = session.topic_id,
         gateway'.granted = gateway.granted
  PROVE  PrintedInv'
BY DEF PrintedInv, ParsedAsBuilt

(* send() changes one member of the session.                                *)
LEMMA SessionSent ==
  ASSUME NEW box, NEW destination, NEW m, NEW meant, NEW s, DOMAIN s = SessionFields,
         ClientSends(box, destination, m, meant, s)
  PROVE  /\ DOMAIN session' = SessionFields
         /\ session'.connected = s.connected /\ session'.awaits = s.awaits
         /\ session'.topic_id = s.topic_id /\ session'.granted_qos = s.granted_qos
         /\ session'.publish_id = s.publish_id
<1>1. PICK x : session' = [s EXCEPT !.socket_disconnected = x]
  BY DEF ClientSends
<1> QED
  BY <1>1 DEF SessionFields

LEMMA QuietParse ==
  ASSUME ConstantInv, ParseInv, Quiet
  PROVE  ParseInv'
<1>1. UNCHANGED <<net, inbox, handed, session, printed, gateway>>
  <2>1. UNCHANGED gateway
    BY DEF Quiet, Setup, ConnectFails, Subscribe, SubscribeReturns, NoSerial, RegisterTopic
  <2> QED
    BY <2>1, QuietKeeps DEF network, client
<1>2. Asked' = Asked /\ Heeded' = Heeded /\ Granted' = Granted
  BY <1>1 DEF Asked, Heeded, Granted
<1>3. SessionInv' /\ (NotAsked' => NotAsked)
  BY <1>1 DEF ParseInv, SessionInv, NotAsked, Connected, Quiet, Setup, ConnectFails, Subscribe,
     SubscribeReturns, NoSerial, AtSerial, RegisterTopic
<1> QED
  BY <1>1, <1>2, <1>3, ReadQuiet, GrantQuiet, PrintedQuiet DEF ParseInv

LEMMA OtherClientParse ==
  ASSUME ConstantInv, DOMAIN inbox = Boards, ParseInv,
         ConnectTry \/ SendRegister \/ Typing \/ Publish \/ LoopReturns
  PROVE  ParseInv'
<1>1. UNCHANGED <<net, handed, printed, gateway>>
  BY DEF ConnectTry, SendRegister, Typing, ReadSerial, Publish, LoopReturns, network, client
<1>2. /\ DOMAIN session' = SessionFields
      /\ session'.connected = session.connected
      /\ session'.topic_id = session.topic_id
      /\ session'.granted_qos = session.granted_qos
      /\ session'.publish_id = session.publish_id
      /\ Asked' \subseteq Asked
      /\ inbox'["client"] = inbox["client"]
  <2>1. DOMAIN session = SessionFields
    BY DEF ParseInv, SessionInv
  <2>2. CASE ConnectTry
    <3> DEFINE s == [session EXCEPT !.awaits = "CONNACK"]
               m == msg_connect(TRUE, Named("client id", names.client_id))
    <3>1. m.type # "SUBSCRIBE"
      BY DEF msg_connect, Message
    <3>2. /\ DOMAIN s = SessionFields /\ s.connected = session.connected
          /\ s.topic_id = session.topic_id /\ s.granted_qos = session.granted_qos
          /\ s.publish_id = session.publish_id
      BY <2>1 DEF SessionFields
    <3>3. ClientSends(inbox, GatewayDeviceAddress, m, Nothing, s)
      BY <2>2 DEF ConnectTry
    <3> HIDE DEF s, m
    <3> QED
      BY <3>1, <3>2, <3>3, SessionSent, ClientSentRead
  <2>3. CASE SendRegister
    <3> DEFINE s == [session EXCEPT !.awaits = "REGACK", !.msg_id = NextMsgId]
               m == msg_register(0, NextMsgId, Named("publish", names.publish))
    <3>1. m.type # "SUBSCRIBE"
      BY DEF msg_register, Message
    <3>2. /\ DOMAIN s = SessionFields /\ s.connected = session.connected
          /\ s.topic_id = session.topic_id /\ s.granted_qos = session.granted_qos
          /\ s.publish_id = session.publish_id
      BY <2>1 DEF SessionFields
    <3>3. ClientSends(inbox, gw_address, m, Nothing, s)
      BY <2>3 DEF SendRegister
    <3> HIDE DEF s, m
    <3> QED
      BY <3>1, <3>2, <3>3, SessionSent, ClientSentRead
  <2>4. CASE Publish
    <3> DEFINE s == [session EXCEPT !.msg_id = NextMsgId]
               M(says) == msg_publish(FALSE, qos, FALSE, TRUE, session.publish_id, 0, Payload(says))
               meant == Meant(qos, FALSE, Payload(typed))
    <3>0. PICK says \in Strings(buffer) : ClientSends(inbox, gw_address, M(says), meant, s)
      BY <2>4 DEF Publish
    <3> DEFINE m == M(says)
    <3>1. m.type # "SUBSCRIBE"
      BY DEF msg_publish, Message
    <3>2. /\ DOMAIN s = SessionFields /\ s.connected = session.connected
          /\ s.topic_id = session.topic_id /\ s.granted_qos = session.granted_qos
          /\ s.publish_id = session.publish_id
      BY <2>1 DEF SessionFields
    <3>3. ClientSends(inbox, gw_address, m, meant, s)
      BY <3>0
    <3> HIDE DEF s, m, meant
    <3> QED
      BY <3>1, <3>2, <3>3, SessionSent, ClientSentRead
  <2>5. CASE Typing
    BY <2>1, <2>5 DEF Typing, ReadSerial, network, client, Asked
  <2>6. CASE LoopReturns
    BY <2>1, <2>6 DEF LoopReturns, network, SessionFields, Asked
  <2> QED
    BY <2>2, <2>3, <2>4, <2>5, <2>6
<1>3. net.client.connects
  BY DEF ParseInv, SessionInv, ConnectTry, SendRegister, Typing, ReadSerial, AtSerial, Publish,
         LoopReturns
<1>4. /\ pc' \in Connected \/ pc' = "loop" => session.connected \/ pc' = pc
      /\ pc' # "waiting"
      /\ NotAsked' => NotAsked
  BY <1>2 DEF ParseInv, SessionInv, NotAsked, Connected, ConnectTry, SendRegister, Typing,
     ReadSerial, AtSerial, Publish, EndsLine, LoopReturns
<1>5. SessionInv'
  BY <1>1, <1>2, <1>3, <1>4 DEF ParseInv, SessionInv, Connected
<1>6. Heeded' = Heeded /\ Granted' = Granted
  BY <1>1, <1>2 DEF Heeded, Granted
<1> QED
  BY <1>1, <1>2, <1>4, <1>5, <1>6, ReadQuiet, GrantQuiet, PrintedQuiet DEF ParseInv

LEMMA SendSubscribeParse ==
  ASSUME ConstantInv, DOMAIN inbox = Boards, ParseInv, SendSubscribe
  PROVE  ParseInv'
<1> DEFINE s == [session EXCEPT !.awaits = "SUBACK", !.msg_id = NextMsgId,
                                !.topic_id = 0, !.granted_qos = qos]
           m == msg_subscribe_topicname(Named("subscribe", names.subscribe), NextMsgId, qos, FALSE)
<1>1. /\ UNCHANGED <<net, handed, printed, gateway>>
      /\ pc = "waiting" /\ session.awaits = "PINGREQ" /\ pc' = "subscribing"
      /\ ClientSends(inbox, gw_address, m, Nothing, s)
  BY DEF SendSubscribe
<1>2. /\ DOMAIN s = SessionFields /\ s.connected = session.connected
      /\ s.topic_id = 0 /\ s.granted_qos = 0 /\ s.publish_id = session.publish_id
  BY DEF ParseInv, SessionInv, SessionFields, qos
<1> HIDE DEF s, m
<1>3. PICK p : /\ p.from = Endpoint["client"]
               /\ inbox'["client"] = inbox["client"]
               /\ inbox'["bridge"] \subseteq inbox["bridge"] \cup {p}
  BY <1>1, ClientSentBox
<1>4. /\ Asked = {} /\ Heeded = {} /\ Granted = {} /\ session.topic_id = 0
      /\ net.client.connects /\ session.connected
  BY <1>1 DEF ParseInv, GrantInv, NotAsked, SessionInv
<1>5. Asked' \subseteq {p} /\ Heeded' = {} /\ Granted' = {}
  BY <1>1, <1>3, <1>4 DEF Asked, Heeded, Granted
<1>6. /\ DOMAIN session' = SessionFields /\ session'.connected = session.connected
      /\ session'.topic_id = 0 /\ session'.granted_qos = 0
      /\ session'.publish_id = session.publish_id
  BY <1>1, <1>2, SessionSent
<1>7. SessionInv'
  BY <1>1, <1>4, <1>6 DEF ParseInv, SessionInv
<1>8. Endpoint' = Endpoint
  BY <1>1, Frame
<1>9. ReadInv'
  BY <1>3, <1>5, <1>8 DEF ParseInv, ReadInv, Readable
<1>10. GrantInv'
  BY <1>1, <1>5, <1>6 DEF GrantInv, NotAsked
<1>11. PrintedInv'
  BY <1>1, <1>4, <1>6 DEF ParseInv, PrintedInv, ParsedAsBuilt
<1> QED
  BY <1>7, <1>9, <1>10, <1>11 DEF ParseInv

LEMMA GatewayReceivesParse ==
  ASSUME ConstantInv, DOMAIN inbox = Boards, DOMAIN handed = Boards, ParseInv,
         NEW packet \in inbox["bridge"], GatewayReceives(packet)
  PROVE  ParseInv'
<1>1. /\ UNCHANGED <<net, pc, session, printed>>
      /\ inbox'["client"] = inbox["client"]
      /\ inbox'["bridge"] = inbox["bridge"] \ {packet}
  BY DEF GatewayReceives, Removed, sketch, client, Boards
<1>2. gateway'.granted = gateway.granted /\ "granted" \in DOMAIN gateway'
  BY DEF GatewayReceives, ParseInv, SessionInv
<1>3. \/ handed' = handed
      \/ \A h \in handed'["bridge"] : h.type = packet.message.type /\ h.from = packet.from
  <2>1. handed' = handed \/ handed'["bridge"] = {HandedOn(a, packet) :
                              a \in Loop(Socket["bridge"], Endpoint["bridge"], packet)}
    BY DEF GatewayReceives, Boards
  <2> QED
    BY <2>1 DEF HandedOn
<1>4. /\ Asked' \subseteq Asked /\ Granted' = Granted
      /\ packet.message.type = "SUBSCRIBE" => packet \in Asked /\ Asked' = Asked \ {packet}
  BY <1>1 DEF Asked, Granted
<1>5. Heeded' = Heeded \/ Heeded' = {} \/ packet.message.type = "SUBSCRIBE"
  BY <1>3 DEF Heeded
<1>6. Endpoint' = Endpoint
  BY <1>1, Frame
<1>7. \A h \in Heeded' : h.from = Endpoint["client"]
  BY <1>3, <1>4 DEF Heeded, ParseInv, ReadInv
<1>8. ReadInv'
  BY <1>1, <1>4, <1>6, <1>7 DEF ParseInv, ReadInv, Readable
<1>9. GrantInv'
  <2>1. CASE packet.message.type = "SUBSCRIBE"
    <3>1. Asked' = {} /\ Asked # {}
      BY <1>4, <2>1 DEF ParseInv, GrantInv
    <3>2. Granted = {} /\ session.topic_id # 1 /\ ~NotAsked
      BY <3>1 DEF ParseInv, GrantInv
    <3> QED
      BY <1>1, <1>2, <1>4, <3>1, <3>2 DEF GrantInv, NotAsked
  <2>2. CASE packet.message.type # "SUBSCRIBE"
    BY <1>1, <1>2, <1>4, <1>5, <2>2, GrantQuiet DEF ParseInv, NotAsked
  <2> QED
    BY <2>1, <2>2
<1>10. SessionInv' /\ PrintedInv'
  BY <1>1, <1>2, PrintedQuiet DEF ParseInv, SessionInv
<1> QED
  BY <1>8, <1>9, <1>10 DEF ParseInv

LEMMA GatewayAnswersParse ==
  ASSUME ConstantInv, DOMAIN inbox = Boards, DOMAIN handed = Boards, ParseInv,
         NEW h \in handed["bridge"], NEW q \in 0..2, GatewayAnswers(h, q)
  PROVE  ParseInv'
<1>1. /\ UNCHANGED <<net, pc, session, printed>>
      /\ handed' = [handed EXCEPT !["bridge"] = {}]
      /\ gateway' = IF h.type = "SUBSCRIBE" /\ h.from = Endpoint["client"]
                    THEN [gateway EXCEPT !.granted = q] ELSE gateway
  BY DEF GatewayAnswers, sketch, client
<1>2. /\ "granted" \in DOMAIN gateway'
      /\ gateway'.granted = IF h.type = "SUBSCRIBE" /\ h.from = Endpoint["client"]
                            THEN q ELSE gateway.granted
  BY <1>1 DEF ParseInv, SessionInv
<1>3. Heeded' = {} /\ Endpoint' = Endpoint
  BY <1>1, Frame DEF Heeded, Boards
<1>4. PICK m : /\ GatewaySends(h.address, m, Nothing)
               /\ \/ h.type = "CONNECT" /\ m.type = "CONNACK"
                  \/ /\ h.type = "SUBSCRIBE" /\ m.type = "SUBACK" /\ m.topic_id = 1
                     /\ QosOf(m.flags) = q
                  \/ h.type = "REGISTER" /\ m.type = "REGACK" /\ m.topic_id = 2
  <2>1. msg_connack("ACCEPTED").type = "CONNACK"
    BY DEF msg_connack, Message
  <2>2. LET m == msg_suback(q, 1, h.message_id, "ACCEPTED") IN
        m.type = "SUBACK" /\ m.topic_id = 1 /\ QosOf(m.flags) = q
    BY QosRead DEF msg_suback, Message
  <2>3. LET m == msg_regack(2, h.message_id, "ACCEPTED") IN m.type = "REGACK" /\ m.topic_id = 2
    BY DEF msg_regack, Message
  <2>4. CASE h.type = "CONNECT"
    BY <2>1, <2>4 DEF GatewayAnswers
  <2>5. CASE h.type = "SUBSCRIBE"
    BY <2>2, <2>5 DEF GatewayAnswers
  <2>6. CASE h.type = "REGISTER"
    BY <2>3, <2>6 DEF GatewayAnswers
  <2> QED
    BY <2>4, <2>5, <2>6 DEF GatewayAnswers
<1>5. PICK p : /\ p.message = m
               /\ inbox'["bridge"] = inbox["bridge"]
               /\ inbox'["client"] \subseteq inbox["client"] \cup {p}
  BY <1>4, GatewaySentBox
<1>6. Readable(p)
  BY <1>4, <1>5 DEF Readable
<1>7. Asked' = Asked
  BY <1>5 DEF Asked
<1>8. ReadInv'
  BY <1>1, <1>3, <1>5, <1>6, <1>7, ReadQuiet DEF ParseInv
<1>9. CASE h.type = "SUBSCRIBE"
  <2>1. h \in Heeded /\ h.from = Endpoint["client"]
    BY <1>9 DEF Heeded, ParseInv, ReadInv
  <2>2. /\ Asked = {} /\ Granted = {} /\ session.topic_id # 1 /\ ~NotAsked
    BY <2>1 DEF ParseInv, GrantInv
  <2>3. Granted' \subseteq {p} /\ QosOf(p.message.flags) = q /\ gateway'.granted = q
    BY <1>2, <1>4, <1>5, <1>9, <2>1, <2>2 DEF Granted
  <2>4. GrantInv'
    BY <1>1, <1>3, <1>7, <2>2, <2>3 DEF GrantInv, NotAsked
  <2>5. PrintedInv'
    BY <1>1, <2>2 DEF ParseInv, PrintedInv, ParsedAsBuilt
  <2> QED
    BY <1>1, <1>2, <1>8, <2>4, <2>5 DEF ParseInv, SessionInv
<1>10. CASE h.type # "SUBSCRIBE"
  <2>1. Granted' \subseteq Granted /\ gateway'.granted = gateway.granted
    BY <1>2, <1>4, <1>5, <1>10 DEF Granted
  <2> QED
    BY <1>1, <1>2, <1>3, <1>7, <1>8, <2>1, GrantQuiet, PrintedQuiet
       DEF ParseInv, SessionInv, NotAsked
<1> QED
  BY <1>9, <1>10

LEMMA UnaskedParse ==
  ASSUME DatapathAssumption, ConstantInv, DOMAIN inbox = Boards, ParseInv,
         \/ \E q \in -1..2, retain \in BOOLEAN, topic_id \in 1..2, length \in Payloads :
              GatewayPublishes(q, retain, topic_id, length)
         \/ \E m \in OtherMessages : GatewaySendsOther(m)
         \/ \E to : \E m \in NoiseMessages : OtherSends(to, m)
  PROVE  ParseInv'
<1>1. /\ UNCHANGED <<net, handed, pc, session, printed, gateway>>
  BY DEF GatewayPublishes, GatewaySendsOther, OtherSends, sketch, client
<1>2. SUFFICES /\ Asked' \subseteq Asked /\ Granted' \subseteq Granted
               /\ \A p \in inbox'["client"] : p \in inbox["client"] \/ Readable(p)
  BY <1>1, ReadQuiet, GrantQuiet, PrintedQuiet
     DEF ParseInv, SessionInv, NotAsked, Heeded
<1>3. ASSUME NEW q \in -1..2, NEW retain \in BOOLEAN, NEW topic_id \in 1..2,
             NEW length \in Payloads, GatewayPublishes(q, retain, topic_id, length)
      PROVE  /\ Asked' \subseteq Asked /\ Granted' \subseteq Granted
             /\ \A p \in inbox'["client"] : p \in inbox["client"] \/ Readable(p)
  <2> DEFINE text == [says |-> <<"publication">>, length |-> length]
             id == IF q \in {1, 2} THEN 1 ELSE 0
             m == msg_publish(FALSE, q, retain, FALSE, topic_id, id, text)
             meant == Meant(q, retain, text)
  <2>1. m.type = "PUBLISH" /\ text.length \in 0..248
    BY DEF msg_publish, Message, DatapathAssumption
  <2>2. PICK address : GatewaySends(address, m, meant)
    BY <1>3 DEF GatewayPublishes
  <2> HIDE DEF text, id, m, meant
  <2>3. PICK p : /\ p.message = m /\ p.meant = meant
                 /\ inbox'["bridge"] = inbox["bridge"]
                 /\ inbox'["client"] \subseteq inbox["client"] \cup {p}
    BY <2>2, GatewaySentBox
  <2>4. Faithful(p)
    BY <2>1, <2>3, PublishRead DEF m, meant
  <2>5. Readable(p)
    BY <2>1, <2>3, <2>4 DEF Readable
  <2> QED
    BY <2>1, <2>3, <2>5 DEF Asked, Granted
<1>4. ASSUME NEW m \in OtherMessages, GatewaySendsOther(m)
      PROVE  /\ Asked' \subseteq Asked /\ Granted' \subseteq Granted
             /\ \A p \in inbox'["client"] : p \in inbox["client"] \/ Readable(p)
  <2>1. PICK address : GatewaySends(address, m, Nothing)
    BY <1>4 DEF GatewaySendsOther
  <2>2. PICK p : /\ p.message = m
                 /\ inbox'["bridge"] = inbox["bridge"]
                 /\ inbox'["client"] \subseteq inbox["client"] \cup {p}
    BY <2>1, GatewaySentBox
  <2>3. Readable(p) /\ m.type # "SUBACK"
    BY <2>2, OtherMessagesRead DEF Readable
  <2> QED
    BY <2>2, <2>3 DEF Asked, Granted
<1>5. ASSUME NEW to, NEW m \in NoiseMessages, OtherSends(to, m)
      PROVE  /\ Asked' \subseteq Asked /\ Granted' \subseteq Granted
             /\ \A p \in inbox'["client"] : p \in inbox["client"] \/ Readable(p)
  <2> DEFINE p == Packet(Other, to, m, Nothing)
  <2>1. p.from = Other /\ p.message = m
    BY DEF Packet
  <2>2. inbox' = Heard(inbox, p)
    BY <1>5 DEF OtherSends
  <2> HIDE DEF p
  <2>3. m.type \notin {"SUBACK", "REGACK", "SUBSCRIBE"}
    BY NoiseRead
  <2>4. Readable(p)
    BY <2>1, <2>3, OtherIsOther DEF Readable, ConstantInv
  <2>5. \A b \in Boards : inbox'[b] \subseteq inbox[b] \cup {p}
    BY <2>2 DEF Heard
  <2> QED
    BY <2>1, <2>3, <2>4, <2>5 DEF Asked, Granted, Boards
<1> QED
  BY <1>3, <1>4, <1>5

(* What receiveData() makes of the session                                   *)
Received(s, t, m) ==
  /\ DOMAIN t = SessionFields
  /\ s.connected => t.connected
  /\ s.awaits # "CONNACK" => t.connected = s.connected
  /\ ~t.connected => t.awaits \in {s.awaits, "DISCONNECT"}
  /\ \/ t.publish_id = s.publish_id
     \/ m.type = "REGACK" /\ t.publish_id = m.topic_id
  /\ \/ t.topic_id = s.topic_id /\ t.granted_qos = s.granted_qos
     \/ m.type = "SUBACK" /\ t.topic_id = m.topic_id /\ t.granted_qos = QosOf(m.flags)

LEMMA ReceivedData ==
  ASSUME NEW address, NEW p, NEW s, DOMAIN s = SessionFields
  PROVE  LET o == receiveData(address, p, s) IN
         /\ Received(s, o.session, p.message)
         /\ o.reply \in {NoText, PINGRESP, DISCONNECT}
         /\ o.callbacks # {} => /\ address = gw_address /\ p.message.type = "PUBLISH"
                                /\ o.session = s
                                /\ o.callbacks = parse_publish(p.message, p.meant, s).callbacks
<1> DEFINE m == p.message
           Fits(o) == Received(s, o.session, m) /\ o.reply \in {NoText, PINGRESP, DISCONNECT}
<1>1. ASSUME NEW t, Received(s, t, m), NEW reply \in {NoText, PINGRESP, DISCONNECT}, NEW c
      PROVE  /\ Fits(Outcome(t, reply, c))
             /\ Outcome(t, reply, c).callbacks = c /\ Outcome(t, reply, c).session = t
  BY <1>1 DEF Outcome
<1> HIDE DEF m, Fits
<1>2. Received(s, s, m)
  BY DEF Received
<1>3. Fits(Ignored(s)) /\ Ignored(s).callbacks = {}
  BY <1>1, <1>2 DEF Ignored
<1>4. Fits(parse_pingreq(m, s)) /\ parse_pingreq(m, s).callbacks = {}
  <2>1. parse_pingreq(m, s) \in {Outcome(s, PINGRESP, {}), Ignored(s)}
    BY DEF parse_pingreq
  <2> QED
    BY <1>1, <1>2, <1>3, <2>1
<1>5. Fits(parse_connack(m, s)) /\ parse_connack(m, s).callbacks = {}
  <2> DEFINE t == [s EXCEPT !.awaits = "PINGREQ", !.connected = TRUE]
             u == [s EXCEPT !.awaits = "DISCONNECT"]
  <2>1. CASE s.awaits = "CONNACK"
    <3>1. Received(s, t, m)
      BY <2>1 DEF Received, SessionFields
    <3> HIDE DEF t
    <3>2. parse_connack(m, s) = Outcome(t, NoText, {})
      BY <2>1 DEF parse_connack, Ignored, t
    <3> QED
      BY <1>1, <3>1, <3>2
  <2>2. CASE s.awaits # "CONNACK"
    <3>1. Received(s, u, m)
      BY <2>2 DEF Received, SessionFields
    <3> HIDE DEF u
    <3>2. parse_connack(m, s) = Outcome(u, DISCONNECT, {})
      BY <2>2 DEF parse_connack, u
    <3> QED
      BY <1>1, <3>1, <3>2
  <2> QED
    BY <2>1, <2>2
<1>6. m.type = "SUBACK" /\ s.connected =>
        Fits(parse_suback(m, s)) /\ parse_suback(m, s).callbacks = {}
  <2> DEFINE t == [s EXCEPT !.awaits = "PINGREQ", !.topic_id = m.topic_id,
                            !.granted_qos = QosOf(m.flags)]
  <2>1. m.type = "SUBACK" /\ s.connected => Received(s, t, m)
    BY DEF Received, SessionFields
  <2> HIDE DEF t
  <2>2. parse_suback(m, s) \in {Outcome(t, NoText, {}), Ignored(s)}
    BY DEF parse_suback, Ignored, t
  <2> QED
    BY <1>1, <1>3, <2>1, <2>2
<1>7. m.type = "REGACK" /\ s.connected =>
        Fits(handle_regack(m, s)) /\ handle_regack(m, s).callbacks = {}
  <2> DEFINE t == [s EXCEPT !.awaits = "PINGREQ", !.publish_id = m.topic_id]
  <2>1. m.type = "REGACK" /\ s.connected => Received(s, t, m)
    BY DEF Received, SessionFields
  <2> HIDE DEF t
  <2>2. handle_regack(m, s) \in {Outcome(t, NoText, {}), Ignored(s)}
    BY DEF handle_regack, Ignored, t
  <2> QED
    BY <1>1, <1>3, <2>1, <2>2
<1>8. Fits(parse_publish(m, p.meant, s)) /\ parse_publish(m, p.meant, s).session = s
  <2>1. \E c : parse_publish(m, p.meant, s) = Outcome(s, NoText, c)
    BY DEF parse_publish, Ignored
  <2> QED
    BY <1>1, <1>2, <2>1
<1>9. CASE receiveData(address, p, s) = Ignored(s)
  BY <1>3, <1>9 DEF Fits, m
<1>10. CASE receiveData(address, p, s) # Ignored(s)
  <2>1. address = gw_address /\ (s.connected \/ m.type = "CONNACK")
    BY <1>10 DEF receiveData, m
  <2>2. \/ m.type = "PINGREQ" /\ receiveData(address, p, s) = parse_pingreq(m, s)
        \/ m.type = "CONNACK" /\ receiveData(address, p, s) = parse_connack(m, s)
        \/ m.type = "SUBACK" /\ receiveData(address, p, s) = parse_suback(m, s)
        \/ m.type = "REGACK" /\ receiveData(address, p, s) = handle_regack(m, s)
        \/ m.type = "PUBLISH" /\ receiveData(address, p, s) = parse_publish(m, p.meant, s)
    BY <1>10 DEF receiveData, m
  <2>3. Fits(receiveData(address, p, s))
    BY <1>4, <1>5, <1>6, <1>7, <1>8, <2>1, <2>2
  <2>4. receiveData(address, p, s).callbacks # {} =>
          /\ m.type = "PUBLISH"
          /\ receiveData(address, p, s) = parse_publish(m, p.meant, s)
    BY <1>4, <1>5, <1>6, <1>7, <2>1, <2>2
  <2> QED
    BY <1>8, <2>1, <2>3, <2>4 DEF Fits, m
<1> QED
  BY <1>9, <1>10

(* The callbacks of a packet the gateway sent                                *)
LEMMA CallbacksFaithful ==
  ASSUME SessionInv, GrantInv, NEW p, Faithful(p) \/ Unheard(p.message),
         NEW c \in parse_publish(p.message, p.meant, session).callbacks
  PROVE  /\ c.says = c.meant.text.says
         /\ c.length = c.meant.text.length
         /\ c.retain = c.meant.retain
         /\ c.topic = "subscribe" => c.meant.qos = gateway.granted /\ session.topic_id = 1
<1> DEFINE m == p.message
<1>1. PICK topic \in {"publish", "subscribe"} :
        /\ IF topic = "publish" THEN m.topic_id = session.publish_id
           ELSE m.topic_id = session.topic_id /\ QosOf(m.flags) = session.granted_qos
        /\ c = Callback(topic, m, p.meant)
  BY DEF parse_publish, Outcome, Ignored
<1>2. /\ session.publish_id \in {0, 2} /\ session.granted_qos \in 0..2
  BY DEF SessionInv
<1>3. Faithful(p)
  BY <1>1, <1>2 DEF Unheard
<1>4. /\ c.says = m.text.says /\ c.length = m.length - 7 /\ c.meant = p.meant
      /\ c.retain = (FLAG_RETAIN \subseteq m.flags) /\ c.topic = topic
  BY <1>1 DEF Callback
<1> QED
  BY <1>1, <1>3, <1>4 DEF Faithful, SessionInv, GrantInv

LEMMA ReadingParse ==
  ASSUME ConstantInv, Box(inbox), DOMAIN handed = Boards, HandedInv, AddressInv, ParseInv, Reading
  PROVE  ParseInv'
<1>1. PICK packet \in inbox["client"] : ClientReceives(packet)
  BY DEF Reading
<1> DEFINE m == packet.message
           removed == Removed("client", packet)
<1>2. /\ UNCHANGED <<net, gateway>> /\ Pumping
      /\ pc' = IF pc = "pump" THEN "loop" ELSE pc
  BY <1>1 DEF ClientReceives
<1>3. /\ DOMAIN removed = Boards /\ removed["bridge"] = inbox["bridge"]
      /\ removed["client"] = inbox["client"] \ {packet}
  BY DEF Removed, Box, Boards
<1>4. Readable(packet) /\ DOMAIN session = SessionFields
  BY DEF ParseInv, ReadInv, SessionInv
(* The session, the inboxes and the callbacks, with an address or without    *)
<1>5. \E t : /\ Received(session, t, m)
             /\ DOMAIN session' = SessionFields
             /\ session'.connected = t.connected /\ session'.awaits = t.awaits
             /\ session'.topic_id = t.topic_id /\ session'.granted_qos = t.granted_qos
             /\ session'.publish_id = t.publish_id
             /\ inbox'["client"] = inbox["client"] \ {packet}
             /\ Asked' \subseteq Asked /\ Heeded' = Heeded
             /\ \/ printed' = printed
                \/ printed' = {}
                \/ /\ m.type = "PUBLISH" /\ packet.from = Endpoint["bridge"]
                   /\ t = session
                   /\ printed' = parse_publish(m, packet.meant, session).callbacks
  <2> DEFINE addresses == Loop(Socket["client"], Endpoint["client"], packet)
  <2>1. CASE addresses = {}
    <3>1. inbox' = removed /\ UNCHANGED <<handed, session, printed>>
      BY <1>1, <2>1 DEF ClientReceives
    <3>2. Received(session, session, m)
      BY <1>4 DEF Received
    <3> QED
      BY <1>3, <1>4, <3>1, <3>2 DEF Asked, Heeded
  <2>2. CASE addresses # {}
    <3>1. PICK address \in addresses :
            LET o == receiveData(address, packet, session) IN
            /\ handed' = [handed EXCEPT !["client"] = {HandedOn(address, packet)}]
            /\ printed' = o.callbacks
            /\ IF o.reply = NoText
               THEN inbox' = removed /\ session' = o.session
               ELSE ClientSends(removed, address, o.reply, Nothing, o.session)
      BY <1>1, <2>2 DEF ClientReceives
    <3> DEFINE o == receiveData(address, packet, session)
               t == o.session
    <3>2. /\ Received(session, t, m)
          /\ o.reply \in {NoText, PINGRESP, DISCONNECT}
          /\ o.callbacks # {} =>
               /\ address = gw_address /\ m.type = "PUBLISH" /\ t = session
               /\ o.callbacks = parse_publish(m, packet.meant, session).callbacks
      BY <1>4, ReceivedData
    <3>3. o.callbacks # {} => packet.from = Endpoint["bridge"]
      <4>1. SUFFICES ASSUME o.callbacks # {} PROVE packet.from = Endpoint["bridge"]
        OBVIOUS
      <4>2. session.connected
        BY <4>1, <3>2 DEF receiveData, Ignored, Outcome
      <4>3. net.client.connects
        BY <4>2 DEF ParseInv, SessionInv
      <4>4. gw_address = GatewayDeviceAddress
        BY <4>2, <4>3 DEF AddressInv
      <4>5. Recognised(HandedOn(address, packet))
        BY HandedOnRecognised DEF ConstantInv, Box, Proper, Boards
      <4>6. Socket["client"] # "SX1276Socket"
        BY <4>3 DEF ConstantInv, Networks, Socket, UnoUdpMqttSnClient, UdpMqttSnClient,
           WiFiUdpMqttSnClient, RF95DatagramMqttSnClient, LoRaMqttsnClient
      <4> QED
        BY <3>2, <4>1, <4>4, <4>5, <4>6 DEF Recognised, HandedOn
    <3>4. Heeded' = Heeded
      BY <3>1 DEF Heeded, Boards
    <3> HIDE DEF o
    <3>5. CASE o.reply = NoText
      <4>1. inbox' = removed /\ session' = t
        BY <3>1, <3>5 DEF o
      <4>2. Asked' = Asked
        BY <1>3, <4>1 DEF Asked
      <4> QED
        BY <1>3, <3>1, <3>2, <3>3, <3>4, <4>1, <4>2 DEF Received, o
    <3>6. CASE o.reply # NoText
      <4>1. ClientSends(removed, address, o.reply, Nothing, t)
        BY <3>1, <3>6 DEF o
      <4>2. DOMAIN t = SessionFields
        BY <3>2 DEF Received
      <4>3. o.reply.type # "SUBSCRIBE"
        BY <3>2, <3>6 DEF PINGRESP, DISCONNECT, Message
      <4> HIDE DEF removed, t
      <4>4. PICK p : /\ p.message = o.reply
                     /\ inbox'["client"] = removed["client"]
                     /\ inbox'["bridge"] \subseteq removed["bridge"] \cup {p}
        BY <1>3, <4>1, ClientSentBox
      <4>5. Asked' \subseteq Asked
        BY <1>3, <4>3, <4>4 DEF Asked
      <4>6. /\ DOMAIN session' = SessionFields
            /\ session'.connected = t.connected /\ session'.awaits = t.awaits
            /\ session'.topic_id = t.topic_id /\ session'.granted_qos = t.granted_qos
            /\ session'.publish_id = t.publish_id
        BY <4>1, <4>2, SessionSent
      <4>7. printed' = o.callbacks
        BY <3>1 DEF o
      <4>8. /\ Received(session, t, m)
            /\ o.callbacks # {} =>
                 /\ m.type = "PUBLISH" /\ t = session
                 /\ o.callbacks = parse_publish(m, packet.meant, session).callbacks
                 /\ packet.from = Endpoint["bridge"]
        BY <3>2, <3>3 DEF t
      <4> QED
        BY <1>3, <3>4, <4>4, <4>5, <4>6, <4>7, <4>8
    <3> QED
      BY <3>5, <3>6
  <2> QED
    BY <2>1, <2>2
<1>6. PICK t : /\ Received(session, t, m)
               /\ DOMAIN session' = SessionFields
               /\ session'.connected = t.connected /\ session'.awaits = t.awaits
               /\ session'.topic_id = t.topic_id /\ session'.granted_qos = t.granted_qos
               /\ session'.publish_id = t.publish_id
               /\ inbox'["client"] = inbox["client"] \ {packet}
               /\ Asked' \subseteq Asked /\ Heeded' = Heeded
               /\ \/ printed' = printed
                  \/ printed' = {}
                  \/ /\ m.type = "PUBLISH" /\ packet.from = Endpoint["bridge"]
                     /\ t = session
                     /\ printed' = parse_publish(m, packet.meant, session).callbacks
  BY <1>5
<1> HIDE DEF m, removed
<1>7. \/ session'.topic_id = session.topic_id /\ session'.granted_qos = session.granted_qos
      \/ /\ m.type = "SUBACK" /\ session'.topic_id = m.topic_id
         /\ session'.granted_qos = QosOf(m.flags)
  BY <1>6 DEF Received
<1>8. m.type = "SUBACK" => /\ packet \in Granted /\ m.topic_id = 1 /\ QosOf(m.flags) \in 0..2
                           /\ QosOf(m.flags) = gateway.granted
  BY <1>4 DEF Readable, Granted, ParseInv, GrantInv, m
<1>9. SessionInv'
  <2>1. session'.publish_id \in {0, 2}
    BY <1>4, <1>6 DEF Received, Readable, ParseInv, SessionInv, m
  <2>2. session'.topic_id \in {0, 1} /\ session'.granted_qos \in 0..2
    BY <1>7, <1>8 DEF ParseInv, SessionInv
  <2>3. session.connected => session'.connected
    BY <1>6 DEF Received
  <2>4. pc' \in Connected => session'.connected
    BY <1>2, <2>3 DEF ParseInv, SessionInv, Connected
  <2>5. CASE net.client.connects
    BY <1>2, <1>6, <2>1, <2>2, <2>3, <2>4, <2>5 DEF ParseInv, SessionInv
  <2>6. CASE ~net.client.connects
    <3>1. ~session'.connected /\ session'.awaits \notin {"CONNACK", "PINGREQ"}
      BY <1>6, <2>6 DEF Received, ParseInv, SessionInv
    <3> QED
      BY <1>2, <1>6, <2>1, <2>2, <2>4, <2>6, <3>1 DEF ParseInv, SessionInv
  <2> QED
    BY <2>5, <2>6
<1>10. NotAsked' => NotAsked
  <2>1. pc = "pump" => session'.connected
    BY <1>6 DEF Received, ParseInv, SessionInv, Connected
  <2> QED
    BY <1>2, <2>1 DEF NotAsked, Pumping
<1>11. Granted' \subseteq Granted
  BY <1>6 DEF Granted
<1>12. ReadInv'
  BY <1>2, <1>6, ReadQuiet DEF ParseInv
<1>13. GrantInv'
  <2>1. CASE session'.topic_id = session.topic_id /\ session'.granted_qos = session.granted_qos
    BY <1>2, <1>6, <1>10, <1>11, <2>1, GrantQuiet DEF ParseInv
  <2>2. CASE /\ m.type = "SUBACK" /\ session'.topic_id = m.topic_id
             /\ session'.granted_qos = QosOf(m.flags)
    <3>1. packet \in Granted /\ session'.granted_qos = gateway.granted
      BY <1>8, <2>2
    <3>2. Asked = {} /\ Heeded = {} /\ ~NotAsked
      BY <3>1 DEF ParseInv, GrantInv
    <3> QED
      BY <1>2, <1>6, <1>10, <1>11, <3>1, <3>2 DEF ParseInv, GrantInv
  <2> QED
    BY <1>7, <2>1, <2>2
<1>14. PrintedInv'
  <2>1. session.topic_id = 1 => session'.topic_id = 1
    BY <1>7, <1>8
  <2>2. CASE printed' = printed
    BY <1>2, <2>1, <2>2 DEF ParseInv, PrintedInv, ParsedAsBuilt
  <2>3. CASE printed' = {}
    BY <2>3 DEF PrintedInv, ParsedAsBuilt
  <2>4. CASE /\ m.type = "PUBLISH" /\ packet.from = Endpoint["bridge"]
             /\ printed' = parse_publish(m, packet.meant, session).callbacks
    <3>1. Faithful(packet) \/ Unheard(packet.message)
      BY <1>4, <2>4 DEF Readable, m
    <3>2. \A c \in printed' : /\ c.says = c.meant.text.says
                              /\ c.length = c.meant.text.length
                              /\ c.retain = c.meant.retain
                              /\ c.topic = "subscribe" =>
                                   c.meant.qos = gateway.granted /\ session.topic_id = 1
      BY <2>4, <3>1, CallbacksFaithful DEF ParseInv, m
    <3> QED
      BY <1>2, <2>1, <3>2 DEF PrintedInv, ParsedAsBuilt
  <2> QED
    BY <1>6, <2>2, <2>3, <2>4
<1> QED
  BY <1>9, <1>12, <1>13, <1>14 DEF ParseInv

LEMMA ParseInit ==
  ASSUME Init
  PROVE  ParseInv
<1>1. ReadInv /\ PrintedInv
  BY DEF Init, ReadInv, PrintedInv, ParsedAsBuilt, Asked, Heeded, Boards
<1>2. SessionInv
  BY DEF Init, SessionInv, SessionFields, Connected
<1>3. GrantInv
  BY DEF Init, GrantInv, Asked, Heeded, Granted, Boards
<1> QED
  BY <1>1, <1>2, <1>3 DEF ParseInv

LEMMA ParseStep ==
  ASSUME DatapathAssumption, IInv, ParseInv, [Next]_vars
  PROVE  ParseInv'
<1>1. /\ ConstantInv /\ Box(inbox) /\ HandedInv /\ AddressInv
      /\ DOMAIN inbox = Boards /\ DOMAIN handed = Boards
  BY DEF IInv, Box, HandedInv
<1>2. CASE UNCHANGED vars
  <2>1. UNCHANGED <<net, inbox, handed, pc, session, printed, gateway>>
    BY <1>2 DEF vars, network, sketch, client
  <2> QED
    BY <2>1, ReadQuiet, GrantQuiet, PrintedQuiet
       DEF ParseInv, SessionInv, NotAsked, Asked, Heeded, Granted
<1>3. CASE Environment
  BY <1>1, <1>3, GatewayReceivesParse, GatewayAnswersParse, UnaskedParse DEF Environment
<1> QED
  BY <1>1, <1>2, <1>3, Steps, QuietParse, OtherClientParse, SendSubscribeParse, ReadingParse
     DEF ClientSending

-----------------------------------------------------------------------------
(* In every network of the sketches, with any names and payloads that fit, a *)
(* packet passes the client's test on the gateway's address exactly when the *)
(* bridge sent it (receiveData(), the sketches' and the sockets' address     *)
(* conversions).  Not so with the SX1276 socket, which is exempted.          *)
THEOREM RecognisedCorrect == Spec => []GatewayRecognised
<1>1. IInv => GatewayRecognised
  BY InvImplies
<1> QED
  BY <1>1, Inductive, PTL

(* An answer reaches the node it answers, from either board: the addresses   *)
(* loop() hands on lead back through send(), in every socket but the SX1276  *)
(* one.                                                                      *)
THEOREM AnswersCorrect == Spec => []AnswerReachesSender
<1>1. IInv => AnswerReachesSender
  BY InvImplies
<1> QED
  BY <1>1, Inductive, PTL

(* The sockets' loop() filters: with a driver in promiscuous mode or without *)
(* one, no packet is handed on that was for another node.                   *)
THEOREM FilteringCorrect == Spec => []HandedForMe
<1>1. IInv => HandedForMe
  BY InvImplies
<1> QED
  BY <1>1, Inductive, PTL

(* For payloads of every length that fits: callback() gets the text, length  *)
(* and retain flag the gateway published, and the callback of a subscription *)
(* only what was published at the QoS that the gateway had granted, whatever *)
(* else it or another node sends.                                           *)
THEOREM ParsedCorrect == Spec => []ParsedAsBuilt
<1>1. Init => ParseInv
  BY ParseInit
<1>2. IInv /\ ParseInv /\ [Next]_vars => ParseInv'
  BY ParseStep, DatapathAssumption
<1>3. ParseInv => ParsedAsBuilt
  BY DEF ParseInv, PrintedInv
<1> QED
  BY <1>1, <1>2, <1>3, Inductive, PTL DEF Spec

(* For a buffer of any size whose strings fit into a PUBLISH, whatever is     *)
(* typed and whatever lies behind the buffer: a line of fewer than           *)
(* buffer_length characters, newline included, goes out exactly as typed,    *)
(* also after longer lines; so does one of buffer_length until a longer one  *)
(* has been typed (the sketch's buffer, strlen() and memset()).              *)
THEOREM PublishedCorrect == Spec => []PublishedAsTyped
<1>1. IInv => PublishedAsTyped
  BY InvImplies
<1> QED
  BY <1>1, Inductive, PTL

(* For names and payloads of any length that fits, the length byte of every  *)
(* message under way covers it, and its text fits.                           *)
THEOREM LengthsCorrect == Spec => []LengthHonest
<1>1. IInv => LengthHonest
  BY InvImplies
<1> QED
  BY <1>1, Inductive, PTL
=============================================================================
