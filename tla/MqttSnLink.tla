------------------------------ MODULE MqttSnLink ------------------------------
(***************************************************************************)
(* The messages of the MQTT-SN client and the socket it exchanges them     *)
(* through: SocketInterface.h, with the delivery behaviour of the datagram *)
(* sockets (WiFiUdpSocket, UDPSocket, RHDatagramSocket, ...) or of the TCP *)
(* socket (ClientSocket).                                                  *)
(*                                                                         *)
(* A message is a record; the fields a type does not use hold a default.   *)
(* The byte layout of mqttsn_messages.h is not modelled here.              *)
(***************************************************************************)
EXTENDS Integers, Sequences, SequencesExt

CONSTANTS
  Topics,       \* topic names, compared by pointer in the code
  NoTopic,      \* the null topic_name pointer
  MaxMsgId,     \* UINT16_MAX: the largest message id
  Transport,    \* "datagram" or "stream"
  Ordered,      \* TRUE iff datagrams arrive in the order they were sent
  SendMayFail,  \* TRUE iff socketInterface.send() may return false
  Budget        \* bounds on the environment: [BudgetKinds -> Nat]

BudgetKinds == {"call", "push", "lose", "dup", "drop"}

ASSUME LinkAssumption ==
  /\ NoTopic \notin Topics
  /\ MaxMsgId \in Nat \ {0}
  /\ Transport \in {"datagram", "stream"}
  /\ Ordered \in BOOLEAN
  /\ SendMayFail \in BOOLEAN
  /\ Budget \in [BudgetKinds -> Nat]

VARIABLES
  toGateway,    \* messages sent by the client and not yet handled
  toClient,     \* messages sent to the client and not yet read
  linkUp,       \* client->connected() of ClientSocket; TRUE for datagrams
  budget        \* what is left of Budget

linkVars == <<toGateway, toClient, linkUp, budget>>

-----------------------------------------------------------------------------
(* Messages *)

MsgIds == 0 .. MaxMsgId
Qos == {-1, 0, 1, 2}
ReturnCodes == {"ACCEPTED", "REJECTED_CONGESTION",
                "REJECTED_INVALID_TOPIC_ID", "REJECTED_NOT_SUPPORTED"}

ToGatewayTypes == {"CONNECT", "SUBSCRIBE", "REGISTER", "PUBLISH", "PINGREQ",
                   "PINGRESP", "DISCONNECT"}
ToClientTypes == {"ADVERTISE", "CONNACK", "SUBACK", "REGACK", "PUBLISH",
                  "PUBACK", "PINGREQ", "PINGRESP", "DISCONNECT"}

(* A request. For a PUBLISH, topic is the name the sketch passed to         *)
(* publish(); the wire carries only topic_id, and no gateway action reads   *)
(* the name. It is there for the properties.                                *)
Request == [type : ToGatewayTypes, message_id : MsgIds,
            topic : Topics \cup {NoTopic}, topic_id : Nat, qos : Qos]

(* A message to the client; from tells whether its sender is gw_address.    *)
Reply == [type : ToClientTypes, from : {"gateway", "other"},
          message_id : MsgIds, topic_id : Nat, qos : Qos,
          return_code : ReturnCodes]

Plain(type) ==
  [type |-> type, message_id |-> 0, topic |-> NoTopic, topic_id |-> 0,
   qos |-> 0]

SubscribeMsg(id, topic, qos) ==
  [Plain("SUBSCRIBE") EXCEPT !.message_id = id, !.topic = topic, !.qos = qos]

RegisterMsg(id, topic) ==
  [Plain("REGISTER") EXCEPT !.message_id = id, !.topic = topic]

PublishMsg(id, topic, topic_id, qos) ==
  [Plain("PUBLISH") EXCEPT !.message_id = id, !.topic = topic,
                           !.topic_id = topic_id, !.qos = qos]

PlainReply(type, from) ==
  [type |-> type, from |-> from, message_id |-> 0, topic_id |-> 0,
   qos |-> 0, return_code |-> "ACCEPTED"]

-----------------------------------------------------------------------------
(* Bounds *)

Spend(kind) ==
  /\ budget[kind] > 0
  /\ budget' = [budget EXCEPT ![kind] = @ - 1]

-----------------------------------------------------------------------------
(* SocketInterface *)

(* Positions of a queue the next read may return.                           *)
Arrived(queue) == IF Ordered THEN {1} \cap DOMAIN queue ELSE DOMAIN queue

(* send(): a datagram is handed to the network; ClientSocket first connects *)
(* when the connection is down, and the write may fail after that. ok is    *)
(* the result of the call.                                                  *)
SocketSend(m, ok) ==
  IF ok
  THEN /\ toGateway' = Append(toGateway, m)
       /\ linkUp' = TRUE
  ELSE /\ SendMayFail
       /\ linkUp' \in {linkUp, TRUE}
       /\ UNCHANGED toGateway

(* loop() reads one datagram and hands it to receiveData().                 *)
DatagramReceive(m) ==
  \E i \in Arrived(toClient) : /\ m = toClient[i]
                               /\ toClient' = RemoveAt(toClient, i)

(* ClientSocket.loop() reads every byte that is available in one buffer and *)
(* receiveData() looks only at the first message in it.                     *)
StreamReceive(m) ==
  /\ linkUp
  /\ \E n \in DOMAIN toClient : /\ m = toClient[1]
                                /\ toClient' = SubSeq(toClient, n + 1, Len(toClient))

SocketReceive(m) ==
  IF Transport = "datagram" THEN DatagramReceive(m) ELSE StreamReceive(m)

-----------------------------------------------------------------------------
(* The network *)

(* A datagram is lost.                                                      *)
Lose ==
  /\ Transport = "datagram"
  /\ Spend("lose")
  /\ \/ /\ \E i \in DOMAIN toGateway : toGateway' = RemoveAt(toGateway, i)
        /\ UNCHANGED toClient
     \/ /\ \E i \in DOMAIN toClient : toClient' = RemoveAt(toClient, i)
        /\ UNCHANGED toGateway
  /\ UNCHANGED linkUp

(* A datagram is duplicated.                                                *)
Duplicate ==
  /\ Transport = "datagram"
  /\ Spend("dup")
  /\ \/ /\ \E i \in DOMAIN toGateway : toGateway' = Append(toGateway, toGateway[i])
        /\ UNCHANGED toClient
     \/ /\ \E i \in DOMAIN toClient : toClient' = Append(toClient, toClient[i])
        /\ UNCHANGED toGateway
  /\ UNCHANGED linkUp

LinkInit ==
  /\ toGateway = <<>>
  /\ toClient = <<>>
  /\ linkUp = (Transport = "datagram")
  /\ budget = Budget

LinkTypeOK ==
  /\ toGateway \in Seq(Request)
  /\ toClient \in Seq(Reply)
  /\ linkUp \in BOOLEAN
  /\ budget \in [BudgetKinds -> Nat]
=============================================================================
