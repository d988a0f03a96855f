-------------------------- MODULE MqttSnPublishProofs --------------------------
(***************************************************************************)
(* Proofs of PublishCarriesOwnTopic and CallbackNamesTopic, for a sketch    *)
(* that does not publish to the topics it subscribes to.                    *)
(*                                                                         *)
(* Two records map names to ids.  register_topic() changes the name of one  *)
(* before it knows the id, and a SUBACK, a REGACK or a publication may be   *)
(* read at any time, late, twice or in another order.                       *)
(***************************************************************************)
EXTENDS MqttSnSubscribeProofs

(* Without it both properties are false: run overlap.                        *)
SeparateTopics == SubTopics \cap PubTopics = {}

Datagrams == Transport = "datagram"

-----------------------------------------------------------------------------
(* The inductive invariant *)

Ids(topics) == {TopicIdOf[t] : t \in topics}

(* A REGISTER with the last id is about the topic that publish_registration  *)
(* names, and while its REGACK is awaited no SUBSCRIBE or SUBACK has that id. *)
TopicRequests ==
  {m \in SoundRequest :
     /\ m.type = "SUBSCRIBE" => m.topic \in SubTopics
     /\ m.type = "SUBSCRIBE" /\ pc = "register_ack" => m.message_id # msg_id_counter
     /\ m.type = "REGISTER" /\ m.message_id = msg_id_counter =>
          m.topic = publish_registration.topic_name
     /\ m.type = "PUBLISH" /\ Datagrams => m.topic_id = TopicIdOf[m.topic]}

TopicReplies ==
  {r \in Reply :
     /\ r.type = "PUBLISH" => r.topic_id \in Ids(SubTopics)
     /\ r.type = "SUBACK" /\ pc = "register_ack" => r.message_id # msg_id_counter
     /\ /\ r.type = "REGACK" /\ r.message_id = msg_id_counter
        /\ r.return_code = "ACCEPTED"
        => /\ publish_registration.topic_name \in PubTopics
           /\ r.topic_id = TopicIdOf[publish_registration.topic_name]}

TopicQueueInv ==
  toGateway \in Seq(TopicRequests) /\ toClient \in Seq(TopicReplies)

(* The id of the subscription is that of its name; the id of the other record *)
(* is at least that of some topic the sketch publishes to.                    *)
NamesInv ==
  /\ registration.topic_name \in SubTopics \cup {NoTopic}
  /\ registration.topic_id # 0 =>
       /\ registration.topic_name \in SubTopics
       /\ registration.topic_id = TopicIdOf[registration.topic_name]
  /\ publish_registration.topic_name \in PubTopics \cup {NoTopic}
  /\ publish_registration.topic_id \in Ids(PubTopics) \cup {0}

CallTopicInv ==
  /\ pc \in {"subscribe_idle", "subscribe_ack"} => call.topic \in SubTopics
  /\ pc \in {"publish_idle", "publish_topic", "publish_ack", "register_idle",
             "register_ack"} => call.topic \in PubTopics

(* The id is that of the name, but while register_topic() awaits its REGACK;  *)
(* only that REGACK makes it idle.                                            *)
Named ==
  publish_registration.topic_id # 0 =>
    /\ publish_registration.topic_name \in PubTopics
    /\ publish_registration.topic_id = TopicIdOf[publish_registration.topic_name]

RegisterInv ==
  /\ pc = "register_ack" =>
       /\ publish_registration.topic_name = call.topic
       /\ await_msg_type \in {"REGACK", "PINGREQ", "DISCONNECT"}
  /\ Datagrams => linkUp
  /\ Datagrams /\ (pc = "register_ack" => Idle) => Named

SubscriptionsInv == \A s \in gwSubs : s.topic \in SubTopics

TopicInv ==
  /\ TopicQueueInv
  /\ NamesInv
  /\ CallTopicInv
  /\ RegisterInv
  /\ SubscriptionsInv
  /\ CallbackNamesTopic

PInv == IInv /\ TopicInv

-----------------------------------------------------------------------------
(* Frames *)

LEMMA SeqOfElements ==
  ASSUME NEW S, NEW T, NEW q \in Seq(S), \A i \in 1 .. Len(q) : q[i] \in T
  PROVE  q \in Seq(T)
BY SeqDef, LenProperties

(* What the invariant says of messages depends on the last id, on the name of *)
(* publish_registration and on whether register_topic() waits.                *)
LEMMA SameTopicQueues ==
  ASSUME UNCHANGED msg_id_counter,
         publish_registration'.topic_name = publish_registration.topic_name,
         pc' = "register_ack" => pc = "register_ack"
  PROVE  TopicRequests \subseteq TopicRequests' /\ TopicReplies \subseteq TopicReplies'
BY DEF TopicRequests, TopicReplies

(* With a new id all ids in flight are old ones.                              *)
LEMMA NewIdTopicQueues ==
  ASSUME PInv, msg_id_counter' = msg_id_counter + 1
  PROVE  toGateway \in Seq(TopicRequests') /\ toClient \in Seq(TopicReplies')
<1>1. msg_id_counter \in Int
  BY LinkAssumption DEF PInv, IInv, TypeInv, ClientTypeOK
<1>2. \A m \in Requests \cap TopicRequests : m \in TopicRequests'
  <2>1. \A m \in SoundRequest : m.message_id \in Int
    BY LinkAssumption DEF SoundRequest, Request, MsgIds
  <2> QED
    BY <1>1, <2>1 DEF Requests, TopicRequests
<1>3. \A r \in Replies \cap TopicReplies : r \in TopicReplies'
  <2>1. \A r \in Reply : r.message_id \in Int
    BY LinkAssumption DEF Reply, MsgIds
  <2> QED
    BY <1>1, <2>1 DEF Replies, TopicReplies
<1>4. \A i \in 1 .. Len(toGateway) : toGateway[i] \in TopicRequests'
  BY <1>2, ElementOfSeq DEF PInv, IInv, StepInv, QueueInv, TopicInv, TopicQueueInv
<1>5. \A i \in 1 .. Len(toClient) : toClient[i] \in TopicReplies'
  BY <1>3, ElementOfSeq DEF PInv, IInv, StepInv, QueueInv, TopicInv, TopicQueueInv
<1>6. toGateway \in Seq(TopicRequests')
  <2>1. toGateway \in Seq(Requests)
    BY DEF PInv, IInv, StepInv, QueueInv
  <2> QED
    BY <1>4, <2>1, SeqOfElements
<1>7. toClient \in Seq(TopicReplies')
  <2>1. toClient \in Seq(Replies)
    BY DEF PInv, IInv, StepInv, QueueInv
  <2> QED
    BY <1>5, <2>1, SeqOfElements
<1> QED
  BY <1>6, <1>7

LEMMA PlainIsTopicRequest ==
  \A type \in ToGatewayTypes \ {"SUBSCRIBE", "REGISTER", "PUBLISH"} :
    Plain(type) \in TopicRequests'
BY PlainTypes DEF TopicRequests, Plain

LEMMA TransmitTopicQueues ==
  ASSUME toGateway \in Seq(TopicRequests'), toClient \in Seq(TopicReplies'),
         toClient' = toClient, Datagrams => linkUp,
         \/ Silent
         \/ \E m \in TopicRequests' : Transmit(m)
  PROVE  TopicQueueInv' /\ (Datagrams => linkUp')
<1>1. \A m \in TopicRequests' : Append(toGateway, m) \in Seq(TopicRequests')
  OBVIOUS
<1> QED
  BY <1>1 DEF TopicQueueInv, Silent, Transmit, SocketSend

(* A step that changes neither ids nor names, and does not end               *)
(* register_topic() over datagrams                                           *)
LEMMA QuietTopicStep ==
  ASSUME PInv, UNCHANGED <<msg_id_counter, registration, publish_registration, called,
                           gatewayVars, toClient>>,
         pc' # "register_ack", pc = "register_ack" => ~Datagrams, CallTopicInv',
         \/ Silent
         \/ \E type \in {"CONNECT", "PINGREQ"} : Transmit(Plain(type))
  PROVE  TopicInv'
<1>1. toGateway \in Seq(TopicRequests') /\ toClient \in Seq(TopicReplies')
  BY SameTopicQueues, SeqMonotonic DEF PInv, TopicInv, TopicQueueInv
<1>2. TopicQueueInv' /\ (Datagrams => linkUp')
  BY <1>1, TransmitTopicQueues, PlainIsTopicRequest
     DEF PInv, TopicInv, RegisterInv, ToGatewayTypes
<1>3. NamesInv' /\ SubscriptionsInv' /\ CallbackNamesTopic'
  BY DEF PInv, TopicInv, NamesInv, SubscriptionsInv, CallbackNamesTopic, gatewayVars
<1>4. RegisterInv'
  BY <1>2 DEF PInv, TopicInv, RegisterInv, Named, Datagrams
<1> QED
  BY <1>2, <1>3, <1>4 DEF TopicInv

-----------------------------------------------------------------------------
(* receiveData() *)

LEMMA ReadsTopicStep ==
  ASSUME PInv, NEW m, Reads(m), UNCHANGED <<msg_id_counter, gatewayVars>>,
         publish_registration'.topic_name = publish_registration.topic_name,
         \/ Silent
         \/ \E type \in {"PINGRESP", "DISCONNECT"} : Transmit(Plain(type))
  PROVE  /\ TopicQueueInv' /\ CallTopicInv' /\ SubscriptionsInv'
         /\ Datagrams => linkUp'
         /\ m \in TopicReplies /\ m \in Replies
         /\ pc' = "register_ack" <=> pc = "register_ack"
         /\ pc = "register_ack" => ~Idle
<1>1. /\ pc \in {"loop_pump", "connect_pump"} \/ (pc \in Waits /\ pc' = pc)
      /\ pc = "loop_pump" => pc' = "loop_ping"
      /\ pc = "connect_pump" => pc' = "connect_check"
      /\ pc = "register_ack" => ~Idle
  <2>1. pc \in Places /\ pc' = AfterPump[pc]
    BY DEF Reads, PInv, IInv, TypeInv, ClientTypeOK
  <2>2. pc \in {"loop_pump", "connect_pump"} \/ (pc \in Waits /\ ~Idle)
    BY DEF Reads, Pumping
  <2> QED
    BY <2>1, <2>2 DEF AfterPump, Waits
<1>2. TopicRequests \subseteq TopicRequests' /\ TopicReplies \subseteq TopicReplies'
  BY <1>1, SameTopicQueues
<1>3. m \in TopicReplies /\ toClient' \in Seq(TopicReplies)
  <2>1. toClient \in Seq(TopicReplies)
    BY DEF PInv, TopicInv, TopicQueueInv
  <2>2. CASE DatagramReceive(m)
    BY <2>1, <2>2, QueueOps DEF DatagramReceive
  <2>3. CASE StreamReceive(m)
    <3>1. PICK n \in DOMAIN toClient :
            m = toClient[1] /\ toClient' = SubSeq(toClient, n + 1, Len(toClient))
      BY <2>3 DEF StreamReceive
    <3>2. 1 \in DOMAIN toClient
      BY <2>1, <3>1, LenProperties
    <3> QED
      BY <2>1, <3>1, <3>2, QueueOps
  <2> QED
    BY <2>2, <2>3 DEF Reads, SocketReceive
<1>4. TopicQueueInv' /\ (Datagrams => linkUp')
  <2>1. toClient' \in Seq(TopicReplies') /\ toGateway \in Seq(TopicRequests')
    BY <1>2, <1>3, SeqMonotonic DEF PInv, TopicInv, TopicQueueInv
  <2>2. ASSUME NEW type \in {"PINGRESP", "DISCONNECT"}
        PROVE  Append(toGateway, Plain(type)) \in Seq(TopicRequests')
    BY <2>1, PlainIsTopicRequest DEF ToGatewayTypes
  <2> QED
    BY <2>1, <2>2
       DEF PInv, TopicInv, TopicQueueInv, RegisterInv, Silent, Transmit, SocketSend
<1>5. CallTopicInv'
  BY <1>1 DEF Reads, PInv, TopicInv, CallTopicInv
<1>6. SubscriptionsInv'
  BY DEF PInv, TopicInv, SubscriptionsInv, gatewayVars
<1>7. m \in Replies
  BY ReadsQueues DEF PInv, IInv, StepInv
<1> QED
  BY <1>1, <1>3, <1>4, <1>5, <1>6, <1>7

(* A forwarded publication belongs to the subscription, if to any record.    *)
LEMMA ParsePublishTopicStep ==
  ASSUME SeparateTopics, PInv, NEW m \in TopicReplies, ParsePublish(m)
  PROVE  CallbackNamesTopic'
<1>1. CASE called' = called
  BY <1>1 DEF PInv, TopicInv, CallbackNamesTopic
<1>2. CASE called' = [topic_id |-> m.topic_id, names |-> CallbackNames(m.topic_id, m.qos)]
  <2>1. PICK t \in SubTopics : m.topic_id = TopicIdOf[t]
    BY <1>2 DEF ParsePublish, Dispatched, TopicReplies, Ids
  <2>2. m.topic_id # 0 /\ t \in Topics
    BY <2>1, ClientAssumption, GatewayAssumption
  <2>3. m.topic_id # publish_registration.topic_id
    <3>1. ASSUME NEW s \in PubTopics, TopicIdOf[s] = m.topic_id
          PROVE  FALSE
      BY <2>1, <3>1, ClientAssumption, GatewayAssumption DEF SeparateTopics
    <3> QED
      BY <2>2, <3>1 DEF PInv, TopicInv, NamesInv, Ids
  <2>4. /\ called'.topic_id = m.topic_id
        /\ \/ called'.names = <<>>
           \/ /\ called'.names = <<registration.topic_name>>
              /\ m.topic_id = registration.topic_id
    BY <1>2, <2>3 DEF CallbackNames
  <2>5. m.topic_id = registration.topic_id =>
          /\ registration.topic_name \in Topics
          /\ m.topic_id = TopicIdOf[registration.topic_name]
    BY <2>2, ClientAssumption DEF PInv, TopicInv, NamesInv
  <2> QED
    BY <2>4, <2>5 DEF CallbackNamesTopic
<1> QED
  BY <1>1, <1>2 DEF ParsePublish

LEMMA ReceiveDataTopicStep ==
  ASSUME SeparateTopics, PInv, ReceiveData, UNCHANGED gatewayVars
  PROVE  TopicInv'
<1> USE DEF sessionVars, topicVars
<1>1. PICK m \in ToSet(toClient) :
        \/ Ignore(m) \/ ParsePingreq(m) \/ ParsePingresp(m) \/ ParseConnack(m)
        \/ ParseSuback(m) \/ ParseRegack(m) \/ ParsePublish(m)
  BY DEF ReceiveData
<1>2. Reads(m) /\ call' = call
  BY <1>1 DEF Ignore, ParsePingreq, ParsePingresp, ParseConnack, ParseSuback,
     ParseRegack, ParsePublish, Reads
(* The messages that leave the records alone                                *)
<1>3. ASSUME UNCHANGED <<msg_id_counter, registration, publish_registration>>,
             CallbackNamesTopic',
             Silent \/ \E type \in {"PINGRESP", "DISCONNECT"} : Transmit(Plain(type)),
             \/ await_msg_type' = await_msg_type
             \/ await_msg_type \in {"PINGRESP", "CONNACK"}
             \/ await_msg_type' = "DISCONNECT"
      PROVE  TopicInv'
  <2>1. /\ TopicQueueInv' /\ CallTopicInv' /\ SubscriptionsInv'
        /\ Datagrams => linkUp'
        /\ pc' = "register_ack" <=> pc = "register_ack"
        /\ pc = "register_ack" => ~Idle
    BY <1>2, <1>3, ReadsTopicStep
  <2>2. NamesInv'
    BY <1>3 DEF PInv, TopicInv, NamesInv
  <2>3. RegisterInv'
    BY <1>2, <1>3, <2>1 DEF PInv, TopicInv, RegisterInv, Named, Datagrams, Idle
  <2> QED
    BY <1>3, <2>1, <2>2, <2>3 DEF TopicInv
<1>4. CASE Ignore(m)
  BY <1>3, <1>4 DEF Ignore, PInv, TopicInv, CallbackNamesTopic
<1>5. CASE ParsePingreq(m)
  <2>1. Silent \/ Transmit(Plain("PINGRESP"))
    BY <1>5 DEF ParsePingreq
  <2> QED
    BY <1>3, <1>5, <2>1 DEF ParsePingreq, PInv, TopicInv, CallbackNamesTopic
<1>6. CASE ParsePingresp(m)
  BY <1>3, <1>6 DEF ParsePingresp, PInv, TopicInv, CallbackNamesTopic
<1>7. CASE ParseConnack(m)
  <2>1. /\ Silent \/ Transmit(Plain("DISCONNECT"))
        /\ \/ await_msg_type' = await_msg_type
           \/ await_msg_type = "CONNACK"
           \/ await_msg_type' = "DISCONNECT"
    BY <1>7 DEF ParseConnack, ConnackAccepted, ConnackCongestion
  <2> QED
    BY <1>3, <1>7, <2>1 DEF ParseConnack, PInv, TopicInv, CallbackNamesTopic
<1>8. CASE ParsePublish(m)
  <2>1. m \in TopicReplies
    BY <1>2, <1>8, ReadsTopicStep DEF ParsePublish
  <2>2. CallbackNamesTopic'
    BY <1>8, <2>1, ParsePublishTopicStep
  <2> QED
    BY <1>3, <1>8, <2>2 DEF ParsePublish
<1>9. CASE ParseSuback(m)
  <2>1. /\ Silent /\ m.type = "SUBACK"
        /\ UNCHANGED <<msg_id_counter, publish_registration, called>>
    BY <1>9 DEF ParseSuback, Dispatched
  <2>2. /\ TopicQueueInv' /\ CallTopicInv' /\ SubscriptionsInv'
        /\ Datagrams => linkUp'
        /\ m \in TopicReplies /\ m \in Replies
        /\ pc' = "register_ack" <=> pc = "register_ack"
        /\ pc = "register_ack" => ~Idle
    BY <1>2, <2>1, ReadsTopicStep
  <2>3. registration \in Registration
    BY DEF PInv, IInv, TypeInv, ClientTypeOK
  <2>4. CASE SubackAccepted(m)
    <3>1. m.message_id = msg_id_counter /\ pc # "register_ack"
      BY <2>1, <2>2, <2>4 DEF SubackAccepted, TopicReplies
    <3>2. /\ registration.topic_name \in Topics
          /\ m.topic_id = TopicIdOf[registration.topic_name]
      BY <2>1, <2>2, <2>4 DEF SubackAccepted, Replies
    <3>3. registration.topic_name \in SubTopics
      BY <3>2, LinkAssumption DEF PInv, TopicInv, NamesInv
    <3>4. /\ registration'.topic_name = registration.topic_name
          /\ registration'.topic_id \in {m.topic_id, registration.topic_id}
      BY <1>9, <2>3, <2>4 DEF ParseSuback, Registration
    <3>5. NamesInv'
      BY <2>1, <3>2, <3>3, <3>4 DEF PInv, TopicInv, NamesInv
    <3>6. RegisterInv'
      BY <2>1, <2>2, <3>1 DEF PInv, TopicInv, RegisterInv, Named, Datagrams
    <3> QED
      BY <2>1, <2>2, <3>5, <3>6 DEF PInv, TopicInv, CallbackNamesTopic
  <2>5. CASE ~SubackAccepted(m)
    BY <1>3, <1>9, <2>1, <2>5 DEF ParseSuback, PInv, TopicInv, CallbackNamesTopic
  <2> QED
    BY <2>4, <2>5
<1>10. CASE ParseRegack(m)
  <2>1. /\ Silent /\ m.type = "REGACK"
        /\ UNCHANGED <<msg_id_counter, registration, called>>
    BY <1>10 DEF ParseRegack, Dispatched
  <2>2. publish_registration \in Registration
    BY DEF PInv, IInv, TypeInv, ClientTypeOK
  <2>3. publish_registration'.topic_name = publish_registration.topic_name
    BY <1>10, <2>2 DEF ParseRegack, Registration
  <2>4. /\ TopicQueueInv' /\ CallTopicInv' /\ SubscriptionsInv'
        /\ Datagrams => linkUp'
        /\ m \in TopicReplies
        /\ pc' = "register_ack" <=> pc = "register_ack"
    BY <1>2, <2>1, <2>3, ReadsTopicStep
  <2>5. CASE RegackMatches(m)
    <3>1. m.return_code = "ACCEPTED" =>
            /\ publish_registration.topic_name \in PubTopics
            /\ m.topic_id = TopicIdOf[publish_registration.topic_name]
      BY <2>1, <2>4, <2>5 DEF RegackMatches, TopicReplies
    <3>2. /\ publish_registration'.topic_id =
               IF m.return_code = "ACCEPTED" THEN m.topic_id ELSE 0
          /\ await_msg_type' = "PINGREQ"
      BY <1>10, <2>2, <2>5 DEF ParseRegack, Registration
    <3>3. Named' /\ NamesInv'
      BY <2>1, <2>3, <3>1, <3>2 DEF PInv, TopicInv, NamesInv, Named, Ids
    <3>4. RegisterInv'
      BY <1>2, <2>3, <2>4, <3>2, <3>3 DEF PInv, TopicInv, RegisterInv
    <3> QED
      BY <2>1, <2>4, <3>3, <3>4 DEF PInv, TopicInv, CallbackNamesTopic
  <2>6. CASE ~RegackMatches(m)
    BY <1>3, <1>10, <2>1, <2>6 DEF ParseRegack, PInv, TopicInv, CallbackNamesTopic
  <2> QED
    BY <2>5, <2>6
<1> QED
  BY <1>1, <1>4, <1>5, <1>6, <1>7, <1>8, <1>9, <1>10

-----------------------------------------------------------------------------
(* The calls of the sketch, and what the thread does by itself              *)

LEMMA InitTopicStep == Init => TopicInv
<1> SUFFICES ASSUME Init PROVE TopicInv
  OBVIOUS
<1>1. TopicQueueInv
  BY EmptySeq DEF Init, LinkInit, TopicQueueInv
<1>2. NamesInv /\ RegisterInv
  BY DEF Init, ClientInit, LinkInit, NamesInv, RegisterInv, Named, Unregistered, Datagrams
<1>3. CallTopicInv /\ SubscriptionsInv /\ CallbackNamesTopic
  BY DEF Init, ClientInit, GatewayInit, CallTopicInv, SubscriptionsInv, CallbackNamesTopic
<1> QED
  BY <1>1, <1>2, <1>3 DEF TopicInv

LEMMA SketchCallsTopicStep ==
  ASSUME PInv, SketchCalls, UNCHANGED gatewayVars
  PROVE  TopicInv'
<1> USE DEF topicVars
<1>1. CASE Connect
  <2>1. pc = "app" /\ pc' = "connect_pump"
    BY <1>1 DEF Connect, SendConnect
  <2>2. CallTopicInv'
    BY <2>1 DEF CallTopicInv
  <2> QED
    BY <1>1, <2>1, <2>2, QuietTopicStep DEF Connect, SendConnect
<1>2. ASSUME NEW topic \in SubTopics, NEW qos \in AppQos \ {-1}, Subscribe(topic, qos)
      PROVE  TopicInv'
  <2>1. pc = "app" /\ pc' = "subscribe_idle" /\ call'.topic = topic
    BY <1>2 DEF Subscribe, InSketch, Begin
  <2>2. CallTopicInv'
    BY <2>1 DEF CallTopicInv
  <2> QED
    BY <1>2, <2>1, <2>2, QuietTopicStep DEF Subscribe
<1>3. ASSUME NEW topic \in PubTopics, NEW qos \in AppQos, Publish(topic, qos)
      PROVE  TopicInv'
  <2>1. pc = "app" /\ pc' \in {"publish_idle", "publish_topic"} /\ call'.topic = topic
    BY <1>3 DEF Publish, InSketch, Begin
  <2>2. CallTopicInv'
    BY <2>1 DEF CallTopicInv
  <2> QED
    BY <1>3, <2>1, <2>2, QuietTopicStep DEF Publish
<1>4. ASSUME NEW topic \in PubTopics, NEW qos \in AppQos, PublishRefused(topic, qos)
      PROVE  TopicInv'
  <2>1. pc = "app" /\ pc' = "app"
    BY <1>4 DEF PublishRefused, InSketch
  <2>2. CallTopicInv'
    BY <2>1 DEF CallTopicInv
  <2> QED
    BY <1>4, <2>1, <2>2, QuietTopicStep DEF PublishRefused
<1> QED
  BY <1>1, <1>2, <1>3, <1>4 DEF SketchCalls

LEMMA SendSubscribeTopicStep ==
  ASSUME NoWrap, PInv, SendSubscribe, UNCHANGED gatewayVars
  PROVE  TopicInv'
<1>1. PICK qos \in SentQos(call.qos) :
        Transmit(SubscribeMsg(NextMsgId, call.topic, qos))
  BY DEF SendSubscribe
<1>2. /\ pc = "subscribe_idle" /\ pc' = "subscribe_ack" /\ call' = call
      /\ call.topic \in SubTopics /\ call.qos \in Qos
      /\ registration' = NewRegistration(call.topic, call.qos)
      /\ msg_id_counter' = NextMsgId
      /\ UNCHANGED <<toClient, publish_registration, called>>
  BY DEF SendSubscribe, PInv, IInv, TypeInv, ClientTypeOK, TopicInv, CallTopicInv
<1>3. NextMsgId = msg_id_counter + 1
  BY <1>2, NoWrapNextMsgId DEF PInv, IInv, StepInv, IdsToTake
<1> DEFINE m == SubscribeMsg(NextMsgId, call.topic, qos)
<1>4. m \in SoundRequest
  <2>1. qos \in Qos /\ call.topic \in Topics
    BY <1>2, ClientAssumption DEF SentQos, Qos
  <2> QED
    BY <2>1, NextMsgIdType, RequestTypes, LinkAssumption DEF PInv, IInv, TypeInv
<1>5. m.type = "SUBSCRIBE" /\ m.topic = call.topic
  BY DEF SubscribeMsg, Plain
<1> HIDE DEF m
<1>6. m \in TopicRequests'
  BY <1>2, <1>4, <1>5 DEF TopicRequests
<1>7. TopicQueueInv' /\ (Datagrams => linkUp')
  <2>1. toGateway \in Seq(TopicRequests') /\ toClient \in Seq(TopicReplies')
    BY <1>2, <1>3, NewIdTopicQueues
  <2> QED
    BY <1>1, <1>2, <1>6, <2>1, TransmitTopicQueues DEF m, PInv, TopicInv, RegisterInv
<1>8. NamesInv'
  BY <1>2 DEF PInv, TopicInv, NamesInv, NewRegistration
<1>9. RegisterInv'
  BY <1>2, <1>7 DEF PInv, TopicInv, RegisterInv, Named, Datagrams
<1> QED
  BY <1>2, <1>7, <1>8, <1>9
     DEF PInv, TopicInv, CallTopicInv, SubscriptionsInv, CallbackNamesTopic, gatewayVars

LEMMA SendRegisterTopicStep ==
  ASSUME NoWrap, PInv, SendRegister, UNCHANGED gatewayVars
  PROVE  TopicInv'
<1>1. /\ pc = "register_idle" /\ pc' = "register_ack" /\ call' = call
      /\ call.topic \in PubTopics
      /\ msg_id_counter' = NextMsgId /\ await_msg_type' = "REGACK"
      /\ Transmit(RegisterMsg(NextMsgId, call.topic))
      /\ UNCHANGED <<toClient, registration, called>>
  BY DEF SendRegister, PInv, TopicInv, CallTopicInv
<1>2. /\ publish_registration'.topic_name = call.topic
      /\ publish_registration'.topic_id = publish_registration.topic_id
  BY DEF SendRegister, PInv, IInv, TypeInv, ClientTypeOK, Registration
<1>3. NextMsgId = msg_id_counter + 1
  BY <1>1, NoWrapNextMsgId DEF PInv, IInv, StepInv, IdsToTake
<1> DEFINE m == RegisterMsg(NextMsgId, call.topic)
<1>4. m \in SoundRequest
  <2>1. call.topic \in Topics /\ 0 \in Qos
    BY <1>1, ClientAssumption DEF Qos
  <2> QED
    BY <2>1, NextMsgIdType, RequestTypes, LinkAssumption DEF PInv, IInv, TypeInv
<1>5. m.type = "REGISTER" /\ m.topic = call.topic
  BY DEF RegisterMsg, Plain
<1> HIDE DEF m
<1>6. m \in TopicRequests'
  BY <1>1, <1>2, <1>4, <1>5 DEF TopicRequests
<1>7. TopicQueueInv' /\ (Datagrams => linkUp')
  <2>1. toGateway \in Seq(TopicRequests') /\ toClient \in Seq(TopicReplies')
    BY <1>1, <1>3, NewIdTopicQueues
  <2> QED
    BY <1>1, <1>6, <2>1, TransmitTopicQueues DEF m, PInv, TopicInv, RegisterInv
<1>8. NamesInv'
  BY <1>1, <1>2 DEF PInv, TopicInv, NamesInv
<1>9. RegisterInv'
  BY <1>1, <1>2, <1>7 DEF RegisterInv, Idle
<1> QED
  BY <1>1, <1>7, <1>8, <1>9
     DEF PInv, TopicInv, CallTopicInv, SubscriptionsInv, CallbackNamesTopic, gatewayVars

(* SendPublish() with the id of publish_registration, under its own name      *)
LEMMA SendPublishTopicStep ==
  ASSUME NoWrap, PInv, pc \in {"publish_topic", "register_ack"},
         pc = "register_ack" => Idle,
         publish_registration.topic_name = call.topic,
         SendPublish(publish_registration.topic_id),
         UNCHANGED <<registration, called, toClient, gatewayVars>>
  PROVE  TopicInv'
<1> DEFINE id == publish_registration.topic_id
<1>1. /\ publish_registration \in Registration /\ call.topic \in PubTopics
      /\ Datagrams => Named
  BY DEF PInv, IInv, TypeInv, ClientTypeOK, TopicInv, CallTopicInv, RegisterInv
<1>2. pc' \in {"app", "publish_ack"} /\ (pc' = "publish_ack" => call' = call)
  BY DEF SendPublish, Return
<1>3. CallTopicInv'
  BY <1>1, <1>2 DEF CallTopicInv
<1>4. publish_registration' = publish_registration
  BY <1>1 DEF SendPublish, PublishRegistrationAfter, Registration
<1>5. SubscriptionsInv' /\ CallbackNamesTopic' /\ NamesInv'
  BY <1>4 DEF PInv, TopicInv, SubscriptionsInv, CallbackNamesTopic, NamesInv, gatewayVars
<1>6. TopicQueueInv' /\ (Datagrams => linkUp')
  <2>1. CASE id = 0
    <3>1. Silent /\ UNCHANGED msg_id_counter
      BY <2>1 DEF SendPublish
    <3>2. toGateway \in Seq(TopicRequests') /\ toClient \in Seq(TopicReplies')
      BY <1>2, <1>4, <3>1, SameTopicQueues, SeqMonotonic
         DEF PInv, TopicInv, TopicQueueInv
    <3> QED
      BY <3>1, <3>2, TransmitTopicQueues DEF PInv, TopicInv, RegisterInv
  <2>2. CASE id # 0
    <3>1. /\ msg_id_counter' = NextMsgId
          /\ Transmit(PublishMsg(IF call.qos = 0 THEN 0 ELSE NextMsgId, call.topic, id,
                                 call.qos))
      BY <2>2 DEF SendPublish
    <3>2. msg_id_counter' = msg_id_counter + 1
      BY <3>1, NoWrapNextMsgId DEF PInv, IInv, StepInv, IdsToTake
    <3> DEFINE msg_id == IF call.qos = 0 THEN 0 ELSE NextMsgId
               m == PublishMsg(msg_id, call.topic, id, call.qos)
    <3>3. m \in SoundRequest
      <4>1. msg_id \in MsgIds
        BY NextMsgIdType, LinkAssumption DEF PInv, IInv, TypeInv, MsgIds
      <4>2. call.topic \in Topics /\ id \in Nat /\ call.qos \in Qos
        BY <1>1, ClientAssumption DEF Registration, PInv, IInv, TypeInv, ClientTypeOK
      <4> HIDE DEF msg_id, id
      <4> QED
        BY <4>1, <4>2, RequestTypes
    <3>4. m.type = "PUBLISH" /\ m.topic = call.topic /\ m.topic_id = id
      BY DEF PublishMsg, Plain
    <3>5. Datagrams => id = TopicIdOf[call.topic]
      BY <1>1, <2>2 DEF Named
    <3>6. Transmit(m)
      BY <3>1
    <3> HIDE DEF m
    <3>7. m \in TopicRequests'
      BY <3>3, <3>4, <3>5 DEF TopicRequests, Datagrams
    <3>8. toGateway \in Seq(TopicRequests') /\ toClient \in Seq(TopicReplies')
      BY <3>2, NewIdTopicQueues
    <3> QED
      BY <3>6, <3>7, <3>8, TransmitTopicQueues DEF PInv, TopicInv, RegisterInv
  <2> QED
    BY <2>1, <2>2
<1>7. RegisterInv'
  BY <1>1, <1>2, <1>4, <1>6 DEF RegisterInv, Named, Datagrams
<1> QED
  BY <1>3, <1>5, <1>6, <1>7 DEF TopicInv

LEMMA ContinuesTopicStep ==
  ASSUME SeparateTopics, NoWrap, PInv, Continues \/ ConnectBeat, UNCHANGED gatewayVars
  PROVE  TopicInv'
<1> USE DEF sessionVars, topicVars, linkVars
<1>1. ASSUME NEW ok \in BOOLEAN, Return(ok)
      PROVE  pc' = "app" /\ CallTopicInv'
  BY <1>1 DEF Return, CallTopicInv
<1>2. pc' = "app" => CallTopicInv'
  BY DEF CallTopicInv
<1>3. CASE PumpNothing
  <2>1. /\ pc \in {"loop_pump", "connect_pump"}
        /\ pc' \in {"loop_ping", "connect_check"}
    BY <1>3 DEF PumpNothing, AfterPump, Places
  <2>2. CallTopicInv'
    BY <2>1 DEF CallTopicInv
  <2> QED
    BY <1>3, <2>1, <2>2, QuietTopicStep DEF PumpNothing, Silent
<1>4. CASE PumpFails
  <2>1. ~Datagrams
    BY <1>4 DEF PumpFails, PInv, TopicInv, RegisterInv
  <2> QED
    BY <1>1, <1>4, <2>1, QuietTopicStep DEF PumpFails, Silent
<1>5. CASE ConnectCheck \/ ConnectBeat
  <2>1. /\ pc = "connect_check" /\ pc' \in {"app", "connect_pump"}
        /\ Silent \/ Transmit(Plain("CONNECT"))
    BY <1>5 DEF ConnectCheck, ConnectBeat, ConnectReturns, SendConnect, Return
  <2>2. CallTopicInv'
    BY <2>1 DEF CallTopicInv
  <2> QED
    BY <1>5, <2>1, <2>2, QuietTopicStep DEF ConnectCheck, ConnectBeat
<1>6. CASE SubscribeReturns \/ PublishReturns
  BY <1>1, <1>6, QuietTopicStep DEF SubscribeReturns, PublishReturns
<1>7. CASE PublishIdle \/ PublishUnregistered
  <2>1. /\ pc \in {"publish_idle", "publish_topic"}
        /\ pc' \in {"publish_topic", "register_idle"} /\ call' = call
    BY <1>7 DEF PublishIdle, PublishUnregistered
  <2>2. CallTopicInv'
    BY <2>1 DEF PInv, TopicInv, CallTopicInv
  <2> QED
    BY <1>7, <2>1, <2>2, QuietTopicStep DEF PublishIdle, PublishUnregistered
<1>8. CASE PublishRegistered
  <2>1. pc = "publish_topic" /\ call.topic \in PubTopics /\ call.topic \in Topics
    BY <1>8, ClientAssumption DEF PublishRegistered, PInv, TopicInv, CallTopicInv
  <2>2. call.topic # registration.topic_name
    BY <2>1, LinkAssumption DEF SeparateTopics, PInv, TopicInv, NamesInv
  <2>3. /\ publish_registration.topic_name = call.topic
        /\ RegisteredId(call.topic) = publish_registration.topic_id
    BY <1>8, <2>2 DEF PublishRegistered, IsRegistered, RegisteredId
  <2> QED
    BY <1>8, <2>1, <2>3, SendPublishTopicStep DEF PublishRegistered
<1>9. CASE RegisterReturns
  <2>1. publish_registration.topic_name = call.topic
    BY <1>9 DEF RegisterReturns, PInv, TopicInv, RegisterInv
  <2> QED
    BY <1>9, <2>1, SendPublishTopicStep DEF RegisterReturns
<1>10. CASE Loop
  <2>1. pc = "app" /\ pc' \in {"app", "loop_pump"}
    BY <1>10 DEF Loop, InSketch
  <2>2. CallTopicInv'
    BY <2>1 DEF CallTopicInv
  <2> QED
    BY <1>10, <2>1, <2>2, QuietTopicStep DEF Loop
<1>11. ASSUME NEW beat \in BOOLEAN, LoopPing(beat)
       PROVE  TopicInv'
  <2>1. pc = "loop_ping" /\ pc' = "app" /\ (Silent \/ Transmit(Plain("PINGREQ")))
    BY <1>11 DEF LoopPing
  <2> QED
    BY <1>2, <1>11, <2>1, QuietTopicStep DEF LoopPing
<1> QED
  BY <1>3, <1>4, <1>5, <1>6, <1>7, <1>8, <1>9, <1>10, <1>11,
     SendSubscribeTopicStep, SendRegisterTopicStep DEF Continues

-----------------------------------------------------------------------------
(* The gateway and the network                                              *)

LEMMA EnvironmentTopicStep ==
  ASSUME PInv, UNCHANGED clientVars, Datagrams => linkUp', SubscriptionsInv',
         toGateway' \in Seq(TopicRequests), toClient' \in Seq(TopicReplies)
  PROVE  TopicInv'
<1>1. TopicRequests' = TopicRequests /\ TopicReplies' = TopicReplies
  BY DEF clientVars, TopicRequests, TopicReplies
<1> QED
  BY <1>1 DEF clientVars, PInv, TopicInv, TopicQueueInv, NamesInv, CallTopicInv,
     RegisterInv, Named, Idle, Datagrams, CallbackNamesTopic

LEMMA OtherTopicReply ==
  \A r \in Reply : r.type \notin {"SUBACK", "REGACK", "PUBLISH"} => r \in TopicReplies
BY DEF TopicReplies

(* The answer to a SUBSCRIBE has its id.                                     *)
LEMMA SubackTopicReply ==
  ASSUME NEW m \in TopicRequests, m.type = "SUBSCRIBE", NEW r \in Reply,
         r.type = "SUBACK", r.message_id = m.message_id
  PROVE  r \in TopicReplies
BY DEF TopicRequests, TopicReplies

(* The answer to a REGISTER has its id and the id of its topic.              *)
LEMMA RegackTopicReply ==
  ASSUME PInv, NEW m \in TopicRequests, m.type = "REGISTER", NEW r \in Reply,
         r.type = "REGACK", r.message_id = m.message_id,
         r.return_code = "ACCEPTED" => r.topic_id = TopicIdOf[m.topic]
  PROVE  r \in TopicReplies
<1>1. m.topic \in Topics /\ NoTopic \notin Topics
  BY LinkAssumption DEF TopicRequests, SoundRequest
<1>2. m.message_id = msg_id_counter =>
        m.topic = publish_registration.topic_name /\ m.topic \in PubTopics
  BY <1>1 DEF TopicRequests, PInv, TopicInv, NamesInv
<1> QED
  BY <1>2 DEF TopicReplies

LEMMA GatewayTopicStep ==
  ASSUME PInv, Gateway
  PROVE  TopicInv'
<1>1. PICK m \in ToSet(toGateway) :
        \/ GwConnect(m) \/ GwNoSession(m) \/ GwSubscribe(m) \/ GwRegister(m)
        \/ GwPublish(m) \/ GwPing(m) \/ GwPingresp(m) \/ GwDisconnect(m)
  BY DEF Gateway
<1>2. GwTakes(m)
  BY <1>1 DEF GwConnect, GwNoSession, GwSubscribe, GwRegister, GwPublish, GwPing,
     GwPingresp, GwDisconnect
<1>3. toGateway' \in Seq(TopicRequests) /\ m \in TopicRequests
  BY <1>2, QueueOps DEF GwTakes, PInv, TopicInv, TopicQueueInv
<1>4. m.message_id \in MsgIds /\ m.topic_id \in Nat /\ m.qos \in Qos
  BY <1>3 DEF TopicRequests, SoundRequest, Request
<1>5. toClient \in Seq(TopicReplies)
  BY DEF PInv, TopicInv, TopicQueueInv
<1>6. \A r \in TopicReplies : Send(r) => toClient' \in Seq(TopicReplies)
  BY <1>5, QueueOps DEF Send
<1>7. "ACCEPTED" \in ReturnCodes /\ 0 \in MsgIds /\ 0 \in Qos /\ 0 \in Nat
  BY LinkAssumption DEF ReturnCodes, MsgIds, Qos
<1>8. SUFFICES toClient' \in Seq(TopicReplies) /\ SubscriptionsInv'
  BY <1>2, <1>3, <1>8, EnvironmentTopicStep DEF GwTakes, PInv, TopicInv, RegisterInv
<1>9. gwSubs' \in {gwSubs, {}} => SubscriptionsInv'
  BY DEF PInv, TopicInv, SubscriptionsInv
<1>10. ASSUME NEW type \in ToClientTypes \ {"SUBACK", "REGACK", "PUBLISH"},
              Send(PlainReply(type, "gateway"))
       PROVE  toClient' \in Seq(TopicReplies)
  BY <1>6, <1>10, PlainReplyIsReply, OtherTopicReply
<1>11. CASE GwConnect(m)
  <2>1. PICK code \in ConnackCodes :
          Send([PlainReply("CONNACK", "gateway") EXCEPT !.return_code = code])
    BY <1>11 DEF GwConnect
  <2> DEFINE r == [PlainReply("CONNACK", "gateway") EXCEPT !.return_code = code]
  <2>2. r \in Reply
    BY <1>7, GatewayAssumption, ReplyTypes DEF ToClientTypes
  <2>3. r.type = "CONNACK"
    BY DEF PlainReply
  <2>4. Send(r)
    BY <2>1
  <2> HIDE DEF r
  <2>5. gwSubs' \in {gwSubs, {}}
    BY <1>11 DEF GwConnect, gatewayVars
  <2> QED
    BY <1>6, <1>9, <2>2, <2>3, <2>4, <2>5, OtherTopicReply
<1>12. CASE GwNoSession(m)
  BY <1>5, <1>9, <1>10, <1>12 DEF GwNoSession, ToClientTypes, gatewayVars
<1>13. CASE GwSubscribe(m)
  <2>1. m.type = "SUBSCRIBE" /\ m.topic \in SubTopics /\ m.topic \in Topics
    BY <1>3, <1>13, ClientAssumption DEF GwSubscribe, TopicRequests
  <2>2. ASSUME NEW granted \in 0 .. m.qos, gwSubs' = Granted(m, granted),
               Send([PlainReply("SUBACK", "gateway") EXCEPT
                       !.message_id = m.message_id, !.qos = granted,
                       !.topic_id = TopicIdOf[m.topic]])
        PROVE  toClient' \in Seq(TopicReplies) /\ SubscriptionsInv'
    <3> DEFINE r == [PlainReply("SUBACK", "gateway") EXCEPT
                       !.message_id = m.message_id, !.qos = granted,
                       !.topic_id = TopicIdOf[m.topic]]
    <3>1. granted \in Qos /\ TopicIdOf[m.topic] \in Nat
      BY <1>4, <2>1, GatewayAssumption DEF Qos
    <3>2. r \in Reply
      BY <1>4, <1>7, <3>1, ReplyTypes DEF ToClientTypes
    <3>3. r.type = "SUBACK" /\ r.message_id = m.message_id
      BY DEF PlainReply
    <3>4. Send(r)
      BY <2>2
    <3> HIDE DEF r
    <3>5. r \in TopicReplies
      BY <1>3, <2>1, <3>2, <3>3, SubackTopicReply
    <3>6. SubscriptionsInv'
      BY <2>1, <2>2 DEF Granted, PInv, TopicInv, SubscriptionsInv
    <3> QED
      BY <1>6, <3>4, <3>5, <3>6
  <2>3. ASSUME NEW code \in SubackCodes(m) \ {"ACCEPTED"}, UNCHANGED gwSubs,
               Send([PlainReply("SUBACK", "gateway") EXCEPT
                       !.message_id = m.message_id, !.return_code = code])
        PROVE  toClient' \in Seq(TopicReplies) /\ SubscriptionsInv'
    <3> DEFINE r == [PlainReply("SUBACK", "gateway") EXCEPT
                       !.message_id = m.message_id, !.return_code = code]
    <3>1. code \in ReturnCodes
      BY GatewayAssumption DEF SubackCodes, ReturnCodes
    <3>2. r \in Reply
      BY <1>4, <1>7, <3>1, ReplyTypes DEF ToClientTypes
    <3>3. r.type = "SUBACK" /\ r.message_id = m.message_id
      BY DEF PlainReply
    <3>4. Send(r)
      BY <2>3
    <3> HIDE DEF r
    <3>5. r \in TopicReplies
      BY <1>3, <2>1, <3>2, <3>3, SubackTopicReply
    <3> QED
      BY <1>6, <1>9, <2>3, <3>4, <3>5
  <2> QED
    BY <1>13, <2>2, <2>3 DEF GwSubscribe
<1>14. CASE GwRegister(m)
  <2>1. m.type = "REGISTER" /\ m.topic \in Topics
    BY <1>3, <1>14 DEF GwRegister, TopicRequests, SoundRequest
  <2>2. PICK code \in AckCodes :
          Send([PlainReply("REGACK", "gateway") EXCEPT
                  !.message_id = m.message_id, !.return_code = code,
                  !.topic_id = IF code = "ACCEPTED" THEN TopicIdOf[m.topic] ELSE 0])
    BY <1>14 DEF GwRegister
  <2> DEFINE id == IF code = "ACCEPTED" THEN TopicIdOf[m.topic] ELSE 0
             r == [PlainReply("REGACK", "gateway") EXCEPT
                     !.message_id = m.message_id, !.return_code = code,
                     !.topic_id = id]
  <2>3. Send(r)
    BY <2>2
  <2>4. id \in Nat /\ code \in ReturnCodes
        /\ (code = "ACCEPTED" => id = TopicIdOf[m.topic])
    BY <2>1, GatewayAssumption
  <2> HIDE DEF id
  <2>5. r \in Reply
    BY <1>4, <1>7, <2>4, ReplyTypes DEF ToClientTypes
  <2>6. r.type = "REGACK" /\ r.message_id = m.message_id
        /\ r.return_code = code /\ r.topic_id = id
    BY DEF PlainReply
  <2> HIDE DEF r
  <2>7. r \in TopicReplies
    BY <1>3, <2>1, <2>4, <2>5, <2>6, RegackTopicReply
  <2> QED
    BY <1>6, <1>9, <1>14, <2>3, <2>7 DEF GwRegister, gatewayVars
<1>15. CASE GwPublish(m)
  <2> DEFINE r == [PlainReply("PUBACK", "gateway") EXCEPT
                     !.message_id = m.message_id, !.topic_id = m.topic_id]
  <2>1. r \in Reply
    BY <1>4, <1>7, ReplyTypes DEF ToClientTypes
  <2>2. r.type = "PUBACK"
    BY DEF PlainReply
  <2>3. Send(r) \/ UNCHANGED toClient
    BY <1>15 DEF GwPublish
  <2> HIDE DEF r
  <2>4. r \in TopicReplies
    BY <2>1, <2>2, OtherTopicReply
  <2> QED
    BY <1>5, <1>6, <1>9, <1>15, <2>3, <2>4 DEF GwPublish, gatewayVars
<1>16. CASE GwPing(m)
  BY <1>9, <1>10, <1>16 DEF GwPing, ToClientTypes, gatewayVars
<1>17. CASE GwPingresp(m)
  BY <1>5, <1>9, <1>17 DEF GwPingresp, gatewayVars
<1>18. CASE GwDisconnect(m)
  BY <1>9, <1>10, <1>18 DEF GwDisconnect, ToClientTypes
<1> QED
  BY <1>1, <1>11, <1>12, <1>13, <1>14, <1>15, <1>16, <1>17, <1>18

LEMMA UnsolicitedTopicStep ==
  ASSUME PInv, GwPush \/ Noise
  PROVE  TopicInv'
<1>1. toClient \in Seq(TopicReplies) /\ toGateway' \in Seq(TopicRequests)
      /\ UNCHANGED clientVars /\ linkUp' = linkUp /\ SubscriptionsInv'
  BY DEF GwPush, Noise, PInv, TopicInv, TopicQueueInv, SubscriptionsInv, gatewayVars
<1>2. \A r \in TopicReplies : Send(r) => toClient' \in Seq(TopicReplies)
  BY <1>1, QueueOps DEF Send
<1>3. SUFFICES toClient' \in Seq(TopicReplies)
  BY <1>1, <1>3, EnvironmentTopicStep DEF PInv, TopicInv, RegisterInv
<1>4. ASSUME NEW s \in gwSubs, NEW qos \in 0 .. s.qos, Send(Forwarded(s, qos))
      PROVE  toClient' \in Seq(TopicReplies)
  <2>1. s.topic \in SubTopics /\ s.topic \in Topics /\ s.qos \in 0 .. 2
    BY DEF PInv, IInv, TypeInv, GatewayTypeOK, Subscriptions, TopicInv, SubscriptionsInv
  <2> DEFINE id == IF qos = 0 THEN 0 ELSE 1
             r == [PlainReply("PUBLISH", "gateway") EXCEPT
                     !.topic_id = TopicIdOf[s.topic], !.qos = qos, !.message_id = id]
  <2>2. qos \in Qos /\ TopicIdOf[s.topic] \in Nat /\ id \in MsgIds
        /\ "PUBLISH" \in ToClientTypes /\ "ACCEPTED" \in ReturnCodes
    BY <2>1, GatewayAssumption, LinkAssumption
       DEF Qos, MsgIds, ToClientTypes, ReturnCodes
  <2>3. Forwarded(s, qos) = r
    BY DEF Forwarded
  <2> HIDE DEF id
  <2>4. r \in Reply
    BY <2>2, ReplyTypes
  <2>5. r.type = "PUBLISH" /\ r.topic_id = TopicIdOf[s.topic]
    BY DEF PlainReply
  <2> HIDE DEF r
  <2>6. r \in TopicReplies
    BY <2>1, <2>4, <2>5 DEF TopicReplies, Ids
  <2> QED
    BY <1>2, <1>4, <2>3, <2>6
<1>5. ASSUME NEW type \in {"PINGREQ", "ADVERTISE", "CONNACK", "PINGRESP"},
             NEW from \in {"gateway", "other"}, Send(PlainReply(type, from))
      PROVE  toClient' \in Seq(TopicReplies)
  <2>1. type \in ToClientTypes \ {"SUBACK", "REGACK", "PUBLISH"}
    BY DEF ToClientTypes
  <2> QED
    BY <1>2, <1>5, <2>1, PlainReplyIsReply, OtherTopicReply
<1> QED
  BY <1>4, <1>5 DEF GwPush, Noise

LEMMA NetworkTopicStep ==
  ASSUME PInv, Network \/ LinkDrop
  PROVE  TopicInv'
<1>1. toGateway \in Seq(TopicRequests) /\ toClient \in Seq(TopicReplies)
  BY DEF PInv, TopicInv, TopicQueueInv
<1>2. CASE LinkDrop
  <2>1. toGateway' \in Seq(TopicRequests) /\ toClient' \in Seq(TopicReplies)
    BY <1>2, EmptySeq DEF LinkDrop
  <2> QED
    BY <1>2, <2>1, EnvironmentTopicStep DEF LinkDrop, Datagrams, SubscriptionsInv
<1>3. CASE Network
  <2>1. toGateway' \in Seq(TopicRequests)
    <3>1. ASSUME NEW i \in DOMAIN toGateway
          PROVE  /\ RemoveAt(toGateway, i) \in Seq(TopicRequests)
                 /\ Append(toGateway, toGateway[i]) \in Seq(TopicRequests)
      BY <1>1, QueueOps
    <3> QED
      BY <1>1, <1>3, <3>1 DEF Network, Lose, Duplicate
  <2>2. toClient' \in Seq(TopicReplies)
    <3>1. ASSUME NEW i \in DOMAIN toClient
          PROVE  /\ RemoveAt(toClient, i) \in Seq(TopicReplies)
                 /\ Append(toClient, toClient[i]) \in Seq(TopicReplies)
      BY <1>1, QueueOps
    <3> QED
      BY <1>1, <1>3, <3>1 DEF Network, Lose, Duplicate
  <2>3. UNCHANGED <<clientVars, gatewayVars, linkUp>>
    BY <1>3 DEF Network, Lose, Duplicate
  <2> QED
    BY <2>1, <2>2, <2>3, EnvironmentTopicStep
       DEF PInv, TopicInv, RegisterInv, SubscriptionsInv, gatewayVars
<1> QED
  BY <1>2, <1>3

-----------------------------------------------------------------------------
(* The theorems *)

LEMMA NextTopicStep ==
  SeparateTopics /\ NoWrap /\ PInv /\ [Next]_vars => PInv'
<1> SUFFICES ASSUME SeparateTopics, NoWrap, PInv, [Next]_vars PROVE PInv'
  OBVIOUS
<1>1. IInv'
  BY NextStep DEF PInv
<1>2. CASE UNCHANGED vars
  <2>1. toGateway' \in Seq(TopicRequests) /\ toClient' \in Seq(TopicReplies)
        /\ UNCHANGED <<clientVars, gatewayVars, linkUp>>
    BY <1>2 DEF vars, linkVars, PInv, TopicInv, TopicQueueInv
  <2>2. TopicInv'
    BY <2>1, EnvironmentTopicStep
       DEF PInv, TopicInv, RegisterInv, SubscriptionsInv, gatewayVars
  <2> QED
    BY <1>1, <2>2 DEF PInv
<1>3. CASE Next
  BY <1>1, <1>3, SketchCallsTopicStep, ContinuesTopicStep, ReceiveDataTopicStep,
     GatewayTopicStep, UnsolicitedTopicStep, NetworkTopicStep DEF PInv, Next, ClientNext
<1> QED
  BY <1>2, <1>3

LEMMA InitTopic == Init => PInv
BY InitTypeInv, InitStep, InitTopicStep DEF IInv, PInv

(* A publication is called back under the name of its own topic and never    *)
(* under a null name, over any mix of loss, duplication, reordering and      *)
(* broken connections.                                                       *)
THEOREM CallbackCorrect ==
  SeparateTopics /\ NoWrap => (Spec => []CallbackNamesTopic)
<1> SUFFICES ASSUME SeparateTopics, NoWrap PROVE Spec => []CallbackNamesTopic
  OBVIOUS
<1>1. PInv /\ [Next]_vars => PInv'
  BY NextTopicStep
<1>2. PInv => CallbackNamesTopic
  BY DEF PInv, TopicInv
<1> QED
  BY <1>1, <1>2, InitTopic, PTL DEF Spec

(* Over datagrams every PUBLISH carries the id of the topic the sketch named, *)
(* although one record serves all the topics it publishes to.  Over TCP a     *)
(* connection that breaks in register_topic() makes it false.                 *)
THEOREM PublishTopicCorrect ==
  SeparateTopics /\ NoWrap /\ Datagrams => (Spec => []PublishCarriesOwnTopic)
<1> SUFFICES ASSUME SeparateTopics, NoWrap, Datagrams
             PROVE  Spec => []PublishCarriesOwnTopic
  OBVIOUS
<1>1. PInv /\ [Next]_vars => PInv'
  BY NextTopicStep
<1>2. PInv => PublishCarriesOwnTopic
  <2> SUFFICES ASSUME PInv, NEW i \in DOMAIN toGateway,
                      toGateway[i].type = "PUBLISH"
               PROVE  toGateway[i].topic_id = TopicIdOf[toGateway[i].topic]
    BY DEF PublishCarriesOwnTopic
  <2>1. toGateway[i] \in TopicRequests
    BY QueueOps DEF PInv, TopicInv, TopicQueueInv
  <2> QED
    BY <2>1 DEF TopicRequests
<1> QED
  BY <1>1, <1>2, InitTopic, PTL DEF Spec
=============================================================================
