------------------------- MODULE MqttSnSubscribeProofs -------------------------
(***************************************************************************)
(* Proof of SubscribedIdIsGateways: a subscribe() that returns true holds   *)
(* the id the gateway gave its topic, whatever is lost, duplicated, delayed *)
(* or reordered, as long as the 16-bit message ids do not wrap.             *)
(***************************************************************************)
EXTENDS MqttSnProofs

(* No more ids are taken than there are: one for each subscribe(), at most   *)
(* two for each publish().                                                   *)
NoWrap == 1 + 2 * Budget["call"] <= MaxMsgId

-----------------------------------------------------------------------------
(* The inductive invariant *)

(* Ids the call under way may still take                                     *)
IdsToTake ==
  IF pc \in {"subscribe_idle", "register_ack"} THEN 1
  ELSE IF pc \in {"publish_idle", "publish_topic", "register_idle"} THEN 2
  ELSE 0

IdBound ==
  msg_id_counter + IdsToTake + 2 * budget["call"] <= 1 + 2 * Budget["call"]

(* Every id in flight was taken already.  A SUBSCRIBE or SUBACK with the     *)
(* last id taken belongs to the present registration, and while its answer   *)
(* is awaited no REGISTER or REGACK has that id.                             *)
Requests ==
  {m \in SoundRequest :
     /\ m.type \in {"SUBSCRIBE", "REGISTER"} => m.message_id <= msg_id_counter
     /\ m.type = "SUBSCRIBE" /\ m.message_id = msg_id_counter =>
          m.topic = registration.topic_name
     /\ m.type = "REGISTER" /\ pc = "subscribe_ack" =>
          m.message_id # msg_id_counter}

Replies ==
  {r \in Reply :
     /\ r.type \in {"SUBACK", "REGACK"} => r.message_id <= msg_id_counter
     /\ /\ r.type = "SUBACK" /\ r.message_id = msg_id_counter
        /\ r.return_code = "ACCEPTED"
        => /\ registration.topic_name \in Topics
           /\ r.topic_id = TopicIdOf[registration.topic_name]
     /\ r.type = "REGACK" /\ pc = "subscribe_ack" =>
          r.message_id # msg_id_counter}

QueueInv == toGateway \in Seq(Requests) /\ toClient \in Seq(Replies)

(* The place of the thread tells which call is under way.                    *)
OpInv ==
  /\ pc \in {"connect_pump", "connect_check"} => call.op = "connect"
  /\ pc \in {"subscribe_idle", "subscribe_ack"} =>
       call.op = "subscribe" /\ call.returned = "no"
  /\ pc \in {"publish_idle", "publish_ack", "publish_topic", "register_idle",
             "register_ack"} => call.op = "publish"

Registered ==
  /\ registration.topic_name = call.topic
  /\ registration.topic_id = TopicIdOf[call.topic]

(* While subscribe() awaits its SUBACK, only that SUBACK makes it idle.      *)
SubscribeInv ==
  /\ pc = "subscribe_ack" =>
       /\ registration.topic_name = call.topic
       /\ await_topic_id
       /\ await_msg_type \in {"SUBACK", "PINGREQ", "DISCONNECT"}
       /\ await_msg_type = "PINGREQ" => Registered
  /\ call.op = "subscribe" /\ call.returned = "true" =>
       pc \in {"app", "loop_pump", "loop_ping"} /\ call.topic \in Topics /\ Registered

StepInv == IdBound /\ OpInv /\ QueueInv /\ SubscribeInv

IInv == TypeInv /\ StepInv

-----------------------------------------------------------------------------
(* Frames *)

(* A step that takes a new id makes every id in flight an old one.           *)
LEMMA NewIdKeepsQueues ==
  ASSUME TypeInv, msg_id_counter' = msg_id_counter + 1
  PROVE  Requests \subseteq Requests' /\ Replies \subseteq Replies'
<1>1. \A m \in SoundRequest : m.message_id \in Int
  BY LinkAssumption DEF SoundRequest, Request, MsgIds
<1>2. \A r \in Reply : r.message_id \in Int
  BY LinkAssumption DEF Reply, MsgIds
<1>3. msg_id_counter \in Int
  BY LinkAssumption DEF TypeInv, ClientTypeOK
<1>4. Requests \subseteq Requests'
  BY <1>1, <1>3 DEF Requests
<1>5. Replies \subseteq Replies'
  BY <1>2, <1>3 DEF Replies
<1> QED
  BY <1>4, <1>5

(* A step that takes none and keeps the topic of the registration changes    *)
(* nothing for the messages in flight.                                       *)
LEMMA SameIdKeepsQueues ==
  ASSUME msg_id_counter' = msg_id_counter,
         registration'.topic_name = registration.topic_name,
         pc' = "subscribe_ack" => pc = "subscribe_ack"
  PROVE  Requests \subseteq Requests' /\ Replies \subseteq Replies'
BY DEF Requests, Replies

LEMMA TransmitQueues ==
  ASSUME QueueInv, Requests \subseteq Requests', Replies \subseteq Replies',
         toClient' = toClient,
         \/ Silent
         \/ \E m \in Requests' : Transmit(m)
  PROVE  QueueInv'
<1>1. toGateway \in Seq(Requests') /\ toClient \in Seq(Replies')
  BY SeqMonotonic DEF QueueInv
<1>2. \A m \in Requests' : Append(toGateway, m) \in Seq(Requests')
  BY <1>1
<1> QED
  BY <1>1, <1>2 DEF QueueInv, Silent, Transmit, SocketSend

LEMMA ReadsQueues ==
  ASSUME QueueInv, NEW m, Reads(m)
  PROVE  m \in Replies /\ toClient' \in Seq(Replies)
<1>1. CASE DatagramReceive(m)
  BY <1>1, QueueOps DEF QueueInv, DatagramReceive
<1>2. CASE StreamReceive(m)
  <2>1. PICK n \in DOMAIN toClient :
          m = toClient[1] /\ toClient' = SubSeq(toClient, n + 1, Len(toClient))
    BY <1>2 DEF StreamReceive
  <2>2. 1 \in DOMAIN toClient
    BY <2>1, LenProperties DEF QueueInv
  <2> QED
    BY <2>1, <2>2, QueueOps DEF QueueInv
<1> QED
  BY <1>1, <1>2 DEF Reads, SocketReceive

LEMMA NoWrapNextMsgId ==
  ASSUME NoWrap, TypeInv, IdBound, IdsToTake >= 1
  PROVE  NextMsgId = msg_id_counter + 1
<1>1. budget["call"] \in Nat /\ Budget["call"] \in Nat
  BY LinkAssumption DEF TypeInv, LinkInv, BudgetKinds
<1>2. IdsToTake \in Nat /\ msg_id_counter \in Nat /\ MaxMsgId \in Nat
  BY LinkAssumption DEF IdsToTake, TypeInv, ClientTypeOK
<1> QED
  BY <1>1, <1>2 DEF NoWrap, IdBound, NextMsgId

LEMMA PlainIsCurrent ==
  \A type \in ToGatewayTypes \ {"SUBSCRIBE", "REGISTER"} : Plain(type) \in Requests'
BY PlainTypes DEF Requests, Plain

-----------------------------------------------------------------------------
(* receiveData() *)

LEMMA ReadsStep ==
  ASSUME IInv, NEW m, Reads(m), msg_id_counter' = msg_id_counter,
         registration'.topic_name = registration.topic_name,
         \/ Silent
         \/ \E type \in {"PINGRESP", "DISCONNECT"} : Transmit(Plain(type))
  PROVE  /\ IdBound' /\ OpInv' /\ QueueInv'
         /\ m \in Replies
         /\ pc \in {"loop_pump", "connect_pump"} \/ (pc \in Waits /\ pc' = pc)
         /\ pc = "loop_pump" => pc' = "loop_ping"
         /\ pc = "connect_pump" => pc' = "connect_check"
<1>1. /\ pc \in {"loop_pump", "connect_pump"} \/ (pc \in Waits /\ pc' = pc)
      /\ pc = "loop_pump" => pc' = "loop_ping"
      /\ pc = "connect_pump" => pc' = "connect_check"
  <2>1. pc \in Places /\ pc' = AfterPump[pc]
    BY DEF Reads, IInv, TypeInv, ClientTypeOK
  <2>2. pc \in {"loop_pump", "connect_pump"} \/ pc \in Waits
    BY DEF Reads, Pumping
  <2> QED
    BY <2>1, <2>2 DEF AfterPump, Waits
<1>2. Requests \subseteq Requests' /\ Replies \subseteq Replies'
  BY <1>1, SameIdKeepsQueues
<1>3. QueueInv'
  <2>1. toClient' \in Seq(Replies') /\ toGateway \in Seq(Requests')
    BY <1>2, ReadsQueues, SeqMonotonic DEF IInv, StepInv, QueueInv
  <2>2. ASSUME NEW type \in {"PINGRESP", "DISCONNECT"}
        PROVE  Append(toGateway, Plain(type)) \in Seq(Requests')
    BY <2>1, PlainIsCurrent DEF ToGatewayTypes
  <2> QED
    BY <2>1, <2>2 DEF QueueInv, Silent, Transmit, SocketSend
<1>4. IdBound'
  BY <1>1 DEF Reads, IInv, StepInv, IdBound, IdsToTake
<1>5. OpInv'
  BY <1>1 DEF Reads, IInv, StepInv, OpInv
<1> QED
  BY <1>1, <1>3, <1>4, <1>5, ReadsQueues DEF IInv, StepInv

LEMMA ReceiveDataStep ==
  ASSUME IInv, ReceiveData
  PROVE  StepInv'
<1> USE DEF sessionVars, topicVars
<1>1. PICK m \in ToSet(toClient) :
        \/ Ignore(m) \/ ParsePingreq(m) \/ ParsePingresp(m) \/ ParseConnack(m)
        \/ ParseSuback(m) \/ ParseRegack(m) \/ ParsePublish(m)
  BY DEF ReceiveData
<1>2. CASE Ignore(m) \/ ParsePublish(m) \/ ParsePingreq(m)
  <2>1. /\ Reads(m)
        /\ UNCHANGED <<await_msg_type, msg_id_counter, await_topic_id, registration>>
        /\ Silent \/ Transmit(Plain("PINGRESP"))
    BY <1>2 DEF Ignore, ParsePublish, ParsePingreq
  <2>2. IdBound' /\ OpInv' /\ QueueInv'
    BY <2>1, ReadsStep
  <2>3. SubscribeInv'
    BY <2>1, ReadsStep DEF IInv, StepInv, SubscribeInv, Registered, Reads, Waits
  <2> QED
    BY <2>2, <2>3 DEF StepInv
<1>3. CASE ParsePingresp(m)
  <2>1. /\ Reads(m) /\ Silent
        /\ UNCHANGED <<msg_id_counter, await_topic_id, registration>>
        /\ await_msg_type' = await_msg_type \/ await_msg_type = "PINGRESP"
    BY <1>3 DEF ParsePingresp
  <2>2. IdBound' /\ OpInv' /\ QueueInv'
    BY <2>1, ReadsStep
  <2>3. SubscribeInv'
    BY <2>1, ReadsStep DEF IInv, StepInv, SubscribeInv, Registered, Reads, Waits
  <2> QED
    BY <2>2, <2>3 DEF StepInv
<1>4. CASE ParseConnack(m)
  <2>1. /\ Reads(m)
        /\ Silent \/ Transmit(Plain("DISCONNECT"))
        /\ UNCHANGED <<msg_id_counter, await_topic_id, registration>>
        /\ \/ await_msg_type' = await_msg_type
           \/ await_msg_type = "CONNACK"
           \/ await_msg_type' = "DISCONNECT"
    BY <1>4 DEF ParseConnack, ConnackAccepted, ConnackCongestion
  <2>2. IdBound' /\ OpInv' /\ QueueInv'
    BY <2>1, ReadsStep
  <2>3. SubscribeInv'
    BY <2>1, ReadsStep DEF IInv, StepInv, SubscribeInv, Registered, Reads, Waits
  <2> QED
    BY <2>2, <2>3 DEF StepInv
<1>5. CASE ParseSuback(m)
  <2>1. /\ Reads(m) /\ Silent /\ m.type = "SUBACK"
        /\ UNCHANGED <<msg_id_counter, await_topic_id>>
    BY <1>5 DEF ParseSuback, Dispatched
  <2>2. /\ registration'.topic_name = registration.topic_name
        /\ \/ UNCHANGED <<registration, await_msg_type>>
           \/ /\ SubackAccepted(m) /\ await_msg_type' = "PINGREQ"
              /\ registration'.topic_id = IF await_topic_id THEN m.topic_id
                                         ELSE registration.topic_id
    <3>1. registration \in Registration
      BY DEF IInv, TypeInv, ClientTypeOK
    <3> QED
      BY <1>5, <3>1 DEF ParseSuback, Registration
  <2>3. m \in Replies /\ IdBound' /\ OpInv' /\ QueueInv'
    BY <2>1, <2>2, ReadsStep
  <2>4. SubackAccepted(m) => m.topic_id = TopicIdOf[registration.topic_name]
    BY <2>1, <2>3 DEF SubackAccepted, Replies
  <2>5. SubscribeInv'
    BY <2>1, <2>2, <2>4, ReadsStep
       DEF IInv, StepInv, SubscribeInv, Registered, Reads, Waits
  <2> QED
    BY <2>3, <2>5 DEF StepInv
<1>6. CASE ParseRegack(m)
  <2>1. /\ Reads(m) /\ Silent /\ m.type = "REGACK"
        /\ UNCHANGED <<msg_id_counter, await_topic_id, registration>>
        /\ await_msg_type' = await_msg_type \/ m.message_id = msg_id_counter
    BY <1>6 DEF ParseRegack, Dispatched, RegackMatches
  <2>2. m \in Replies /\ IdBound' /\ OpInv' /\ QueueInv'
    BY <2>1, ReadsStep
  <2>3. pc = "subscribe_ack" => await_msg_type' = await_msg_type
    BY <2>1, <2>2 DEF Replies
  <2>4. SubscribeInv'
    BY <2>1, <2>3, ReadsStep DEF IInv, StepInv, SubscribeInv, Registered, Reads, Waits
  <2> QED
    BY <2>2, <2>4 DEF StepInv
<1> QED
  BY <1>1, <1>2, <1>3, <1>4, <1>5, <1>6

-----------------------------------------------------------------------------
(* The calls of the sketch                                                  *)

LEMMA InitStep == Init => StepInv
<1> SUFFICES ASSUME Init PROVE StepInv
  OBVIOUS
<1>1. Budget["call"] \in Nat /\ budget = Budget
  BY LinkAssumption DEF Init, LinkInit, BudgetKinds
<1>2. IdBound
  BY <1>1 DEF Init, ClientInit, IdBound, IdsToTake
<1>3. QueueInv
  BY EmptySeq DEF Init, LinkInit, QueueInv
<1> QED
  BY <1>2, <1>3 DEF Init, ClientInit, StepInv, OpInv, SubscribeInv

LEMMA SpendCall ==
  ASSUME TypeInv, Spend("call")
  PROVE  /\ budget["call"] \in Nat
         /\ budget'["call"] = budget["call"] - 1
BY DEF TypeInv, LinkInv, Spend, BudgetKinds

(* A call starts in the sketch, where no id is due to be taken.              *)
LEMMA CallStep ==
  ASSUME IInv, pc = "app", Spend("call"),
         pc' \in {"app", "connect_pump", "subscribe_idle", "publish_idle",
                  "publish_topic"},
         UNCHANGED <<msg_id_counter, registration, toClient>>,
         \/ Silent
         \/ Transmit(Plain("CONNECT"))
  PROVE  IdBound' /\ QueueInv'
<1>1. msg_id_counter \in Nat /\ Budget["call"] \in Nat
  BY LinkAssumption DEF IInv, TypeInv, ClientTypeOK, BudgetKinds
<1>2. IdsToTake = 0 /\ IdsToTake' \in {0, 1, 2}
  BY DEF IdsToTake
<1>3. IdBound'
  BY <1>1, <1>2, SpendCall DEF IInv, StepInv, IdBound
<1>4. Plain("CONNECT") \in Requests'
  BY PlainIsCurrent DEF ToGatewayTypes
<1>5. QueueInv'
  BY <1>4, SameIdKeepsQueues, TransmitQueues DEF IInv, StepInv
<1> QED
  BY <1>3, <1>5

LEMMA SketchCallsStep ==
  ASSUME IInv, SketchCalls
  PROVE  StepInv'
<1> USE DEF topicVars
<1>1. CASE Connect
  <2>1. IdBound' /\ QueueInv'
    BY <1>1, CallStep DEF Connect, SendConnect
  <2> QED
    BY <1>1, <2>1 DEF Connect, SendConnect, Begin, StepInv, OpInv, SubscribeInv
<1>2. ASSUME NEW topic \in SubTopics, NEW qos \in AppQos \ {-1}, Subscribe(topic, qos)
      PROVE  StepInv'
  <2>1. IdBound' /\ QueueInv'
    BY <1>2, CallStep DEF Subscribe, InSketch
  <2> QED
    BY <1>2, <2>1 DEF Subscribe, Begin, StepInv, OpInv, SubscribeInv
<1>3. ASSUME NEW topic \in PubTopics, NEW qos \in AppQos, Publish(topic, qos)
      PROVE  StepInv'
  <2>1. IdBound' /\ QueueInv'
    BY <1>3, CallStep DEF Publish, InSketch
  <2> QED
    BY <1>3, <2>1 DEF Publish, Begin, StepInv, OpInv, SubscribeInv
<1>4. ASSUME NEW topic \in PubTopics, NEW qos \in AppQos, PublishRefused(topic, qos)
      PROVE  StepInv'
  <2>1. IdBound' /\ QueueInv'
    BY <1>4, CallStep DEF PublishRefused, InSketch
  <2> QED
    BY <1>4, <2>1 DEF PublishRefused, InSketch, StepInv, OpInv, SubscribeInv
<1> QED
  BY <1>1, <1>2, <1>3, <1>4 DEF SketchCalls

-----------------------------------------------------------------------------
(* What the thread does by itself                                           *)

(* A step that takes no id and does not raise the number still to take       *)
LEMMA SameIdStep ==
  ASSUME IInv, IdsToTake' <= IdsToTake, pc' # "subscribe_ack",
         UNCHANGED <<msg_id_counter, registration, toClient, budget>>,
         \/ Silent
         \/ \E type \in {"CONNECT", "PINGREQ"} : Transmit(Plain(type))
  PROVE  IdBound' /\ QueueInv'
<1>1. /\ msg_id_counter \in Nat /\ Budget["call"] \in Nat
      /\ budget["call"] \in Nat
  BY LinkAssumption DEF IInv, TypeInv, LinkInv, ClientTypeOK, BudgetKinds
<1>2. IdsToTake \in Nat /\ IdsToTake' \in Nat
  BY DEF IdsToTake
<1>3. IdBound'
  BY <1>1, <1>2 DEF IInv, StepInv, IdBound
<1>4. \A type \in {"CONNECT", "PINGREQ"} : Plain(type) \in Requests'
  BY PlainIsCurrent DEF ToGatewayTypes
<1>5. QueueInv'
  BY <1>4, SameIdKeepsQueues, TransmitQueues DEF IInv, StepInv
<1> QED
  BY <1>3, <1>5

(* A step that takes an id sends a message with it.                          *)
LEMMA NewIdStep ==
  ASSUME NoWrap, IInv, IdsToTake >= 1, IdsToTake' <= IdsToTake - 1,
         msg_id_counter' = NextMsgId, UNCHANGED <<toClient, budget>>,
         NEW m \in Requests', Transmit(m)
  PROVE  IdBound' /\ QueueInv'
<1>1. /\ msg_id_counter \in Nat /\ Budget["call"] \in Nat
      /\ budget["call"] \in Nat
  BY LinkAssumption DEF IInv, TypeInv, LinkInv, ClientTypeOK, BudgetKinds
<1>2. IdsToTake \in Nat /\ IdsToTake' \in Nat
  BY DEF IdsToTake
<1>3. msg_id_counter' = msg_id_counter + 1
  BY NoWrapNextMsgId DEF IInv, StepInv
<1>4. IdBound'
  BY <1>1, <1>2, <1>3 DEF IInv, StepInv, IdBound
<1>5. QueueInv'
  BY <1>3, NewIdKeepsQueues, TransmitQueues DEF IInv, StepInv
<1> QED
  BY <1>4, <1>5

LEMMA ConnectBeatStep ==
  ASSUME IInv, ConnectBeat
  PROVE  StepInv'
<1>1. /\ pc = "connect_check" /\ pc' \in {"connect_pump", "app"}
      /\ call.op = "connect" /\ call'.op = "connect"
      /\ Silent \/ Transmit(Plain("CONNECT"))
  <2>1. call.op = "connect"
    BY DEF ConnectBeat, IInv, StepInv, OpInv
  <2>2. \A r : [call EXCEPT !.returned = r].op = "connect"
    BY <2>1 DEF IInv, TypeInv, ClientTypeOK
  <2> QED
    BY <2>1, <2>2 DEF ConnectBeat, SendConnect, ConnectReturns, Return
<1>2. IdBound' /\ QueueInv'
  BY <1>1, SameIdStep DEF ConnectBeat, IdsToTake, topicVars
<1> QED
  BY <1>1, <1>2 DEF StepInv, OpInv, SubscribeInv

LEMMA SendSubscribeStep ==
  ASSUME NoWrap, IInv, SendSubscribe
  PROVE  StepInv'
<1>1. PICK qos \in SentQos(call.qos) :
        Transmit(SubscribeMsg(NextMsgId, call.topic, qos))
  BY DEF SendSubscribe
<1>2. /\ pc = "subscribe_idle" /\ pc' = "subscribe_ack" /\ call' = call
      /\ call.topic \in Topics /\ call.qos \in 0 .. 2 /\ call.qos \in Qos
      /\ call.op = "subscribe" /\ call.returned = "no"
      /\ registration'.topic_name = call.topic
      /\ msg_id_counter' = NextMsgId
      /\ await_topic_id' = TRUE /\ await_msg_type' = "SUBACK"
      /\ UNCHANGED <<toClient, budget>>
  BY DEF SendSubscribe, NewRegistration, IInv, TypeInv, ClientTypeOK, CallInv, Waits,
     StepInv, OpInv
<1>3. qos \in Qos
  BY <1>2 DEF SentQos, Qos
<1> DEFINE m == SubscribeMsg(NextMsgId, call.topic, qos)
<1>4. m \in SoundRequest
  BY <1>2, <1>3, NextMsgIdType, RequestTypes, LinkAssumption DEF IInv, TypeInv
<1>5. m.type = "SUBSCRIBE" /\ m.message_id = NextMsgId /\ m.topic = call.topic
  BY DEF SubscribeMsg, Plain
<1>6. NextMsgId \in Nat
  BY NextMsgIdType DEF IInv, TypeInv
<1> HIDE DEF m
<1>7. m \in Requests'
  BY <1>2, <1>4, <1>5, <1>6 DEF Requests
<1>8. IdBound' /\ QueueInv'
  <2>1. IdsToTake = 1 /\ IdsToTake' = 0
    BY <1>2 DEF IdsToTake
  <2> QED
    BY <1>1, <1>2, <1>7, <2>1, NewIdStep DEF m
<1> QED
  BY <1>2, <1>8 DEF StepInv, OpInv, SubscribeInv

LEMMA SendRegisterStep ==
  ASSUME NoWrap, IInv, SendRegister
  PROVE  StepInv'
<1>1. /\ pc = "register_idle" /\ pc' = "register_ack" /\ call' = call
      /\ call.topic \in Topics /\ call.op = "publish"
      /\ msg_id_counter' = NextMsgId
      /\ Transmit(RegisterMsg(NextMsgId, call.topic))
      /\ UNCHANGED <<toClient, budget>>
  BY DEF SendRegister, IInv, TypeInv, CallInv, Waits, StepInv, OpInv
<1> DEFINE m == RegisterMsg(NextMsgId, call.topic)
<1>2. m \in SoundRequest
  BY <1>1, NextMsgIdType, RequestTypes, LinkAssumption DEF IInv, TypeInv, Qos
<1>3. m.type = "REGISTER" /\ m.message_id = NextMsgId
  BY DEF RegisterMsg, Plain
<1>4. NextMsgId \in Nat
  BY NextMsgIdType DEF IInv, TypeInv
<1> HIDE DEF m
<1>5. m \in Requests'
  BY <1>1, <1>2, <1>3, <1>4 DEF Requests
<1>6. IdBound' /\ QueueInv'
  <2>1. IdsToTake = 2 /\ IdsToTake' = 1
    BY <1>1 DEF IdsToTake
  <2> QED
    BY <1>1, <1>5, <2>1, NewIdStep DEF m
<1> QED
  BY <1>1, <1>6 DEF StepInv, OpInv, SubscribeInv

LEMMA SendPublishStep ==
  ASSUME NoWrap, IInv, pc \in {"publish_topic", "register_ack"},
         NEW topic_id \in Nat, SendPublish(topic_id),
         UNCHANGED <<registration, toClient, budget>>
  PROVE  StepInv'
<1>1. /\ call.op = "publish" /\ call.topic \in Topics /\ call.qos \in Qos
      /\ IdsToTake \in {1, 2}
  BY DEF IInv, TypeInv, ClientTypeOK, CallInv, Waits, StepInv, OpInv, IdsToTake
<1>2. call'.op = "publish" /\ pc' \in {"app", "publish_ack"} /\ IdsToTake' = 0
  <2>1. \A r : [call EXCEPT !.returned = r].op = "publish"
    BY <1>1 DEF IInv, TypeInv, ClientTypeOK
  <2> QED
    BY <1>1, <2>1 DEF SendPublish, Return, IdsToTake
<1>3. IdBound' /\ QueueInv'
  <2>1. CASE topic_id = 0
    BY <1>1, <1>2, <2>1, SameIdStep DEF SendPublish
  <2>2. CASE topic_id # 0
    <3> DEFINE id == IF call.qos = 0 THEN 0 ELSE NextMsgId
               m == PublishMsg(id, call.topic, topic_id, call.qos)
    <3>1. id \in MsgIds
      BY NextMsgIdType, LinkAssumption DEF IInv, TypeInv, MsgIds
    <3>2. Transmit(m) /\ msg_id_counter' = NextMsgId
      BY <2>2 DEF SendPublish
    <3> HIDE DEF id
    <3>3. m \in SoundRequest
      BY <1>1, <3>1, RequestTypes
    <3>4. m.type = "PUBLISH"
      BY DEF PublishMsg, Plain
    <3> HIDE DEF m
    <3>5. m \in Requests'
      BY <3>3, <3>4 DEF Requests
    <3> QED
      BY <1>1, <1>2, <3>2, <3>5, NewIdStep
  <2> QED
    BY <2>1, <2>2
<1> QED
  BY <1>2, <1>3 DEF StepInv, OpInv, SubscribeInv

LEMMA ContinuesStep ==
  ASSUME NoWrap, IInv, Continues
  PROVE  StepInv'
<1> USE DEF sessionVars, topicVars, linkVars
<1>1. ASSUME NEW ok \in BOOLEAN, Return(ok)
      PROVE  /\ pc' = "app" /\ IdsToTake' <= IdsToTake
             /\ call'.op = call.op /\ call'.topic = call.topic
             /\ ok = FALSE => call'.returned = "false"
  BY <1>1 DEF Return, IdsToTake, IInv, TypeInv, ClientTypeOK
<1>3. CASE PumpNothing
  <2>1. \/ pc = "loop_pump" /\ pc' = "loop_ping"
        \/ pc = "connect_pump" /\ pc' = "connect_check"
    BY <1>3 DEF PumpNothing, AfterPump, Places
  <2>2. IdBound' /\ QueueInv'
    BY <1>3, <2>1, SameIdStep DEF PumpNothing, IdsToTake, Silent
  <2> QED
    BY <1>3, <2>1, <2>2
       DEF PumpNothing, IInv, StepInv, OpInv, SubscribeInv, Registered
<1>4. CASE PumpFails
  <2>1. IdBound' /\ QueueInv'
    BY <1>1, <1>4, SameIdStep DEF PumpFails, Silent
  <2> QED
    BY <1>1, <1>4, <2>1 DEF PumpFails, StepInv, OpInv, SubscribeInv
<1>5. CASE ConnectCheck
  <2>1. pc = "connect_check" /\ call.op = "connect"
    BY <1>5 DEF ConnectCheck, IInv, StepInv, OpInv
  <2>2. pc' \in {"app", "connect_pump"} /\ call'.op = "connect" /\ Silent
    BY <1>1, <1>5, <2>1 DEF ConnectCheck, ConnectReturns
  <2>3. IdBound' /\ QueueInv'
    BY <1>5, <2>1, <2>2, SameIdStep DEF ConnectCheck, IdsToTake
  <2> QED
    BY <2>2, <2>3 DEF StepInv, OpInv, SubscribeInv
<1>6. CASE SubscribeReturns
  <2>1. IdBound' /\ QueueInv'
    BY <1>1, <1>6, SameIdStep DEF SubscribeReturns
  <2>2. pc = "subscribe_ack" /\ call.topic \in Topics /\ Registered
    BY <1>6 DEF SubscribeReturns, Idle, IInv, TypeInv, CallInv, Waits, StepInv,
       SubscribeInv
  <2> QED
    BY <1>1, <1>6, <2>1, <2>2
       DEF SubscribeReturns, StepInv, OpInv, SubscribeInv, Registered
<1>7. CASE PublishIdle \/ PublishUnregistered
  <2>1. /\ pc \in {"publish_idle", "publish_topic"}
        /\ pc' \in {"publish_topic", "register_idle"}
        /\ call' = call /\ Silent
        /\ UNCHANGED <<msg_id_counter, registration, toClient, budget>>
    BY <1>7 DEF PublishIdle, PublishUnregistered
  <2>2. IdBound' /\ QueueInv'
    BY <2>1, SameIdStep DEF IdsToTake
  <2> QED
    BY <2>1, <2>2 DEF IInv, StepInv, OpInv, SubscribeInv
<1>8. CASE PublishReturns
  <2>1. IdBound' /\ QueueInv'
    BY <1>1, <1>8, SameIdStep DEF PublishReturns
  <2>2. call.op = "publish"
    BY <1>8 DEF PublishReturns, IInv, StepInv, OpInv
  <2> QED
    BY <1>1, <1>8, <2>1, <2>2 DEF PublishReturns, StepInv, OpInv, SubscribeInv
<1>9. CASE PublishRegistered
  <2>1. RegisteredId(call.topic) \in Nat
    BY DEF RegisteredId, Registration, IInv, TypeInv, ClientTypeOK
  <2> QED
    BY <1>9, <2>1, SendPublishStep DEF PublishRegistered
<1>10. CASE RegisterReturns
  <2>1. publish_registration.topic_id \in Nat
    BY DEF Registration, IInv, TypeInv, ClientTypeOK
  <2> QED
    BY <1>10, <2>1, SendPublishStep DEF RegisterReturns
<1>11. CASE Loop
  <2>1. pc = "app" /\ pc' \in {"app", "loop_pump"}
    BY <1>11 DEF Loop, InSketch
  <2>2. IdBound' /\ QueueInv'
    BY <1>11, <2>1, SameIdStep DEF Loop, IdsToTake
  <2> QED
    BY <1>11, <2>1, <2>2 DEF Loop, IInv, StepInv, OpInv, SubscribeInv, Registered
<1>12. ASSUME NEW beat \in BOOLEAN, LoopPing(beat)
       PROVE  StepInv'
  <2>1. pc = "loop_ping" /\ pc' = "app" /\ (Silent \/ Transmit(Plain("PINGREQ")))
    BY <1>12 DEF LoopPing
  <2>2. IdBound' /\ QueueInv'
    BY <1>12, <2>1, SameIdStep DEF LoopPing, IdsToTake
  <2> QED
    BY <1>12, <2>1, <2>2 DEF LoopPing, IInv, StepInv, OpInv, SubscribeInv, Registered
<1> QED
  BY <1>3, <1>4, <1>5, <1>6, <1>7, <1>8, <1>9, <1>10, <1>11, <1>12,
     SendSubscribeStep, SendRegisterStep DEF Continues

-----------------------------------------------------------------------------
(* The gateway and the network                                              *)

(* No step of theirs touches the client.                                    *)
LEMMA EnvironmentStep ==
  ASSUME StepInv, UNCHANGED clientVars, budget'["call"] = budget["call"],
         toGateway' \in Seq(Requests), toClient' \in Seq(Replies)
  PROVE  StepInv'
<1>1. Requests' = Requests /\ Replies' = Replies
  BY DEF clientVars, Requests, Replies
<1> QED
  BY <1>1 DEF clientVars, StepInv, IdBound, IdsToTake, OpInv, QueueInv, SubscribeInv,
     Registered

(* Only SUBACKs and REGACKs are constrained.                                 *)
LEMMA OtherReply ==
  \A r \in Reply : r.type \notin {"SUBACK", "REGACK"} => r \in Replies
BY DEF Replies

LEMMA SubackReply ==
  ASSUME IInv, NEW m \in Requests, m.type = "SUBSCRIBE", NEW r \in Reply,
         r.type = "SUBACK", r.message_id = m.message_id,
         r.return_code = "ACCEPTED" => r.topic_id = TopicIdOf[m.topic]
  PROVE  r \in Replies
<1>1. m \in SoundRequest /\ m.topic \in Topics
  BY DEF Requests, SoundRequest
<1> QED
  BY <1>1 DEF Requests, Replies

LEMMA RegackReply ==
  ASSUME NEW m \in Requests, m.type = "REGISTER", NEW r \in Reply,
         r.type = "REGACK", r.message_id = m.message_id
  PROVE  r \in Replies
BY DEF Requests, Replies

LEMMA PlainReplyIsReply ==
  \A type \in ToClientTypes, from \in {"gateway", "other"} :
    /\ PlainReply(type, from) \in Reply
    /\ PlainReply(type, from).type = type
<1>1. 0 \in MsgIds /\ 0 \in Qos /\ "ACCEPTED" \in ReturnCodes
  BY LinkAssumption DEF MsgIds, Qos, ReturnCodes
<1> QED
  BY <1>1 DEF PlainReply, Reply

LEMMA GatewayStep ==
  ASSUME IInv, Gateway
  PROVE  StepInv'
<1>1. PICK m \in ToSet(toGateway) :
        \/ GwConnect(m) \/ GwNoSession(m) \/ GwSubscribe(m) \/ GwRegister(m)
        \/ GwPublish(m) \/ GwPing(m) \/ GwPingresp(m) \/ GwDisconnect(m)
  BY DEF Gateway
<1>2. GwTakes(m)
  BY <1>1 DEF GwConnect, GwNoSession, GwSubscribe, GwRegister, GwPublish, GwPing,
     GwPingresp, GwDisconnect
<1>3. toGateway' \in Seq(Requests) /\ m \in Requests
  BY <1>2, QueueOps DEF GwTakes, IInv, StepInv, QueueInv
<1>4. m.message_id \in MsgIds /\ m.topic_id \in Nat /\ m.qos \in Qos
  BY <1>3 DEF Requests, SoundRequest, Request
<1>5. \A r \in Replies : Send(r) => toClient' \in Seq(Replies)
  BY QueueOps DEF Send, IInv, StepInv, QueueInv
<1>6. /\ "ACCEPTED" \in ReturnCodes
      /\ 0 \in MsgIds /\ 0 \in Qos /\ 0 \in Nat
  BY LinkAssumption DEF ReturnCodes, MsgIds, Qos
<1>7. toClient \in Seq(Replies)
  BY DEF IInv, StepInv, QueueInv
<1>8. SUFFICES toClient' \in Seq(Replies)
  BY <1>2, <1>3, EnvironmentStep DEF GwTakes, IInv
<1>9. ASSUME NEW type \in ToClientTypes \ {"SUBACK", "REGACK"},
             Send(PlainReply(type, "gateway"))
      PROVE  toClient' \in Seq(Replies)
  BY <1>5, <1>9, PlainReplyIsReply, OtherReply
<1>10. CASE GwConnect(m)
  <2>1. PICK code \in ConnackCodes :
          Send([PlainReply("CONNACK", "gateway") EXCEPT !.return_code = code])
    BY <1>10 DEF GwConnect
  <2> DEFINE r == [PlainReply("CONNACK", "gateway") EXCEPT !.return_code = code]
  <2>2. r \in Reply
    BY <1>6, GatewayAssumption, ReplyTypes DEF ToClientTypes
  <2>3. r.type = "CONNACK"
    BY DEF PlainReply
  <2> HIDE DEF r
  <2>4. r \in Replies
    BY <2>2, <2>3, OtherReply
  <2> QED
    BY <1>5, <2>1, <2>4 DEF r
<1>11. CASE GwNoSession(m)
  BY <1>7, <1>9, <1>11 DEF GwNoSession, ToClientTypes
<1>12. CASE GwSubscribe(m)
  <2>1. m.type = "SUBSCRIBE" /\ m.topic \in Topics
    BY <1>3, <1>12 DEF GwSubscribe, Requests, SoundRequest
  <2>2. ASSUME NEW granted \in 0 .. m.qos,
               Send([PlainReply("SUBACK", "gateway") EXCEPT
                       !.message_id = m.message_id, !.qos = granted,
                       !.topic_id = TopicIdOf[m.topic]])
        PROVE  toClient' \in Seq(Replies)
    <3> DEFINE r == [PlainReply("SUBACK", "gateway") EXCEPT
                       !.message_id = m.message_id, !.qos = granted,
                       !.topic_id = TopicIdOf[m.topic]]
    <3>1. granted \in Qos /\ TopicIdOf[m.topic] \in Nat
      BY <1>4, <2>1, GatewayAssumption DEF Qos
    <3>2. r \in Reply
      BY <1>4, <1>6, <3>1, ReplyTypes DEF ToClientTypes
    <3>3. r.type = "SUBACK" /\ r.message_id = m.message_id
          /\ r.topic_id = TopicIdOf[m.topic]
      BY DEF PlainReply
    <3> HIDE DEF r
    <3>4. r \in Replies
      BY <1>3, <2>1, <3>2, <3>3, SubackReply
    <3> QED
      BY <1>5, <2>2, <3>4 DEF r
  <2>3. ASSUME NEW code \in SubackCodes(m) \ {"ACCEPTED"},
               Send([PlainReply("SUBACK", "gateway") EXCEPT
                       !.message_id = m.message_id, !.return_code = code])
        PROVE  toClient' \in Seq(Replies)
    <3> DEFINE r == [PlainReply("SUBACK", "gateway") EXCEPT
                       !.message_id = m.message_id, !.return_code = code]
    <3>1. code \in ReturnCodes
      BY GatewayAssumption DEF SubackCodes, ReturnCodes
    <3>2. r \in Reply
      BY <1>4, <1>6, <3>1, ReplyTypes DEF ToClientTypes
    <3>3. r.type = "SUBACK" /\ r.message_id = m.message_id
          /\ r.return_code # "ACCEPTED"
      BY <2>3 DEF PlainReply
    <3> HIDE DEF r
    <3>4. r \in Replies
      BY <1>3, <2>1, <3>2, <3>3, SubackReply
    <3> QED
      BY <1>5, <2>3, <3>4 DEF r
  <2> QED
    BY <1>12, <2>2, <2>3 DEF GwSubscribe
<1>13. CASE GwRegister(m)
  <2>1. m.type = "REGISTER" /\ m.topic \in Topics
    BY <1>3, <1>13 DEF GwRegister, Requests, SoundRequest
  <2>2. PICK code \in AckCodes :
          Send([PlainReply("REGACK", "gateway") EXCEPT
                  !.message_id = m.message_id, !.return_code = code,
                  !.topic_id = IF code = "ACCEPTED" THEN TopicIdOf[m.topic] ELSE 0])
    BY <1>13 DEF GwRegister
  <2> DEFINE id == IF code = "ACCEPTED" THEN TopicIdOf[m.topic] ELSE 0
             r == [PlainReply("REGACK", "gateway") EXCEPT
                     !.message_id = m.message_id, !.return_code = code,
                     !.topic_id = id]
  <2>3. Send(r)
    BY <2>2
  <2>4. id \in Nat /\ code \in ReturnCodes
    BY <2>1, GatewayAssumption
  <2> HIDE DEF id
  <2>5. r \in Reply
    BY <1>4, <1>6, <2>4, ReplyTypes DEF ToClientTypes
  <2>6. r.type = "REGACK" /\ r.message_id = m.message_id
    BY DEF PlainReply
  <2> HIDE DEF r
  <2>7. r \in Replies
    BY <1>3, <2>1, <2>5, <2>6, RegackReply
  <2> QED
    BY <1>5, <2>3, <2>7
<1>14. CASE GwPublish(m)
  <2> DEFINE r == [PlainReply("PUBACK", "gateway") EXCEPT
                     !.message_id = m.message_id, !.topic_id = m.topic_id]
  <2>1. r \in Reply
    BY <1>4, <1>6, ReplyTypes DEF ToClientTypes
  <2>2. r.type = "PUBACK"
    BY DEF PlainReply
  <2>3. Send(r) \/ UNCHANGED toClient
    BY <1>14 DEF GwPublish
  <2> HIDE DEF r
  <2> QED
    BY <1>5, <1>7, <2>1, <2>2, <2>3, OtherReply
<1>15. CASE GwPing(m)
  BY <1>9, <1>15 DEF GwPing, ToClientTypes
<1>16. CASE GwPingresp(m)
  BY <1>7, <1>16 DEF GwPingresp
<1>17. CASE GwDisconnect(m)
  BY <1>9, <1>17 DEF GwDisconnect, ToClientTypes
<1> QED
  BY <1>1, <1>10, <1>11, <1>12, <1>13, <1>14, <1>15, <1>16, <1>17

LEMMA SpendOther ==
  ASSUME TypeInv, NEW kind \in BudgetKinds \ {"call"}, Spend(kind)
  PROVE  budget'["call"] = budget["call"]
BY DEF TypeInv, LinkInv, Spend, BudgetKinds

LEMMA UnsolicitedStep ==
  ASSUME IInv, GwPush \/ Noise
  PROVE  StepInv'
<1>1. budget'["call"] = budget["call"]
  BY SpendOther DEF IInv, GwPush, Noise, BudgetKinds
<1>2. \A r \in Replies : Send(r) => toClient' \in Seq(Replies)
  BY QueueOps DEF Send, IInv, StepInv, QueueInv
<1>3. SUFFICES toClient' \in Seq(Replies)
  <2>1. toGateway' \in Seq(Requests) /\ UNCHANGED clientVars
    BY DEF GwPush, Noise, IInv, StepInv, QueueInv
  <2> QED
    BY <1>1, <1>3, <2>1, EnvironmentStep DEF IInv
<1>4. ASSUME NEW s \in gwSubs, NEW qos \in 0 .. s.qos, Send(Forwarded(s, qos))
      PROVE  toClient' \in Seq(Replies)
  <2>1. s.topic \in Topics /\ s.qos \in 0 .. 2
    BY DEF IInv, TypeInv, GatewayTypeOK, Subscriptions
  <2> DEFINE id == IF qos = 0 THEN 0 ELSE 1
             r == [PlainReply("PUBLISH", "gateway") EXCEPT
                     !.topic_id = TopicIdOf[s.topic], !.qos = qos, !.message_id = id]
  <2>2. qos \in Qos /\ TopicIdOf[s.topic] \in Nat /\ id \in MsgIds
        /\ "PUBLISH" \in ToClientTypes /\ "ACCEPTED" \in ReturnCodes
    BY <2>1, GatewayAssumption, LinkAssumption
       DEF Qos, MsgIds, ToClientTypes, ReturnCodes
  <2>3. Forwarded(s, qos) = r
    BY DEF Forwarded
  <2> HIDE DEF id
  <2>4. r \in Reply
    BY <2>2, ReplyTypes
  <2>5. r.type = "PUBLISH"
    BY DEF PlainReply
  <2> HIDE DEF r
  <2> QED
    BY <1>2, <1>4, <2>3, <2>4, <2>5, OtherReply
<1>5. ASSUME NEW type \in {"PINGREQ", "ADVERTISE", "CONNACK", "PINGRESP"},
             NEW from \in {"gateway", "other"}, Send(PlainReply(type, from))
      PROVE  toClient' \in Seq(Replies)
  <2>1. type \in ToClientTypes \ {"SUBACK", "REGACK"}
    BY DEF ToClientTypes
  <2> QED
    BY <1>2, <1>5, <2>1, PlainReplyIsReply, OtherReply
<1> QED
  BY <1>4, <1>5 DEF GwPush, Noise

LEMMA NetworkStep ==
  ASSUME IInv, Network \/ LinkDrop
  PROVE  StepInv'
<1>1. budget'["call"] = budget["call"] /\ UNCHANGED clientVars
  BY SpendOther DEF IInv, Network, Lose, Duplicate, LinkDrop, BudgetKinds
<1>2. toGateway \in Seq(Requests) /\ toClient \in Seq(Replies)
  BY DEF IInv, StepInv, QueueInv
<1>3. CASE LinkDrop
  <2>1. toGateway' \in Seq(Requests) /\ toClient' \in Seq(Replies)
    BY <1>3, EmptySeq DEF LinkDrop
  <2> QED
    BY <1>1, <2>1, EnvironmentStep DEF IInv
<1>4. CASE Network
  <2>1. toGateway' \in Seq(Requests)
    <3>1. ASSUME NEW i \in DOMAIN toGateway
          PROVE  /\ RemoveAt(toGateway, i) \in Seq(Requests)
                 /\ Append(toGateway, toGateway[i]) \in Seq(Requests)
      BY <1>2, QueueOps
    <3> QED
      BY <1>2, <1>4, <3>1 DEF Network, Lose, Duplicate
  <2>2. toClient' \in Seq(Replies)
    <3>1. ASSUME NEW i \in DOMAIN toClient
          PROVE  /\ RemoveAt(toClient, i) \in Seq(Replies)
                 /\ Append(toClient, toClient[i]) \in Seq(Replies)
      BY <1>2, QueueOps
    <3> QED
      BY <1>2, <1>4, <3>1 DEF Network, Lose, Duplicate
  <2> QED
    BY <1>1, <2>1, <2>2, EnvironmentStep DEF IInv
<1> QED
  BY <1>3, <1>4

LEMMA NextStep == NoWrap /\ IInv /\ [Next]_vars => IInv'
<1> SUFFICES ASSUME NoWrap, IInv, [Next]_vars PROVE IInv'
  OBVIOUS
<1>1. TypeInv'
  BY NextTypeInv DEF IInv
<1>2. StepInv'
  <2>1. CASE UNCHANGED vars
    <3>1. UNCHANGED clientVars /\ budget' = budget
          /\ toGateway' \in Seq(Requests) /\ toClient' \in Seq(Replies)
      BY <2>1 DEF vars, linkVars, IInv, StepInv, QueueInv
    <3> QED
      BY <3>1, EnvironmentStep DEF IInv
  <2>2. CASE Next
    BY <2>2, SketchCallsStep, ContinuesStep, ConnectBeatStep, ReceiveDataStep,
       GatewayStep, UnsolicitedStep, NetworkStep DEF Next, ClientNext
  <2> QED
    BY <2>1, <2>2
<1> QED
  BY <1>1, <1>2 DEF IInv

LEMMA InvImpliesSubscribed == IInv => SubscribedIdIsGateways
BY DEF IInv, StepInv, SubscribeInv, Registered, SubscribedIdIsGateways

(* A subscribe() that returns true holds the id the gateway gave its topic,  *)
(* whatever is lost, duplicated, delayed, reordered or broken off: the        *)
(* message id check of parse_suback() is enough while the ids do not wrap.   *)
THEOREM SubscribedIdCorrect == NoWrap => (Spec => []SubscribedIdIsGateways)
<1> SUFFICES ASSUME NoWrap PROVE Spec => []SubscribedIdIsGateways
  OBVIOUS
<1>1. Init => IInv
  BY InitTypeInv, InitStep DEF IInv
<1>2. IInv /\ [Next]_vars => IInv'
  BY NextStep
<1> QED
  BY <1>1, <1>2, InvImpliesSubscribed, PTL DEF Spec
=============================================================================
