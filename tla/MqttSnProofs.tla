----------------------------- MODULE MqttSnProofs -----------------------------
(***************************************************************************)
(* Proofs about MqttSnSystem, for every value of its constants.            *)
(***************************************************************************)
EXTENDS MqttSnSystem, SequenceTheorems, TLAPS

-----------------------------------------------------------------------------
(* Sequences as queues *)

(* What the network and the two ends do to a queue keeps its elements in any *)
(* set they were in: append, remove one, drop a prefix.                      *)
LEMMA QueueOps ==
  ASSUME NEW S, NEW q \in Seq(S)
  PROVE  /\ \A e \in S : Append(q, e) \in Seq(S)
         /\ \A i \in DOMAIN q : q[i] \in S /\ RemoveAt(q, i) \in Seq(S)
         /\ \A n \in DOMAIN q : SubSeq(q, n + 1, Len(q)) \in Seq(S)
         /\ \A e \in ToSet(q) : e \in S
         /\ Arrived(q) \subseteq DOMAIN q
<1>1. Len(q) \in Nat /\ DOMAIN q = 1 .. Len(q) /\ \A i \in 1 .. Len(q) : q[i] \in S
  BY LenProperties, ElementOfSeq
<1>2. ASSUME NEW a \in Int, NEW b \in Int, a >= 1, b <= Len(q)
      PROVE  SubSeq(q, a, b) \in Seq(S)
  <2>1. \A i \in a .. b : q[i] \in S
    BY <1>1, <1>2
  <2> QED
    BY <2>1, SubSeqProperties
<1>3. ASSUME NEW i \in DOMAIN q
      PROVE  RemoveAt(q, i) \in Seq(S)
  <2>1. SubSeq(q, 1, i - 1) \in Seq(S) /\ SubSeq(q, i + 1, Len(q)) \in Seq(S)
    BY <1>1, <1>2
  <2> QED
    BY <2>1, ConcatProperties DEF RemoveAt
<1>4. ASSUME NEW n \in DOMAIN q
      PROVE  SubSeq(q, n + 1, Len(q)) \in Seq(S)
  BY <1>1, <1>2
<1>5. \A e \in ToSet(q) : e \in S
  BY <1>1 DEF ToSet
<1>6. \A e \in S : Append(q, e) \in Seq(S)
  OBVIOUS
<1> QED
  BY <1>1, <1>3, <1>4, <1>5, <1>6 DEF Arrived

(* What is left of a queue when one element is taken out                      *)
LEMMA Removed ==
  ASSUME NEW T, NEW q \in Seq(T), NEW i \in DOMAIN q
  PROVE  /\ RemoveAt(q, i) \in Seq(T)
         /\ DOMAIN RemoveAt(q, i) = 1 .. Len(q) - 1
         /\ \A j \in 1 .. Len(q) - 1 :
              RemoveAt(q, i)[j] = IF j < i THEN q[j] ELSE q[j + 1]
<1> DEFINE front == SubSeq(q, 1, i - 1)
           back == SubSeq(q, i + 1, Len(q))
<1>1. Len(q) \in Nat /\ DOMAIN q = 1 .. Len(q) /\ i \in 1 .. Len(q)
      /\ \A j \in 1 .. Len(q) : q[j] \in T
  BY LenProperties, ElementOfSeq
<1>2. /\ front \in Seq(T) /\ Len(front) = i - 1
      /\ \A j \in 1 .. i - 1 : front[j] = q[j]
  <2>1. \A j \in 1 .. i - 1 : q[j] \in T
    BY <1>1
  <2> QED
    BY <1>1, <2>1, SubSeqProperties
<1>3. /\ back \in Seq(T) /\ Len(back) = Len(q) - i
      /\ \A j \in 1 .. Len(q) - i : back[j] = q[i + j]
  <2>1. \A j \in i + 1 .. Len(q) : q[j] \in T
    BY <1>1
  <2>2. i + 1 \in Int /\ Len(q) \in Int
    BY <1>1
  <2> QED
    BY <1>1, <2>1, <2>2, SubSeqProperties
<1>4. RemoveAt(q, i) = front \o back
  BY DEF RemoveAt
<1> HIDE DEF front, back
<1>5. /\ front \o back \in Seq(T) /\ Len(front \o back) = Len(q) - 1
      /\ \A j \in 1 .. Len(q) - 1 :
           (front \o back)[j] = IF j <= i - 1 THEN front[j] ELSE back[j - (i - 1)]
  <2>1. /\ front \o back \in Seq(T) /\ Len(front \o back) = Len(front) + Len(back)
        /\ \A j \in 1 .. Len(front) + Len(back) :
             (front \o back)[j] = IF j <= Len(front) THEN front[j]
                                  ELSE back[j - Len(front)]
    BY <1>2, <1>3, ConcatProperties
  <2>2. Len(front) + Len(back) = Len(q) - 1
    BY <1>1, <1>2, <1>3
  <2> QED
    BY <1>2, <2>1, <2>2
<1>6. DOMAIN RemoveAt(q, i) = 1 .. Len(q) - 1
  BY <1>4, <1>5, LenProperties
<1>7. ASSUME NEW j \in 1 .. Len(q) - 1
      PROVE  RemoveAt(q, i)[j] = IF j < i THEN q[j] ELSE q[j + 1]
  <2>1. CASE j < i
    BY <1>1, <1>2, <1>4, <1>5, <2>1
  <2>2. CASE j >= i
    <3>1. j - (i - 1) \in 1 .. Len(q) - i /\ i + (j - (i - 1)) = j + 1
      BY <1>1, <2>2
    <3>2. RemoveAt(q, i)[j] = back[j - (i - 1)]
      BY <1>1, <1>4, <1>5, <2>2
    <3> QED
      BY <1>1, <1>3, <2>2, <3>1, <3>2
  <2> QED
    BY <1>1, <2>1, <2>2
<1> QED
  BY <1>4, <1>5, <1>6, <1>7

-----------------------------------------------------------------------------
(* Messages *)

(* A gateway that reads a SUBSCRIBE or REGISTER finds a topic in it.         *)
SoundRequest ==
  {m \in Request : m.type \in {"SUBSCRIBE", "REGISTER"} => m.topic \in Topics}

LEMMA PlainTypes ==
  \A type \in ToGatewayTypes \ {"SUBSCRIBE", "REGISTER"} : Plain(type) \in SoundRequest
<1>1. 0 \in MsgIds /\ 0 \in Qos
  BY LinkAssumption DEF MsgIds, Qos
<1> QED
  BY <1>1 DEF Plain, Request, SoundRequest

LEMMA RequestTypes ==
  ASSUME NEW id \in MsgIds, NEW topic \in Topics, NEW topic_id \in Nat,
         NEW qos \in Qos
  PROVE  /\ SubscribeMsg(id, topic, qos) \in SoundRequest
         /\ RegisterMsg(id, topic) \in SoundRequest
         /\ PublishMsg(id, topic, topic_id, qos) \in SoundRequest
<1>1. 0 \in MsgIds /\ 0 \in Qos
  BY LinkAssumption DEF MsgIds, Qos
<1>2. SubscribeMsg(id, topic, qos) \in SoundRequest
  BY <1>1 DEF SoundRequest, Request, Plain, SubscribeMsg, ToGatewayTypes
<1>3. RegisterMsg(id, topic) \in SoundRequest
  BY <1>1 DEF SoundRequest, Request, Plain, RegisterMsg, ToGatewayTypes
<1>4. PublishMsg(id, topic, topic_id, qos) \in SoundRequest
  BY <1>1 DEF SoundRequest, Request, Plain, PublishMsg, ToGatewayTypes
<1> QED
  BY <1>2, <1>3, <1>4

LEMMA ReplyTypes ==
  ASSUME NEW type \in ToClientTypes, NEW from \in {"gateway", "other"},
         NEW id \in MsgIds, NEW topic_id \in Nat, NEW qos \in Qos,
         NEW code \in ReturnCodes
  PROVE  /\ PlainReply(type, from) \in Reply
         /\ [PlainReply(type, from) EXCEPT !.return_code = code] \in Reply
         /\ [PlainReply(type, from) EXCEPT !.message_id = id, !.qos = qos,
                                           !.topic_id = topic_id] \in Reply
         /\ [PlainReply(type, from) EXCEPT !.message_id = id,
                                           !.return_code = code] \in Reply
         /\ [PlainReply(type, from) EXCEPT !.message_id = id,
                                           !.return_code = code,
                                           !.topic_id = topic_id] \in Reply
         /\ [PlainReply(type, from) EXCEPT !.message_id = id,
                                           !.topic_id = topic_id] \in Reply
         /\ [PlainReply(type, from) EXCEPT !.topic_id = topic_id, !.qos = qos,
                                           !.message_id = id] \in Reply
<1>1. /\ 0 \in MsgIds /\ 0 \in Qos /\ "ACCEPTED" \in ReturnCodes
  BY LinkAssumption DEF MsgIds, Qos, ReturnCodes
<1> QED
  BY <1>1 DEF PlainReply, Reply

-----------------------------------------------------------------------------
(* The inductive type invariant *)

LinkInv ==
  /\ toGateway \in Seq(SoundRequest)
  /\ toClient \in Seq(Reply)
  /\ linkUp \in BOOLEAN
  /\ budget \in [BudgetKinds -> Nat]

(* A call that is under way has a topic, and subscribe() one of three QoS.   *)
CallInv ==
  /\ pc \in Waits \cup {"publish_topic"} => call.topic \in Topics
  /\ pc = "subscribe_idle" => call.qos \in 0 .. 2

GatewayTypeOK == gwSession \in BOOLEAN /\ gwSubs \subseteq Subscriptions

TypeInv == LinkInv /\ ClientTypeOK /\ CallInv /\ GatewayTypeOK

LEMMA TypeInvImpliesTypeOK == TypeInv => TypeOK
<1>1. SoundRequest \subseteq Request
  BY DEF SoundRequest
<1>2. toGateway \in Seq(SoundRequest) => toGateway \in Seq(Request)
  BY <1>1, SeqMonotonic
<1> QED
  BY <1>2 DEF TypeInv, TypeOK, LinkInv, LinkTypeOK, GatewayTypeOK

LEMMA InitTypeInv == Init => TypeInv
<1> SUFFICES ASSUME Init PROVE TypeInv
  OBVIOUS
<1>1. LinkInv
  BY LinkAssumption, EmptySeq DEF Init, LinkInit, LinkInv
<1>2. ClientTypeOK
  <2>1. called \in [topic_id : Nat, names : Seq(Topics \cup {NoTopic})]
    BY EmptySeq DEF Init, ClientInit
  <2>2. pc \in Places /\ await_msg_type \in AwaitTypes /\ tries \in 0 .. Retries
    BY DEF Init, ClientInit, Places, AwaitTypes, Retries
  <2>3. registration \in Registration /\ publish_registration \in Registration
    BY DEF Init, ClientInit, Registration, Unregistered
  <2>4. msg_id_counter \in 1 .. MaxMsgId
    BY LinkAssumption DEF Init, ClientInit
  <2> QED
    BY <2>1, <2>2, <2>3, <2>4 DEF Init, ClientInit, ClientTypeOK, Qos
<1>3. CallInv /\ GatewayTypeOK
  BY DEF Init, ClientInit, GatewayInit, CallInv, GatewayTypeOK, Waits
<1> QED
  BY <1>1, <1>2, <1>3 DEF TypeInv

(* The parts of a step *)

LEMMA TransmitType ==
  ASSUME LinkInv, socket_disconnected \in BOOLEAN, NEW m \in SoundRequest,
         Transmit(m)
  PROVE  /\ toGateway' \in Seq(SoundRequest)
         /\ linkUp' \in BOOLEAN
         /\ socket_disconnected' \in BOOLEAN
<1>1. Append(toGateway, m) \in Seq(SoundRequest)
  BY QueueOps DEF LinkInv
<1> QED
  BY <1>1 DEF Transmit, SocketSend, LinkInv

LEMMA SilentType ==
  ASSUME LinkInv, socket_disconnected \in BOOLEAN, Silent
  PROVE  /\ toGateway' \in Seq(SoundRequest)
         /\ linkUp' \in BOOLEAN
         /\ socket_disconnected' \in BOOLEAN
BY DEF LinkInv, Silent

LEMMA SpendType ==
  ASSUME LinkInv, NEW kind \in BudgetKinds, Spend(kind)
  PROVE  budget' \in [BudgetKinds -> Nat]
BY DEF LinkInv, Spend

LEMMA NextMsgIdType ==
  ASSUME ClientTypeOK
  PROVE  NextMsgId \in 1 .. MaxMsgId /\ NextMsgId \in MsgIds
BY LinkAssumption DEF ClientTypeOK, NextMsgId, MsgIds

LEMMA ReadsType ==
  ASSUME TypeInv, NEW m, Reads(m)
  PROVE  /\ m \in Reply
         /\ toClient' \in Seq(Reply)
         /\ budget' = budget
         /\ pc' \in Places /\ CallInv'
         /\ call' = call /\ tries' = tries
<1>1. m \in Reply /\ toClient' \in Seq(Reply)
  <2>1. CASE DatagramReceive(m)
    BY <2>1, QueueOps DEF TypeInv, LinkInv, DatagramReceive
  <2>2. CASE StreamReceive(m)
    <3>1. PICK n \in DOMAIN toClient :
            m = toClient[1] /\ toClient' = SubSeq(toClient, n + 1, Len(toClient))
      BY <2>2 DEF StreamReceive
    <3>2. 1 \in DOMAIN toClient
      BY <3>1, LenProperties DEF TypeInv, LinkInv
    <3> QED
      BY <3>1, <3>2, QueueOps DEF TypeInv, LinkInv
  <2> QED
    BY <2>1, <2>2 DEF Reads, SocketReceive
<1>2. pc \in Places /\ pc' = AfterPump[pc]
  BY DEF Reads, TypeInv, ClientTypeOK
<1>3. CASE pc \in {"loop_pump", "connect_pump"}
  <2>1. pc' \in {"loop_ping", "connect_check"}
    BY <1>2, <1>3 DEF AfterPump
  <2> QED
    BY <1>1, <2>1 DEF Reads, Places, Waits, CallInv
<1>4. CASE pc \notin {"loop_pump", "connect_pump"}
  <2>1. pc' = pc
    BY <1>2, <1>4 DEF AfterPump
  <2> QED
    BY <1>1, <1>2, <2>1 DEF Reads, TypeInv, CallInv
<1> QED
  BY <1>3, <1>4

(* receiveData() *)

LEMMA ReceiveDataType ==
  ASSUME TypeInv, ReceiveData, UNCHANGED gatewayVars
  PROVE  TypeInv'
<1> USE DEF TypeInv, ClientTypeOK, LinkInv, sessionVars, topicVars, GatewayTypeOK,
        gatewayVars
<1>1. PICK m \in ToSet(toClient) :
        \/ Ignore(m) \/ ParsePingreq(m) \/ ParsePingresp(m) \/ ParseConnack(m)
        \/ ParseSuback(m) \/ ParseRegack(m) \/ ParsePublish(m)
  BY DEF ReceiveData
<1>2. Plain("PINGRESP") \in SoundRequest /\ Plain("DISCONNECT") \in SoundRequest
  BY PlainTypes DEF ToGatewayTypes
<1>3. CASE Ignore(m)
  BY <1>3, ReadsType, SilentType DEF Ignore
<1>4. CASE ParsePingreq(m)
  BY <1>2, <1>4, ReadsType, SilentType, TransmitType DEF ParsePingreq
<1>5. CASE ParsePingresp(m)
  BY <1>5, ReadsType, SilentType DEF ParsePingresp, AwaitTypes
<1>6. CASE ParseConnack(m)
  BY <1>2, <1>6, ReadsType, SilentType, TransmitType DEF ParseConnack, AwaitTypes
<1>7. CASE ParseSuback(m)
  <2>1. m \in Reply
    BY <1>7, ReadsType DEF ParseSuback
  <2>2. m.topic_id \in Nat /\ m.qos % 256 \in 0 .. 255
    <3>1. \A q \in Int : q % 256 \in 0 .. 255
      OBVIOUS
    <3>2. m.topic_id \in Nat /\ m.qos \in Int
      BY <2>1 DEF Reply, Qos
    <3> QED
      BY <3>1, <3>2
  <2>3. registration' \in Registration
    <3>2. registration.topic_id \in Nat
      BY DEF Registration
    <3> DEFINE id == IF await_topic_id THEN m.topic_id ELSE registration.topic_id
               granted == m.qos % 256
    <3>3. id \in Nat /\ granted \in 0 .. 255
      BY <2>2, <3>2
    <3>4. \/ registration' = [registration EXCEPT !.topic_id = id,
                                                 !.granted_qos = granted]
          \/ registration' = registration
      BY <1>7 DEF ParseSuback
    <3> HIDE DEF id, granted
    <3>5. [registration EXCEPT !.topic_id = id, !.granted_qos = granted]
            \in Registration
      BY <3>3 DEF Registration
    <3> QED
      BY <3>4, <3>5
  <2> QED
    BY <1>7, <2>3, ReadsType, SilentType DEF ParseSuback, AwaitTypes
<1>8. CASE ParseRegack(m)
  <2>1. m \in Reply
    BY <1>8, ReadsType DEF ParseRegack
  <2>2. m.topic_id \in Nat
    BY <2>1 DEF Reply
  <2>3. publish_registration' \in Registration
    <3>1. \A id \in Nat :
            [publish_registration EXCEPT !.topic_id = id] \in Registration
      BY DEF Registration
    <3> DEFINE id == IF m.return_code = "ACCEPTED" THEN m.topic_id ELSE 0
    <3>2. id \in Nat
      BY <2>2
    <3>3. \/ publish_registration' = [publish_registration EXCEPT !.topic_id = id]
          \/ publish_registration' = publish_registration
      BY <1>8 DEF ParseRegack
    <3> HIDE DEF id
    <3> QED
      BY <3>1, <3>2, <3>3
  <2> QED
    BY <1>8, <2>3, ReadsType, SilentType DEF ParseRegack, AwaitTypes
<1>9. CASE ParsePublish(m)
  <2>1. m \in Reply
    BY <1>9, ReadsType DEF ParsePublish
  <2>2. CallbackNames(m.topic_id, m.qos) \in Seq(Topics \cup {NoTopic})
    <3> DEFINE T == Topics \cup {NoTopic}
    <3>1. publish_registration.topic_name \in T /\ registration.topic_name \in T
      BY DEF Registration
    <3>2. <<publish_registration.topic_name>> \in Seq(T)
          /\ <<registration.topic_name>> \in Seq(T) /\ <<>> \in Seq(T)
      BY <3>1
    <3> HIDE DEF T
    <3>3. CallbackNames(m.topic_id, m.qos) \in Seq(T)
      BY <3>2, ConcatProperties DEF CallbackNames
    <3> QED
      BY <3>3 DEF T
  <2>3. called' \in [topic_id : Nat, names : Seq(Topics \cup {NoTopic})]
    BY <1>9, <2>1, <2>2 DEF ParsePublish, Reply
  <2> QED
    BY <1>9, <2>3, ReadsType, SilentType DEF ParsePublish
<1> QED
  BY <1>1, <1>3, <1>4, <1>5, <1>6, <1>7, <1>8, <1>9

(* The calls of the sketch, and what the thread does by itself               *)

LEMMA SketchCallsType ==
  ASSUME TypeInv, SketchCalls, UNCHANGED gatewayVars
  PROVE  TypeInv'
<1> USE DEF TypeInv, ClientTypeOK, LinkInv, sessionVars, topicVars, GatewayTypeOK,
        gatewayVars
<1>1. "call" \in BudgetKinds
  BY DEF BudgetKinds
<1>2. CASE Connect
  <2>1. Plain("CONNECT") \in SoundRequest
    BY PlainTypes DEF ToGatewayTypes
  <2>2. Transmit(Plain("CONNECT")) /\ pc' = "connect_pump" /\ await_msg_type' = "CONNACK"
    BY <1>2 DEF Connect, SendConnect
  <2>3. CallInv' /\ pc' \in Places
    BY <2>2 DEF CallInv, Waits, Places
  <2>4. call'.op = "connect" /\ call' \in [op : {"connect"}, topic : {NoTopic},
                                          qos : {0}, returned : {"no"}]
    BY <1>2 DEF Connect, Begin
  <2> QED
    BY <1>1, <1>2, <2>1, <2>2, <2>3, <2>4, TransmitType, SpendType
       DEF Connect, AwaitTypes, Retries, Qos
<1>3. ASSUME NEW topic \in SubTopics, NEW qos \in AppQos \ {-1}, Subscribe(topic, qos)
      PROVE  TypeInv'
  <2>1. topic \in Topics /\ qos \in 0 .. 2 /\ qos \in Qos
    BY ClientAssumption DEF Qos
  <2>2. CallInv' /\ pc' \in Places
    BY <1>3, <2>1 DEF Subscribe, Begin, CallInv, Waits, Places
  <2> QED
    BY <1>1, <1>3, <2>1, <2>2, SilentType, SpendType DEF Subscribe, Begin
<1>4. ASSUME NEW topic \in PubTopics, NEW qos \in AppQos, Publish(topic, qos)
      PROVE  TypeInv'
  <2>1. topic \in Topics /\ qos \in Qos
    BY ClientAssumption
  <2>2. CallInv' /\ pc' \in Places
    BY <1>4, <2>1 DEF Publish, Begin, CallInv, Waits, Places
  <2> QED
    BY <1>1, <1>4, <2>1, <2>2, SilentType, SpendType DEF Publish, Begin
<1>5. ASSUME NEW topic \in PubTopics, NEW qos \in AppQos, PublishRefused(topic, qos)
      PROVE  TypeInv'
  <2>1. topic \in Topics /\ qos \in Qos
    BY ClientAssumption
  <2>2. CallInv'
    BY <1>5 DEF PublishRefused, InSketch, CallInv, Waits
  <2> QED
    BY <1>1, <1>5, <2>1, <2>2, SilentType, SpendType DEF PublishRefused
<1> QED
  BY <1>2, <1>3, <1>4, <1>5 DEF SketchCalls

LEMMA ReturnType ==
  ASSUME TypeInv, NEW ok \in BOOLEAN, Return(ok)
  PROVE  /\ pc' \in Places /\ pc' = "app" /\ CallInv'
         /\ call' \in [op : {"none", "connect", "subscribe", "publish"},
                       topic : Topics \cup {NoTopic}, qos : Qos,
                       returned : {"no", "true", "false"}]
BY DEF TypeInv, ClientTypeOK, Return, CallInv, Waits, Places

LEMMA SendPublishType ==
  ASSUME TypeInv, call.topic \in Topics, NEW topic_id \in Nat, SendPublish(topic_id)
  PROVE  /\ toGateway' \in Seq(SoundRequest)
         /\ linkUp' \in BOOLEAN
         /\ socket_disconnected' \in BOOLEAN
         /\ publish_registration' \in Registration
         /\ msg_id_counter' \in 1 .. MaxMsgId
         /\ await_msg_type' \in AwaitTypes
         /\ pc' \in Places /\ CallInv'
         /\ call' \in [op : {"none", "connect", "subscribe", "publish"},
                       topic : Topics \cup {NoTopic}, qos : Qos,
                       returned : {"no", "true", "false"}]
<1> USE DEF TypeInv, ClientTypeOK
<1>1. CASE topic_id = 0
  BY <1>1, ReturnType, SilentType DEF SendPublish
<1>2. CASE topic_id # 0
  <2> DEFINE id == IF call.qos = 0 THEN 0 ELSE NextMsgId
  <2>1. id \in MsgIds /\ NextMsgId \in 1 .. MaxMsgId
    BY NextMsgIdType, LinkAssumption DEF MsgIds
  <2>2. PublishMsg(id, call.topic, topic_id, call.qos) \in SoundRequest
    BY <2>1, RequestTypes
  <2>3. Transmit(PublishMsg(id, call.topic, topic_id, call.qos))
    BY <1>2 DEF SendPublish
  <2>4. publish_registration' \in Registration
    BY <1>2 DEF SendPublish, PublishRegistrationAfter, Registration
  <2>5. CASE call.qos > 0
    <3>1. pc' = "publish_ack" /\ call' = call
      BY <1>2, <2>5 DEF SendPublish
    <3> QED
      BY <1>2, <2>1, <2>2, <2>3, <2>4, <3>1, TransmitType
         DEF SendPublish, AwaitTypes, Places, Waits, CallInv
  <2>6. CASE ~(call.qos > 0)
    BY <1>2, <2>1, <2>2, <2>3, <2>4, <2>6, TransmitType, ReturnType
       DEF SendPublish, AwaitTypes
  <2> QED
    BY <2>5, <2>6
<1> QED
  BY <1>1, <1>2

LEMMA ConnectBeatType ==
  ASSUME TypeInv, ConnectBeat, UNCHANGED gatewayVars
  PROVE  TypeInv'
<1> USE DEF TypeInv, ClientTypeOK, LinkInv, sessionVars, topicVars, GatewayTypeOK,
        gatewayVars
<1>1. CASE tries < Retries /\ SendConnect /\ tries' = tries + 1 /\ call' = call
  <2>1. Plain("CONNECT") \in SoundRequest
    BY PlainTypes DEF ToGatewayTypes
  <2>2. CallInv' /\ pc' \in Places
    BY <1>1 DEF SendConnect, CallInv, Waits, Places
  <2>3. tries' \in 0 .. Retries
    BY <1>1 DEF Retries
  <2> QED
    BY <1>1, <2>1, <2>2, <2>3, TransmitType DEF ConnectBeat, SendConnect, AwaitTypes
<1>2. CASE tries = Retries /\ ConnectReturns(FALSE)
  BY <1>2, ReturnType, SilentType DEF ConnectBeat, ConnectReturns
<1> QED
  BY <1>1, <1>2 DEF ConnectBeat

LEMMA SendSubscribeType ==
  ASSUME TypeInv, SendSubscribe, UNCHANGED gatewayVars
  PROVE  TypeInv'
<1> USE DEF TypeInv, ClientTypeOK, LinkInv, sessionVars, topicVars, GatewayTypeOK,
        gatewayVars
<1>1. call.topic \in Topics /\ call.qos \in 0 .. 2 /\ call.qos \in Qos
  BY DEF SendSubscribe, CallInv, Waits, Qos
<1>2. PICK qos \in SentQos(call.qos) :
        Transmit(SubscribeMsg(NextMsgId, call.topic, qos))
  BY DEF SendSubscribe
<1>3. qos \in Qos
  BY <1>1, <1>2 DEF SentQos, Qos
<1>4. SubscribeMsg(NextMsgId, call.topic, qos) \in SoundRequest
  BY <1>1, <1>3, NextMsgIdType, RequestTypes, LinkAssumption
<1>5. registration' \in Registration
  BY <1>1 DEF SendSubscribe, NewRegistration, Registration
<1>6. pc' = "subscribe_ack" /\ pc' \in Places /\ CallInv'
  BY <1>1 DEF SendSubscribe, CallInv, Places, Waits
<1> QED
  BY <1>2, <1>4, <1>5, <1>6, TransmitType, NextMsgIdType DEF SendSubscribe, AwaitTypes

LEMMA SendRegisterType ==
  ASSUME TypeInv, SendRegister, UNCHANGED gatewayVars
  PROVE  TypeInv'
<1> USE DEF TypeInv, ClientTypeOK, LinkInv, sessionVars, topicVars, GatewayTypeOK,
        gatewayVars
<1>1. call.topic \in Topics
  BY DEF SendRegister, CallInv, Waits
<1>2. RegisterMsg(NextMsgId, call.topic) \in SoundRequest
  BY <1>1, NextMsgIdType, RequestTypes, LinkAssumption DEF Qos
<1>3. publish_registration' \in Registration
  BY <1>1 DEF SendRegister, Registration
<1>4. pc' = "register_ack" /\ pc' \in Places /\ CallInv'
  BY <1>1 DEF SendRegister, CallInv, Places, Waits
<1> QED
  BY <1>2, <1>3, <1>4, TransmitType, NextMsgIdType DEF SendRegister, AwaitTypes

LEMMA ContinuesType ==
  ASSUME TypeInv, Continues, UNCHANGED gatewayVars
  PROVE  TypeInv'
<1> USE DEF TypeInv, ClientTypeOK, LinkInv, sessionVars, topicVars, GatewayTypeOK,
        gatewayVars, linkVars
<1>1. CASE PumpNothing
  <2>1. pc' \in {"loop_ping", "connect_check"}
    BY <1>1 DEF PumpNothing, AfterPump, Places
  <2> QED
    BY <1>1, <2>1 DEF PumpNothing, Places, Waits, CallInv
<1>2. CASE PumpFails
  BY <1>2, ReturnType DEF PumpFails
<1>3. CASE ConnectCheck
  <2>1. CASE \E ok \in BOOLEAN : ConnectReturns(ok)
    BY <1>3, <2>1, ReturnType, SilentType DEF ConnectCheck, ConnectReturns
  <2>2. CASE pc' = "connect_pump" /\ Silent /\ UNCHANGED <<call, tries, await_msg_type>>
    BY <1>3, <2>2, SilentType DEF ConnectCheck, Places, Waits, CallInv
  <2> QED
    BY <1>3, <2>1, <2>2 DEF ConnectCheck
<1>4. CASE SendSubscribe
  BY <1>4, SendSubscribeType
<1>5. CASE SubscribeReturns
  BY <1>5, ReturnType, SilentType DEF SubscribeReturns
<1>6. CASE PublishIdle
  <2>1. pc' \in Places /\ CallInv'
    BY <1>6 DEF PublishIdle, Places, Waits, CallInv
  <2> QED
    BY <1>6, <2>1, SilentType DEF PublishIdle
<1>7. CASE PublishRegistered
  <2>1. call.topic \in Topics
    BY <1>7 DEF PublishRegistered, CallInv
  <2>2. RegisteredId(call.topic) \in Nat
    BY DEF RegisteredId, Registration
  <2> QED
    BY <1>7, <2>1, <2>2, SendPublishType DEF PublishRegistered
<1>8. CASE PublishUnregistered
  <2>1. pc' \in Places /\ CallInv'
    BY <1>8 DEF PublishUnregistered, Places, Waits, CallInv
  <2> QED
    BY <1>8, <2>1, SilentType DEF PublishUnregistered
<1>9. CASE PublishReturns
  BY <1>9, ReturnType, SilentType DEF PublishReturns
<1>10. CASE SendRegister
  BY <1>10, SendRegisterType
<1>11. CASE RegisterReturns
  <2>1. call.topic \in Topics
    BY <1>11 DEF RegisterReturns, CallInv, Waits
  <2>2. publish_registration.topic_id \in Nat
    BY DEF Registration
  <2> QED
    BY <1>11, <2>1, <2>2, SendPublishType DEF RegisterReturns
<1>12. CASE Loop
  <2>1. pc' \in Places /\ CallInv' /\ await_msg_type' \in AwaitTypes
    BY <1>12 DEF Loop, InSketch, Places, Waits, CallInv, AwaitTypes
  <2> QED
    BY <1>12, <2>1, SilentType DEF Loop
<1>13. ASSUME NEW beat \in BOOLEAN, LoopPing(beat) PROVE TypeInv'
  <2>1. Plain("PINGREQ") \in SoundRequest
    BY PlainTypes DEF ToGatewayTypes
  <2>2. pc' \in Places /\ CallInv' /\ await_msg_type' \in AwaitTypes
    BY <1>13 DEF LoopPing, Places, Waits, CallInv, AwaitTypes
  <2> QED
    BY <1>13, <2>1, <2>2, SilentType, TransmitType DEF LoopPing
<1> QED
  BY <1>1, <1>2, <1>3, <1>4, <1>5, <1>6, <1>7, <1>8, <1>9, <1>10, <1>11, <1>12,
     <1>13 DEF Continues

(* The gateway and the network *)

LEMMA GwTakesType ==
  ASSUME TypeInv, NEW m, GwTakes(m)
  PROVE  /\ m \in SoundRequest
         /\ toGateway' \in Seq(SoundRequest)
         /\ linkUp' = linkUp /\ budget' = budget
         /\ ClientTypeOK' /\ CallInv'
<1>1. ClientTypeOK' /\ CallInv'
  BY DEF TypeInv, GwTakes, clientVars, ClientTypeOK, CallInv
<1> QED
  BY <1>1, QueueOps DEF TypeInv, LinkInv, GwTakes

LEMMA SendType ==
  ASSUME TypeInv, NEW r \in Reply, Send(r)
  PROVE  toClient' \in Seq(Reply)
BY QueueOps DEF TypeInv, LinkInv, Send

LEMMA GatewayType ==
  ASSUME TypeInv, Gateway
  PROVE  TypeInv'
<1> USE DEF GatewayTypeOK, gatewayVars
<1>1. PICK m \in ToSet(toGateway) :
        \/ GwConnect(m) \/ GwNoSession(m) \/ GwSubscribe(m) \/ GwRegister(m)
        \/ GwPublish(m) \/ GwPing(m) \/ GwPingresp(m) \/ GwDisconnect(m)
  BY DEF Gateway
<1>2. GwTakes(m)
  BY <1>1 DEF GwConnect, GwNoSession, GwSubscribe, GwRegister, GwPublish, GwPing,
     GwPingresp, GwDisconnect
<1>3. m \in SoundRequest /\ m.message_id \in MsgIds /\ m.topic_id \in Nat /\ m.qos \in Qos
  <2>1. m \in SoundRequest
    BY <1>2, GwTakesType
  <2> QED
    BY <2>1 DEF SoundRequest, Request
<1>4. /\ "ACCEPTED" \in ReturnCodes
      /\ 0 \in MsgIds /\ 0 \in Qos /\ 0 \in Nat
      /\ {"CONNACK", "SUBACK", "REGACK", "PUBACK", "PINGRESP", "DISCONNECT"}
           \subseteq ToClientTypes
  BY LinkAssumption DEF ReturnCodes, MsgIds, Qos, ToClientTypes
<1>5. SUFFICES toClient' \in Seq(Reply) /\ GatewayTypeOK'
  BY <1>2, GwTakesType DEF TypeInv, LinkInv
<1>6. CASE GwConnect(m)
  <2>1. PICK code \in ConnackCodes :
          /\ Send([PlainReply("CONNACK", "gateway") EXCEPT !.return_code = code])
          /\ IF code = "ACCEPTED" THEN gwSession' = TRUE /\ gwSubs' = {}
                                  ELSE UNCHANGED gatewayVars
    BY <1>6 DEF GwConnect
  <2>2. code \in ReturnCodes
    BY GatewayAssumption
  <2>3. [PlainReply("CONNACK", "gateway") EXCEPT !.return_code = code] \in Reply
    BY <1>4, <2>2, ReplyTypes
  <2> QED
    BY <2>1, <2>3, SendType DEF TypeInv
<1>7. CASE GwNoSession(m)
  <2>1. PlainReply("DISCONNECT", "gateway") \in Reply
    BY <1>4, ReplyTypes
  <2> QED
    BY <1>7, <2>1, SendType DEF GwNoSession, TypeInv, LinkInv
<1>8. CASE GwSubscribe(m)
  <2>1. m.topic \in Topics
    BY <1>3, <1>8 DEF GwSubscribe, SoundRequest
  <2>2. ASSUME NEW granted \in 0 .. m.qos,
               Send([PlainReply("SUBACK", "gateway") EXCEPT
                       !.message_id = m.message_id, !.qos = granted,
                       !.topic_id = TopicIdOf[m.topic]]),
               gwSubs' = Granted(m, granted)
        PROVE  toClient' \in Seq(Reply) /\ gwSubs' \subseteq Subscriptions
    <3>1. granted \in 0 .. 2 /\ granted \in Qos
      BY <1>3 DEF Qos
    <3>2. TopicIdOf[m.topic] \in Nat
      BY <2>1, GatewayAssumption
    <3>3. [PlainReply("SUBACK", "gateway") EXCEPT
             !.message_id = m.message_id, !.qos = granted,
             !.topic_id = TopicIdOf[m.topic]] \in Reply
      BY <1>3, <1>4, <3>1, <3>2, ReplyTypes
    <3>4. Granted(m, granted) \subseteq Subscriptions
      BY <2>1, <3>1 DEF Granted, Subscriptions, TypeInv
    <3> QED
      BY <2>2, <3>3, <3>4, SendType
  <2>3. ASSUME NEW code \in SubackCodes(m),
               Send([PlainReply("SUBACK", "gateway") EXCEPT
                       !.message_id = m.message_id, !.return_code = code])
        PROVE  toClient' \in Seq(Reply)
    <3>1. code \in ReturnCodes
      BY GatewayAssumption DEF SubackCodes, ReturnCodes
    <3>2. [PlainReply("SUBACK", "gateway") EXCEPT
             !.message_id = m.message_id, !.return_code = code] \in Reply
      BY <1>3, <1>4, <3>1, ReplyTypes
    <3> QED
      BY <2>3, <3>2, SendType
  <2> QED
    BY <1>8, <2>2, <2>3 DEF GwSubscribe, TypeInv
<1>9. CASE GwRegister(m)
  <2>1. m.topic \in Topics
    BY <1>3, <1>9 DEF GwRegister, SoundRequest
  <2>2. PICK code \in AckCodes :
          Send([PlainReply("REGACK", "gateway") EXCEPT
                  !.message_id = m.message_id, !.return_code = code,
                  !.topic_id = IF code = "ACCEPTED" THEN TopicIdOf[m.topic] ELSE 0])
    BY <1>9 DEF GwRegister
  <2> DEFINE id == IF code = "ACCEPTED" THEN TopicIdOf[m.topic] ELSE 0
  <2>3. id \in Nat /\ code \in ReturnCodes
    BY <2>1, GatewayAssumption
  <2>4. [PlainReply("REGACK", "gateway") EXCEPT
           !.message_id = m.message_id, !.return_code = code, !.topic_id = id] \in Reply
    <3> HIDE DEF id
    <3> QED
      BY <1>3, <1>4, <2>3, ReplyTypes
  <2> QED
    BY <1>9, <2>2, <2>4, SendType DEF GwRegister, TypeInv
<1>10. CASE GwPublish(m)
  <2>1. [PlainReply("PUBACK", "gateway") EXCEPT
           !.message_id = m.message_id, !.topic_id = m.topic_id] \in Reply
    BY <1>3, <1>4, ReplyTypes
  <2> QED
    BY <1>10, <2>1, SendType DEF GwPublish, TypeInv, LinkInv
<1>11. CASE GwPing(m)
  <2>1. PlainReply("PINGRESP", "gateway") \in Reply
    BY <1>4, ReplyTypes
  <2> QED
    BY <1>11, <2>1, SendType DEF GwPing, TypeInv
<1>12. CASE GwPingresp(m)
  BY <1>12 DEF GwPingresp, TypeInv, LinkInv
<1>13. CASE GwDisconnect(m)
  <2>1. PlainReply("DISCONNECT", "gateway") \in Reply
    BY <1>4, ReplyTypes
  <2> QED
    BY <1>13, <2>1, SendType DEF GwDisconnect
<1> QED
  BY <1>1, <1>6, <1>7, <1>8, <1>9, <1>10, <1>11, <1>12, <1>13

LEMMA UnsolicitedType ==
  ASSUME TypeInv, GwPush \/ Noise
  PROVE  TypeInv'
<1>1. "push" \in BudgetKinds
  BY DEF BudgetKinds
<1>2. SUFFICES toClient' \in Seq(Reply)
  <2>1. ClientTypeOK' /\ CallInv'
    BY DEF TypeInv, GwPush, Noise, clientVars, ClientTypeOK, CallInv
  <2>2. budget' \in [BudgetKinds -> Nat]
    BY <1>1, SpendType DEF GwPush, Noise, TypeInv
  <2> QED
    BY <1>2, <2>1, <2>2 DEF TypeInv, LinkInv, GatewayTypeOK, GwPush, Noise, gatewayVars
<1>3. ASSUME NEW s \in gwSubs, NEW qos \in 0 .. s.qos, Send(Forwarded(s, qos))
      PROVE  toClient' \in Seq(Reply)
  <2>1. s.topic \in Topics /\ s.qos \in 0 .. 2
    BY DEF TypeInv, GatewayTypeOK, Subscriptions
  <2> DEFINE id == IF qos = 0 THEN 0 ELSE 1
  <2>2. qos \in Qos /\ TopicIdOf[s.topic] \in Nat /\ id \in MsgIds
        /\ "PUBLISH" \in ToClientTypes /\ "ACCEPTED" \in ReturnCodes
    BY <2>1, GatewayAssumption, LinkAssumption
       DEF Qos, MsgIds, ToClientTypes, ReturnCodes
  <2>3. Forwarded(s, qos) =
          [PlainReply("PUBLISH", "gateway") EXCEPT
             !.topic_id = TopicIdOf[s.topic], !.qos = qos, !.message_id = id]
    BY DEF Forwarded
  <2> HIDE DEF id
  <2>4. [PlainReply("PUBLISH", "gateway") EXCEPT
           !.topic_id = TopicIdOf[s.topic], !.qos = qos, !.message_id = id] \in Reply
    BY <2>2, ReplyTypes
  <2>5. Forwarded(s, qos) \in Reply
    BY <2>3, <2>4
  <2> QED
    BY <1>3, <2>5, SendType
<1>4. ASSUME NEW type \in {"PINGREQ", "ADVERTISE", "CONNACK", "PINGRESP"},
             NEW from \in {"gateway", "other"}, Send(PlainReply(type, from))
      PROVE  toClient' \in Seq(Reply)
  <2>1. /\ type \in ToClientTypes /\ 0 \in MsgIds /\ 0 \in Nat /\ 0 \in Qos
        /\ "ACCEPTED" \in ReturnCodes
    BY LinkAssumption DEF ToClientTypes, MsgIds, Qos, ReturnCodes
  <2>2. PlainReply(type, from) \in Reply
    BY <2>1, ReplyTypes
  <2> QED
    BY <1>4, <2>2, SendType
<1> QED
  BY <1>3, <1>4 DEF GwPush, Noise

LEMMA NetworkType ==
  ASSUME TypeInv, Network \/ LinkDrop
  PROVE  TypeInv'
<1> USE DEF TypeInv, LinkInv
<1>1. ClientTypeOK' /\ CallInv'
  BY DEF Network, LinkDrop, clientVars, ClientTypeOK, CallInv
<1>2. budget' \in [BudgetKinds -> Nat]
  BY SpendType DEF Network, Lose, Duplicate, LinkDrop, BudgetKinds
<1>3. CASE LinkDrop
  <2>1. <<>> \in Seq(SoundRequest) /\ <<>> \in Seq(Reply)
    BY EmptySeq
  <2> QED
    BY <1>1, <1>2, <1>3, <2>1 DEF LinkDrop, GatewayTypeOK
<1>4. CASE Network
  <2>1. toGateway' \in Seq(SoundRequest)
    <3>1. ASSUME NEW i \in DOMAIN toGateway
          PROVE  /\ RemoveAt(toGateway, i) \in Seq(SoundRequest)
                 /\ Append(toGateway, toGateway[i]) \in Seq(SoundRequest)
      BY QueueOps
    <3> QED
      BY <1>4, <3>1 DEF Network, Lose, Duplicate
  <2>2. toClient' \in Seq(Reply)
    <3>1. ASSUME NEW i \in DOMAIN toClient
          PROVE  /\ RemoveAt(toClient, i) \in Seq(Reply)
                 /\ Append(toClient, toClient[i]) \in Seq(Reply)
      BY QueueOps
    <3> QED
      BY <1>4, <3>1 DEF Network, Lose, Duplicate
  <2> QED
    BY <1>1, <1>2, <1>4, <2>1, <2>2
       DEF Network, Lose, Duplicate, GatewayTypeOK, gatewayVars
<1> QED
  BY <1>3, <1>4

LEMMA NextTypeInv == TypeInv /\ [Next]_vars => TypeInv'
<1> SUFFICES ASSUME TypeInv, [Next]_vars PROVE TypeInv'
  OBVIOUS
<1>1. CASE UNCHANGED vars
  BY <1>1 DEF vars, clientVars, linkVars, gatewayVars, TypeInv, LinkInv,
     ClientTypeOK, CallInv, GatewayTypeOK
<1>2. CASE Next
  BY <1>2, SketchCallsType, ContinuesType, ConnectBeatType, ReceiveDataType,
     GatewayType, UnsolicitedType, NetworkType DEF Next, ClientNext
<1> QED
  BY <1>1, <1>2

(* Every variable keeps its type, whatever the network and the gateway do:   *)
(* in particular msg_id_counter, which wraps, is never 0.                    *)
THEOREM TypeCorrect == Spec => []TypeOK
<1>1. Spec => []TypeInv
  BY InitTypeInv, NextTypeInv, PTL DEF Spec
<1> QED
  BY <1>1, TypeInvImpliesTypeOK, PTL

-----------------------------------------------------------------------------
(* One loss does not make connect() fail                                     *)
(*                                                                         *)
(* connect() waits for what is under way before it tries again, so that its *)
(* second try is only made once the loss has happened; from then on, the    *)
(* CONNECT or the CONNACK that answers it is in one of the queues until the *)
(* client has read it, and no try ends without it.                          *)

(* The network may reorder and duplicate as it likes, but loses at most one  *)
(* datagram; the gateway accepts; the 5 s of a try suffice for an answer.    *)
OneLoss ==
  /\ Transport = "datagram"
  /\ ~SendMayFail
  /\ ~PrematureTimeout
  /\ ConnackCodes \subseteq {"ACCEPTED"}
  /\ Budget["lose"] <= 1

Holds(q, S) == \E i \in DOMAIN q : q[i] \in S

Asking == {m \in SoundRequest : m.type = "CONNECT"}

ConnackOfGateway == {r \in Reply : r.type = "CONNACK" /\ r.from = "gateway"}

AcceptingReply ==
  {r \in Reply : r \in ConnackOfGateway => r.return_code = "ACCEPTED"}

UnderWay == Holds(toGateway, Asking) \/ Holds(toClient, ConnackOfGateway)

WithinConnect == pc \in {"connect_pump", "connect_check"} /\ ~mqttsn_connected

Publishing == pc \in {"publish_idle", "publish_topic", "publish_ack",
                      "register_idle", "register_ack"}

(* The second try starts with the loss behind it.                            *)
TryInv ==
  /\ await_msg_type = "CONNACK"
  /\ \/ tries = 1 /\ UnderWay
     \/ tries = 1 /\ budget["lose"] = 0
     \/ tries = 2 /\ budget["lose"] = 0 /\ UnderWay

LossInv ==
  /\ linkUp /\ ~socket_disconnected
  /\ budget["lose"] <= 1
  /\ toClient \in Seq(AcceptingReply)

ReturnInv == ConnectSurvivesOneLoss /\ (Publishing => call.op = "publish")

ConnectInv == LossInv /\ ReturnInv /\ (WithinConnect => TryInv)

LEMMA HoldsOps ==
  ASSUME NEW T, NEW q \in Seq(T), NEW S
  PROVE  /\ \A e \in T : Holds(q, S) \/ e \in S => Holds(Append(q, e), S)
         /\ \A i \in DOMAIN q : Holds(q, S) /\ q[i] \notin S => Holds(RemoveAt(q, i), S)
<1>1. Len(q) \in Nat /\ DOMAIN q = 1 .. Len(q)
  BY LenProperties
<1>2. ASSUME NEW e \in T, Holds(q, S) \/ e \in S
      PROVE  Holds(Append(q, e), S)
  <2>1. /\ Append(q, e) \in Seq(T) /\ Len(Append(q, e)) = Len(q) + 1
        /\ \A i \in 1 .. Len(q) : Append(q, e)[i] = q[i]
        /\ Append(q, e)[Len(q) + 1] = e
    BY AppendProperties
  <2>2. DOMAIN Append(q, e) = 1 .. Len(q) + 1
    BY <2>1, LenProperties
  <2>3. CASE Holds(q, S)
    <3>1. PICK i \in 1 .. Len(q) : q[i] \in S
      BY <1>1, <2>3 DEF Holds
    <3>2. i \in DOMAIN Append(q, e) /\ Append(q, e)[i] \in S
      BY <1>1, <2>1, <2>2, <3>1
    <3> QED
      BY <3>2 DEF Holds
  <2>4. CASE e \in S
    <3>1. Len(q) + 1 \in DOMAIN Append(q, e) /\ Append(q, e)[Len(q) + 1] \in S
      BY <1>1, <2>1, <2>2, <2>4
    <3> QED
      BY <3>1 DEF Holds
  <2> QED
    BY <1>2, <2>3, <2>4
<1>3. ASSUME NEW i \in DOMAIN q, Holds(q, S), q[i] \notin S
      PROVE  Holds(RemoveAt(q, i), S)
  <2>1. PICK j \in DOMAIN q : q[j] \in S
    BY <1>3 DEF Holds
  <2> DEFINE k == IF j < i THEN j ELSE j - 1
  <2>2. j # i /\ j \in 1 .. Len(q) /\ i \in 1 .. Len(q)
    BY <1>1, <1>3, <2>1
  <2>3. k \in 1 .. Len(q) - 1 /\ (IF k < i THEN q[k] ELSE q[k + 1]) = q[j]
    BY <1>1, <2>2
  <2> HIDE DEF k
  <2>4. k \in DOMAIN RemoveAt(q, i) /\ RemoveAt(q, i)[k] = q[j]
    BY <2>3, Removed
  <2> QED
    BY <2>1, <2>4 DEF Holds
<1> QED
  BY <1>2, <1>3

LEMMA HoldsNot ==
  ASSUME NEW S
  PROVE  ~Holds(<<>>, S)
BY DEF Holds

LEMMA ConnackSent ==
  /\ Plain("CONNECT") \in Asking
  /\ AcceptingReply \subseteq Reply
<1>1. Plain("CONNECT") \in SoundRequest
  BY PlainTypes DEF ToGatewayTypes
<1> QED
  BY <1>1 DEF Asking, AcceptingReply, Plain

(* Without failures a send appends its message.                              *)
LEMMA SendsNothingLost ==
  ASSUME OneLoss, TypeInv, LossInv, NEW S,
         Silent \/ (\E m \in SoundRequest : Transmit(m))
  PROVE  /\ linkUp' /\ ~socket_disconnected'
         /\ Holds(toGateway, S) => Holds(toGateway, S)'
<1>1. CASE Silent
  BY <1>1 DEF Silent, LossInv
<1>2. ASSUME NEW m \in SoundRequest, Transmit(m)
      PROVE  /\ linkUp' /\ ~socket_disconnected'
             /\ Holds(toGateway, S) => Holds(toGateway, S)'
  <2>1. toGateway' = Append(toGateway, m) /\ linkUp' = TRUE
        /\ socket_disconnected' = (socket_disconnected \/ FALSE)
    BY <1>2 DEF Transmit, SocketSend, OneLoss
  <2>2. Holds(toGateway, S) => Holds(Append(toGateway, m), S)
    BY HoldsOps DEF TypeInv, LinkInv
  <2> QED
    BY <2>1, <2>2 DEF LossInv
<1> QED
  BY <1>1, <1>2

(* A step that neither reads nor loses anything, outside connect()           *)
LEMMA OutsideConnect ==
  ASSUME OneLoss, TypeInv, ConnectInv, ReturnInv',
         Silent \/ (\E m \in SoundRequest : Transmit(m)),
         toClient' = toClient, budget'["lose"] = budget["lose"],
         mqttsn_connected' \/ pc' \notin {"connect_pump", "connect_check"}
  PROVE  ConnectInv'
<1>1. LossInv'
  BY SendsNothingLost DEF ConnectInv, LossInv
<1>2. ~WithinConnect'
  BY DEF WithinConnect
<1> QED
  BY <1>1, <1>2 DEF ConnectInv

LEMMA InitConnect == OneLoss /\ Init => ConnectInv
<1> SUFFICES ASSUME OneLoss, Init PROVE ConnectInv
  OBVIOUS
<1>1. LossInv
  <2>1. toClient \in Seq(AcceptingReply)
    BY EmptySeq DEF Init, LinkInit
  <2> QED
    BY <2>1 DEF Init, LinkInit, ClientInit, OneLoss, LossInv
<1>2. ReturnInv /\ ~WithinConnect
  BY DEF Init, ClientInit, ReturnInv, ConnectSurvivesOneLoss, Publishing, WithinConnect
<1> QED
  BY <1>1, <1>2 DEF ConnectInv

(* Only the gateway's CONNACK is taken by a client that is not connected, and *)
(* it ends connect().                                                        *)
LEMMA ReceiveDataConnect ==
  ASSUME OneLoss, TypeInv, ConnectInv, ReceiveData
  PROVE  ConnectInv'
<1>1. PICK m \in ToSet(toClient) :
        \/ Ignore(m) \/ ParsePingreq(m) \/ ParsePingresp(m) \/ ParseConnack(m)
        \/ ParseSuback(m) \/ ParseRegack(m) \/ ParsePublish(m)
  BY DEF ReceiveData
<1>2. Reads(m)
  BY <1>1 DEF Ignore, ParsePingreq, ParsePingresp, ParseConnack, ParseSuback,
     ParseRegack, ParsePublish
<1>3. /\ call' = call /\ tries' = tries /\ budget' = budget
      /\ pc \in Places /\ pc' = AfterPump[pc] /\ Pumping
  BY <1>2, ReadsType DEF Reads, TypeInv, ClientTypeOK
<1>4. PICK i \in DOMAIN toClient : m = toClient[i] /\ toClient' = RemoveAt(toClient, i)
  BY <1>2, QueueOps DEF OneLoss, Reads, SocketReceive, DatagramReceive, ConnectInv,
     LossInv
<1>5. m \in AcceptingReply /\ toClient' \in Seq(AcceptingReply)
  BY <1>4, QueueOps DEF ConnectInv, LossInv
<1>6. Silent \/ (\E r \in SoundRequest : Transmit(r))
  <2>1. Plain("PINGRESP") \in SoundRequest /\ Plain("DISCONNECT") \in SoundRequest
    BY PlainTypes DEF ToGatewayTypes
  <2> QED
    BY <1>1, <2>1 DEF Ignore, ParsePingreq, ParsePingresp, ParseConnack,
       ParseSuback, ParseRegack, ParsePublish
<1>7. linkUp' /\ ~socket_disconnected'
      /\ (Holds(toGateway, Asking) => Holds(toGateway, Asking)')
  <2> DEFINE K(S) == Holds(toGateway, S) => Holds(toGateway, S)'
  <2>1. linkUp' /\ ~socket_disconnected' /\ K(Asking)
    BY <1>6, SendsNothingLost DEF ConnectInv
  <2> QED
    BY <2>1
<1>8. LossInv'
  BY <1>3, <1>5, <1>7 DEF LossInv, ConnectInv
<1>9. ReturnInv'
  <2>1. Publishing' => Publishing
    BY <1>3 DEF Publishing, AfterPump, Pumping, Places, Waits
  <2> QED
    BY <1>3, <2>1 DEF ConnectInv, ReturnInv, ConnectSurvivesOneLoss
<1>10. WithinConnect' => TryInv'
  <2> SUFFICES ASSUME WithinConnect' PROVE TryInv'
    OBVIOUS
  <2>1. mqttsn_connected => mqttsn_connected'
    BY <1>1 DEF Ignore, ParsePingreq, ParsePingresp, ParseConnack, ParseSuback,
       ParseRegack, ParsePublish, sessionVars
  <2>2. ~mqttsn_connected
    BY <2>1 DEF WithinConnect
  <2>3. WithinConnect
    BY <1>3, <2>2 DEF WithinConnect, AfterPump, Pumping, Places, Waits
  <2>4. TryInv
    BY <2>3 DEF ConnectInv
  <2>5. m \notin ConnackOfGateway /\ await_msg_type' = await_msg_type
    <3>1. CASE ParseConnack(m)
      <4>1. m \in ConnackOfGateway /\ m.return_code = "ACCEPTED"
        BY <1>5, <3>1 DEF ParseConnack, Dispatched, AcceptingReply, ConnackOfGateway
      <4>2. ConnackAccepted(m)
        BY <2>4, <4>1 DEF ConnackAccepted, TryInv
      <4>3. mqttsn_connected' = TRUE
        BY <3>1, <4>2 DEF ParseConnack, ConnackAccepted, ConnackCongestion
      <4> QED
        BY <4>3 DEF WithinConnect
    <3>2. CASE Ignore(m)
      <4>1. ~Dispatched(m, "CONNACK")
        BY <3>2 DEF Ignore, HandledTypes
      <4> QED
        BY <3>2, <4>1 DEF Ignore, Dispatched, ConnackOfGateway, sessionVars
    <3>3. CASE ~Ignore(m) /\ ~ParseConnack(m)
      BY <1>1, <2>2, <3>3 DEF ParsePingreq, ParsePingresp, ParseSuback, ParseRegack,
         ParsePublish, Dispatched
    <3> QED
      BY <3>1, <3>2, <3>3
  <2>6. Holds(toClient, ConnackOfGateway) => Holds(toClient, ConnackOfGateway)'
    BY <1>4, <2>5, HoldsOps DEF ConnectInv, LossInv
  <2>7. UnderWay => UnderWay'
    BY <1>7, <2>6 DEF UnderWay
  <2> QED
    BY <1>3, <2>4, <2>5, <2>7 DEF TryInv
<1> QED
  BY <1>8, <1>9, <1>10 DEF ConnectInv

(* A try puts a CONNECT on its way.                                          *)
LEMMA SendConnectStep ==
  ASSUME OneLoss, TypeInv, LossInv, SendConnect
  PROVE  /\ linkUp' /\ ~socket_disconnected'
         /\ Holds(toGateway, Asking)'
         /\ await_msg_type' = "CONNACK" /\ pc' = "connect_pump"
<1>1. Plain("CONNECT") \in SoundRequest /\ Plain("CONNECT") \in Asking
  BY ConnackSent DEF Asking
<1>2. toGateway' = Append(toGateway, Plain("CONNECT")) /\ linkUp' = TRUE
      /\ socket_disconnected' = (socket_disconnected \/ FALSE)
  BY DEF SendConnect, Transmit, SocketSend, OneLoss
<1>3. Holds(Append(toGateway, Plain("CONNECT")), Asking)
  BY <1>1, HoldsOps DEF TypeInv, LinkInv
<1> QED
  BY <1>2, <1>3 DEF SendConnect, LossInv

LEMMA SpendsOther ==
  ASSUME TypeInv, NEW kind \in BudgetKinds \ {"lose"}, Spend(kind)
  PROVE  budget'["lose"] = budget["lose"]
BY DEF Spend, TypeInv, LinkInv, BudgetKinds

LEMMA SketchCallsConnect ==
  ASSUME OneLoss, TypeInv, ConnectInv, SketchCalls
  PROVE  ConnectInv'
<1>1. "call" \in BudgetKinds \ {"lose"}
  BY DEF BudgetKinds
<1>2. CASE Connect
  <2>1. SendConnect /\ tries' = 1 /\ toClient' = toClient /\ call'.returned = "no"
        /\ budget'["lose"] = budget["lose"]
    BY <1>1, <1>2, SpendsOther DEF Connect, Begin
  <2>2. /\ linkUp' /\ ~socket_disconnected'
        /\ Holds(toGateway, Asking)'
        /\ await_msg_type' = "CONNACK" /\ pc' = "connect_pump"
    BY <2>1, SendConnectStep DEF ConnectInv
  <2>3. LossInv'
    BY <2>1, <2>2 DEF ConnectInv, LossInv
  <2>4. ReturnInv'
    BY <2>1, <2>2 DEF ReturnInv, ConnectSurvivesOneLoss, Publishing
  <2>5. TryInv'
    BY <2>1, <2>2 DEF TryInv, UnderWay
  <2> QED
    BY <2>3, <2>4, <2>5 DEF ConnectInv
<1>3. ASSUME NEW topic, NEW qos, Subscribe(topic, qos)
      PROVE  ConnectInv'
  <2>1. ReturnInv' /\ pc' \notin {"connect_pump", "connect_check"}
    BY <1>3 DEF Subscribe, Begin, ReturnInv, ConnectSurvivesOneLoss, Publishing
  <2> QED
    BY <1>1, <1>3, <2>1, SpendsOther, OutsideConnect DEF Subscribe
<1>4. ASSUME NEW topic, NEW qos, Publish(topic, qos)
      PROVE  ConnectInv'
  <2>1. ReturnInv' /\ pc' \notin {"connect_pump", "connect_check"}
    BY <1>4 DEF Publish, Begin, ReturnInv, ConnectSurvivesOneLoss, Publishing
  <2> QED
    BY <1>1, <1>4, <2>1, SpendsOther, OutsideConnect DEF Publish
<1>5. ASSUME NEW topic, NEW qos, PublishRefused(topic, qos)
      PROVE  ConnectInv'
  <2>1. ReturnInv' /\ pc' \notin {"connect_pump", "connect_check"}
    BY <1>5 DEF PublishRefused, InSketch, ReturnInv, ConnectSurvivesOneLoss, Publishing
  <2> QED
    BY <1>1, <1>5, <2>1, SpendsOther, OutsideConnect DEF PublishRefused
<1> QED
  BY <1>2, <1>3, <1>4, <1>5 DEF SketchCalls

(* What the thread does by itself outside connect() keeps to its own call.   *)
LEMMA ContinuesConnect ==
  ASSUME OneLoss, TypeInv, ConnectInv, Continues
  PROVE  ConnectInv'
<1> USE DEF sessionVars, topicVars, linkVars
<1>1. CASE PumpNothing
  <2>1. pc \in {"loop_pump", "connect_pump"} /\ pc' = AfterPump[pc] /\ pc \in Places
    BY <1>1 DEF PumpNothing, TypeInv, ClientTypeOK
  <2>2. \/ pc = "loop_pump" /\ pc' = "loop_ping"
        \/ pc = "connect_pump" /\ pc' = "connect_check"
    BY <2>1 DEF AfterPump
  <2>3. LossInv' /\ ReturnInv' /\ (WithinConnect' => WithinConnect) /\ (TryInv => TryInv')
    BY <1>1, <2>2 DEF PumpNothing, ConnectInv, LossInv, ReturnInv, WithinConnect,
       ConnectSurvivesOneLoss, Publishing, TryInv, UnderWay
  <2> QED
    BY <2>3 DEF ConnectInv
<1>2. CASE PumpFails
  BY <1>2 DEF PumpFails, ConnectInv, LossInv
<1>3. CASE ConnectCheck
  <2>1. CASE mqttsn_connected
    <3>1. ReturnInv'
      BY <1>3, <2>1 DEF ConnectCheck, ConnectReturns, Return, ReturnInv,
         ConnectSurvivesOneLoss, Publishing, ConnectInv, TypeInv, ClientTypeOK
    <3> QED
      BY <1>3, <2>1, <3>1, OutsideConnect DEF ConnectCheck, ConnectReturns, Return
  <2>2. CASE ~mqttsn_connected
    <3>1. pc = "connect_check" /\ pc' = "connect_pump" /\ Silent
          /\ UNCHANGED <<call, tries, await_msg_type, mqttsn_connected, toClient, budget>>
      BY <1>3, <2>2 DEF ConnectCheck, ConnectInv, LossInv
    <3>2. LossInv' /\ ReturnInv' /\ (WithinConnect' => WithinConnect) /\ (TryInv => TryInv')
      BY <3>1 DEF Silent, ConnectInv, LossInv, ReturnInv, WithinConnect,
         ConnectSurvivesOneLoss, Publishing, TryInv, UnderWay
    <3> QED
      BY <3>2 DEF ConnectInv
  <2> QED
    BY <2>1, <2>2
<1>4. CASE SendSubscribe
  <2>1. \E m \in SoundRequest : Transmit(m)
    <3>1. PICK qos \in SentQos(call.qos) :
            Transmit(SubscribeMsg(NextMsgId, call.topic, qos))
      BY <1>4 DEF SendSubscribe
    <3>2. call.topic \in Topics /\ call.qos \in Qos
      BY <1>4 DEF SendSubscribe, TypeInv, CallInv, Waits, ClientTypeOK
    <3>3. qos \in Qos
      BY <3>2, ClientAssumption DEF SentQos, Qos
    <3>4. SubscribeMsg(NextMsgId, call.topic, qos) \in SoundRequest
      BY <3>2, <3>3, NextMsgIdType, RequestTypes DEF TypeInv
    <3> QED
      BY <3>1, <3>4
  <2>2. ReturnInv' /\ pc' \notin {"connect_pump", "connect_check"}
    BY <1>4 DEF SendSubscribe, ReturnInv, ConnectSurvivesOneLoss, Publishing, ConnectInv
  <2> QED
    BY <1>4, <2>1, <2>2, OutsideConnect DEF SendSubscribe
<1>5. CASE SubscribeReturns \/ PublishReturns
  <2>1. Return(TRUE) /\ Silent /\ toClient' = toClient /\ budget' = budget
    BY <1>5 DEF SubscribeReturns, PublishReturns
  <2>2. ReturnInv' /\ pc' \notin {"connect_pump", "connect_check"}
    BY <2>1 DEF Return, ReturnInv, ConnectSurvivesOneLoss, Publishing, TypeInv,
       ClientTypeOK
  <2> QED
    BY <2>1, <2>2, OutsideConnect
<1>6. CASE PublishIdle \/ PublishUnregistered
  <2>1. ReturnInv' /\ pc' \notin {"connect_pump", "connect_check"}
    BY <1>6 DEF PublishIdle, PublishUnregistered, ReturnInv, ConnectSurvivesOneLoss,
       Publishing, ConnectInv
  <2> QED
    BY <1>6, <2>1, OutsideConnect DEF PublishIdle, PublishUnregistered
<1>7. ASSUME NEW topic_id \in Nat, Publishing, SendPublish(topic_id),
             call.topic \in Topics, toClient' = toClient, budget' = budget
      PROVE  ConnectInv'
  <2>1. call.op = "publish"
    BY <1>7 DEF ConnectInv, ReturnInv
  <2>2. Silent \/ (\E m \in SoundRequest : Transmit(m))
    <3> DEFINE id == IF call.qos = 0 THEN 0 ELSE NextMsgId
    <3>1. id \in MsgIds /\ call.qos \in Qos
      BY NextMsgIdType, LinkAssumption DEF MsgIds, TypeInv, ClientTypeOK
    <3>2. PublishMsg(id, call.topic, topic_id, call.qos) \in SoundRequest
      BY <1>7, <3>1, RequestTypes
    <3> QED
      BY <1>7, <3>2 DEF SendPublish
  <2>3. /\ pc' \in {"app", "publish_ack"}
        /\ call' = call \/ (\E ok \in BOOLEAN : Return(ok))
    BY <1>7 DEF SendPublish, Return
  <2>4. call'.op = "publish"
    BY <2>1, <2>3 DEF Return, TypeInv, ClientTypeOK
  <2>5. ReturnInv' /\ pc' \notin {"connect_pump", "connect_check"}
    BY <2>3, <2>4 DEF ReturnInv, ConnectSurvivesOneLoss, Publishing
  <2> QED
    BY <1>7, <2>2, <2>5, OutsideConnect
<1>8. CASE PublishRegistered \/ RegisterReturns
  <2>1. Publishing /\ toClient' = toClient /\ budget' = budget /\ call.topic \in Topics
    BY <1>8 DEF PublishRegistered, RegisterReturns, Publishing, TypeInv, CallInv, Waits
  <2>2. \/ SendPublish(RegisteredId(call.topic))
        \/ SendPublish(publish_registration.topic_id)
    BY <1>8 DEF PublishRegistered, RegisterReturns
  <2>3. RegisteredId(call.topic) \in Nat /\ publish_registration.topic_id \in Nat
    BY DEF RegisteredId, TypeInv, ClientTypeOK, Registration
  <2> QED
    BY <1>7, <2>1, <2>2, <2>3
<1>9. CASE SendRegister
  <2>1. \E m \in SoundRequest : Transmit(m)
    <3>1. call.topic \in Topics /\ 0 \in Nat /\ 0 \in Qos
      BY <1>9 DEF SendRegister, TypeInv, CallInv, Waits, Qos
    <3>2. RegisterMsg(NextMsgId, call.topic) \in SoundRequest
      BY <3>1, NextMsgIdType, RequestTypes DEF TypeInv
    <3> QED
      BY <1>9, <3>2 DEF SendRegister
  <2>2. ReturnInv' /\ pc' \notin {"connect_pump", "connect_check"}
    BY <1>9 DEF SendRegister, ReturnInv, ConnectSurvivesOneLoss, Publishing, ConnectInv
  <2> QED
    BY <1>9, <2>1, <2>2, OutsideConnect DEF SendRegister
<1>10. CASE Loop
  <2>1. ReturnInv' /\ pc' \notin {"connect_pump", "connect_check"}
    BY <1>10 DEF Loop, InSketch, ReturnInv, ConnectSurvivesOneLoss, Publishing,
       ConnectInv
  <2> QED
    BY <1>10, <2>1, OutsideConnect DEF Loop
<1>11. ASSUME NEW beat \in BOOLEAN, LoopPing(beat)
       PROVE  ConnectInv'
  <2>1. Plain("PINGREQ") \in SoundRequest
    BY PlainTypes DEF ToGatewayTypes
  <2>2. Silent \/ (\E m \in SoundRequest : Transmit(m))
    BY <1>11, <2>1 DEF LoopPing
  <2>3. ReturnInv' /\ pc' \notin {"connect_pump", "connect_check"}
    BY <1>11 DEF LoopPing, ReturnInv, ConnectSurvivesOneLoss, Publishing, ConnectInv
  <2> QED
    BY <1>11, <2>2, <2>3, OutsideConnect DEF LoopPing
<1> QED
  BY <1>1, <1>2, <1>3, <1>4, <1>5, <1>6, <1>8, <1>9, <1>10, <1>11 DEF Continues

(* A try ends without an answer only when nothing is under way any more.     *)
LEMMA ConnectBeatConnect ==
  ASSUME OneLoss, TypeInv, ConnectInv, ConnectBeat
  PROVE  ConnectInv'
<1>1. TryInv /\ LossInv
  BY DEF ConnectBeat, WithinConnect, ConnectInv
<1>2. ~UnderWay
  <2>1. toGateway = <<>> /\ toClient = <<>>
    BY DEF ConnectBeat, ConnectTimeout, OneLoss
  <2> QED
    BY <2>1, HoldsNot DEF UnderWay
<1>3. tries = 1 /\ budget["lose"] = 0
  BY <1>1, <1>2 DEF TryInv
<1>4. tries' = 2 /\ SendConnect
      /\ UNCHANGED <<call, mqttsn_connected, toClient, budget>>
  BY <1>3 DEF ConnectBeat, Retries
<1>5. /\ linkUp' /\ ~socket_disconnected'
      /\ Holds(toGateway, Asking)'
      /\ await_msg_type' = "CONNACK" /\ pc' = "connect_pump"
  BY <1>1, <1>4, SendConnectStep
<1>6. LossInv'
  BY <1>1, <1>4, <1>5 DEF LossInv
<1>7. ReturnInv'
  BY <1>4, <1>5 DEF ConnectInv, ReturnInv, ConnectSurvivesOneLoss, Publishing
<1>8. TryInv'
  BY <1>3, <1>4, <1>5 DEF TryInv, UnderWay
<1> QED
  BY <1>6, <1>7, <1>8 DEF ConnectInv

LEMMA Appended ==
  ASSUME NEW S, NEW q \in Seq(S), NEW r, Append(q, r) \in Seq(S)
  PROVE  r \in S
<1> DEFINE T == S \cup {r}
<1>1. q \in Seq(T) /\ r \in T
  BY SeqMonotonic
<1> HIDE DEF T
<1>2. Len(Append(q, r)) = Len(q) + 1 /\ Append(q, r)[Len(q) + 1] = r
  BY <1>1, AppendProperties
<1>3. Len(q) + 1 \in 1 .. Len(Append(q, r))
  BY <1>2, LenProperties
<1> QED
  BY <1>2, <1>3, ElementOfSeq

(* A message for the client joins those that are under way.                  *)
LEMMA SendConnectReply ==
  ASSUME TypeInv, TypeInv', LossInv, NEW r, Send(r),
         r \in ConnackOfGateway => r.return_code = "ACCEPTED"
  PROVE  /\ r \in Reply
         /\ toClient' \in Seq(AcceptingReply)
         /\ Holds(toClient, ConnackOfGateway) => Holds(toClient, ConnackOfGateway)'
         /\ r \in ConnackOfGateway => Holds(toClient, ConnackOfGateway)'
<1>1. toClient' = Append(toClient, r) /\ toClient \in Seq(AcceptingReply)
      /\ toClient \in Seq(Reply) /\ toClient' \in Seq(Reply)
  BY DEF Send, LossInv, TypeInv, LinkInv
<1>2. r \in Reply
  BY <1>1, Appended
<1>3. r \in AcceptingReply
  BY <1>2 DEF AcceptingReply
<1> QED
  BY <1>1, <1>2, <1>3, QueueOps, HoldsOps

(* Steps of the others leave the thread where it is.                         *)
LEMMA OthersConnect ==
  ASSUME ConnectInv, UNCHANGED clientVars, LossInv', TryInv /\ WithinConnect => TryInv'
  PROVE  ConnectInv'
<1>1. ReturnInv' /\ (WithinConnect' => WithinConnect)
  BY DEF clientVars, ConnectInv, ReturnInv, ConnectSurvivesOneLoss, Publishing, WithinConnect
<1> QED
  BY <1>1 DEF ConnectInv

(* The gateway turns a CONNECT into a CONNACK.                               *)
LEMMA GatewayConnect ==
  ASSUME OneLoss, TypeInv, ConnectInv, Gateway
  PROVE  ConnectInv'
<1>1. PICK m \in ToSet(toGateway) :
        \/ GwConnect(m) \/ GwNoSession(m) \/ GwSubscribe(m) \/ GwRegister(m)
        \/ GwPublish(m) \/ GwPing(m) \/ GwPingresp(m) \/ GwDisconnect(m)
  BY DEF Gateway
<1>2. GwTakes(m)
  BY <1>1 DEF GwConnect, GwNoSession, GwSubscribe, GwRegister, GwPublish, GwPing,
     GwPingresp, GwDisconnect
<1>3. PICK i \in DOMAIN toGateway :
        m = toGateway[i] /\ toGateway' = RemoveAt(toGateway, i)
  BY <1>2, QueueOps DEF GwTakes, TypeInv, LinkInv
<1>4. TypeInv' /\ LossInv
  BY GatewayType DEF ConnectInv
<1>5. UNCHANGED clientVars /\ linkUp' = linkUp /\ budget' = budget
  BY <1>2 DEF GwTakes
<1>6. \/ m.type = "CONNECT"
         /\ \E r : Send(r) /\ r.type = "CONNACK" /\ r.from = "gateway"
                   /\ r.return_code = "ACCEPTED"
      \/ m.type # "CONNECT"
         /\ (toClient' = toClient \/ (\E r : Send(r) /\ r.type # "CONNACK"))
  <2>1. CASE GwConnect(m)
    <3>1. PICK code \in ConnackCodes :
            Send([PlainReply("CONNACK", "gateway") EXCEPT !.return_code = code])
      BY <2>1 DEF GwConnect
    <3>2. code = "ACCEPTED"
      BY DEF OneLoss
    <3> QED
      BY <2>1, <3>1, <3>2 DEF GwConnect, PlainReply
  <2>2. CASE GwNoSession(m)
    BY <2>2 DEF GwNoSession, PlainReply
  <2>3. CASE GwSubscribe(m)
    <3> DEFINE granting(granted) ==
                 [PlainReply("SUBACK", "gateway") EXCEPT
                    !.message_id = m.message_id, !.qos = granted,
                    !.topic_id = TopicIdOf[m.topic]]
               refusing(code) ==
                 [PlainReply("SUBACK", "gateway") EXCEPT
                    !.message_id = m.message_id, !.return_code = code]
    <3>1. \A x : granting(x).type = "SUBACK" /\ refusing(x).type = "SUBACK"
      BY DEF PlainReply
    <3>2. m.type = "SUBSCRIBE" /\ (\E x : Send(granting(x)) \/ Send(refusing(x)))
      BY <2>3 DEF GwSubscribe
    <3> HIDE DEF granting, refusing
    <3> QED
      BY <3>1, <3>2
  <2>4. CASE GwRegister(m)
    <3> DEFINE regack(code) ==
                 [PlainReply("REGACK", "gateway") EXCEPT
                    !.message_id = m.message_id, !.return_code = code,
                    !.topic_id = IF code = "ACCEPTED" THEN TopicIdOf[m.topic] ELSE 0]
    <3>1. \A code : regack(code).type = "REGACK"
      BY DEF PlainReply
    <3>2. m.type = "REGISTER" /\ (\E code : Send(regack(code)))
      BY <2>4 DEF GwRegister
    <3> HIDE DEF regack
    <3> QED
      BY <3>1, <3>2
  <2>5. CASE GwPublish(m)
    <3> DEFINE puback ==
                 [PlainReply("PUBACK", "gateway") EXCEPT
                    !.message_id = m.message_id, !.topic_id = m.topic_id]
    <3>1. puback.type = "PUBACK"
      BY DEF PlainReply
    <3>2. m.type = "PUBLISH" /\ (Send(puback) \/ toClient' = toClient)
      BY <2>5 DEF GwPublish
    <3> HIDE DEF puback
    <3> QED
      BY <3>1, <3>2
  <2>6. CASE GwPing(m) \/ GwPingresp(m) \/ GwDisconnect(m)
    BY <2>6 DEF GwPing, GwPingresp, GwDisconnect, PlainReply
  <2> QED
    BY <1>1, <2>1, <2>2, <2>3, <2>4, <2>5, <2>6
<1>7. CASE m.type = "CONNECT"
  <2>1. PICK r : Send(r) /\ r.type = "CONNACK" /\ r.from = "gateway"
                 /\ r.return_code = "ACCEPTED"
    BY <1>6, <1>7
  <2>2. toClient' \in Seq(AcceptingReply) /\ r \in Reply
        /\ (r \in ConnackOfGateway => Holds(toClient, ConnackOfGateway)')
    BY <1>4, <2>1, SendConnectReply
  <2>3. UnderWay'
    BY <2>1, <2>2 DEF ConnackOfGateway, UnderWay
  <2>4. LossInv' /\ (TryInv => TryInv')
    BY <1>4, <1>5, <2>2, <2>3 DEF LossInv, TryInv, clientVars
  <2> QED
    BY <1>5, <2>4, OthersConnect
<1>8. CASE m.type # "CONNECT"
  <2>1. /\ toClient' \in Seq(AcceptingReply)
        /\ Holds(toClient, ConnackOfGateway) => Holds(toClient, ConnackOfGateway)'
    <3>1. CASE toClient' = toClient
      BY <1>4, <3>1 DEF LossInv
    <3>2. ASSUME NEW r, Send(r), r.type # "CONNACK"
          PROVE  /\ toClient' \in Seq(AcceptingReply)
                 /\ Holds(toClient, ConnackOfGateway) =>
                      Holds(toClient, ConnackOfGateway)'
      <4>1. r \notin ConnackOfGateway
        BY <3>2 DEF ConnackOfGateway
      <4> QED
        BY <1>4, <3>2, <4>1, SendConnectReply
    <3> QED
      BY <1>6, <1>8, <3>1, <3>2
  <2>2. Holds(toGateway, Asking) => Holds(toGateway, Asking)'
    <3>1. m \notin Asking
      BY <1>8 DEF Asking
    <3> QED
      BY <1>3, <3>1, HoldsOps DEF TypeInv, LinkInv
  <2>3. LossInv' /\ (TryInv => TryInv')
    BY <1>4, <1>5, <2>1, <2>2 DEF LossInv, TryInv, UnderWay, clientVars
  <2> QED
    BY <1>5, <2>3, OthersConnect
<1> QED
  BY <1>7, <1>8

(* What the gateway and other nodes send by themselves accepts nothing.      *)
LEMMA UnsolicitedConnect ==
  ASSUME OneLoss, TypeInv, ConnectInv, GwPush \/ Noise
  PROVE  ConnectInv'
<1>1. TypeInv' /\ LossInv
  BY UnsolicitedType DEF ConnectInv
<1>2. UNCHANGED <<clientVars, toGateway, linkUp>>
      /\ budget'["lose"] = budget["lose"]
  BY SpendsOther DEF GwPush, Noise, BudgetKinds
<1>3. PICK r : Send(r) /\ (r.type # "CONNACK" \/ r.from # "gateway")
  <2>1. ASSUME NEW s, NEW qos, Send(Forwarded(s, qos))
        PROVE  \E r : Send(r) /\ r.type # "CONNACK"
    <3> DEFINE id == IF qos = 0 THEN 0 ELSE 1
    <3>1. Forwarded(s, qos) =
            [PlainReply("PUBLISH", "gateway") EXCEPT
               !.topic_id = TopicIdOf[s.topic], !.qos = qos, !.message_id = id]
      BY DEF Forwarded
    <3> HIDE DEF id
    <3>2. Forwarded(s, qos).type = "PUBLISH"
      BY <3>1 DEF PlainReply
    <3> QED
      BY <2>1, <3>2
  <2>2. CASE GwPush
    <3>1. Send(PlainReply("PINGREQ", "gateway")) => \E r : Send(r) /\ r.type # "CONNACK"
      BY DEF PlainReply
    <3> QED
      BY <2>1, <2>2, <3>1 DEF GwPush
  <2>3. CASE Noise
    BY <2>3 DEF Noise, PlainReply
  <2> QED
    BY <2>2, <2>3
<1>4. /\ toClient' \in Seq(AcceptingReply)
      /\ Holds(toClient, ConnackOfGateway) => Holds(toClient, ConnackOfGateway)'
  <2>1. r \notin ConnackOfGateway
    BY <1>3 DEF ConnackOfGateway
  <2> QED
    BY <1>1, <1>3, <2>1, SendConnectReply
<1>5. LossInv' /\ (TryInv => TryInv')
  BY <1>1, <1>2, <1>4 DEF LossInv, TryInv, UnderWay, clientVars, Holds
<1> QED
  BY <1>2, <1>5, OthersConnect

LEMMA NetworkConnect ==
  ASSUME OneLoss, TypeInv, ConnectInv, Network
  PROVE  ConnectInv'
<1>1. LossInv /\ UNCHANGED clientVars /\ linkUp' = linkUp
  BY DEF ConnectInv, Network, Lose, Duplicate
<1>2. budget \in [BudgetKinds -> Nat] /\ "lose" \in BudgetKinds
      /\ "dup" \in BudgetKinds \ {"lose"} /\ toGateway \in Seq(SoundRequest)
      /\ toClient \in Seq(AcceptingReply)
  BY <1>1 DEF TypeInv, LinkInv, BudgetKinds, LossInv
<1>3. toClient' \in Seq(AcceptingReply)
  <2>1. ASSUME NEW i \in DOMAIN toClient
        PROVE  /\ RemoveAt(toClient, i) \in Seq(AcceptingReply)
               /\ Append(toClient, toClient[i]) \in Seq(AcceptingReply)
    BY <1>2, QueueOps
  <2> QED
    BY <1>2, <2>1 DEF Network, Lose, Duplicate
<1>4. CASE Lose
  <2>1. budget["lose"] = 1 /\ budget'["lose"] = 0
    BY <1>1, <1>2, <1>4 DEF Lose, Spend, LossInv
  <2>2. TryInv => TryInv'
    BY <1>1, <2>1 DEF TryInv, clientVars
  <2>3. LossInv'
    BY <1>1, <1>3, <2>1 DEF LossInv, clientVars
  <2> QED
    BY <1>1, <2>2, <2>3, OthersConnect
<1>5. CASE Duplicate
  <2>1. budget'["lose"] = budget["lose"]
    BY <1>2, <1>5, SpendsOther DEF Duplicate
  <2>2. UnderWay => UnderWay'
    <3>1. ASSUME NEW i \in DOMAIN toGateway, Holds(toGateway, Asking)
          PROVE  Holds(Append(toGateway, toGateway[i]), Asking)
      BY <1>2, <3>1, QueueOps, HoldsOps
    <3>2. ASSUME NEW i \in DOMAIN toClient, Holds(toClient, ConnackOfGateway)
          PROVE  Holds(Append(toClient, toClient[i]), ConnackOfGateway)
      BY <1>2, <3>2, QueueOps, HoldsOps
    <3> QED
      BY <1>5, <3>1, <3>2 DEF Duplicate, UnderWay
  <2>3. LossInv' /\ (TryInv => TryInv')
    BY <1>1, <1>3, <2>1, <2>2 DEF LossInv, TryInv, clientVars
  <2> QED
    BY <1>1, <2>3, OthersConnect
<1> QED
  BY <1>4, <1>5 DEF Network

LEMMA NextConnect ==
  OneLoss /\ TypeInv /\ ConnectInv /\ [Next]_vars => ConnectInv'
<1> SUFFICES ASSUME OneLoss, TypeInv, ConnectInv, [Next]_vars PROVE ConnectInv'
  OBVIOUS
<1>1. CASE UNCHANGED vars
  BY <1>1 DEF vars, clientVars, linkVars, ConnectInv, LossInv, ReturnInv,
     ConnectSurvivesOneLoss, Publishing, WithinConnect, TryInv, UnderWay
<1>2. ~LinkDrop
  BY DEF LinkDrop, OneLoss
<1>3. CASE Next
  BY <1>2, <1>3, ReceiveDataConnect, SketchCallsConnect, ContinuesConnect,
     ConnectBeatConnect, GatewayConnect, UnsolicitedConnect, NetworkConnect
     DEF Next, ClientNext
<1> QED
  BY <1>1, <1>3

(* With at most one datagram lost, connect() never returns false: for any    *)
(* topics and message ids, any number of calls and publications, and however *)
(* datagrams are duplicated and reordered and other nodes' CONNACKs arrive.  *)
THEOREM ConnectCorrect == OneLoss => (Spec => []ConnectSurvivesOneLoss)
<1> SUFFICES ASSUME OneLoss PROVE Spec => []ConnectSurvivesOneLoss
  OBVIOUS
<1> DEFINE Inv == TypeInv /\ ConnectInv
<1>1. Init => Inv
  BY InitTypeInv, InitConnect
<1>2. Inv /\ [Next]_vars => Inv'
  BY NextTypeInv, NextConnect
<1>3. Inv => ConnectSurvivesOneLoss
  BY DEF ConnectInv, ReturnInv
<1> QED
  BY <1>1, <1>2, <1>3, PTL DEF Spec
=============================================================================
