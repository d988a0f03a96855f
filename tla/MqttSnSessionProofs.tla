-------------------------- MODULE MqttSnSessionProofs --------------------------
(***************************************************************************)
(* Proofs of SessionAgrees, AwaitsWhatIsInFlight and ExchangesOneAtATime.  *)
(*                                                                         *)
(* await_msg_type is the only record the client keeps of what it has sent.  *)
(* That it agrees with the network rests on each exchange having one token  *)
(* in flight, first the request and then its answer, which every step hands *)
(* on, and on no step starting an exchange before the last one is over.     *)
(***************************************************************************)
EXTENDS MqttSnProofs, FiniteSetTheorems

(* Nothing is copied, and connect() tries again only when nothing is under   *)
(* way; datagrams may be lost.                                              *)
NoCopies ==
  /\ Transport = "datagram"
  /\ ~SendMayFail
  /\ ~PrematureTimeout
  /\ Budget["dup"] = 0

(* Nothing is lost either, and the gateway accepts what it understands.      *)
Reliable ==
  /\ NoCopies
  /\ Budget["lose"] = 0
  /\ FlagsCleared
  /\ AckCodes \subseteq {"ACCEPTED"}

-----------------------------------------------------------------------------
(* Tokens *)

None(q, S) == \A i \in DOMAIN q : q[i] \notin S

One(q, S) ==
  \E i \in DOMAIN q : q[i] \in S /\ \A j \in DOMAIN q : q[j] \in S => j = i

Exchanges == {"CONNACK", "SUBACK", "REGACK", "PINGRESP"}

(* A DISCONNECT of the client still belongs to the exchange of connect().    *)
Asks(type) ==
  {m \in Request : \/ m.type = RequestOf[type]
                   \/ type = "CONNACK" /\ m.type = "DISCONNECT"}

Tells(type) == {r \in Reply : r.type = type /\ r.from = "gateway"}

Absent(type) == None(toGateway, Asks(type)) /\ None(toClient, Tells(type))

InTransit(type) ==
  \/ One(toGateway, Asks(type)) /\ None(toClient, Tells(type))
  \/ None(toGateway, Asks(type)) /\ One(toClient, Tells(type))

-----------------------------------------------------------------------------
(* The inductive invariants *)

Accepting == {r \in Tells("CONNACK") : r.return_code = "ACCEPTED"}

SessionInv ==
  /\ linkUp /\ ~socket_disconnected
  /\ budget["dup"] = 0
  /\ Absent("CONNACK") \/ InTransit("CONNACK")
  /\ mqttsn_connected \/ pc \notin {"connect_pump", "connect_check"} =>
       Absent("CONNACK")
  /\ mqttsn_connected \/ ~None(toClient, Accepting) => gwSession

(* A request the gateway would refuse, and an answer the client would not     *)
(* take: those of another message id than the last.                          *)
Stale(id) ==
  {m \in Request : /\ m.type \in {"SUBSCRIBE", "REGISTER"}
                   /\ m.message_id # id \/ m.qos = -1}

Mismatched(id) ==
  {r \in Tells("SUBACK") \cup Tells("REGACK") :
     r.message_id # id \/ r.return_code # "ACCEPTED"}

Awaited(type) ==
  IF await_msg_type = type THEN InTransit(type) ELSE Absent(type)

Fresh ==
  /\ None(toGateway, Stale(msg_id_counter))
  /\ None(toClient, Mismatched(msg_id_counter))

(* Where the thread can be while it awaits an answer                         *)
AwaitPlaces ==
  /\ await_msg_type = "SUBACK" => pc = "subscribe_ack"
  /\ await_msg_type = "REGACK" => pc = "register_ack"
  /\ pc = "publish_topic" /\ call.qos > 0 => Idle
  /\ await_msg_type \in IF mqttsn_connected
                        THEN {"PINGREQ", "PUBACK"} \cup Requested
                        ELSE {"GWINFO", "CONNACK", "DISCONNECT"}

WaitInv ==
  /\ budget["lose"] = 0
  /\ \A type \in Requested : Awaited(type)
  /\ Fresh
  /\ AwaitPlaces

AwaitInv == TypeInv /\ SessionInv /\ WaitInv

-----------------------------------------------------------------------------
(* Tokens in queues *)

LEMMA RemoveToken ==
  ASSUME NEW T, NEW q \in Seq(T), NEW i \in DOMAIN q, NEW S
  PROVE  /\ None(q, S) => None(RemoveAt(q, i), S)
         /\ One(q, S) /\ q[i] \in S => None(RemoveAt(q, i), S)
         /\ One(q, S) /\ q[i] \notin S => One(RemoveAt(q, i), S)
<1>1. Len(q) \in Nat /\ DOMAIN q = 1 .. Len(q) /\ i \in 1 .. Len(q)
  BY LenProperties
<1> DEFINE r == RemoveAt(q, i)
<1>2. /\ DOMAIN r = 1 .. Len(q) - 1
      /\ \A j \in 1 .. Len(q) - 1 : r[j] = IF j < i THEN q[j] ELSE q[j + 1]
  BY Removed
<1> HIDE DEF r
<1>3. ASSUME None(q, S) PROVE None(r, S)
  BY <1>1, <1>2, <1>3 DEF None
<1>4. ASSUME One(q, S), q[i] \in S PROVE None(r, S)
  BY <1>1, <1>2, <1>4 DEF One, None
<1>5. ASSUME One(q, S), q[i] \notin S PROVE One(r, S)
  <2>1. PICK k \in 1 .. Len(q) :
          q[k] \in S /\ \A j \in 1 .. Len(q) : q[j] \in S => j = k
    BY <1>1, <1>5 DEF One
  <2>2. k # i
    BY <1>5, <2>1
  <2> DEFINE at == IF k < i THEN k ELSE k - 1
  <2>3. at \in 1 .. Len(q) - 1
    BY <1>1, <2>1, <2>2
  <2>4. r[at] = q[k]
    BY <1>1, <1>2, <2>1, <2>2, <2>3
  <2>5. \A j \in 1 .. Len(q) - 1 : r[j] \in S => j = at
    BY <1>1, <1>2, <2>1, <2>2
  <2> HIDE DEF at
  <2> QED
    BY <1>2, <2>1, <2>3, <2>4, <2>5 DEF One
<1> QED
  BY <1>3, <1>4, <1>5 DEF r

LEMMA AppendToken ==
  ASSUME NEW T, NEW q \in Seq(T), NEW e \in T, NEW S
  PROVE  /\ None(q, S) /\ e \notin S => None(Append(q, e), S)
         /\ One(q, S) /\ e \notin S => One(Append(q, e), S)
         /\ None(q, S) /\ e \in S => One(Append(q, e), S)
<1>1. Len(q) \in Nat /\ DOMAIN q = 1 .. Len(q)
  BY LenProperties
<1> DEFINE r == Append(q, e)
<1>2. /\ DOMAIN r = 1 .. Len(q) + 1
      /\ \A j \in 1 .. Len(q) : r[j] = q[j]
      /\ r[Len(q) + 1] = e
  BY AppendProperties, LenProperties
<1> HIDE DEF r
<1>3. ASSUME None(q, S), e \notin S PROVE None(r, S)
  BY <1>1, <1>2, <1>3 DEF None
<1>4. ASSUME One(q, S), e \notin S PROVE One(r, S)
  BY <1>1, <1>2, <1>4 DEF One
<1>5. ASSUME None(q, S), e \in S PROVE One(r, S)
  BY <1>1, <1>2, <1>5 DEF None, One
<1> QED
  BY <1>3, <1>4, <1>5 DEF r

LEMMA TokenFound ==
  ASSUME NEW q, NEW S, NEW i \in DOMAIN q, q[i] \in S
  PROVE  ~None(q, S)
BY DEF None

LEMMA EmptyQueue ==
  ASSUME NEW S
  PROVE  None(<<>>, S)
BY DEF None

-----------------------------------------------------------------------------
(* Exchanges *)

Kept(type) ==
  (Absent(type) => Absent(type)') /\ (InTransit(type) => InTransit(type)')

LEMMA Queues ==
  ASSUME TypeInv
  PROVE  toGateway \in Seq(SoundRequest) /\ toClient \in Seq(Reply)
BY DEF TypeInv, LinkInv

LEMMA TransmitSucceeds ==
  ASSUME NoCopies, NEW m, Transmit(m)
  PROVE  /\ toGateway' = Append(toGateway, m)
         /\ linkUp' = TRUE /\ (~socket_disconnected => ~socket_disconnected')
BY DEF NoCopies, Transmit, SocketSend

(* A message that is no token of the exchange changes nothing in it.         *)
LEMMA SendsOther ==
  ASSUME NoCopies, TypeInv, toClient' = toClient, NEW type,
         \/ Silent
         \/ \E m \in SoundRequest : m \notin Asks(type) /\ Transmit(m)
  PROVE  Kept(type)
<1>1. CASE Silent
  BY <1>1 DEF Silent, Kept, Absent, InTransit
<1>2. ASSUME NEW m \in SoundRequest, m \notin Asks(type), Transmit(m)
      PROVE  Kept(type)
  <2>1. toGateway' = Append(toGateway, m)
    BY <1>2, TransmitSucceeds
  <2>2. /\ None(toGateway, Asks(type)) => None(toGateway', Asks(type))
        /\ One(toGateway, Asks(type)) => One(toGateway', Asks(type))
    BY <1>2, <2>1, Queues, AppendToken
  <2> QED
    BY <2>2 DEF Kept, Absent, InTransit
<1> QED
  BY <1>1, <1>2

LEMMA SendsAsk ==
  ASSUME NoCopies, TypeInv, toClient' = toClient, NEW type, Absent(type),
         NEW m \in SoundRequest, m \in Asks(type), Transmit(m)
  PROVE  InTransit(type)'
<1>1. toGateway' = Append(toGateway, m)
  BY TransmitSucceeds
<1>2. One(toGateway', Asks(type))
  BY <1>1, Queues, AppendToken DEF Absent
<1> QED
  BY <1>2 DEF Absent, InTransit

(* The answer ends the exchange when it is read.                             *)
LEMMA ReadsToken ==
  ASSUME NoCopies, TypeInv, NEW type, NEW m, Reads(m),
         \/ Silent
         \/ \E r \in SoundRequest : r \notin Asks(type) /\ Transmit(r)
  PROVE  /\ m \in Reply
         /\ m \notin Tells(type) => Kept(type)
         /\ m \in Tells(type) => ~Absent(type) /\ (InTransit(type) => Absent(type)')
<1>1. PICK i \in DOMAIN toClient : m = toClient[i] /\ toClient' = RemoveAt(toClient, i)
  BY Queues, QueueOps DEF NoCopies, Reads, SocketReceive, DatagramReceive
<1>2. m \in Reply
  BY <1>1, Queues, QueueOps
<1>3. /\ None(toGateway, Asks(type)) => None(toGateway', Asks(type))
      /\ One(toGateway, Asks(type)) => One(toGateway', Asks(type))
  <2>1. CASE Silent
    BY <2>1 DEF Silent
  <2>2. ASSUME NEW r \in SoundRequest, r \notin Asks(type), Transmit(r)
        PROVE  /\ None(toGateway, Asks(type)) => None(toGateway', Asks(type))
               /\ One(toGateway, Asks(type)) => One(toGateway', Asks(type))
    <3>1. toGateway' = Append(toGateway, r)
      BY <2>2, TransmitSucceeds
    <3> QED
      BY <2>2, <3>1, Queues, AppendToken
  <2> QED
    BY <2>1, <2>2
<1>4. /\ None(toClient, Tells(type)) => None(toClient', Tells(type))
      /\ One(toClient, Tells(type)) /\ m \in Tells(type) => None(toClient', Tells(type))
      /\ One(toClient, Tells(type)) /\ m \notin Tells(type) => One(toClient', Tells(type))
  BY <1>1, Queues, RemoveToken
<1>5. m \in Tells(type) => ~None(toClient, Tells(type))
  BY <1>1, TokenFound
<1> QED
  BY <1>2, <1>3, <1>4, <1>5 DEF Kept, Absent, InTransit

(* What the gateway does to an exchange: it goes on with the answer r to m,   *)
(* or is over.                                                               *)
LEMMA GatewayToken ==
  ASSUME TypeInv, NEW type, NEW m, GwTakes(m), NEW r \in Reply,
         Send(r) \/ UNCHANGED toClient
  PROVE  /\ m \in SoundRequest
         /\ m \notin Asks(type) /\ (r \notin Tells(type) \/ UNCHANGED toClient) => Kept(type)
         /\ m \in Asks(type) => ~Absent(type)
         /\ m \in Asks(type) /\ r \in Tells(type) /\ Send(r) =>
              (InTransit(type) => InTransit(type)')
         /\ m \in Asks(type) /\ (r \notin Tells(type) \/ UNCHANGED toClient) =>
              (InTransit(type) => Absent(type)')
<1>1. PICK i \in DOMAIN toGateway :
        m = toGateway[i] /\ toGateway' = RemoveAt(toGateway, i)
  BY Queues, QueueOps DEF GwTakes
<1>2. m \in SoundRequest
  BY <1>1, Queues, QueueOps
<1>3. /\ None(toGateway, Asks(type)) => None(toGateway', Asks(type))
      /\ One(toGateway, Asks(type)) /\ m \in Asks(type) => None(toGateway', Asks(type))
      /\ One(toGateway, Asks(type)) /\ m \notin Asks(type) => One(toGateway', Asks(type))
  BY <1>1, Queues, RemoveToken
<1>4. m \in Asks(type) => ~None(toGateway, Asks(type))
  BY <1>1, TokenFound
<1>5. r \notin Tells(type) \/ UNCHANGED toClient =>
        /\ None(toClient, Tells(type)) => None(toClient', Tells(type))
        /\ One(toClient, Tells(type)) => One(toClient', Tells(type))
  BY Queues, AppendToken DEF Send
<1>6. r \in Tells(type) /\ Send(r) =>
        (None(toClient, Tells(type)) => One(toClient', Tells(type)))
  BY Queues, AppendToken DEF Send
<1> QED
  BY <1>2, <1>3, <1>4, <1>5, <1>6 DEF Kept, Absent, InTransit

-----------------------------------------------------------------------------
(* SessionInv: the steps of the client                                      *)

Connecting == {"connect_pump", "connect_check"}

(* A step outside connect(), or one inside it, that sends neither CONNECT nor *)
(* DISCONNECT                                                               *)
LEMMA SessionSendStep ==
  ASSUME NoCopies, TypeInv, SessionInv, toClient' = toClient,
         UNCHANGED <<mqttsn_connected, gatewayVars>>, budget'["dup"] = budget["dup"],
         \/ Silent
         \/ \E m \in SoundRequest : m \notin Asks("CONNACK") /\ Transmit(m),
         pc' \in Connecting \/ Absent("CONNACK")
  PROVE  SessionInv'
<1>1. Kept("CONNACK")
  BY SendsOther
<1>2. Absent("CONNACK")' \/ InTransit("CONNACK")'
  BY <1>1 DEF SessionInv, Kept
<1>3. mqttsn_connected' \/ pc' \notin Connecting => Absent("CONNACK")'
  BY <1>1 DEF SessionInv, Kept, Connecting
<1>4. linkUp' /\ ~socket_disconnected'
  <2>1. CASE Silent
    BY <2>1 DEF SessionInv, Silent
  <2>2. ASSUME NEW m \in SoundRequest, Transmit(m)
        PROVE  linkUp' /\ ~socket_disconnected'
    BY <2>2, TransmitSucceeds DEF SessionInv
  <2> QED
    BY <2>1, <2>2
<1>5. mqttsn_connected' \/ ~None(toClient', Accepting) => gwSession'
  BY DEF SessionInv, gatewayVars
<1> QED
  BY <1>2, <1>3, <1>4, <1>5 DEF SessionInv, Connecting, Accepting

(* A CONNECT starts the exchange.                                            *)
LEMMA SessionConnectStep ==
  ASSUME NoCopies, TypeInv, SessionInv, toClient' = toClient,
         UNCHANGED <<mqttsn_connected, gatewayVars>>, budget'["dup"] = budget["dup"],
         ~mqttsn_connected, Absent("CONNACK"), SendConnect
  PROVE  SessionInv'
<1>1. Transmit(Plain("CONNECT")) /\ pc' = "connect_pump"
  BY DEF SendConnect
<1>2. Plain("CONNECT") \in SoundRequest /\ Plain("CONNECT") \in Asks("CONNACK")
  <2>1. Plain("CONNECT") \in SoundRequest
    BY PlainTypes DEF ToGatewayTypes
  <2> QED
    BY <2>1 DEF SoundRequest, Asks, RequestOf, Plain
<1>3. InTransit("CONNACK")'
  BY <1>1, <1>2, SendsAsk
<1>4. linkUp' /\ ~socket_disconnected'
  BY <1>1, TransmitSucceeds DEF SessionInv
<1>5. mqttsn_connected' \/ ~None(toClient', Accepting) => gwSession'
  BY DEF SessionInv, gatewayVars
<1> QED
  BY <1>1, <1>3, <1>4, <1>5 DEF SessionInv, Accepting

LEMMA PlainSent ==
  /\ \A type \in {"PINGRESP", "PINGREQ"} :
       Plain(type) \in SoundRequest /\ Plain(type) \notin Asks("CONNACK")
  /\ Plain("DISCONNECT") \in SoundRequest /\ Plain("DISCONNECT") \in Asks("CONNACK")
<1>1. \A type \in {"PINGRESP", "PINGREQ", "DISCONNECT"} : Plain(type) \in SoundRequest
  BY PlainTypes DEF ToGatewayTypes
<1> QED
  BY <1>1 DEF SoundRequest, Asks, RequestOf, Plain

LEMMA SpendOnly ==
  ASSUME TypeInv, NEW kind \in BudgetKinds, Spend(kind)
  PROVE  /\ budget[kind] > 0
         /\ \A k \in BudgetKinds \ {kind} : budget'[k] = budget[k]
BY DEF TypeInv, LinkInv, Spend

LEMMA SketchCallsSession ==
  ASSUME NoCopies, TypeInv, SessionInv, SketchCalls, UNCHANGED gatewayVars
  PROVE  SessionInv'
<1> USE DEF sessionVars, topicVars
<1>1. Spend("call")
  BY DEF SketchCalls, Connect, Subscribe, Publish, PublishRefused
<1>2. budget'["dup"] = budget["dup"]
  BY <1>1, SpendOnly DEF BudgetKinds
<1>3. pc = "app" /\ Absent("CONNACK")
  BY DEF SketchCalls, Connect, Subscribe, Publish, PublishRefused, InSketch, SessionInv
<1>4. CASE Connect
  BY <1>2, <1>3, <1>4, SessionConnectStep DEF Connect
<1>5. CASE ~Connect
  <2>1. Silent /\ toClient' = toClient /\ mqttsn_connected' = mqttsn_connected
    BY <1>5 DEF SketchCalls, Subscribe, Publish, PublishRefused
  <2> QED
    BY <1>2, <1>3, <2>1, SessionSendStep
<1> QED
  BY <1>4, <1>5

LEMMA SendPublishSends ==
  ASSUME TypeInv, pc \in {"publish_topic", "register_ack"},
         NEW topic_id \in Nat, SendPublish(topic_id)
  PROVE  \/ Silent
         \/ \E m \in SoundRequest : m.type = "PUBLISH" /\ Transmit(m)
<1>1. CASE topic_id = 0
  BY <1>1 DEF SendPublish
<1>2. CASE topic_id # 0
  <2> DEFINE id == IF call.qos = 0 THEN 0 ELSE NextMsgId
             m == PublishMsg(id, call.topic, topic_id, call.qos)
  <2>1. Transmit(m)
    BY <1>2 DEF SendPublish
  <2>2. id \in MsgIds /\ call.topic \in Topics /\ call.qos \in Qos
    BY NextMsgIdType, LinkAssumption
       DEF MsgIds, TypeInv, ClientTypeOK, CallInv, Waits
  <2>3. m.type = "PUBLISH"
    BY DEF PublishMsg, Plain
  <2> HIDE DEF id
  <2>4. m \in SoundRequest
    BY <2>2, RequestTypes
  <2> QED
    BY <2>1, <2>3, <2>4
<1> QED
  BY <1>1, <1>2

(* Everything the thread does by itself, but the next try of connect()       *)
LEMMA ContinuesSends ==
  ASSUME TypeInv, Continues
  PROVE  /\ UNCHANGED <<mqttsn_connected, toClient, budget>>
         /\ \/ Silent
            \/ \E m \in SoundRequest :
                 m.type \in {"SUBSCRIBE", "REGISTER", "PUBLISH", "PINGREQ"} /\ Transmit(m)
<1> USE DEF sessionVars, topicVars, linkVars
<1>1. UNCHANGED <<mqttsn_connected, toClient, budget>>
  BY DEF Continues, PumpNothing, PumpFails, ConnectCheck, SendSubscribe,
     SubscribeReturns, PublishIdle, PublishRegistered, PublishUnregistered,
     PublishReturns, SendRegister, RegisterReturns, Loop, LoopPing
<1>2. CASE SendSubscribe
  <2>1. PICK qos \in SentQos(call.qos) :
          Transmit(SubscribeMsg(NextMsgId, call.topic, qos))
    BY <1>2 DEF SendSubscribe
  <2>2. call.topic \in Topics /\ qos \in Qos
    BY <1>2 DEF SendSubscribe, SentQos, Qos, TypeInv, CallInv, Waits
  <2>3. SubscribeMsg(NextMsgId, call.topic, qos) \in SoundRequest
    BY <2>2, NextMsgIdType, RequestTypes DEF TypeInv
  <2>4. SubscribeMsg(NextMsgId, call.topic, qos).type = "SUBSCRIBE"
    BY DEF SubscribeMsg, Plain
  <2> QED
    BY <1>1, <2>1, <2>3, <2>4
<1>3. CASE SendRegister
  <2>1. Transmit(RegisterMsg(NextMsgId, call.topic)) /\ call.topic \in Topics /\ 0 \in Qos
    BY <1>3 DEF SendRegister, TypeInv, CallInv, Waits, Qos
  <2>2. RegisterMsg(NextMsgId, call.topic) \in SoundRequest
    BY <2>1, NextMsgIdType, RequestTypes, LinkAssumption DEF TypeInv
  <2>3. RegisterMsg(NextMsgId, call.topic).type = "REGISTER"
    BY DEF RegisterMsg, Plain
  <2> QED
    BY <1>1, <2>1, <2>2, <2>3
<1>4. CASE PublishRegistered
  <2>1. RegisteredId(call.topic) \in Nat
    BY DEF RegisteredId, Registration, TypeInv, ClientTypeOK
  <2> QED
    BY <1>1, <1>4, <2>1, SendPublishSends DEF PublishRegistered
<1>5. CASE RegisterReturns
  <2>1. publish_registration.topic_id \in Nat
    BY DEF Registration, TypeInv, ClientTypeOK
  <2> QED
    BY <1>1, <1>5, <2>1, SendPublishSends DEF RegisterReturns
<1>6. ASSUME NEW beat \in BOOLEAN, LoopPing(beat)
      PROVE  \/ Silent
             \/ \E m \in SoundRequest : m.type = "PINGREQ" /\ Transmit(m)
  <2>1. Plain("PINGREQ") \in SoundRequest /\ Plain("PINGREQ").type = "PINGREQ"
    BY PlainSent DEF Plain
  <2> QED
    BY <1>6, <2>1 DEF LoopPing
<1>7. CASE PumpNothing \/ PumpFails \/ ConnectCheck \/ SubscribeReturns \/ PublishIdle
           \/ PublishUnregistered \/ PublishReturns \/ Loop
  BY <1>1, <1>7 DEF PumpNothing, PumpFails, ConnectCheck, ConnectReturns,
     SubscribeReturns, PublishIdle, PublishUnregistered, PublishReturns, Loop, Silent
<1> QED
  BY <1>1, <1>2, <1>3, <1>4, <1>5, <1>6, <1>7 DEF Continues

LEMMA ContinuesSession ==
  ASSUME NoCopies, TypeInv, SessionInv, Continues, UNCHANGED gatewayVars
  PROVE  SessionInv'
<1>1. /\ UNCHANGED <<mqttsn_connected, toClient, budget>>
      /\ \/ Silent
         \/ \E m \in SoundRequest : m \notin Asks("CONNACK") /\ Transmit(m)
  BY ContinuesSends DEF Asks, RequestOf
<1>2. pc' \in Connecting \/ Absent("CONNACK")
  <2>1. CASE pc \notin Connecting
    BY <2>1 DEF SessionInv, Connecting
  <2>2. CASE pc \in Connecting /\ PumpNothing
    BY <2>2 DEF PumpNothing, AfterPump, Places, Connecting
  <2>3. CASE pc \in Connecting /\ ConnectCheck
    BY <2>3 DEF ConnectCheck, SessionInv, Connecting
  <2>4. pc \in Connecting => PumpNothing \/ ConnectCheck
    BY DEF Continues, Connecting, PumpFails, SendSubscribe, SubscribeReturns,
       PublishIdle, PublishRegistered, PublishUnregistered, PublishReturns,
       SendRegister, RegisterReturns, Loop, InSketch, LoopPing, Waits
  <2> QED
    BY <2>1, <2>2, <2>3, <2>4
<1> QED
  BY <1>1, <1>2, SessionSendStep

(* The timeout beats when nothing is under way any more.                     *)
LEMMA TimeoutAbsent ==
  ASSUME NoCopies, ConnectTimeout, NEW type
  PROVE  Absent(type)
BY EmptyQueue DEF NoCopies, ConnectTimeout, Absent

LEMMA ConnectBeatSession ==
  ASSUME NoCopies, TypeInv, SessionInv, ConnectBeat, UNCHANGED gatewayVars
  PROVE  SessionInv'
<1>1. /\ UNCHANGED <<mqttsn_connected, toClient, budget>> /\ ~mqttsn_connected
      /\ Absent("CONNACK")
      /\ SendConnect \/ Silent
  BY TimeoutAbsent DEF ConnectBeat, ConnectReturns
<1> QED
  BY <1>1, SessionConnectStep, SessionSendStep

(* A CONNACK of the gateway ends the exchange, or a DISCONNECT continues it.  *)
LEMMA ParseConnackSession ==
  ASSUME NoCopies, TypeInv, SessionInv, UNCHANGED gatewayVars,
         NEW m, ParseConnack(m), m \in Reply
  PROVE  SessionInv'
<1>1. Reads(m) /\ m \in Tells("CONNACK") /\ budget' = budget
  BY DEF ParseConnack, Dispatched, Tells, Reads
<1>2. PICK i \in DOMAIN toClient : m = toClient[i] /\ toClient' = RemoveAt(toClient, i)
  BY <1>1, Queues, QueueOps DEF NoCopies, Reads, SocketReceive, DatagramReceive
<1>3. ~None(toClient, Tells("CONNACK"))
  BY <1>1, <1>2, TokenFound
<1>4. InTransit("CONNACK") /\ ~mqttsn_connected /\ pc \in Connecting
  BY <1>3 DEF SessionInv, Absent, Connecting
<1>5. None(toGateway, Asks("CONNACK")) /\ One(toClient, Tells("CONNACK"))
  BY <1>3, <1>4 DEF InTransit
<1>6. None(toClient', Tells("CONNACK"))
  BY <1>1, <1>2, <1>5, Queues, RemoveToken
<1>7. None(toClient', Accepting)
  BY <1>6 DEF None, Accepting
<1>8. m.return_code = "ACCEPTED" => gwSession
  <2>1. m.return_code = "ACCEPTED" => m \in Accepting
    BY <1>1 DEF Accepting
  <2> QED
    BY <1>2, <2>1, TokenFound DEF SessionInv
<1>9. CASE Silent /\ (mqttsn_connected' => m.return_code = "ACCEPTED")
  <2>1. Absent("CONNACK")'
    BY <1>5, <1>6, <1>9 DEF Silent, Absent
  <2> QED
    BY <1>1, <1>7, <1>8, <1>9, <2>1 DEF SessionInv, Silent, gatewayVars
<1>10. CASE Transmit(Plain("DISCONNECT")) /\ mqttsn_connected' = mqttsn_connected
  <2>1. toGateway' = Append(toGateway, Plain("DISCONNECT"))
        /\ linkUp' /\ ~socket_disconnected'
    BY <1>10, TransmitSucceeds DEF SessionInv
  <2>2. One(toGateway', Asks("CONNACK"))
    BY <1>5, <2>1, Queues, PlainSent, AppendToken
  <2>3. InTransit("CONNACK")'
    BY <1>6, <2>2 DEF InTransit
  <2>4. pc' \in Connecting
    <3>1. pc' = AfterPump[pc] /\ pc \in {"connect_pump"}
      BY <1>1, <1>4 DEF Reads, Pumping, Connecting, Waits
    <3> QED
      BY <3>1 DEF AfterPump, Places, Connecting
  <2> QED
    BY <1>1, <1>4, <1>7, <1>10, <2>1, <2>3, <2>4 DEF SessionInv, Connecting
<1> QED
  BY <1>4, <1>9, <1>10 DEF ParseConnack, ConnackAccepted, ConnackCongestion

LEMMA ReceiveDataSession ==
  ASSUME NoCopies, TypeInv, SessionInv, ReceiveData, UNCHANGED gatewayVars
  PROVE  SessionInv'
<1> USE DEF sessionVars, topicVars
<1>1. PICK m \in ToSet(toClient) :
        \/ Ignore(m) \/ ParsePingreq(m) \/ ParsePingresp(m) \/ ParseConnack(m)
        \/ ParseSuback(m) \/ ParseRegack(m) \/ ParsePublish(m)
  BY DEF ReceiveData
<1>2. m \in Reply
  BY Queues, QueueOps
<1>3. CASE ParseConnack(m)
  BY <1>2, <1>3, ParseConnackSession
<1>4. CASE ~ParseConnack(m)
  <2>1. /\ Reads(m) /\ UNCHANGED <<mqttsn_connected, budget>>
        /\ Silent \/ Transmit(Plain("PINGRESP"))
    BY <1>1, <1>4 DEF Ignore, ParsePingreq, ParsePingresp, ParseSuback, ParseRegack,
       ParsePublish, Reads
  <2>2. m \notin Tells("CONNACK")
    BY <1>1, <1>4 DEF Ignore, HandledTypes, ParsePingreq, ParsePingresp, ParseSuback,
       ParseRegack, ParsePublish, Dispatched, Tells
  <2>3. Plain("PINGRESP") \in SoundRequest /\ Plain("PINGRESP") \notin Asks("CONNACK")
    BY PlainSent
  <2>4. Kept("CONNACK")
    BY <2>1, <2>2, <2>3, ReadsToken
  <2>5. linkUp' /\ ~socket_disconnected'
    <3>1. CASE Silent
      BY <3>1 DEF SessionInv, Silent
    <3>2. CASE Transmit(Plain("PINGRESP"))
      BY <3>2, TransmitSucceeds DEF SessionInv
    <3> QED
      BY <2>1, <3>1, <3>2
  <2>6. None(toClient, Accepting) => None(toClient', Accepting)
    <3>1. PICK i \in DOMAIN toClient : toClient' = RemoveAt(toClient, i)
      BY <2>1, Queues, QueueOps DEF NoCopies, Reads, SocketReceive, DatagramReceive
    <3> QED
      BY <3>1, Queues, RemoveToken
  <2>7. pc' \in Connecting <=> pc \in Connecting
    <3>1. pc \in Places /\ pc' = AfterPump[pc]
          /\ (pc \in {"loop_pump", "connect_pump"} \/ pc \in Waits)
      BY <2>1 DEF Reads, Pumping, TypeInv, ClientTypeOK
    <3> QED
      BY <3>1 DEF AfterPump, Waits, Connecting
  <2> QED
    BY <2>1, <2>4, <2>5, <2>6, <2>7 DEF SessionInv, Kept, Connecting, gatewayVars
<1> QED
  BY <1>3, <1>4

-----------------------------------------------------------------------------
(* SessionInv: the gateway and the network                                  *)

(* Anything the gateway sends that is not an accepting CONNACK               *)
LEMMA NoAccepting ==
  ASSUME TypeInv, NEW r \in Reply, Send(r) \/ UNCHANGED toClient,
         r \notin Accepting \/ UNCHANGED toClient, None(toClient, Accepting)
  PROVE  None(toClient', Accepting)
BY Queues, AppendToken DEF Send

LEMMA GwConnectSession ==
  ASSUME TypeInv, SessionInv, NEW m, GwConnect(m)
  PROVE  SessionInv'
<1>1. GwTakes(m) /\ m.type = "CONNECT"
  BY DEF GwConnect
<1>2. PICK code \in ConnackCodes :
        /\ Send([PlainReply("CONNACK", "gateway") EXCEPT !.return_code = code])
        /\ IF code = "ACCEPTED" THEN gwSession' = TRUE /\ gwSubs' = {}
                                ELSE UNCHANGED gatewayVars
  BY DEF GwConnect
<1> DEFINE r == [PlainReply("CONNACK", "gateway") EXCEPT !.return_code = code]
<1>3. r \in Reply /\ r.type = "CONNACK" /\ r.from = "gateway" /\ r.return_code = code
  <2>1. /\ "CONNACK" \in ToClientTypes /\ code \in ReturnCodes
        /\ 0 \in MsgIds /\ 0 \in Nat /\ 0 \in Qos
    BY GatewayAssumption, LinkAssumption DEF ToClientTypes, MsgIds, Qos
  <2>2. r \in Reply
    BY <2>1, ReplyTypes
  <2> QED
    BY <2>2 DEF PlainReply
<1> HIDE DEF r
<1>4. r \in Tells("CONNACK") /\ Send(r)
  BY <1>2, <1>3 DEF Tells, r
<1>5. m \in Asks("CONNACK")
  BY <1>1, <1>4, <1>3, GatewayToken DEF Asks, RequestOf, SoundRequest
<1>6. ~Absent("CONNACK") /\ (InTransit("CONNACK") => InTransit("CONNACK")')
  BY <1>1, <1>3, <1>4, <1>5, GatewayToken
<1>7. /\ InTransit("CONNACK")' /\ ~mqttsn_connected /\ pc \in Connecting
  BY <1>6 DEF SessionInv, Connecting
<1>8. ~None(toClient', Accepting) => gwSession'
  <2>1. CASE code = "ACCEPTED"
    BY <1>2, <2>1
  <2>2. CASE code # "ACCEPTED"
    <3>1. r \notin Accepting
      BY <1>3, <2>2 DEF Accepting
    <3>2. None(toClient, Accepting) => None(toClient', Accepting)
      BY <1>3, <1>4, <3>1, NoAccepting
    <3> QED
      BY <1>2, <2>2, <3>2 DEF SessionInv, gatewayVars
  <2> QED
    BY <2>1, <2>2
<1>9. UNCHANGED <<linkUp, socket_disconnected, budget, mqttsn_connected, pc>>
  BY <1>1 DEF GwTakes, clientVars
<1> QED
  BY <1>7, <1>8, <1>9 DEF SessionInv, Connecting, Accepting

LEMMA GwDisconnectSession ==
  ASSUME TypeInv, SessionInv, NEW m, GwDisconnect(m)
  PROVE  SessionInv'
<1> DEFINE r == PlainReply("DISCONNECT", "gateway")
<1>1. GwTakes(m) /\ m.type = "DISCONNECT" /\ Send(r)
  BY DEF GwDisconnect
<1>2. r \in Reply /\ r \notin Tells("CONNACK")
  <2>1. /\ "DISCONNECT" \in ToClientTypes /\ "ACCEPTED" \in ReturnCodes
        /\ 0 \in MsgIds /\ 0 \in Nat /\ 0 \in Qos
    BY LinkAssumption DEF ToClientTypes, ReturnCodes, MsgIds, Qos
  <2>2. r \in Reply
    BY <2>1, ReplyTypes
  <2> QED
    BY <2>2 DEF PlainReply, Tells
<1> HIDE DEF r
<1>3. m \in Asks("CONNACK")
  BY <1>1, <1>2, GatewayToken DEF Asks, SoundRequest
<1>4. ~Absent("CONNACK") /\ (InTransit("CONNACK") => Absent("CONNACK")')
  BY <1>1, <1>2, <1>3, GatewayToken
<1>5. Absent("CONNACK")' /\ ~mqttsn_connected
  BY <1>4 DEF SessionInv
<1>6. None(toClient', Accepting)
  <2>1. PICK i \in DOMAIN toGateway : m = toGateway[i]
    BY <1>1, Queues, QueueOps DEF GwTakes
  <2>2. None(toClient, Tells("CONNACK"))
    BY <1>3, <1>4, <2>1, TokenFound DEF SessionInv, InTransit
  <2>3. None(toClient, Accepting) /\ r \notin Accepting
    BY <1>2, <2>2 DEF None, Accepting
  <2> QED
    BY <1>1, <1>2, <2>3, NoAccepting
<1>7. UNCHANGED <<linkUp, socket_disconnected, budget, mqttsn_connected, pc>>
  BY <1>1 DEF GwTakes, clientVars
<1> QED
  BY <1>5, <1>6, <1>7 DEF SessionInv, Connecting, Accepting

(* Every other answer leaves the exchange of connect() alone.                *)
LEMMA GwOtherSession ==
  ASSUME TypeInv, SessionInv, NEW m, GwTakes(m), UNCHANGED gwSession,
         m.type \notin {"CONNECT", "DISCONNECT"}, NEW r \in Reply,
         r.type # "CONNACK", Send(r) \/ UNCHANGED toClient
  PROVE  SessionInv'
<1>1. m \notin Asks("CONNACK") /\ r \notin Tells("CONNACK") /\ r \notin Accepting
  BY DEF Asks, RequestOf, Tells, Accepting
<1>2. Kept("CONNACK")
  BY <1>1, GatewayToken
<1>3. None(toClient, Accepting) => None(toClient', Accepting)
  BY <1>1, NoAccepting
<1>4. UNCHANGED <<linkUp, socket_disconnected, budget, mqttsn_connected, pc>>
  BY DEF GwTakes, clientVars
<1> QED
  BY <1>2, <1>3, <1>4 DEF SessionInv, Kept, Accepting

(* What the gateway answers to anything but CONNECT and DISCONNECT           *)
LEMMA OtherAnswer ==
  ASSUME TypeInv, NEW m,
         GwNoSession(m) \/ GwSubscribe(m) \/ GwRegister(m) \/ GwPublish(m)
           \/ GwPing(m) \/ GwPingresp(m)
  PROVE  /\ GwTakes(m) /\ m \in SoundRequest /\ UNCHANGED gwSession
         /\ m.type \notin {"CONNECT", "DISCONNECT"}
         /\ \E r \in Reply : r.type # "CONNACK" /\ (Send(r) \/ UNCHANGED toClient)
<1> USE DEF gatewayVars
<1>1. GwTakes(m) /\ UNCHANGED gwSession /\ m.type \notin {"CONNECT", "DISCONNECT"}
  BY DEF GwNoSession, GwSubscribe, GwRegister, GwPublish, GwPing, GwPingresp
<1>2. m \in SoundRequest /\ m.message_id \in MsgIds /\ m.topic_id \in Nat /\ m.qos \in Qos
      /\ m.topic \in Topics \cup {NoTopic}
  <2>1. m \in SoundRequest
    BY <1>1, GwTakesType
  <2> QED
    BY <2>1 DEF SoundRequest, Request
<1>3. /\ "ACCEPTED" \in ReturnCodes
      /\ 0 \in MsgIds /\ 0 \in Qos /\ 0 \in Nat
      /\ {"SUBACK", "REGACK", "PUBACK", "PINGRESP", "DISCONNECT"} \subseteq ToClientTypes
  BY LinkAssumption DEF ReturnCodes, MsgIds, Qos, ToClientTypes
<1>4. \A type \in {"PINGRESP", "DISCONNECT"} :
        PlainReply(type, "gateway") \in Reply /\ PlainReply(type, "gateway").type = type
  <2>1. \A type \in {"PINGRESP", "DISCONNECT"} : PlainReply(type, "gateway") \in Reply
    BY <1>3, ReplyTypes
  <2> QED
    BY <2>1 DEF PlainReply
<1>5. CASE GwNoSession(m) \/ GwPing(m) \/ GwPingresp(m)
  BY <1>1, <1>2, <1>4, <1>5 DEF GwNoSession, GwPing, GwPingresp
<1>6. CASE GwSubscribe(m)
  <2>1. m.topic \in Topics
    BY <1>2, <1>6 DEF GwSubscribe, SoundRequest
  <2>2. ASSUME NEW granted \in 0 .. m.qos,
               Send([PlainReply("SUBACK", "gateway") EXCEPT
                       !.message_id = m.message_id, !.qos = granted,
                       !.topic_id = TopicIdOf[m.topic]])
        PROVE  \E r \in Reply : r.type # "CONNACK" /\ Send(r)
    <3> DEFINE r == [PlainReply("SUBACK", "gateway") EXCEPT
                       !.message_id = m.message_id, !.qos = granted,
                       !.topic_id = TopicIdOf[m.topic]]
    <3>1. granted \in Qos /\ TopicIdOf[m.topic] \in Nat
      BY <1>2, <2>1, GatewayAssumption DEF Qos
    <3>2. r \in Reply
      BY <1>2, <1>3, <3>1, ReplyTypes
    <3>3. r.type = "SUBACK"
      BY DEF PlainReply
    <3> QED
      BY <2>2, <3>2, <3>3
  <2>3. ASSUME NEW code \in SubackCodes(m),
               Send([PlainReply("SUBACK", "gateway") EXCEPT
                       !.message_id = m.message_id, !.return_code = code])
        PROVE  \E r \in Reply : r.type # "CONNACK" /\ Send(r)
    <3> DEFINE r == [PlainReply("SUBACK", "gateway") EXCEPT
                       !.message_id = m.message_id, !.return_code = code]
    <3>1. code \in ReturnCodes
      BY GatewayAssumption DEF SubackCodes, ReturnCodes
    <3>2. r \in Reply
      BY <1>2, <1>3, <3>1, ReplyTypes
    <3>3. r.type = "SUBACK"
      BY DEF PlainReply
    <3> QED
      BY <2>3, <3>2, <3>3
  <2>4. \E r \in Reply : r.type # "CONNACK" /\ Send(r)
    BY <1>6, <2>2, <2>3 DEF GwSubscribe
  <2> QED
    BY <1>1, <1>2, <2>4
<1>7. CASE GwRegister(m)
  <2>1. m.topic \in Topics
    BY <1>2, <1>7 DEF GwRegister, SoundRequest
  <2>2. PICK code \in AckCodes :
          Send([PlainReply("REGACK", "gateway") EXCEPT
                  !.message_id = m.message_id, !.return_code = code,
                  !.topic_id = IF code = "ACCEPTED" THEN TopicIdOf[m.topic] ELSE 0])
    BY <1>7 DEF GwRegister
  <2> DEFINE id == IF code = "ACCEPTED" THEN TopicIdOf[m.topic] ELSE 0
             r == [PlainReply("REGACK", "gateway") EXCEPT
                     !.message_id = m.message_id, !.return_code = code, !.topic_id = id]
  <2>3. id \in Nat /\ code \in ReturnCodes
    BY <2>1, GatewayAssumption
  <2>4. r \in Reply /\ r.type = "REGACK"
    <3> HIDE DEF id
    <3>1. r \in Reply
      BY <1>2, <1>3, <2>3, ReplyTypes
    <3> QED
      BY <3>1 DEF PlainReply
  <2>5. Send(r)
    BY <2>2
  <2> HIDE DEF r
  <2> QED
    BY <1>1, <1>2, <2>4, <2>5
<1>8. CASE GwPublish(m)
  <2> DEFINE r == [PlainReply("PUBACK", "gateway") EXCEPT
                     !.message_id = m.message_id, !.topic_id = m.topic_id]
  <2>1. r \in Reply
    BY <1>2, <1>3, ReplyTypes
  <2>2. r.type = "PUBACK"
    BY DEF PlainReply
  <2>3. Send(r) \/ UNCHANGED toClient
    BY <1>8 DEF GwPublish
  <2> HIDE DEF r
  <2> QED
    BY <1>1, <1>2, <2>1, <2>2, <2>3
<1> QED
  BY <1>5, <1>6, <1>7, <1>8

LEMMA GatewaySession ==
  ASSUME TypeInv, SessionInv, Gateway
  PROVE  SessionInv'
<1>1. PICK m \in ToSet(toGateway) :
        \/ GwConnect(m) \/ GwNoSession(m) \/ GwSubscribe(m) \/ GwRegister(m)
        \/ GwPublish(m) \/ GwPing(m) \/ GwPingresp(m) \/ GwDisconnect(m)
  BY DEF Gateway
<1>2. CASE GwConnect(m)
  BY <1>2, GwConnectSession
<1>3. CASE GwDisconnect(m)
  BY <1>3, GwDisconnectSession
<1>4. CASE ~GwConnect(m) /\ ~GwDisconnect(m)
  BY <1>1, <1>4, OtherAnswer, GwOtherSession
<1> QED
  BY <1>2, <1>3, <1>4

(* A message nobody asked for is no token: a CONNACK of another node is not   *)
(* the gateway's.                                                            *)
LEMMA UnaskedMessage ==
  ASSUME TypeInv, GwPush \/ Noise
  PROVE  \E r \in Reply :
           /\ Send(r)
           /\ r.from = "other" \/ r.type \in {"PUBLISH", "PINGREQ"}
<1>1. /\ {"PUBLISH", "PINGREQ", "ADVERTISE", "CONNACK", "PINGRESP"} \subseteq ToClientTypes
      /\ 0 \in MsgIds /\ 1 \in MsgIds /\ 0 \in Nat /\ 0 \in Qos /\ "ACCEPTED" \in ReturnCodes
  BY LinkAssumption DEF ToClientTypes, MsgIds, Qos, ReturnCodes
<1>2. CASE Noise
  <2>1. PICK type \in {"ADVERTISE", "CONNACK", "PINGRESP"} :
          Send(PlainReply(type, "other"))
    BY <1>2 DEF Noise
  <2>2. PlainReply(type, "other") \in Reply
    BY <1>1, ReplyTypes
  <2> QED
    BY <2>1, <2>2 DEF PlainReply
<1>3. CASE Send(PlainReply("PINGREQ", "gateway"))
  <2>1. PlainReply("PINGREQ", "gateway") \in Reply
    BY <1>1, ReplyTypes
  <2> QED
    BY <1>3, <2>1 DEF PlainReply
<1>4. ASSUME NEW s \in gwSubs, NEW qos \in 0 .. s.qos, Send(Forwarded(s, qos))
      PROVE  \E r \in Reply : Send(r) /\ r.type \in {"PUBLISH", "PINGREQ"}
  <2>1. s.topic \in Topics /\ s.qos \in 0 .. 2
    BY DEF TypeInv, GatewayTypeOK, Subscriptions
  <2> DEFINE id == IF qos = 0 THEN 0 ELSE 1
             r == [PlainReply("PUBLISH", "gateway") EXCEPT
                     !.topic_id = TopicIdOf[s.topic], !.qos = qos, !.message_id = id]
  <2>2. qos \in Qos /\ TopicIdOf[s.topic] \in Nat /\ id \in MsgIds
    BY <1>1, <2>1, GatewayAssumption DEF Qos
  <2>3. Forwarded(s, qos) = r
    BY DEF Forwarded
  <2>4. r \in Reply /\ r.type = "PUBLISH"
    <3> HIDE DEF id
    <3>1. r \in Reply
      BY <1>1, <2>2, ReplyTypes
    <3> QED
      BY <3>1 DEF PlainReply
  <2> HIDE DEF r
  <2> QED
    BY <1>4, <2>3, <2>4
<1> QED
  BY <1>2, <1>3, <1>4 DEF GwPush

LEMMA UnaskedSession ==
  ASSUME TypeInv, SessionInv, GwPush \/ Noise
  PROVE  SessionInv'
<1>1. PICK r \in Reply : Send(r) /\ (r.from = "other" \/ r.type \in {"PUBLISH", "PINGREQ"})
  BY UnaskedMessage
<1>2. /\ UNCHANGED <<toGateway, linkUp, mqttsn_connected, pc, socket_disconnected, gwSession>>
      /\ Spend("push")
  BY DEF GwPush, Noise, clientVars, gatewayVars
<1>3. budget'["dup"] = budget["dup"]
  BY <1>2, SpendOnly DEF BudgetKinds
<1>4. r \notin Tells("CONNACK") /\ r \notin Accepting
  BY <1>1 DEF Tells, Accepting
<1>5. Kept("CONNACK")
  BY <1>1, <1>2, <1>4, Queues, AppendToken DEF Send, Kept, Absent, InTransit
<1>6. None(toClient, Accepting) => None(toClient', Accepting)
  BY <1>1, <1>4, NoAccepting
<1> QED
  BY <1>2, <1>3, <1>5, <1>6 DEF SessionInv, Kept, Accepting

(* A token may be lost.                                                      *)
LEMMA NetworkSession ==
  ASSUME NoCopies, TypeInv, SessionInv, Network \/ LinkDrop
  PROVE  SessionInv'
<1>1. Lose /\ UNCHANGED <<clientVars, gatewayVars>>
  <2>1. ~Spend("dup")
    BY DEF SessionInv, Spend
  <2> QED
    BY <2>1 DEF NoCopies, Network, Duplicate, LinkDrop
<1>2. budget'["dup"] = budget["dup"] /\ linkUp' = linkUp
  BY <1>1, SpendOnly DEF Lose, BudgetKinds
<1>3. /\ Absent("CONNACK") => Absent("CONNACK")'
      /\ InTransit("CONNACK") => Absent("CONNACK")' \/ InTransit("CONNACK")'
      /\ None(toClient, Accepting) => None(toClient', Accepting)
  <2>1. ASSUME NEW i \in DOMAIN toGateway, toGateway' = RemoveAt(toGateway, i),
               toClient' = toClient
        PROVE  /\ Absent("CONNACK") => Absent("CONNACK")'
               /\ InTransit("CONNACK") => Absent("CONNACK")' \/ InTransit("CONNACK")'
               /\ None(toClient, Accepting) => None(toClient', Accepting)
    <3>1. /\ None(toGateway, Asks("CONNACK")) => None(toGateway', Asks("CONNACK"))
          /\ One(toGateway, Asks("CONNACK")) =>
               None(toGateway', Asks("CONNACK")) \/ One(toGateway', Asks("CONNACK"))
      BY <2>1, Queues, RemoveToken
    <3> QED
      BY <2>1, <3>1 DEF Absent, InTransit
  <2>2. ASSUME NEW i \in DOMAIN toClient, toClient' = RemoveAt(toClient, i),
               toGateway' = toGateway
        PROVE  /\ Absent("CONNACK") => Absent("CONNACK")'
               /\ InTransit("CONNACK") => Absent("CONNACK")' \/ InTransit("CONNACK")'
               /\ None(toClient, Accepting) => None(toClient', Accepting)
    <3>1. /\ None(toClient, Tells("CONNACK")) => None(toClient', Tells("CONNACK"))
          /\ One(toClient, Tells("CONNACK")) =>
               None(toClient', Tells("CONNACK")) \/ One(toClient', Tells("CONNACK"))
          /\ None(toClient, Accepting) => None(toClient', Accepting)
      BY <2>2, Queues, RemoveToken
    <3> QED
      BY <2>2, <3>1 DEF Absent, InTransit
  <2> QED
    BY <1>1, <2>1, <2>2 DEF Lose
<1>4. UNCHANGED <<mqttsn_connected, pc, socket_disconnected, gwSession>>
  BY <1>1 DEF clientVars, gatewayVars
<1> QED
  BY <1>2, <1>3, <1>4 DEF SessionInv, Accepting

-----------------------------------------------------------------------------
LEMMA InitSession == NoCopies /\ Init => SessionInv
<1> SUFFICES ASSUME NoCopies, Init PROVE SessionInv
  OBVIOUS
<1>1. toGateway = <<>> /\ toClient = <<>> /\ linkUp = TRUE /\ budget = Budget
  BY DEF NoCopies, Init, LinkInit
<1>2. ~mqttsn_connected /\ ~socket_disconnected
  BY DEF Init, ClientInit
<1>3. Absent("CONNACK") /\ None(toClient, Accepting)
  BY <1>1, EmptyQueue DEF Absent
<1> QED
  BY <1>1, <1>2, <1>3 DEF SessionInv, NoCopies

LEMMA NextSession ==
  ASSUME NoCopies, TypeInv, SessionInv, [Next]_vars
  PROVE  SessionInv'
<1>1. CASE UNCHANGED vars
  <2>1. UNCHANGED <<toGateway, toClient, linkUp, budget, mqttsn_connected, pc,
                    socket_disconnected, gwSession>>
    BY <1>1 DEF vars, clientVars, linkVars, gatewayVars
  <2> QED
    BY <2>1 DEF SessionInv, Absent, InTransit, Accepting
<1>2. CASE Next
  BY <1>2, SketchCallsSession, ContinuesSession, ConnectBeatSession,
     ReceiveDataSession, GatewaySession, UnaskedSession, NetworkSession
     DEF Next, ClientNext
<1> QED
  BY <1>1, <1>2

(* Over a network that copies nothing, whatever it loses or reorders and      *)
(* whoever else sends to the client, the client believes it is connected     *)
(* only while the gateway has its session: of the two CONNECTs of connect()  *)
(* the one that is answered is the one that is awaited, and a CONNACK that    *)
(* is refused ends the session before the client tries again.                *)
THEOREM SessionCorrect == NoCopies => (Spec => []SessionAgrees)
<1> SUFFICES ASSUME NoCopies PROVE Spec => []SessionAgrees
  OBVIOUS
<1>1. Init => TypeInv /\ SessionInv
  BY InitTypeInv, InitSession
<1>2. TypeInv /\ SessionInv /\ [Next]_vars => (TypeInv /\ SessionInv)'
  BY NextTypeInv, NextSession
<1>3. SessionInv => SessionAgrees
  BY DEF SessionInv, SessionAgrees
<1> QED
  BY <1>1, <1>2, <1>3, PTL DEF Spec

-----------------------------------------------------------------------------
(* WaitInv: kinds of steps                                                   *)

LEMMA Kinds ==
  /\ Asks("SUBACK") = {m \in Request : m.type = "SUBSCRIBE"}
  /\ Asks("REGACK") = {m \in Request : m.type = "REGISTER"}
  /\ Asks("PINGRESP") = {m \in Request : m.type = "PINGREQ"}
BY DEF Asks, RequestOf

LEMMA NothingStale ==
  ASSUME NEW q, NEW id, None(q, Asks("SUBACK")), None(q, Asks("REGACK"))
  PROVE  None(q, Stale(id))
BY Kinds DEF None, Stale

LEMMA NothingMismatched ==
  ASSUME NEW q, NEW id, None(q, Tells("SUBACK")), None(q, Tells("REGACK"))
  PROVE  None(q, Mismatched(id))
BY DEF None, Mismatched

(* The client sends nothing, or something that asks for no answer but, at    *)
(* most, a PUBACK or a CONNACK.                                              *)
LEMMA WaitSendStep ==
  ASSUME NoCopies, TypeInv, WaitInv, toClient' = toClient,
         budget'["lose"] = budget["lose"],
         \/ Silent
         \/ \E m \in SoundRequest :
              m.type \notin {"SUBSCRIBE", "REGISTER", "PINGREQ"} /\ Transmit(m),
         \/ await_msg_type' = await_msg_type
         \/ await_msg_type \notin Requested /\ await_msg_type' \notin Requested,
         \/ msg_id_counter' = msg_id_counter
         \/ await_msg_type \notin {"SUBACK", "REGACK"},
         AwaitPlaces'
  PROVE  WaitInv'
<1>1. ASSUME NEW type \in Requested PROVE Kept(type)
  <2>1. type \in {"SUBACK", "REGACK", "PINGRESP"}
    BY DEF Requested
  <2>2. \/ Silent
        \/ \E m \in SoundRequest : m \notin Asks(type) /\ Transmit(m)
    BY <2>1, Kinds
  <2> QED
    BY <2>2, SendsOther
<1>2. \A type \in Requested : Awaited(type)'
  BY <1>1 DEF WaitInv, Awaited, Kept
<1>3. Fresh'
  <2>1. None(toGateway, Stale(msg_id_counter'))
        /\ None(toClient, Mismatched(msg_id_counter'))
    <3>1. CASE msg_id_counter' = msg_id_counter
      BY <3>1 DEF WaitInv, Fresh
    <3>2. CASE await_msg_type \notin {"SUBACK", "REGACK"}
      <4>1. Absent("SUBACK") /\ Absent("REGACK")
        BY <3>2 DEF WaitInv, Awaited, Requested
      <4> QED
        BY <4>1, NothingStale, NothingMismatched DEF Absent
    <3> QED
      BY <3>1, <3>2
  <2>2. None(toGateway', Stale(msg_id_counter'))
    <3>1. CASE Silent
      BY <2>1, <3>1 DEF Silent
    <3>2. ASSUME NEW m \in SoundRequest,
                 m.type \notin {"SUBSCRIBE", "REGISTER", "PINGREQ"}, Transmit(m)
          PROVE  None(toGateway', Stale(msg_id_counter'))
      <4>1. toGateway' = Append(toGateway, m)
        BY <3>2, TransmitSucceeds
      <4>2. m \notin Stale(msg_id_counter')
        BY <3>2 DEF Stale
      <4> QED
        BY <2>1, <4>1, <4>2, Queues, AppendToken
    <3> QED
      BY <3>1, <3>2
  <2> QED
    BY <2>1, <2>2 DEF Fresh
<1> QED
  BY <1>2, <1>3 DEF WaitInv

(* The client asks, when it awaits nothing else.                             *)
LEMMA WaitAskStep ==
  ASSUME NoCopies, TypeInv, WaitInv, toClient' = toClient,
         budget'["lose"] = budget["lose"], await_msg_type \notin Requested,
         NEW type \in Requested, NEW m \in SoundRequest, m.type = RequestOf[type],
         m \notin Stale(msg_id_counter'), Transmit(m), await_msg_type' = type,
         AwaitPlaces'
  PROVE  WaitInv'
<1>1. \A t \in Requested : Absent(t)
  BY DEF WaitInv, Awaited
<1>2. type \in {"SUBACK", "REGACK", "PINGRESP"} /\ m \in Request
  BY DEF Requested, SoundRequest
<1>3. InTransit(type)'
  <2>1. m \in Asks(type)
    BY <1>2 DEF Asks
  <2> QED
    BY <1>1, <2>1, SendsAsk
<1>4. ASSUME NEW t \in Requested, t # type PROVE Absent(t)'
  <2>1. m \notin Asks(t)
    BY <1>2, <1>4 DEF Asks, Requested, RequestOf
  <2> QED
    BY <1>1, <2>1, SendsOther DEF Kept
<1>5. \A t \in Requested : Awaited(t)'
  BY <1>3, <1>4 DEF Awaited
<1>6. Fresh'
  <2>1. Absent("SUBACK") /\ Absent("REGACK")
    BY <1>1 DEF Requested
  <2>2. None(toGateway, Stale(msg_id_counter')) /\ None(toClient, Mismatched(msg_id_counter'))
    BY <2>1, NothingStale, NothingMismatched DEF Absent
  <2>3. toGateway' = Append(toGateway, m)
    BY TransmitSucceeds
  <2>4. None(toGateway', Stale(msg_id_counter'))
    BY <2>2, <2>3, Queues, AppendToken
  <2> QED
    BY <2>2, <2>4 DEF Fresh
<1> QED
  BY <1>5, <1>6 DEF WaitInv

(* An answer that is read was awaited, and is the one the client takes.       *)
LEMMA TokenAwaited ==
  ASSUME NoCopies, TypeInv, WaitInv, NEW m, Reads(m),
         NEW type \in Requested, m \in Tells(type)
  PROVE  /\ await_msg_type = type /\ mqttsn_connected
         /\ type # "PINGRESP" =>
              m.message_id = msg_id_counter /\ m.return_code = "ACCEPTED"
<1>1. PICK i \in DOMAIN toClient : m = toClient[i]
  BY Queues, QueueOps DEF NoCopies, Reads, SocketReceive, DatagramReceive
<1>2. ~None(toClient, Tells(type))
  BY <1>1, TokenFound
<1>3. await_msg_type = type
  BY <1>2 DEF WaitInv, Awaited, Absent
<1>4. mqttsn_connected
  BY <1>3 DEF WaitInv, AwaitPlaces, Requested
<1>5. m \notin Mismatched(msg_id_counter)
  BY <1>1 DEF WaitInv, Fresh, None
<1> QED
  BY <1>3, <1>4, <1>5 DEF Mismatched, Requested

LEMMA WaitReadStep ==
  ASSUME NoCopies, TypeInv, WaitInv, NEW m, Reads(m),
         \/ Silent
         \/ \E r \in SoundRequest :
              r.type \notin {"SUBSCRIBE", "REGISTER", "PINGREQ"} /\ Transmit(r),
         msg_id_counter' = msg_id_counter,
         IF \E type \in Requested : m \in Tells(type)
         THEN await_msg_type' \notin Requested
         ELSE \/ await_msg_type' = await_msg_type
              \/ await_msg_type \notin Requested /\ await_msg_type' \notin Requested,
         AwaitPlaces'
  PROVE  WaitInv'
<1>1. PICK i \in DOMAIN toClient : m = toClient[i] /\ toClient' = RemoveAt(toClient, i)
  BY Queues, QueueOps DEF NoCopies, Reads, SocketReceive, DatagramReceive
<1>2. ASSUME NEW type \in Requested
      PROVE  /\ m \notin Tells(type) => Kept(type)
             /\ m \in Tells(type) => (InTransit(type) => Absent(type)')
  <2>1. type \in {"SUBACK", "REGACK", "PINGRESP"}
    BY DEF Requested
  <2>2. \/ Silent
        \/ \E r \in SoundRequest : r \notin Asks(type) /\ Transmit(r)
    BY <2>1, Kinds
  <2> QED
    BY <2>2, ReadsToken
<1>3. ASSUME NEW type \in Requested PROVE Awaited(type)'
  <2>1. CASE m \in Tells(type)
    <3>1. await_msg_type = type /\ await_msg_type' # type
      BY <2>1, TokenAwaited
    <3> QED
      BY <1>2, <2>1, <3>1 DEF WaitInv, Awaited
  <2>2. CASE m \notin Tells(type) /\ \E t \in Requested : m \in Tells(t)
    <3>1. PICK t \in Requested : m \in Tells(t)
      BY <2>2
    <3>2. await_msg_type = t /\ t # type /\ await_msg_type' # type
      BY <2>2, <3>1, TokenAwaited
    <3> QED
      BY <1>2, <2>2, <3>2 DEF WaitInv, Awaited, Kept
  <2>3. CASE ~\E t \in Requested : m \in Tells(t)
    BY <1>2, <2>3 DEF WaitInv, Awaited, Kept
  <2> QED
    BY <2>1, <2>2, <2>3
<1>4. None(toClient', Mismatched(msg_id_counter'))
  BY <1>1, Queues, RemoveToken DEF WaitInv, Fresh
<1>5. None(toGateway', Stale(msg_id_counter'))
  <2>1. CASE Silent
    BY <2>1 DEF Silent, WaitInv, Fresh
  <2>2. ASSUME NEW r \in SoundRequest,
               r.type \notin {"SUBSCRIBE", "REGISTER", "PINGREQ"}, Transmit(r)
        PROVE  None(toGateway', Stale(msg_id_counter'))
    <3>1. toGateway' = Append(toGateway, r)
      BY <2>2, TransmitSucceeds
    <3>2. r \notin Stale(msg_id_counter')
      BY <2>2 DEF Stale
    <3>3. None(toGateway, Stale(msg_id_counter'))
      BY DEF WaitInv, Fresh
    <3> QED
      BY <3>1, <3>2, <3>3, Queues, AppendToken
  <2> QED
    BY <2>1, <2>2
<1>6. budget' = budget
  BY DEF Reads
<1> QED
  BY <1>3, <1>4, <1>5, <1>6 DEF WaitInv, Fresh

(* The gateway answers m with r, or with nothing.                            *)
LEMMA WaitGatewayStep ==
  ASSUME TypeInv, WaitInv, NEW m, GwTakes(m), NEW r \in Reply,
         Send(r) \/ UNCHANGED toClient, r \notin Mismatched(msg_id_counter),
         \A type \in Requested :
           IF m \in Asks(type) THEN r \in Tells(type) /\ Send(r)
                               ELSE r \notin Tells(type) \/ UNCHANGED toClient
  PROVE  WaitInv'
<1>1. UNCHANGED <<await_msg_type, msg_id_counter, pc, call, mqttsn_connected, budget>>
  BY DEF GwTakes, clientVars
<1>2. ASSUME NEW type \in Requested PROVE Awaited(type)'
  <2>1. CASE m \in Asks(type)
    <3>1. ~Absent(type) /\ (InTransit(type) => InTransit(type)')
      BY <2>1, GatewayToken
    <3> QED
      BY <1>1, <3>1 DEF WaitInv, Awaited
  <2>2. CASE m \notin Asks(type)
    <3>1. Kept(type)
      BY <2>2, GatewayToken
    <3> QED
      BY <1>1, <3>1 DEF WaitInv, Awaited, Kept
  <2> QED
    BY <2>1, <2>2
<1>3. Fresh'
  <2>1. PICK i \in DOMAIN toGateway : toGateway' = RemoveAt(toGateway, i)
    BY Queues, QueueOps DEF GwTakes
  <2>2. None(toGateway', Stale(msg_id_counter))
    BY <2>1, Queues, RemoveToken DEF WaitInv, Fresh
  <2>3. None(toClient', Mismatched(msg_id_counter))
    <3>1. None(toClient, Mismatched(msg_id_counter))
      BY DEF WaitInv, Fresh
    <3>2. CASE Send(r)
      <4>1. toClient' = Append(toClient, r)
        BY <3>2 DEF Send
      <4>2. None(Append(toClient, r), Mismatched(msg_id_counter))
        BY <3>1, Queues, AppendToken
      <4> QED
        BY <4>1, <4>2
    <3>3. CASE UNCHANGED toClient
      BY <3>1, <3>3
    <3> QED
      BY <3>2, <3>3
  <2> QED
    BY <1>1, <2>2, <2>3 DEF Fresh
<1>4. AwaitPlaces'
  BY <1>1 DEF WaitInv, AwaitPlaces, Idle
<1> QED
  BY <1>1, <1>2, <1>3, <1>4 DEF WaitInv

-----------------------------------------------------------------------------
(* WaitInv: the steps of the client                                          *)

LEMMA ConnectPlain ==
  /\ Plain("CONNECT") \in SoundRequest /\ Plain("CONNECT").type = "CONNECT"
  /\ Plain("DISCONNECT") \in SoundRequest /\ Plain("DISCONNECT").type = "DISCONNECT"
  /\ Plain("PINGRESP") \in SoundRequest /\ Plain("PINGRESP").type = "PINGRESP"
  /\ Plain("PINGREQ") \in SoundRequest /\ Plain("PINGREQ").type = "PINGREQ"
<1>1. \A type \in {"CONNECT", "DISCONNECT", "PINGRESP", "PINGREQ"} :
        Plain(type) \in SoundRequest /\ Plain(type).type = type
  BY PlainTypes DEF ToGatewayTypes, Plain
<1> QED
  BY <1>1

LEMMA SketchCallsWait ==
  ASSUME NoCopies, TypeInv, WaitInv, SketchCalls
  PROVE  WaitInv'
<1> USE DEF sessionVars, topicVars
<1>1. pc = "app" /\ Spend("call")
  BY DEF SketchCalls, Connect, Subscribe, Publish, PublishRefused, InSketch
<1>2. budget'["lose"] = budget["lose"]
  BY <1>1, SpendOnly DEF BudgetKinds
<1>3. await_msg_type \notin {"SUBACK", "REGACK"}
  BY <1>1 DEF WaitInv, AwaitPlaces
<1>4. CASE Connect
  <2>1. /\ ~mqttsn_connected /\ ~mqttsn_connected' /\ pc' = "connect_pump"
        /\ await_msg_type' = "CONNACK"
        /\ Transmit(Plain("CONNECT"))
        /\ UNCHANGED <<toClient, msg_id_counter>>
    BY <1>4 DEF Connect, SendConnect
  <2>2. AwaitPlaces' /\ await_msg_type \notin Requested /\ await_msg_type' \notin Requested
    BY <2>1 DEF WaitInv, AwaitPlaces, Requested
  <2> QED
    BY <1>2, <2>1, <2>2, ConnectPlain, WaitSendStep
<1>5. CASE ~Connect
  <2>1. /\ Silent
        /\ UNCHANGED <<toClient, await_msg_type, msg_id_counter, mqttsn_connected>>
    BY <1>5 DEF SketchCalls, Subscribe, Publish, PublishRefused
  <2>2. ~(pc' = "publish_topic" /\ call'.qos > 0)
    <3>1. ASSUME NEW topic, NEW qos \in AppQos, Publish(topic, qos)
          PROVE  ~(pc' = "publish_topic" /\ call'.qos > 0)
      BY <3>1 DEF Publish, Begin
    <3>2. ~(\E topic \in PubTopics, qos \in AppQos : Publish(topic, qos)) =>
            pc' # "publish_topic"
      BY <1>1, <1>5 DEF SketchCalls, Subscribe, PublishRefused
    <3> QED
      BY <3>1, <3>2
  <2>3. AwaitPlaces'
    BY <1>3, <2>1, <2>2 DEF WaitInv, AwaitPlaces
  <2> QED
    BY <1>2, <2>1, <2>3, WaitSendStep
<1> QED
  BY <1>4, <1>5

LEMMA SendPublishWait ==
  ASSUME NoCopies, TypeInv, WaitInv, pc \in {"publish_topic", "register_ack"},
         pc = "register_ack" => Idle,
         NEW topic_id \in Nat, SendPublish(topic_id),
         UNCHANGED <<mqttsn_connected, toClient, budget>>
  PROVE  WaitInv'
<1>1. \/ Silent
      \/ \E m \in SoundRequest :
           m.type \notin {"SUBSCRIBE", "REGISTER", "PINGREQ"} /\ Transmit(m)
  BY SendPublishSends
<1>2. await_msg_type \notin {"SUBACK", "REGACK"}
  BY DEF WaitInv, AwaitPlaces, Idle
<1>3. call.qos = 1 => Idle
  BY DEF WaitInv, AwaitPlaces
<1>4. \/ await_msg_type' = await_msg_type
      \/ call.qos = 1 /\ await_msg_type' = "PUBACK"
  BY DEF SendPublish
<1>5. \/ await_msg_type' = await_msg_type
      \/ await_msg_type \notin Requested /\ await_msg_type' \notin Requested
  BY <1>3, <1>4 DEF Idle, Requested
<1>6. pc' \in {"app", "publish_ack"}
  BY DEF SendPublish, Return
<1>7. AwaitPlaces'
  BY <1>2, <1>3, <1>4, <1>6 DEF WaitInv, AwaitPlaces, Idle
<1> QED
  BY <1>1, <1>2, <1>5, <1>7, WaitSendStep

LEMMA SendSubscribeWait ==
  ASSUME Reliable, TypeInv, WaitInv, SendSubscribe
  PROVE  WaitInv'
<1>1. Transmit(SubscribeMsg(NextMsgId, call.topic, call.qos))
  BY DEF SendSubscribe, SentQos, Reliable
<1> DEFINE m == SubscribeMsg(NextMsgId, call.topic, call.qos)
<1>2. call.topic \in Topics /\ call.qos \in Qos /\ call.qos # -1
  BY DEF SendSubscribe, Qos, TypeInv, CallInv, Waits
<1>3. m \in SoundRequest
  BY <1>2, NextMsgIdType, RequestTypes DEF TypeInv
<1>4. m.type = "SUBSCRIBE" /\ m.message_id = NextMsgId /\ m.qos = call.qos
  BY DEF SubscribeMsg, Plain
<1> HIDE DEF m
<1>5. msg_id_counter' = NextMsgId /\ await_msg_type' = "SUBACK" /\ pc' = "subscribe_ack"
      /\ Idle /\ UNCHANGED <<mqttsn_connected, toClient, budget>>
  BY DEF SendSubscribe
<1>6. m \notin Stale(msg_id_counter')
  BY <1>2, <1>4, <1>5 DEF Stale
<1>7. AwaitPlaces' /\ await_msg_type \notin Requested
  BY <1>5 DEF WaitInv, AwaitPlaces, Idle, Requested
<1>8. "SUBACK" \in Requested /\ RequestOf["SUBACK"] = "SUBSCRIBE"
  BY DEF Requested, RequestOf
<1> QED
  BY <1>1, <1>3, <1>4, <1>5, <1>6, <1>7, <1>8, WaitAskStep DEF m, Reliable

LEMMA SendRegisterWait ==
  ASSUME NoCopies, TypeInv, WaitInv, SendRegister
  PROVE  WaitInv'
<1> DEFINE m == RegisterMsg(NextMsgId, call.topic)
<1>1. Transmit(m)
  BY DEF SendRegister
<1>2. call.topic \in Topics /\ 0 \in Qos
  BY DEF SendRegister, Qos, TypeInv, CallInv, Waits
<1>3. m \in SoundRequest
  BY <1>2, NextMsgIdType, RequestTypes DEF TypeInv
<1>4. m.type = "REGISTER" /\ m.message_id = NextMsgId /\ m.qos = 0
  BY DEF RegisterMsg, Plain
<1> HIDE DEF m
<1>5. msg_id_counter' = NextMsgId /\ await_msg_type' = "REGACK" /\ pc' = "register_ack"
      /\ Idle /\ UNCHANGED <<mqttsn_connected, toClient, budget>>
  BY DEF SendRegister
<1>6. m \notin Stale(msg_id_counter')
  BY <1>4, <1>5 DEF Stale
<1>7. AwaitPlaces' /\ await_msg_type \notin Requested
  BY <1>5 DEF WaitInv, AwaitPlaces, Idle, Requested
<1>8. "REGACK" \in Requested /\ RequestOf["REGACK"] = "REGISTER"
  BY DEF Requested, RequestOf
<1> QED
  BY <1>1, <1>3, <1>4, <1>5, <1>6, <1>7, <1>8, WaitAskStep

LEMMA LoopPingWait ==
  ASSUME NoCopies, TypeInv, WaitInv, NEW beat \in BOOLEAN, LoopPing(beat)
  PROVE  WaitInv'
<1>1. /\ pc = "loop_ping" /\ pc' = "app"
      /\ UNCHANGED <<mqttsn_connected, toClient, budget, msg_id_counter>>
  BY DEF LoopPing, topicVars
<1>2. CASE Silent /\ await_msg_type' = await_msg_type
  <2>1. AwaitPlaces'
    BY <1>1, <1>2 DEF WaitInv, AwaitPlaces
  <2> QED
    BY <1>1, <1>2, <2>1, WaitSendStep
<1>3. CASE Transmit(Plain("PINGREQ")) /\ await_msg_type' = "PINGRESP" /\ Idle
  <2>1. AwaitPlaces' /\ await_msg_type \notin Requested
    BY <1>1, <1>3 DEF WaitInv, AwaitPlaces, Idle, Requested
  <2>2. Plain("PINGREQ") \notin Stale(msg_id_counter')
    BY ConnectPlain DEF Stale
  <2>3. "PINGRESP" \in Requested /\ RequestOf["PINGRESP"] = "PINGREQ"
    BY DEF Requested, RequestOf
  <2> QED
    BY <1>1, <1>3, <2>1, <2>2, <2>3, ConnectPlain, WaitAskStep
<1> QED
  BY <1>2, <1>3 DEF LoopPing

(* The thread goes on without sending.                                       *)
LEMMA PlacesWait ==
  ASSUME NoCopies, TypeInv, WaitInv, Silent,
         UNCHANGED <<mqttsn_connected, toClient, budget, msg_id_counter, await_msg_type>>,
         await_msg_type \in {"SUBACK", "REGACK"} => pc' = pc,
         pc' = "publish_topic" /\ call'.qos > 0 => Idle
  PROVE  WaitInv'
<1>1. AwaitPlaces'
  BY DEF WaitInv, AwaitPlaces, Idle
<1> QED
  BY <1>1, WaitSendStep

LEMMA ContinuesWait ==
  ASSUME Reliable, TypeInv, SessionInv, WaitInv, Continues
  PROVE  WaitInv'
<1> USE DEF sessionVars, topicVars, linkVars
<1>1. NoCopies
  BY DEF Reliable
<1>2. ~PumpFails
  BY DEF SessionInv, PumpFails
<1>3. CASE PumpNothing
  <2>1. pc' \in {"loop_ping", "connect_check"} /\ pc \notin {"subscribe_ack", "register_ack"}
    BY <1>3 DEF PumpNothing, AfterPump, Places
  <2>2. await_msg_type \notin {"SUBACK", "REGACK"}
    BY <2>1 DEF WaitInv, AwaitPlaces
  <2> QED
    BY <1>1, <1>3, <2>1, <2>2, PlacesWait DEF PumpNothing, Silent
<1>4. CASE ConnectCheck
  <2>1. /\ pc = "connect_check" /\ pc' \in {"app", "connect_pump"} /\ Silent
        /\ UNCHANGED <<mqttsn_connected, toClient, budget, msg_id_counter, await_msg_type>>
    BY <1>4 DEF ConnectCheck, ConnectReturns, Return
  <2>2. await_msg_type \notin {"SUBACK", "REGACK"}
    BY <2>1 DEF WaitInv, AwaitPlaces
  <2> QED
    BY <1>1, <2>1, <2>2, PlacesWait
<1>5. CASE SubscribeReturns \/ PublishReturns
  <2>1. Idle /\ pc' = "app" /\ Silent
        /\ UNCHANGED <<mqttsn_connected, toClient, budget, msg_id_counter, await_msg_type>>
    BY <1>5 DEF SubscribeReturns, PublishReturns, Return
  <2> QED
    BY <1>1, <2>1, PlacesWait DEF Idle
<1>6. CASE PublishIdle
  BY <1>1, <1>6, PlacesWait DEF PublishIdle, Idle
<1>7. CASE PublishUnregistered
  <2>1. await_msg_type \notin {"SUBACK", "REGACK"} /\ pc' = "register_idle"
    BY <1>7 DEF WaitInv, AwaitPlaces, PublishUnregistered
  <2> QED
    BY <1>1, <1>7, <2>1, PlacesWait DEF PublishUnregistered
<1>8. CASE Loop
  <2>1. await_msg_type \notin {"SUBACK", "REGACK"} /\ pc' = "loop_pump"
        /\ await_msg_type' = await_msg_type
    BY <1>8 DEF WaitInv, AwaitPlaces, Loop, InSketch, SessionInv
  <2> QED
    BY <1>1, <1>8, <2>1, PlacesWait DEF Loop
<1>9. CASE PublishRegistered
  <2>1. RegisteredId(call.topic) \in Nat
    BY DEF RegisteredId, Registration, TypeInv, ClientTypeOK
  <2> QED
    BY <1>1, <1>9, <2>1, SendPublishWait DEF PublishRegistered
<1>10. CASE RegisterReturns
  <2>1. publish_registration.topic_id \in Nat
    BY DEF Registration, TypeInv, ClientTypeOK
  <2> QED
    BY <1>1, <1>10, <2>1, SendPublishWait DEF RegisterReturns
<1> QED
  BY <1>1, <1>2, <1>3, <1>4, <1>5, <1>6, <1>7, <1>8, <1>9, <1>10,
     SendSubscribeWait, SendRegisterWait, LoopPingWait DEF Continues

LEMMA ConnectBeatWait ==
  ASSUME NoCopies, TypeInv, WaitInv, ConnectBeat
  PROVE  WaitInv'
<1>1. /\ pc = "connect_check" /\ ~mqttsn_connected
      /\ UNCHANGED <<mqttsn_connected, toClient, budget, msg_id_counter>>
  BY DEF ConnectBeat, topicVars
<1>2. CASE SendConnect
  <2>1. Transmit(Plain("CONNECT")) /\ await_msg_type' = "CONNACK" /\ pc' = "connect_pump"
    BY <1>2 DEF SendConnect
  <2>2. AwaitPlaces' /\ await_msg_type \notin Requested /\ await_msg_type' \notin Requested
    BY <1>1, <2>1 DEF WaitInv, AwaitPlaces, Requested
  <2> QED
    BY <1>1, <2>1, <2>2, ConnectPlain, WaitSendStep
<1>3. CASE ConnectReturns(FALSE)
  <2>1. pc' = "app" /\ Silent /\ await_msg_type' = await_msg_type
    BY <1>3 DEF ConnectReturns, Return
  <2>2. await_msg_type \notin {"SUBACK", "REGACK"}
    BY <1>1 DEF WaitInv, AwaitPlaces
  <2> QED
    BY <1>1, <2>1, <2>2, PlacesWait
<1> QED
  BY <1>2, <1>3 DEF ConnectBeat

LEMMA ReceiveDataWait ==
  ASSUME NoCopies, TypeInv, SessionInv, WaitInv, ReceiveData
  PROVE  WaitInv'
<1> USE DEF sessionVars, topicVars
<1>1. PICK m \in ToSet(toClient) :
        \/ Ignore(m) \/ ParsePingreq(m) \/ ParsePingresp(m) \/ ParseConnack(m)
        \/ ParseSuback(m) \/ ParseRegack(m) \/ ParsePublish(m)
  BY DEF ReceiveData
<1>2. Reads(m) /\ msg_id_counter' = msg_id_counter
  BY <1>1 DEF Ignore, ParsePingreq, ParsePingresp, ParseConnack, ParseSuback,
     ParseRegack, ParsePublish
<1>3. /\ pc' # "publish_topic" /\ call' = call
      /\ pc \in {"subscribe_ack", "register_ack"} => pc' = pc
  BY <1>2 DEF Reads, Pumping, AfterPump, Places, Waits
<1>4. \/ Silent
      \/ \E r \in SoundRequest :
           r.type \notin {"SUBSCRIBE", "REGISTER", "PINGREQ"} /\ Transmit(r)
  BY <1>1, ConnectPlain DEF Ignore, ParsePingreq, ParsePingresp, ParseConnack,
     ParseSuback, ParseRegack, ParsePublish
<1>5. m \in Reply
  BY Queues, QueueOps
<1>6. ASSUME UNCHANGED <<await_msg_type, mqttsn_connected>>,
             ~\E type \in Requested : m \in Tells(type)
      PROVE  WaitInv'
  <2>1. AwaitPlaces'
    BY <1>3, <1>6 DEF WaitInv, AwaitPlaces
  <2> QED
    BY <1>2, <1>4, <1>6, <2>1, WaitReadStep
<1>7. ASSUME await_msg_type' = "PINGREQ", mqttsn_connected' = mqttsn_connected,
             NEW type \in Requested, m \in Tells(type)
      PROVE  WaitInv'
  <2>1. mqttsn_connected
    BY <1>2, <1>7, TokenAwaited
  <2>2. AwaitPlaces' /\ await_msg_type' \notin Requested
    BY <1>3, <1>7, <2>1 DEF WaitInv, AwaitPlaces, Requested
  <2> QED
    BY <1>2, <1>4, <1>7, <2>2, WaitReadStep
<1>8. ASSUME NEW type \in Requested, m \in Tells(type)
      PROVE  /\ Dispatched(m, type) /\ await_msg_type = type
             /\ type # "PINGRESP" =>
                  m.message_id = msg_id_counter /\ m.return_code = "ACCEPTED"
  BY <1>2, <1>8, TokenAwaited DEF Dispatched, Tells
<1>9. CASE Ignore(m) \/ ParsePingreq(m) \/ ParsePublish(m)
  <2>1. ~\E type \in Requested : m \in Tells(type)
    BY <1>8, <1>9 DEF Ignore, ParsePingreq, ParsePublish, Dispatched, HandledTypes,
       Requested, Tells
  <2> QED
    BY <1>6, <1>9, <2>1 DEF Ignore, ParsePingreq, ParsePublish
<1>10. CASE ParsePingresp(m)
  <2>1. m \in Tells("PINGRESP") /\ "PINGRESP" \in Requested
    BY <1>5, <1>10 DEF ParsePingresp, Dispatched, Tells, Requested
  <2>2. await_msg_type = "PINGRESP"
    BY <1>8, <2>1
  <2> QED
    BY <1>7, <1>10, <2>1, <2>2 DEF ParsePingresp
<1>11. CASE ParseSuback(m)
  <2>1. m \in Tells("SUBACK") /\ "SUBACK" \in Requested
    BY <1>5, <1>11 DEF ParseSuback, Dispatched, Tells, Requested
  <2>2. SubackAccepted(m)
    BY <1>8, <2>1 DEF SubackAccepted
  <2> QED
    BY <1>7, <1>11, <2>1, <2>2 DEF ParseSuback
<1>12. CASE ParseRegack(m)
  <2>1. m \in Tells("REGACK") /\ "REGACK" \in Requested
    BY <1>5, <1>12 DEF ParseRegack, Dispatched, Tells, Requested
  <2>2. RegackMatches(m)
    BY <1>8, <2>1 DEF RegackMatches
  <2> QED
    BY <1>7, <1>12, <2>1, <2>2 DEF ParseRegack
<1>13. CASE ParseConnack(m)
  <2>1. m \in Tells("CONNACK") /\ ~\E type \in Requested : m \in Tells(type)
    BY <1>5, <1>13 DEF ParseConnack, Dispatched, Tells, Requested
  <2>2. ~mqttsn_connected
    <3>1. PICK i \in DOMAIN toClient : m = toClient[i]
      BY <1>2, Queues, QueueOps DEF NoCopies, Reads, SocketReceive, DatagramReceive
    <3>2. ~None(toClient, Tells("CONNACK"))
      BY <2>1, <3>1, TokenFound
    <3> QED
      BY <3>2 DEF SessionInv, Absent
  <2>3. await_msg_type \in {"GWINFO", "CONNACK", "DISCONNECT"}
    BY <2>2 DEF WaitInv, AwaitPlaces
  <2>4. \/ UNCHANGED <<await_msg_type, mqttsn_connected>>
        \/ await_msg_type' = "PINGREQ" /\ mqttsn_connected'
        \/ await_msg_type' = "DISCONNECT" /\ mqttsn_connected' = mqttsn_connected
    BY <1>13 DEF ParseConnack
  <2>5. AwaitPlaces' /\ await_msg_type \notin Requested /\ await_msg_type' \notin Requested
    BY <1>3, <2>2, <2>3, <2>4 DEF WaitInv, AwaitPlaces, Requested
  <2> QED
    BY <1>2, <1>4, <2>1, <2>5, WaitReadStep
<1> QED
  BY <1>1, <1>9, <1>10, <1>11, <1>12, <1>13

-----------------------------------------------------------------------------
(* WaitInv: the gateway and the network                                      *)

(* A request that is in flight was awaited, and is one the gateway can grant. *)
LEMMA RequestAwaited ==
  ASSUME TypeInv, SessionInv, WaitInv, NEW m, GwTakes(m),
         m.type \in {"SUBSCRIBE", "REGISTER", "PINGREQ"}
  PROVE  /\ gwSession
         /\ m.type # "PINGREQ" => m.message_id = msg_id_counter /\ m.qos # -1
<1>1. PICK i \in DOMAIN toGateway : m = toGateway[i]
  BY Queues, QueueOps DEF GwTakes
<1>2. m \in Request
  BY GwTakesType DEF SoundRequest
<1>3. m \notin Stale(msg_id_counter)
  BY <1>1 DEF WaitInv, Fresh, None
<1>4. PICK type \in Requested : m \in Asks(type)
  BY <1>2, Kinds DEF Requested
<1>5. ~None(toGateway, Asks(type))
  BY <1>1, <1>4, TokenFound
<1>6. await_msg_type = type
  BY <1>5 DEF WaitInv, Awaited, Absent
<1>7. mqttsn_connected
  BY <1>6 DEF WaitInv, AwaitPlaces, Requested
<1> QED
  BY <1>2, <1>3, <1>7 DEF Stale, SessionInv

(* The gateway answers no request of subscribe(), register_topic() or loop(). *)
LEMMA WaitOtherStep ==
  ASSUME TypeInv, WaitInv, NEW m, GwTakes(m), NEW r \in Reply,
         Send(r) \/ UNCHANGED toClient,
         m.type \notin {"SUBSCRIBE", "REGISTER", "PINGREQ"},
         r.type \notin Requested
  PROVE  WaitInv'
<1>1. r \notin Mismatched(msg_id_counter)
  BY DEF Mismatched, Tells, Requested
<1>2. ASSUME NEW type \in Requested
      PROVE  m \notin Asks(type) /\ r \notin Tells(type)
  BY <1>2, Kinds DEF Requested, Tells
<1> QED
  BY <1>1, <1>2, WaitGatewayStep

LEMMA WaitAnswerStep ==
  ASSUME TypeInv, WaitInv, NEW m, GwTakes(m), NEW type \in Requested,
         m.type = RequestOf[type], NEW r \in Reply, Send(r),
         r.type = type, r.from = "gateway", r.return_code = "ACCEPTED",
         type # "PINGRESP" => r.message_id = msg_id_counter
  PROVE  WaitInv'
<1>1. r \notin Mismatched(msg_id_counter)
  BY DEF Mismatched, Tells, Requested
<1>2. m \in Request
  BY GwTakesType DEF SoundRequest
<1>3. ASSUME NEW t \in Requested
      PROVE  IF m \in Asks(t) THEN r \in Tells(t) ELSE r \notin Tells(t)
  BY <1>2, <1>3, Kinds DEF Requested, RequestOf, Tells
<1> QED
  BY <1>1, <1>3, WaitGatewayStep

LEMMA GatewayWait ==
  ASSUME Reliable, TypeInv, SessionInv, WaitInv, Gateway
  PROVE  WaitInv'
<1>1. PICK m \in ToSet(toGateway) :
        \/ GwConnect(m) \/ GwNoSession(m) \/ GwSubscribe(m) \/ GwRegister(m)
        \/ GwPublish(m) \/ GwPing(m) \/ GwPingresp(m) \/ GwDisconnect(m)
  BY DEF Gateway
<1>2. GwTakes(m)
  BY <1>1 DEF GwConnect, GwNoSession, GwSubscribe, GwRegister, GwPublish, GwPing,
     GwPingresp, GwDisconnect
<1>3. /\ m \in SoundRequest /\ m.message_id \in MsgIds /\ m.topic_id \in Nat
      /\ m.qos \in Qos
  <2>1. m \in SoundRequest
    BY <1>2, GwTakesType
  <2> QED
    BY <2>1 DEF SoundRequest, Request
<1>4. /\ "ACCEPTED" \in ReturnCodes /\ 0 \in MsgIds /\ 0 \in Qos /\ 0 \in Nat
      /\ {"CONNACK", "SUBACK", "REGACK", "PUBACK", "PINGRESP", "DISCONNECT"}
           \subseteq ToClientTypes
  BY LinkAssumption DEF ReturnCodes, MsgIds, Qos, ToClientTypes
<1> DEFINE bye == PlainReply("DISCONNECT", "gateway")
<1>5. bye \in Reply /\ bye.type \notin Requested
  <2>1. bye \in Reply
    BY <1>4, ReplyTypes
  <2> QED
    BY <2>1 DEF PlainReply, Requested
<1> HIDE DEF bye
<1>6. CASE GwConnect(m)
  <2>1. PICK code \in ConnackCodes :
          Send([PlainReply("CONNACK", "gateway") EXCEPT !.return_code = code])
    BY <1>6 DEF GwConnect
  <2> DEFINE r == [PlainReply("CONNACK", "gateway") EXCEPT !.return_code = code]
  <2>2. r \in Reply
    <3>1. code \in ReturnCodes
      BY GatewayAssumption
    <3> QED
      BY <1>4, <3>1, ReplyTypes
  <2>3. r.type \notin Requested /\ m.type = "CONNECT"
    BY <1>6 DEF PlainReply, Requested, GwConnect
  <2>4. Send(r)
    BY <2>1
  <2> HIDE DEF r
  <2> QED
    BY <1>2, <2>2, <2>3, <2>4, WaitOtherStep
<1>7. CASE GwNoSession(m)
  <2>1. m.type = "PUBLISH"
    BY <1>2, <1>7, RequestAwaited DEF GwNoSession
  <2>2. Send(bye) \/ UNCHANGED toClient
    BY <1>7 DEF GwNoSession, bye
  <2> QED
    BY <1>2, <1>5, <2>1, <2>2, WaitOtherStep
<1>8. CASE GwSubscribe(m)
  <2>1. m.message_id = msg_id_counter /\ SubackCodes(m) \subseteq {"ACCEPTED"}
    BY <1>2, <1>8, RequestAwaited DEF GwSubscribe, SubackCodes, Reliable
  <2>2. m.topic \in Topics
    BY <1>3, <1>8 DEF GwSubscribe, SoundRequest
  <2>3. PICK granted \in 0 .. m.qos :
          Send([PlainReply("SUBACK", "gateway") EXCEPT
                  !.message_id = m.message_id, !.qos = granted,
                  !.topic_id = TopicIdOf[m.topic]])
    BY <1>8, <2>1 DEF GwSubscribe
  <2> DEFINE r == [PlainReply("SUBACK", "gateway") EXCEPT
                     !.message_id = m.message_id, !.qos = granted,
                     !.topic_id = TopicIdOf[m.topic]]
  <2>4. granted \in Qos /\ TopicIdOf[m.topic] \in Nat
    BY <1>3, <2>2, GatewayAssumption DEF Qos
  <2>5. r \in Reply
    BY <1>3, <1>4, <2>4, ReplyTypes
  <2>6. r.type = "SUBACK" /\ r.from = "gateway" /\ r.return_code = "ACCEPTED"
        /\ r.message_id = msg_id_counter
    BY <2>1 DEF PlainReply
  <2>7. Send(r) /\ m.type = RequestOf["SUBACK"] /\ "SUBACK" \in Requested
    BY <1>8, <2>3 DEF GwSubscribe, RequestOf, Requested
  <2> HIDE DEF r
  <2> QED
    BY <1>2, <2>5, <2>6, <2>7, WaitAnswerStep
<1>9. CASE GwRegister(m)
  <2>1. m.message_id = msg_id_counter
    BY <1>2, <1>9, RequestAwaited DEF GwRegister
  <2>2. m.topic \in Topics
    BY <1>3, <1>9 DEF GwRegister, SoundRequest
  <2>3. PICK code \in AckCodes :
          Send([PlainReply("REGACK", "gateway") EXCEPT
                  !.message_id = m.message_id, !.return_code = code,
                  !.topic_id = IF code = "ACCEPTED" THEN TopicIdOf[m.topic] ELSE 0])
    BY <1>9 DEF GwRegister
  <2> DEFINE id == IF code = "ACCEPTED" THEN TopicIdOf[m.topic] ELSE 0
             r == [PlainReply("REGACK", "gateway") EXCEPT
                     !.message_id = m.message_id, !.return_code = code, !.topic_id = id]
  <2>4. id \in Nat /\ code = "ACCEPTED"
    BY <2>2, GatewayAssumption DEF Reliable
  <2>5. r \in Reply
    <3> HIDE DEF id
    <3> QED
      BY <1>3, <1>4, <2>4, ReplyTypes
  <2>6. r.type = "REGACK" /\ r.from = "gateway" /\ r.return_code = "ACCEPTED"
        /\ r.message_id = msg_id_counter
    <3> HIDE DEF id
    <3> QED
      BY <2>1, <2>4 DEF PlainReply
  <2>7. Send(r) /\ m.type = RequestOf["REGACK"] /\ "REGACK" \in Requested
    BY <1>9, <2>3 DEF GwRegister, RequestOf, Requested
  <2> HIDE DEF r
  <2> QED
    BY <1>2, <2>5, <2>6, <2>7, WaitAnswerStep
<1>10. CASE GwPublish(m)
  <2> DEFINE r == [PlainReply("PUBACK", "gateway") EXCEPT
                     !.message_id = m.message_id, !.topic_id = m.topic_id]
  <2>1. r \in Reply
    BY <1>3, <1>4, ReplyTypes
  <2>2. r.type \notin Requested
    BY DEF PlainReply, Requested
  <2>3. (Send(r) \/ UNCHANGED toClient) /\ m.type = "PUBLISH"
    BY <1>10 DEF GwPublish
  <2> HIDE DEF r
  <2> QED
    BY <1>2, <2>1, <2>2, <2>3, WaitOtherStep
<1>11. CASE GwPing(m)
  <2> DEFINE r == PlainReply("PINGRESP", "gateway")
  <2>1. r \in Reply
    BY <1>4, ReplyTypes
  <2>2. r.type = "PINGRESP" /\ r.from = "gateway" /\ r.return_code = "ACCEPTED"
    BY DEF PlainReply
  <2>3. Send(r) /\ m.type = RequestOf["PINGRESP"] /\ "PINGRESP" \in Requested
    BY <1>11 DEF GwPing, RequestOf, Requested
  <2> HIDE DEF r
  <2> QED
    BY <1>2, <2>1, <2>2, <2>3, WaitAnswerStep
<1>12. CASE GwPingresp(m)
  <2>1. m.type = "PINGRESP" /\ UNCHANGED toClient
    BY <1>12 DEF GwPingresp
  <2> QED
    BY <1>2, <1>5, <2>1, WaitOtherStep
<1>13. CASE GwDisconnect(m)
  <2>1. m.type = "DISCONNECT" /\ Send(bye)
    BY <1>13 DEF GwDisconnect, bye
  <2> QED
    BY <1>2, <1>5, <2>1, WaitOtherStep
<1> QED
  BY <1>1, <1>6, <1>7, <1>8, <1>9, <1>10, <1>11, <1>12, <1>13

LEMMA UnaskedWait ==
  ASSUME TypeInv, WaitInv, GwPush \/ Noise
  PROVE  WaitInv'
<1>1. PICK r \in Reply : Send(r) /\ (r.from = "other" \/ r.type \in {"PUBLISH", "PINGREQ"})
  BY UnaskedMessage
<1>2. /\ UNCHANGED <<toGateway, await_msg_type, msg_id_counter, pc, call, mqttsn_connected>>
      /\ Spend("push")
  BY DEF GwPush, Noise, clientVars
<1>3. budget'["lose"] = budget["lose"]
  BY <1>2, SpendOnly DEF BudgetKinds
<1>4. ASSUME NEW type \in Requested PROVE Kept(type)
  <2>1. r \notin Tells(type)
    BY <1>1 DEF Tells, Requested
  <2> QED
    BY <1>1, <1>2, <2>1, Queues, AppendToken DEF Send, Kept, Absent, InTransit
<1>5. \A type \in Requested : Awaited(type)'
  BY <1>2, <1>4 DEF WaitInv, Awaited, Kept
<1>6. Fresh'
  <2>1. r \notin Mismatched(msg_id_counter)
    BY <1>1 DEF Mismatched, Tells
  <2>2. None(toClient, Mismatched(msg_id_counter))
    BY DEF WaitInv, Fresh
  <2>3. None(toClient', Mismatched(msg_id_counter))
    BY <1>1, <2>1, <2>2, Queues, AppendToken DEF Send
  <2> QED
    BY <1>2, <2>3 DEF WaitInv, Fresh
<1>7. AwaitPlaces'
  BY <1>2 DEF WaitInv, AwaitPlaces, Idle
<1> QED
  BY <1>3, <1>5, <1>6, <1>7 DEF WaitInv

LEMMA NetworkQuiet ==
  ASSUME NoCopies, SessionInv, WaitInv
  PROVE  ~Network /\ ~LinkDrop
<1>1. ~Spend("dup") /\ ~Spend("lose")
  BY DEF SessionInv, WaitInv, Spend
<1> QED
  BY <1>1 DEF NoCopies, Network, Lose, Duplicate, LinkDrop

-----------------------------------------------------------------------------
LEMMA InitWait == Reliable /\ Init => WaitInv
<1> SUFFICES ASSUME Reliable, Init PROVE WaitInv
  OBVIOUS
<1>1. toGateway = <<>> /\ toClient = <<>> /\ budget = Budget
  BY DEF Init, LinkInit
<1>2. ~mqttsn_connected /\ await_msg_type = "GWINFO" /\ pc = "app"
  BY DEF Init, ClientInit
<1>3. \A type \in Requested : Awaited(type)
  BY <1>1, <1>2, EmptyQueue DEF Awaited, Absent, Requested
<1>4. Fresh
  BY <1>1, EmptyQueue DEF Fresh
<1> QED
  BY <1>1, <1>2, <1>3, <1>4 DEF WaitInv, AwaitPlaces, Reliable

LEMMA NextWait ==
  ASSUME Reliable, TypeInv, SessionInv, WaitInv, [Next]_vars
  PROVE  WaitInv'
<1>1. CASE UNCHANGED vars
  <2>1. UNCHANGED <<toGateway, toClient, budget, mqttsn_connected, pc, call,
                    await_msg_type, msg_id_counter>>
    BY <1>1 DEF vars, clientVars, linkVars
  <2> QED
    BY <2>1 DEF WaitInv, Awaited, Absent, InTransit, Fresh, AwaitPlaces, Idle
<1>2. CASE Next
  <2>1. NoCopies
    BY DEF Reliable
  <2> QED
    BY <1>2, <2>1, SketchCallsWait, ContinuesWait, ConnectBeatWait, ReceiveDataWait,
       GatewayWait, UnaskedWait, NetworkQuiet DEF Next, ClientNext
<1> QED
  BY <1>1, <1>2

(* The tokens of an exchange are what InFlight counts.                       *)
LEMMA TokensCounted ==
  ASSUME TypeInv, NEW type \in Exchanges
  PROVE  /\ Absent(type) => InFlight(type) = 0
         /\ type # "CONNACK" /\ InTransit(type) => InFlight(type) = 1
<1> USE DEF Exchanges
<1>1. \A i \in DOMAIN toGateway : toGateway[i] \in Request
  BY Queues, QueueOps DEF SoundRequest
<1>2. \A i \in DOMAIN toClient : toClient[i] \in Reply
  BY Queues, QueueOps
<1>3. None(toGateway, Asks(type)) => Unanswered(type) = {}
  BY <1>1 DEF None, Unanswered, Asks
<1>4. type # "CONNACK" /\ One(toGateway, Asks(type)) => \E i : Unanswered(type) = {i}
  BY <1>1 DEF One, Unanswered, Asks
<1>5. None(toClient, Tells(type)) => Answers(type) = {}
  BY <1>2 DEF None, Answers, Tells
<1>6. One(toClient, Tells(type)) => \E i : Answers(type) = {i}
  BY <1>2 DEF One, Answers, Tells
<1>7. Cardinality({}) = 0 /\ \A i : Cardinality({i}) = 1
  BY FS_EmptySet, FS_Singleton
<1>8. ASSUME Absent(type) PROVE InFlight(type) = 0
  BY <1>3, <1>5, <1>7, <1>8 DEF Absent, InFlight
<1>9. ASSUME type # "CONNACK", InTransit(type) PROVE InFlight(type) = 1
  <2>1. CASE One(toGateway, Asks(type)) /\ None(toClient, Tells(type))
    <3>1. Cardinality(Unanswered(type)) = 1 /\ Cardinality(Answers(type)) = 0
      BY <1>4, <1>5, <1>7, <1>9, <2>1
    <3> QED
      BY <3>1 DEF InFlight
  <2>2. CASE None(toGateway, Asks(type)) /\ One(toClient, Tells(type))
    <3>1. Cardinality(Unanswered(type)) = 0 /\ Cardinality(Answers(type)) = 1
      BY <1>3, <1>6, <1>7, <2>2
    <3> QED
      BY <3>1 DEF InFlight
  <2> QED
    BY <1>9, <2>1, <2>2 DEF InTransit
<1> QED
  BY <1>8, <1>9

LEMMA AwaitInvImplies == AwaitInv => AwaitsWhatIsInFlight
<1> SUFFICES ASSUME AwaitInv, mqttsn_connected, NEW type \in DOMAIN RequestOf
             PROVE  InFlight(type) = IF await_msg_type = type THEN 1 ELSE 0
  BY DEF AwaitsWhatIsInFlight
<1>1. type \in Exchanges
  BY DEF RequestOf, Exchanges
<1>2. CASE type = "CONNACK"
  <2>1. Absent(type) /\ await_msg_type # type
    BY <1>2 DEF AwaitInv, SessionInv, WaitInv, AwaitPlaces, Requested
  <2> QED
    BY <1>1, <2>1, TokensCounted DEF AwaitInv
<1>3. CASE type # "CONNACK"
  <2>1. Awaited(type)
    BY <1>1, <1>3 DEF AwaitInv, WaitInv, Requested, Exchanges
  <2> QED
    BY <1>1, <1>3, <2>1, TokensCounted DEF AwaitInv, Awaited
<1> QED
  BY <1>2, <1>3

(* Over a network that neither loses nor copies, in whatever order it          *)
(* delivers, the one byte await_msg_type says exactly what is in flight:      *)
(* subscribe(), register_topic() and the keep-alive of loop() never have two   *)
(* requests under way, whatever the sketch calls in whatever order, and none  *)
(* of them waits for an answer that will not come.                           *)
THEOREM AwaitCorrect == Reliable => (Spec => []AwaitsWhatIsInFlight)
<1> SUFFICES ASSUME Reliable PROVE Spec => []AwaitsWhatIsInFlight
  OBVIOUS
<1>1. Init => AwaitInv
  BY InitTypeInv, InitSession, InitWait DEF AwaitInv, Reliable
<1>2. AwaitInv /\ [Next]_vars => AwaitInv'
  BY NextTypeInv, NextSession, NextWait DEF AwaitInv, Reliable
<1> QED
  BY <1>1, <1>2, AwaitInvImplies, PTL DEF Spec

-----------------------------------------------------------------------------
(* The exchanges                                                             *)

(* What the refinement counts, of any two queues                             *)
Asked(q, type) == Cardinality({i \in DOMAIN q : q[i].type = RequestOf[type]})
Told(q, type) ==
  Cardinality({i \in DOMAIN q : q[i].type = type /\ q[i].from = "gateway"})

(* Of one kind of exchange, whether the request or the answer is under way    *)
Only(tg, tc, type) ==
  \/ One(tg, Asks(type)) /\ None(tc, Tells(type))
  \/ None(tg, Asks(type)) /\ One(tc, Tells(type))

Agrees(tg, tc, await) ==
  \A type \in Requested :
    IF await = type THEN Only(tg, tc, type)
                    ELSE None(tg, Asks(type)) /\ None(tc, Tells(type))

Nought == [k \in Requested |-> 0]
Just(kind) == [k \in Requested |-> IF k = kind THEN 1 ELSE 0]

LEMMA Exclusive ==
  ASSUME NEW q, NEW S
  PROVE  ~(None(q, S) /\ One(q, S))
BY DEF None, One

LEMMA Counted ==
  ASSUME NEW tg \in Seq(SoundRequest), NEW tc \in Seq(Reply), NEW type \in Requested
  PROVE  /\ None(tg, Asks(type)) => Asked(tg, type) = 0
         /\ One(tg, Asks(type)) => Asked(tg, type) = 1
         /\ None(tc, Tells(type)) => Told(tc, type) = 0
         /\ One(tc, Tells(type)) => Told(tc, type) = 1
<1>1. \A i \in DOMAIN tg : tg[i] \in Request
  BY QueueOps DEF SoundRequest
<1>2. \A i \in DOMAIN tc : tc[i] \in Reply
  BY QueueOps
<1> DEFINE asks == {i \in DOMAIN tg : tg[i].type = RequestOf[type]}
           tells == {i \in DOMAIN tc : tc[i].type = type /\ tc[i].from = "gateway"}
<1>3. \A i \in DOMAIN tg : tg[i] \in Asks(type) <=> tg[i].type = RequestOf[type]
  BY <1>1 DEF Asks, Requested
<1>4. \A i \in DOMAIN tc :
        tc[i] \in Tells(type) <=> tc[i].type = type /\ tc[i].from = "gateway"
  BY <1>2 DEF Tells
<1>5. /\ None(tg, Asks(type)) => asks = {}
      /\ One(tg, Asks(type)) => \E i : asks = {i}
  BY <1>3 DEF None, One
<1>6. /\ None(tc, Tells(type)) => tells = {}
      /\ One(tc, Tells(type)) => \E i : tells = {i}
  BY <1>4 DEF None, One
<1>7. Cardinality({}) = 0 /\ \A i : Cardinality({i}) = 1
  BY FS_EmptySet, FS_Singleton
<1> HIDE DEF asks, tells
<1>8. /\ None(tg, Asks(type)) => Cardinality(asks) = 0
      /\ One(tg, Asks(type)) => Cardinality(asks) = 1
      /\ None(tc, Tells(type)) => Cardinality(tells) = 0
      /\ One(tc, Tells(type)) => Cardinality(tells) = 1
  BY <1>5, <1>6, <1>7
<1> QED
  BY <1>8 DEF asks, tells, Asked, Told

(* The two counts in each of the three states of the abstract exchange        *)
LEMMA View ==
  ASSUME NEW tg \in Seq(SoundRequest), NEW tc \in Seq(Reply), NEW await,
         Agrees(tg, tc, await)
  PROVE  LET requests == [type \in Requested |-> Asked(tg, type)]
             answers == [type \in Requested |-> Told(tc, type)]
         IN  /\ await \notin Requested => requests = Nought /\ answers = Nought
             /\ await \in Requested /\ None(tc, Tells(await)) =>
                  requests = Just(await) /\ answers = Nought
             /\ await \in Requested /\ ~None(tc, Tells(await)) =>
                  requests = Nought /\ answers = Just(await)
<1>1. \A type \in Requested :
        await # type => Asked(tg, type) = 0 /\ Told(tc, type) = 0
  BY Counted DEF Agrees
<1>2. ASSUME await \in Requested, None(tc, Tells(await))
      PROVE  Asked(tg, await) = 1 /\ Told(tc, await) = 0
  BY <1>2, Counted, Exclusive DEF Agrees, Only
<1>3. ASSUME await \in Requested, ~None(tc, Tells(await))
      PROVE  Asked(tg, await) = 0 /\ Told(tc, await) = 1
  BY <1>3, Counted DEF Agrees, Only
<1>4. CASE await \notin Requested
  BY <1>1, <1>4 DEF Nought
<1>5. CASE await \in Requested /\ None(tc, Tells(await))
  BY <1>1, <1>2, <1>5 DEF Nought, Just
<1>6. CASE await \in Requested /\ ~None(tc, Tells(await))
  BY <1>1, <1>3, <1>6 DEF Nought, Just
<1> QED
  BY <1>4, <1>5, <1>6

(* A step that hands nothing to the client and takes nothing from it          *)
AsksAtMost ==
  /\ toClient' = toClient
  /\ await_msg_type \in Requested => await_msg_type' = await_msg_type

(* A step that asks for nothing, and ends a wait only with its answer         *)
AsksNothing ==
  /\ \A type \in Requested :
       None(toGateway, Asks(type)) => None(toGateway', Asks(type))
  /\ await_msg_type' = await_msg_type \/ await_msg_type' \notin Requested
  /\ await_msg_type \in Requested /\ await_msg_type' # await_msg_type =>
       ~None(toClient, Tells(await_msg_type))

LEMMA ClientAsks ==
  ASSUME TypeInv, SessionInv, WaitInv, SketchCalls \/ Continues \/ ConnectBeat
  PROVE  AsksAtMost
<1> USE DEF sessionVars, topicVars, linkVars
<1>1. ASSUME SketchCalls PROVE AsksAtMost
  <2>1. CASE Connect
    BY <2>1 DEF Connect, AsksAtMost, WaitInv, AwaitPlaces, Requested
  <2>2. ASSUME NEW topic, NEW qos, Subscribe(topic, qos) PROVE AsksAtMost
    BY <2>2 DEF Subscribe, AsksAtMost
  <2>3. ASSUME NEW topic, NEW qos, Publish(topic, qos) PROVE AsksAtMost
    BY <2>3 DEF Publish, AsksAtMost
  <2>4. ASSUME NEW topic, NEW qos, PublishRefused(topic, qos) PROVE AsksAtMost
    BY <2>4 DEF PublishRefused, AsksAtMost
  <2> QED
    BY <1>1, <2>1, <2>2, <2>3, <2>4 DEF SketchCalls
<1>2. ASSUME ConnectBeat PROVE AsksAtMost
  BY <1>2 DEF ConnectBeat, AsksAtMost, WaitInv, AwaitPlaces, Requested
<1>3. ASSUME PumpNothing \/ PumpFails \/ ConnectCheck \/ SubscribeReturns \/ PublishIdle
             \/ PublishUnregistered \/ PublishReturns
      PROVE  AsksAtMost
  BY <1>3 DEF PumpNothing, PumpFails, ConnectCheck, ConnectReturns, SubscribeReturns,
     PublishIdle, PublishUnregistered, PublishReturns, AsksAtMost
<1>4. ASSUME SendSubscribe \/ SendRegister PROVE AsksAtMost
  BY <1>4 DEF SendSubscribe, SendRegister, Idle, AsksAtMost, Requested
<1>5. ASSUME PublishRegistered \/ RegisterReturns PROVE AsksAtMost
  <2>1. PICK topic_id : SendPublish(topic_id)
    BY <1>5 DEF PublishRegistered, RegisterReturns
  <2>2. await_msg_type' = await_msg_type \/ call.qos = 1
    BY <2>1 DEF SendPublish
  <2>3. call.qos = 1 => Idle
    BY <1>5 DEF PublishRegistered, RegisterReturns, WaitInv, AwaitPlaces
  <2>4. toClient' = toClient
    BY <1>5 DEF PublishRegistered, RegisterReturns
  <2> QED
    BY <2>2, <2>3, <2>4 DEF Idle, AsksAtMost, Requested
<1>6. ASSUME Loop PROVE AsksAtMost
  BY <1>6 DEF Loop, SessionInv, AsksAtMost
<1>7. ASSUME NEW beat \in BOOLEAN, LoopPing(beat) PROVE AsksAtMost
  BY <1>7 DEF LoopPing, Idle, AsksAtMost, Requested
<1> QED
  BY <1>1, <1>2, <1>3, <1>4, <1>5, <1>6, <1>7 DEF Continues

LEMMA ReadAsksNothing ==
  ASSUME NoCopies, TypeInv, SessionInv, WaitInv, ReceiveData
  PROVE  AsksNothing
<1> USE DEF sessionVars, topicVars
<1>1. PICK m \in ToSet(toClient) :
        \/ Ignore(m) \/ ParsePingreq(m) \/ ParsePingresp(m) \/ ParseConnack(m)
        \/ ParseSuback(m) \/ ParseRegack(m) \/ ParsePublish(m)
  BY DEF ReceiveData
<1>2. Reads(m)
  BY <1>1 DEF Ignore, ParsePingreq, ParsePingresp, ParseConnack, ParseSuback,
     ParseRegack, ParsePublish
<1>3. \/ Silent
      \/ \E r \in SoundRequest :
           r.type \notin {"SUBSCRIBE", "REGISTER", "PINGREQ"} /\ Transmit(r)
  BY <1>1, ConnectPlain DEF Ignore, ParsePingreq, ParsePingresp, ParseConnack,
     ParseSuback, ParseRegack, ParsePublish
<1>4. PICK i \in DOMAIN toClient : m = toClient[i] /\ toClient[i] \in Reply
  BY <1>2, Queues, QueueOps DEF NoCopies, Reads, SocketReceive, DatagramReceive
<1>5. ASSUME NEW type \in Requested, None(toGateway, Asks(type))
      PROVE  None(toGateway', Asks(type))
  <2>1. CASE Silent
    BY <1>5, <2>1 DEF Silent
  <2>2. ASSUME NEW r \in SoundRequest,
               r.type \notin {"SUBSCRIBE", "REGISTER", "PINGREQ"}, Transmit(r)
        PROVE  None(toGateway', Asks(type))
    <3>1. r \notin Asks(type)
      BY <2>2, Kinds DEF Requested
    <3>2. toGateway' = Append(toGateway, r)
      BY <2>2, TransmitSucceeds
    <3> QED
      BY <1>5, <2>2, <3>1, <3>2, Queues, AppendToken
  <2> QED
    BY <1>3, <2>1, <2>2
<1>6. await_msg_type' = await_msg_type \/ await_msg_type' \notin Requested
  BY <1>1 DEF Ignore, ParsePingreq, ParsePingresp, ParseConnack, ParseSuback,
     ParseRegack, ParsePublish, Requested
<1>7. ASSUME await_msg_type \in Requested, await_msg_type' # await_msg_type
      PROVE  ~None(toClient, Tells(await_msg_type))
  <2>1. m \in Tells(await_msg_type)
    <3>1. PICK type \in Requested \cup {"CONNACK"} : Dispatched(m, type)
      BY <1>1, <1>7 DEF Ignore, ParsePingreq, ParsePingresp, ParseConnack, ParseSuback,
         ParseRegack, ParsePublish, Requested
    <3>2. m.from = "gateway" /\ m.type = type /\ m \in Tells(type)
      BY <1>4, <3>1 DEF Dispatched, Tells
    <3>3. CASE type \in Requested
      BY <1>2, <3>2, <3>3, TokenAwaited
    <3>4. type # "CONNACK"
      <4>1. mqttsn_connected
        BY <1>7 DEF WaitInv, AwaitPlaces, Requested
      <4>2. None(toClient, Tells("CONNACK"))
        BY <4>1 DEF SessionInv, Absent
      <4> QED
        BY <1>4, <3>2, <4>2 DEF None
    <3> QED
      BY <3>1, <3>3, <3>4
  <2> QED
    BY <1>4, <2>1, TokenFound
<1> QED
  BY <1>5, <1>6, <1>7 DEF AsksNothing

LEMMA OthersAskNothing ==
  ASSUME TypeInv, Gateway \/ GwPush \/ Noise
  PROVE  AsksNothing
<1>1. CASE Gateway
  <2>1. PICK m : GwTakes(m)
    BY <1>1 DEF Gateway, GwConnect, GwNoSession, GwSubscribe, GwRegister, GwPublish,
       GwPing, GwPingresp, GwDisconnect
  <2>2. PICK i \in DOMAIN toGateway : toGateway' = RemoveAt(toGateway, i)
    BY <2>1, Queues, QueueOps DEF GwTakes
  <2>3. await_msg_type' = await_msg_type
    BY <2>1 DEF GwTakes, clientVars
  <2> QED
    BY <2>2, <2>3, Queues, RemoveToken DEF AsksNothing
<1>2. CASE GwPush \/ Noise
  BY <1>2 DEF GwPush, Noise, clientVars, AsksNothing
<1> QED
  BY <1>1, <1>2

(* What either kind of step does to the exchange                             *)
LEMMA ExchangeKinds ==
  ASSUME NoCopies, AwaitInv, [Next]_vars
  PROVE  AsksAtMost \/ AsksNothing
<1> USE DEF AwaitInv
<1>1. CASE UNCHANGED vars
  BY <1>1 DEF vars, clientVars, linkVars, AsksAtMost
<1>2. CASE Next
  BY <1>2, ClientAsks, ReadAsksNothing, OthersAskNothing, NetworkQuiet
     DEF Next, ClientNext
<1> QED
  BY <1>1, <1>2

LEMMA ExchangeStep ==
  ASSUME NoCopies, AwaitInv, AwaitInv', [Next]_vars
  PROVE  [OneAtATime!Next]_(OneAtATime!exchangeVars)
<1> DEFINE nothing == None(toClient, Tells(await_msg_type))
           waits == await_msg_type \in Requested
           requests == [type \in Requested |-> Asked(toGateway, type)]
           answers == [type \in Requested |-> Told(toClient, type)]
<1>1. /\ toGateway \in Seq(SoundRequest) /\ toClient \in Seq(Reply)
      /\ Agrees(toGateway, toClient, await_msg_type)
  BY Queues DEF AwaitInv, WaitInv, Awaited, Absent, InTransit, Agrees, Only
<1>2. /\ toGateway' \in Seq(SoundRequest) /\ toClient' \in Seq(Reply)
      /\ Agrees(toGateway', toClient', await_msg_type')
  BY DEF AwaitInv, TypeInv, LinkInv, WaitInv, Awaited, Absent, InTransit, Agrees, Only
<1>3. /\ ~waits => requests = Nought /\ answers = Nought
      /\ waits /\ nothing => requests = Just(await_msg_type) /\ answers = Nought
      /\ waits /\ ~nothing => requests = Nought /\ answers = Just(await_msg_type)
  BY <1>1, View
<1>4. /\ ~waits' => requests' = Nought /\ answers' = Nought
      /\ waits' /\ nothing' => requests' = Just(await_msg_type') /\ answers' = Nought
      /\ waits' /\ ~nothing' => requests' = Nought /\ answers' = Just(await_msg_type')
  BY <1>2, View
<1> DEFINE awaits == IF waits THEN await_msg_type ELSE "nothing"
           same == awaits' = awaits /\ requests' = requests /\ answers' = answers
<1> HIDE DEF requests, answers
<1>5. \/ same
      \/ \E k \in Requested :
           \/ /\ awaits = "nothing" /\ requests = Nought /\ answers = Nought
              /\ awaits' = k /\ requests' = Just(k) /\ answers' = answers
           \/ /\ requests = Just(k) /\ answers = Nought
              /\ requests' = Nought /\ answers' = Just(k) /\ awaits' = awaits
           \/ /\ awaits = k /\ requests = Nought /\ answers = Just(k)
              /\ awaits' = "nothing" /\ answers' = Nought /\ requests' = requests
  <2>1. CASE AsksAtMost
    <3>1. CASE waits
      BY <1>3, <1>4, <2>1, <3>1 DEF AsksAtMost
    <3>2. CASE ~waits /\ ~waits'
      BY <1>3, <1>4, <3>2
    <3>3. CASE ~waits /\ waits'
      <4>1. None(toClient, Tells(await_msg_type'))
        BY <1>1, <3>3 DEF Agrees
      <4>2. nothing'
        BY <2>1, <4>1 DEF AsksAtMost
      <4> QED
        BY <1>3, <1>4, <3>3, <4>2
    <3> QED
      BY <3>1, <3>2, <3>3
  <2>2. CASE AsksNothing
    <3>1. CASE ~waits
      BY <1>3, <1>4, <2>2, <3>1 DEF AsksNothing
    <3>2. CASE waits /\ await_msg_type' # await_msg_type
      BY <1>3, <1>4, <2>2, <3>2 DEF AsksNothing
    <3>3. CASE waits /\ await_msg_type' = await_msg_type
      <4>1. ~nothing => ~nothing'
        <5> SUFFICES ASSUME ~nothing PROVE ~nothing'
          OBVIOUS
        <5>1. None(toGateway, Asks(await_msg_type))
          BY <1>1, <3>3 DEF Agrees, Only
        <5>2. None(toGateway', Asks(await_msg_type))
          BY <2>2, <3>3, <5>1 DEF AsksNothing
        <5>3. One(toClient', Tells(await_msg_type))
          BY <1>2, <3>3, <5>2, Exclusive DEF Agrees, Only
        <5> QED
          BY <3>3, <5>3, Exclusive
      <4> QED
        BY <1>3, <1>4, <3>3, <4>1
    <3> QED
      BY <3>1, <3>2, <3>3
  <2> QED
    BY <2>1, <2>2, ExchangeKinds
<1>6. /\ requests = [type \in Requested |-> Cardinality(Unanswered(type))]
      /\ answers = [type \in Requested |-> Cardinality(Answers(type))]
  BY DEF requests, answers, Asked, Told, Unanswered, Answers
<1>7. /\ requests' = [type \in Requested |-> Cardinality(Unanswered(type))]'
      /\ answers' = [type \in Requested |-> Cardinality(Answers(type))]'
  BY DEF requests, answers, Asked, Told, Unanswered, Answers
<1> QED
  BY <1>5, <1>6, <1>7 DEF OneAtATime!Next, OneAtATime!Ask, OneAtATime!Answer,
     OneAtATime!Take, OneAtATime!exchangeVars, OneAtATime!Empty, OneAtATime!Single,
     Nought, Just

LEMMA InitExchange == Reliable /\ Init => OneAtATime!Init
<1> SUFFICES ASSUME Reliable, Init PROVE OneAtATime!Init
  OBVIOUS
<1>1. toGateway = <<>> /\ toClient = <<>> /\ await_msg_type = "GWINFO"
  BY DEF Init, LinkInit, ClientInit
<1>2. \A type \in Requested : Unanswered(type) = {} /\ Answers(type) = {}
  BY <1>1 DEF Unanswered, Answers
<1>3. Cardinality({}) = 0
  BY FS_EmptySet
<1> QED
  BY <1>1, <1>2, <1>3 DEF OneAtATime!Init, OneAtATime!Empty, Requested

(* Whatever the sketch calls, and in whatever order the network delivers,     *)
(* subscribe(), register_topic() and the keep-alive of loop() implement the   *)
(* one exchange at a time of the abstract specification.                     *)
THEOREM ExchangesImplemented == Reliable => (Spec => ExchangesOneAtATime)
<1> SUFFICES ASSUME Reliable PROVE Spec => ExchangesOneAtATime
  OBVIOUS
<1>1. NoCopies
  BY DEF Reliable
<1>2. Init => AwaitInv /\ OneAtATime!Init
  BY InitTypeInv, InitSession, InitWait, InitExchange DEF AwaitInv, Reliable
<1>3. AwaitInv /\ [Next]_vars => AwaitInv'
  BY NextTypeInv, NextSession, NextWait DEF AwaitInv, Reliable
<1>4. AwaitInv /\ AwaitInv' /\ [Next]_vars
        => [OneAtATime!Next]_(OneAtATime!exchangeVars)
  BY <1>1, ExchangeStep
<1> QED
  BY <1>2, <1>3, <1>4, PTL DEF Spec, ExchangesOneAtATime, OneAtATime!Spec
=============================================================================
