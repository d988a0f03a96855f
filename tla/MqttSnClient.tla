----------------------------- MODULE MqttSnClient -----------------------------
(***************************************************************************)
(* MqttSnClient.h and MqttSnMessageHandler.h: the client a sketch drives   *)
(* through connect(), subscribe(), publish() and loop(), and the handler   *)
(* its socket calls with every message it reads.                           *)
(*                                                                         *)
(* The program has one thread.  Everything between two calls of            *)
(* socketInterface.loop() is one step, so pc names the place the thread    *)
(* has reached: "app" (in the sketch), a loop that pumps the socket until  *)
(* a condition holds, or the code that follows such a loop.                *)
(***************************************************************************)
EXTENDS MqttSnLink

CONSTANTS
  SubTopics,        \* topics the sketch subscribes to
  PubTopics,        \* topics the sketch publishes to
  AppQos,           \* QoS values the sketch uses
  ConnectsFirst,    \* the sketch tests is_mqttsn_connected() before it
                    \* subscribes, publishes or loops
  PrematureTimeout, \* the 5 s connect timeout may beat a slow answer
  FlagsCleared      \* memset(this, 0, sizeof(this)) covers the flags of a
                    \* SUBSCRIBE: pointers have more than 2 bytes

ASSUME ClientAssumption ==
  /\ SubTopics \subseteq Topics
  /\ PubTopics \subseteq Topics
  /\ AppQos \subseteq Qos
  /\ ConnectsFirst \in BOOLEAN
  /\ PrematureTimeout \in BOOLEAN
  /\ FlagsCleared \in BOOLEAN

VARIABLES
  pc,                    \* where the thread is
  call,                  \* the API call under way, or the last one that returned
  tries,                 \* local of connect()
  mqttsn_connected,
  socket_disconnected,
  await_msg_type,
  ping_outstanding,
  msg_id_counter,
  await_topic_id,
  registration,          \* the subscription
  publish_registration,  \* the topic registered by publish()
  called                 \* what the last handled PUBLISH made of callback()

clientVars == <<pc, call, tries, mqttsn_connected, socket_disconnected,
                await_msg_type, ping_outstanding, msg_id_counter,
                await_topic_id, registration, publish_registration, called>>

sessionVars == <<mqttsn_connected, await_msg_type, ping_outstanding>>
topicVars == <<msg_id_counter, await_topic_id, registration,
               publish_registration>>

AwaitTypes == {"GWINFO", "CONNACK", "PINGREQ", "PINGRESP", "SUBACK", "REGACK",
               "PUBACK", "DISCONNECT"}

(* The loops "while (await_msg_type != MQTTSN_PINGREQ) socketInterface.loop()" *)
Waits == {"subscribe_idle", "subscribe_ack", "publish_idle", "publish_ack",
          "register_idle", "register_ack"}

Places == Waits \cup {"app", "loop_pump", "loop_ping", "connect_pump",
                      "connect_check", "publish_topic"}

(* granted_qos is a uint8_t: QoS -1 is stored as 255.                        *)
Registration == [topic_name : Topics \cup {NoTopic}, topic_id : Nat,
                 granted_qos : 0 .. 255]

Unregistered == [topic_name |-> NoTopic, topic_id |-> 0, granted_qos |-> 0]

(* Mutant: a request may be sent while the PINGRESP is awaited.              *)
IdleOrPinging == await_msg_type \in {"PINGREQ", "PINGRESP"}

(* MQTTSN_PINGREQ stands for "nothing is awaited".                          *)
Idle == await_msg_type = "PINGREQ"

(* Mutant: connect() tries once.                                             *)
RetriesOnce == 1

(* retries of connect()                                                     *)
Retries == 2

(* Mutant: 0 is not skipped.                                                 *)
NextMsgIdWithZero == (msg_id_counter + 1) % (MaxMsgId + 1)

(* increment_and_get_msg_id_counter(): uint16_t arithmetic, 0 is skipped    *)
NextMsgId == IF msg_id_counter = MaxMsgId THEN 1 ELSE msg_id_counter + 1

ClientInit ==
  /\ pc = "app"
  /\ call = [op |-> "none", topic |-> NoTopic, qos |-> 0, returned |-> "no"]
  /\ tries = 0
  /\ mqttsn_connected = FALSE
  /\ socket_disconnected = FALSE
  /\ await_msg_type = "GWINFO"
  /\ ping_outstanding = FALSE
  /\ msg_id_counter = 1
  /\ await_topic_id = FALSE
  /\ registration = Unregistered
  /\ publish_registration = Unregistered
  /\ called = [topic_id |-> 0, names |-> <<>>]

-----------------------------------------------------------------------------
(* Helpers *)

(* send(), and notify_socket_disconnected() when it fails                   *)
Transmit(m) ==
  \E ok \in BOOLEAN :
    /\ SocketSend(m, ok)
    /\ socket_disconnected' = (socket_disconnected \/ ~ok)

Silent == UNCHANGED <<toGateway, linkUp, socket_disconnected>>

Begin(op, topic, qos) ==
  call' = [op |-> op, topic |-> topic, qos |-> qos, returned |-> "no"]

Return(ok) ==
  /\ pc' = "app"
  /\ call' = [call EXCEPT !.returned = IF ok THEN "true" ELSE "false"]

InSketch == pc = "app" /\ (ConnectsFirst => mqttsn_connected)

-----------------------------------------------------------------------------
(* socketInterface.loop() *)

Pumping == \/ pc \in {"loop_pump", "connect_pump"}
           \/ pc \in Waits /\ ~Idle

AfterPump == [p \in Places |-> IF p = "loop_pump" THEN "loop_ping"
                               ELSE IF p = "connect_pump" THEN "connect_check"
                               ELSE p]

(* The read of one message that every handler starts from.                  *)
Reads(m) ==
  /\ Pumping
  /\ SocketReceive(m)
  /\ pc' = AfterPump[pc]
  /\ UNCHANGED <<call, tries, budget>>

(* Nothing has arrived.  connect() and loop() ignore the result of          *)
(* socketInterface.loop() and go on.                                        *)
PumpNothing ==
  /\ pc \in {"loop_pump", "connect_pump"}
  /\ pc' = AfterPump[pc]
  /\ UNCHANGED <<call, tries, sessionVars, topicVars, called, linkVars,
                 socket_disconnected>>

(* Mutant: the result of socketInterface.loop() only ends the wait.          *)
PumpEnds ==
  /\ pc \in Waits /\ ~Idle
  /\ ~linkUp
  /\ Return(TRUE)
  /\ UNCHANGED <<tries, sessionVars, topicVars, called, linkVars,
                 socket_disconnected>>

(* ClientSocket.loop() returns false: subscribe() and publish() give up.     *)
PumpFails ==
  /\ pc \in Waits /\ ~Idle
  /\ ~linkUp
  /\ Return(FALSE)
  /\ UNCHANGED <<tries, sessionVars, topicVars, called, linkVars,
                 socket_disconnected>>

-----------------------------------------------------------------------------
(* receiveData() *)

(* Mutant: no is_gateway_address().                                          *)
DispatchedFromAnyone(m, type) ==
  /\ m.type = type
  /\ mqttsn_connected \/ type = "CONNACK"

(* The message passes receiveData()'s checks and its switch selects type.   *)
Dispatched(m, type) ==
  /\ m.type = type
  /\ m.from = "gateway"
  /\ mqttsn_connected \/ type = "CONNACK"

HandledTypes == {"PINGREQ", "PINGRESP", "CONNACK", "SUBACK", "REGACK", "PUBLISH"}

Ignore(m) ==
  /\ Reads(m)
  /\ ~\E type \in HandledTypes : Dispatched(m, type)
  /\ Silent
  /\ UNCHANGED <<sessionVars, topicVars, called>>

ParsePingreq(m) ==
  /\ Dispatched(m, "PINGREQ")
  /\ Reads(m)
  /\ IF Idle THEN Transmit(Plain("PINGRESP")) ELSE Silent
  /\ UNCHANGED <<sessionVars, topicVars, called>>

(* Mutant: notify_pingresponse_arrived() is not called.                      *)
ParsePingrespUnnoticed(m) ==
  /\ Dispatched(m, "PINGRESP")
  /\ Reads(m)
  /\ await_msg_type' = IF await_msg_type = "PINGRESP" THEN "PINGREQ"
                                                     ELSE await_msg_type
  /\ Silent
  /\ UNCHANGED <<mqttsn_connected, ping_outstanding, topicVars, called>>

(* notify_pingresponse_arrived() and the return to idle                     *)
ParsePingresp(m) ==
  /\ Dispatched(m, "PINGRESP")
  /\ Reads(m)
  /\ IF await_msg_type = "PINGRESP"
     THEN /\ ping_outstanding' = FALSE
          /\ await_msg_type' = "PINGREQ"
     ELSE UNCHANGED <<ping_outstanding, await_msg_type>>
  /\ Silent
  /\ UNCHANGED <<mqttsn_connected, topicVars, called>>

ConnackAccepted(m) ==
  /\ await_msg_type = "CONNACK"
  /\ m.return_code = "ACCEPTED"

ConnackCongestion(m) ==
  /\ await_msg_type = "CONNACK"
  /\ m.return_code = "REJECTED_CONGESTION"

(* Any CONNACK that is neither makes the client disconnect itself.          *)
ParseConnack(m) ==
  /\ Dispatched(m, "CONNACK")
  /\ Reads(m)
  /\ \/ /\ ConnackAccepted(m)
        /\ await_msg_type' = "PINGREQ"
        /\ mqttsn_connected' = TRUE
        /\ Silent
     \/ /\ ConnackCongestion(m)
        /\ Silent
        /\ UNCHANGED <<await_msg_type, mqttsn_connected>>
     \/ /\ ~ConnackAccepted(m) /\ ~ConnackCongestion(m)
        /\ Transmit(Plain("DISCONNECT"))
        /\ await_msg_type' = "DISCONNECT"
        /\ UNCHANGED mqttsn_connected
  /\ UNCHANGED <<ping_outstanding, topicVars, called>>

(* Mutant: any SUBACK answers the last subscribe().                          *)
SubackAcceptedAnyId(m) == m.return_code = "ACCEPTED"

(* Mutant: the message id has moved on before the answer is checked.         *)
SubackAcceptedNextId(m) ==
  /\ m.message_id = NextMsgId
  /\ m.return_code = "ACCEPTED"

SubackAccepted(m) ==
  /\ m.message_id = msg_id_counter
  /\ m.return_code = "ACCEPTED"

ParseSuback(m) ==
  /\ Dispatched(m, "SUBACK")
  /\ Reads(m)
  /\ IF SubackAccepted(m)
     THEN /\ registration' =
               [registration EXCEPT
                  !.topic_id = IF await_topic_id THEN m.topic_id ELSE @,
                  !.granted_qos = m.qos % 256]
          /\ await_msg_type' = "PINGREQ"
     ELSE UNCHANGED <<registration, await_msg_type>>
  /\ Silent
  /\ UNCHANGED <<mqttsn_connected, ping_outstanding, msg_id_counter,
                 await_topic_id, publish_registration, called>>

(* Mutant: any REGACK answers the last register_topic().                     *)
RegackMatchesAny(m) == m.type = "REGACK"

RegackMatches(m) == m.message_id = msg_id_counter

(* The missing break after parse_regack() runs parse_publish() as well,     *)
(* which does nothing for a message of type REGACK.  Of the codes, those of  *)
(* return_code_t; any other byte would end the wait and leave the id alone.  *)
ParseRegack(m) ==
  /\ Dispatched(m, "REGACK")
  /\ Reads(m)
  /\ IF RegackMatches(m)
     THEN /\ publish_registration' =
               [publish_registration EXCEPT
                  !.topic_id = IF m.return_code = "ACCEPTED" THEN m.topic_id ELSE 0]
          /\ await_msg_type' = "PINGREQ"
     ELSE UNCHANGED <<publish_registration, await_msg_type>>
  /\ Silent
  /\ UNCHANGED <<mqttsn_connected, ping_outstanding, msg_id_counter,
                 await_topic_id, registration, called>>

(* handle_publish(): the names callback() is called with, in order          *)
CallbackNames(topic_id, qos) ==
  (IF topic_id = publish_registration.topic_id
   THEN <<publish_registration.topic_name>> ELSE <<>>)
  \o
  (IF topic_id = registration.topic_id /\ qos = registration.granted_qos
   THEN <<registration.topic_name>> ELSE <<>>)

ParsePublish(m) ==
  /\ Dispatched(m, "PUBLISH")
  /\ Reads(m)
  /\ called' = IF m.qos \in {0, -1} /\ m.message_id # 0
               THEN called
               ELSE [topic_id |-> m.topic_id,
                     names |-> CallbackNames(m.topic_id, m.qos)]
  /\ Silent
  /\ UNCHANGED <<sessionVars, topicVars>>

ReceiveData ==
  \E m \in ToSet(toClient) :
    \/ Ignore(m)
    \/ ParsePingreq(m)
    \/ ParsePingresp(m)
    \/ ParseConnack(m)
    \/ ParseSuback(m)
    \/ ParseRegack(m)
    \/ ParsePublish(m)

-----------------------------------------------------------------------------
(* connect() *)

SendConnect ==
  /\ Transmit(Plain("CONNECT"))
  /\ await_msg_type' = "CONNACK"
  /\ pc' = "connect_pump"

(* The sketches call connect() only when they are not connected.            *)
Connect ==
  /\ pc = "app" /\ ~mqttsn_connected
  /\ ConnectsFirst
  /\ Spend("call")
  /\ Begin("connect", NoTopic, 0)
  /\ tries' = 1
  /\ SendConnect
  /\ UNCHANGED <<mqttsn_connected, ping_outstanding, topicVars, called, toClient>>

ConnectReturns(ok) ==
  /\ Return(ok)
  /\ Silent
  /\ UNCHANGED <<tries, await_msg_type>>

(* has_beaten() after set_heartbeat(5 * 1000)                                *)
ConnectTimeout == PrematureTimeout \/ (toGateway = <<>> /\ toClient = <<>>)

ConnectCheck ==
  /\ pc = "connect_check"
  /\ \/ mqttsn_connected /\ ConnectReturns(TRUE)
     \/ /\ ~mqttsn_connected /\ socket_disconnected
        /\ ConnectReturns(FALSE)
     \/ /\ ~mqttsn_connected /\ ~socket_disconnected
        /\ pc' = "connect_pump"
        /\ Silent
        /\ UNCHANGED <<call, tries, await_msg_type>>
  /\ UNCHANGED <<mqttsn_connected, ping_outstanding, topicVars, called, toClient,
                 budget>>

(* The break, the sleep and the next try, or the end of the for loop        *)
ConnectBeat ==
  /\ pc = "connect_check" /\ ~mqttsn_connected
  /\ ConnectTimeout
  /\ \/ /\ tries < Retries
        /\ tries' = tries + 1
        /\ SendConnect
        /\ UNCHANGED call
     \/ /\ tries = Retries
        /\ ConnectReturns(FALSE)
  /\ UNCHANGED <<mqttsn_connected, ping_outstanding, topicVars, called, toClient,
                 budget>>

-----------------------------------------------------------------------------
(* subscribe() *)

Subscribe(topic, qos) ==
  /\ InSketch
  /\ Spend("call")
  /\ Begin("subscribe", topic, qos)
  /\ pc' = "subscribe_idle"
  /\ Silent
  /\ UNCHANGED <<tries, sessionVars, topicVars, called, toClient>>

(* The QoS bits of the SUBSCRIBE. On AVR the flags byte is not initialised   *)
(* before they are or-ed into it.                                            *)
SentQos(qos) ==
  CASE FlagsCleared -> {qos}
    [] ~FlagsCleared /\ qos = 0 -> Qos
    [] ~FlagsCleared /\ qos # 0 -> {qos, -1}

(* Mutant: the registration is not cleared by memset().                      *)
RegistrationKept(topic, qos) ==
  [registration EXCEPT !.topic_name = topic, !.granted_qos = qos]

NewRegistration(topic, qos) ==
  [topic_name |-> topic, topic_id |-> 0, granted_qos |-> qos]

SendSubscribe ==
  /\ pc = "subscribe_idle" /\ Idle
  /\ msg_id_counter' = NextMsgId
  /\ \E qos \in SentQos(call.qos) :
       Transmit(SubscribeMsg(NextMsgId, call.topic, qos))
  /\ await_msg_type' = "SUBACK"
  /\ registration' = NewRegistration(call.topic, call.qos)
  /\ await_topic_id' = TRUE
  /\ pc' = "subscribe_ack"
  /\ UNCHANGED <<call, tries, mqttsn_connected, ping_outstanding,
                 publish_registration, called, toClient, budget>>

SubscribeReturns ==
  /\ pc = "subscribe_ack" /\ Idle
  /\ Return(TRUE)
  /\ Silent
  /\ UNCHANGED <<tries, sessionVars, topicVars, called, toClient, budget>>

-----------------------------------------------------------------------------
(* publish() *)

(* The payload is too long, or the QoS is 2 or invalid.                      *)
PublishRefused(topic, qos) ==
  /\ InSketch
  /\ Spend("call")
  /\ call' = [op |-> "publish", topic |-> topic, qos |-> qos,
              returned |-> "false"]
  /\ Silent
  /\ UNCHANGED <<pc, tries, sessionVars, topicVars, called, toClient>>

Publish(topic, qos) ==
  /\ InSketch
  /\ qos \in {-1, 0, 1}
  /\ Spend("call")
  /\ Begin("publish", topic, qos)
  /\ pc' = IF qos > 0 THEN "publish_idle" ELSE "publish_topic"
  /\ Silent
  /\ UNCHANGED <<tries, sessionVars, topicVars, called, toClient>>

PublishIdle ==
  /\ pc = "publish_idle" /\ Idle
  /\ pc' = "publish_topic"
  /\ Silent
  /\ UNCHANGED <<call, tries, sessionVars, topicVars, called, toClient, budget>>

IsRegistered(topic) ==
  topic \in {registration.topic_name, publish_registration.topic_name}

RegisteredId(topic) ==
  IF registration.topic_name = topic THEN registration.topic_id
  ELSE publish_registration.topic_id

(* publish_registration.topic_id = topic_id, whichever record it came from   *)
PublishRegistrationAfter(topic_id) ==
  [publish_registration EXCEPT !.topic_id = topic_id]

(* The rest of publish() once the topic id is known                          *)
SendPublish(topic_id) ==
  IF topic_id = 0
  THEN /\ Return(FALSE)
       /\ Silent
       /\ UNCHANGED <<await_msg_type, msg_id_counter, publish_registration>>
  ELSE /\ publish_registration' = PublishRegistrationAfter(topic_id)
       /\ msg_id_counter' = NextMsgId
       /\ await_msg_type' = IF call.qos = 1 THEN "PUBACK" ELSE await_msg_type
       /\ Transmit(PublishMsg(IF call.qos = 0 THEN 0 ELSE NextMsgId,
                              call.topic, topic_id, call.qos))
       /\ IF call.qos > 0 THEN pc' = "publish_ack" /\ UNCHANGED call
                          ELSE Return(TRUE)

PublishRegistered ==
  /\ pc = "publish_topic" /\ IsRegistered(call.topic)
  /\ SendPublish(RegisteredId(call.topic))
  /\ UNCHANGED <<tries, mqttsn_connected, ping_outstanding, await_topic_id,
                 registration, called, toClient, budget>>

PublishReturns ==
  /\ pc = "publish_ack" /\ Idle
  /\ Return(TRUE)
  /\ Silent
  /\ UNCHANGED <<tries, sessionVars, topicVars, called, toClient, budget>>

(* register_topic(), called when no record has the topic's name             *)
PublishUnregistered ==
  /\ pc = "publish_topic" /\ ~IsRegistered(call.topic)
  /\ pc' = "register_idle"
  /\ Silent
  /\ UNCHANGED <<call, tries, sessionVars, topicVars, called, toClient, budget>>

SendRegister ==
  /\ pc = "register_idle" /\ Idle
  /\ msg_id_counter' = NextMsgId
  /\ publish_registration' = [publish_registration EXCEPT !.topic_name = call.topic]
  /\ await_msg_type' = "REGACK"
  /\ Transmit(RegisterMsg(NextMsgId, call.topic))
  /\ pc' = "register_ack"
  /\ UNCHANGED <<call, tries, mqttsn_connected, ping_outstanding,
                 await_topic_id, registration, called, toClient, budget>>

RegisterReturns ==
  /\ pc = "register_ack" /\ Idle
  /\ SendPublish(publish_registration.topic_id)
  /\ UNCHANGED <<tries, mqttsn_connected, ping_outstanding, await_topic_id,
                 registration, called, toClient, budget>>

-----------------------------------------------------------------------------
(* loop() *)

Loop ==
  /\ InSketch /\ mqttsn_connected
  /\ IF socket_disconnected
     THEN await_msg_type' = "PINGREQ" /\ UNCHANGED pc
     ELSE pc' = "loop_pump" /\ UNCHANGED await_msg_type
  /\ Silent
  /\ UNCHANGED <<call, tries, mqttsn_connected, ping_outstanding, topicVars,
                 called, toClient, budget>>

(* beat is the result of has_beaten().                                       *)
LoopPing(beat) ==
  LET due == ping_outstanding \/ beat IN
  /\ pc = "loop_ping"
  /\ ping_outstanding' = due
  /\ IF due /\ Idle
     THEN Transmit(Plain("PINGREQ")) /\ await_msg_type' = "PINGRESP"
     ELSE Silent /\ UNCHANGED await_msg_type
  /\ pc' = "app"
  /\ UNCHANGED <<call, tries, mqttsn_connected, topicVars, called, toClient,
                 budget>>

-----------------------------------------------------------------------------
(* What the sketch calls, and what the thread then does by itself           *)

SketchCalls ==
  \/ Connect
  \/ \E topic \in SubTopics, qos \in AppQos \ {-1} : Subscribe(topic, qos)
  \/ \E topic \in PubTopics, qos \in AppQos :
       Publish(topic, qos) \/ PublishRefused(topic, qos)

Continues ==
  \/ PumpNothing
  \/ PumpFails
  \/ ConnectCheck
  \/ SendSubscribe
  \/ SubscribeReturns
  \/ PublishIdle
  \/ PublishRegistered
  \/ PublishUnregistered
  \/ PublishReturns
  \/ SendRegister
  \/ RegisterReturns
  \/ Loop
  \/ \E beat \in BOOLEAN : LoopPing(beat)

ClientNext == SketchCalls \/ Continues \/ ConnectBeat \/ ReceiveData

ClientTypeOK ==
  /\ pc \in Places
  /\ call \in [op : {"none", "connect", "subscribe", "publish"},
               topic : Topics \cup {NoTopic}, qos : Qos,
               returned : {"no", "true", "false"}]
  /\ tries \in 0 .. Retries
  /\ mqttsn_connected \in BOOLEAN
  /\ socket_disconnected \in BOOLEAN
  /\ await_msg_type \in AwaitTypes
  /\ ping_outstanding \in BOOLEAN
  /\ msg_id_counter \in 1 .. MaxMsgId
  /\ await_topic_id \in BOOLEAN
  /\ registration \in Registration
  /\ publish_registration \in Registration
  /\ called \in [topic_id : Nat, names : Seq(Topics \cup {NoTopic})]
=============================================================================
