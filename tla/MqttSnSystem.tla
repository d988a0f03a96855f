----------------------------- MODULE MqttSnSystem -----------------------------
(***************************************************************************)
(* The client with the gateway it talks to and the network between them.   *)
(* The gateway is not part of this repository.  It is modelled from what   *)
(* the message handler expects of it: it answers every request once, it    *)
(* keeps one session, and it forwards publications of subscribed topics.   *)
(***************************************************************************)
EXTENDS MqttSnClient, FiniteSets

CONSTANTS
  TopicIdOf,      \* the id the gateway gives each topic
  ConnackCodes,   \* return codes the gateway may put in a CONNACK
  AckCodes        \* return codes it may put in a SUBACK or REGACK

ASSUME GatewayAssumption ==
  /\ TopicIdOf \in [Topics -> Nat \ {0}]
  /\ \A s, t \in Topics : TopicIdOf[s] = TopicIdOf[t] => s = t
  /\ ConnackCodes \subseteq ReturnCodes
  /\ AckCodes \subseteq ReturnCodes

VARIABLES
  gwSession,      \* the gateway has a session for the client
  gwSubs          \* its subscriptions: [topic, qos] with the granted QoS

gatewayVars == <<gwSession, gwSubs>>
vars == <<clientVars, linkVars, gatewayVars>>

Subscriptions == [topic : Topics, qos : 0 .. 2]

GatewayInit == gwSession = FALSE /\ gwSubs = {}

-----------------------------------------------------------------------------
(* The gateway *)

GwTakes(m) ==
  /\ \E i \in Arrived(toGateway) : /\ m = toGateway[i]
                                   /\ toGateway' = RemoveAt(toGateway, i)
  /\ UNCHANGED <<clientVars, linkUp, budget>>

Send(r) == toClient' = Append(toClient, r)

(* The client always asks for a clean session.                              *)
GwConnect(m) ==
  /\ m.type = "CONNECT"
  /\ GwTakes(m)
  /\ \E code \in ConnackCodes :
       /\ Send([PlainReply("CONNACK", "gateway") EXCEPT !.return_code = code])
       /\ IF code = "ACCEPTED" THEN gwSession' = TRUE /\ gwSubs' = {}
                               ELSE UNCHANGED gatewayVars

(* Without a session every request but a QoS -1 PUBLISH gets a DISCONNECT.   *)
GwNoSession(m) ==
  /\ ~gwSession
  /\ m.type \in {"SUBSCRIBE", "REGISTER", "PUBLISH", "PINGREQ"}
  /\ GwTakes(m)
  /\ IF m.type = "PUBLISH" /\ m.qos = -1
     THEN UNCHANGED toClient
     ELSE Send(PlainReply("DISCONNECT", "gateway"))
  /\ UNCHANGED gatewayVars

(* A request of both QoS bits asks for nothing the gateway can grant.        *)
SubackCodes(m) == IF m.qos = -1 THEN {"REJECTED_NOT_SUPPORTED"} ELSE AckCodes

Granted(m, granted) ==
  {s \in gwSubs : s.topic # m.topic} \cup {[topic |-> m.topic, qos |-> granted]}

GwSubscribe(m) ==
  /\ gwSession
  /\ m.type = "SUBSCRIBE"
  /\ GwTakes(m)
  /\ \/ /\ "ACCEPTED" \in SubackCodes(m)
        /\ \E granted \in 0 .. m.qos :
             /\ Send([PlainReply("SUBACK", "gateway") EXCEPT
                        !.message_id = m.message_id, !.qos = granted,
                        !.topic_id = TopicIdOf[m.topic]])
             /\ gwSubs' = Granted(m, granted)
     \/ \E code \in SubackCodes(m) \ {"ACCEPTED"} :
          /\ Send([PlainReply("SUBACK", "gateway") EXCEPT
                     !.message_id = m.message_id, !.return_code = code])
          /\ UNCHANGED gwSubs
  /\ UNCHANGED gwSession

GwRegister(m) ==
  /\ gwSession
  /\ m.type = "REGISTER"
  /\ GwTakes(m)
  /\ \E code \in AckCodes :
       Send([PlainReply("REGACK", "gateway") EXCEPT
               !.message_id = m.message_id, !.return_code = code,
               !.topic_id = IF code = "ACCEPTED" THEN TopicIdOf[m.topic] ELSE 0])
  /\ UNCHANGED gatewayVars

GwPublish(m) ==
  /\ gwSession
  /\ m.type = "PUBLISH"
  /\ GwTakes(m)
  /\ IF m.qos = 1
     THEN Send([PlainReply("PUBACK", "gateway") EXCEPT
                  !.message_id = m.message_id, !.topic_id = m.topic_id])
     ELSE UNCHANGED toClient
  /\ UNCHANGED gatewayVars

GwPing(m) ==
  /\ gwSession
  /\ m.type = "PINGREQ"
  /\ GwTakes(m)
  /\ Send(PlainReply("PINGRESP", "gateway"))
  /\ UNCHANGED gatewayVars

GwPingresp(m) ==
  /\ m.type = "PINGRESP"
  /\ GwTakes(m)
  /\ UNCHANGED <<toClient, gatewayVars>>

GwDisconnect(m) ==
  /\ m.type = "DISCONNECT"
  /\ GwTakes(m)
  /\ gwSession' = FALSE
  /\ gwSubs' = {}
  /\ Send(PlainReply("DISCONNECT", "gateway"))

Gateway ==
  \E m \in ToSet(toGateway) :
    \/ GwConnect(m)
    \/ GwNoSession(m)
    \/ GwSubscribe(m)
    \/ GwRegister(m)
    \/ GwPublish(m)
    \/ GwPing(m)
    \/ GwPingresp(m)
    \/ GwDisconnect(m)

(* A publication somebody else made, forwarded with at most the granted QoS. *)
(* The message id of a QoS 0 PUBLISH is 0.                                   *)
Forwarded(s, qos) ==
  [PlainReply("PUBLISH", "gateway") EXCEPT
     !.topic_id = TopicIdOf[s.topic], !.qos = qos,
     !.message_id = IF qos = 0 THEN 0 ELSE 1]

GwPush ==
  /\ gwSession
  /\ linkUp
  /\ Spend("push")
  /\ \/ \E s \in gwSubs : \E qos \in 0 .. s.qos : Send(Forwarded(s, qos))
     \/ Send(PlainReply("PINGREQ", "gateway"))
  /\ UNCHANGED <<clientVars, toGateway, linkUp, gatewayVars>>

(* Another node of the network sends to the client.                          *)
Noise ==
  /\ Transport = "datagram"
  /\ Spend("push")
  /\ \E type \in {"ADVERTISE", "CONNACK", "PINGRESP"} :
       Send(PlainReply(type, "other"))
  /\ UNCHANGED <<clientVars, toGateway, linkUp, gatewayVars>>

(* The TCP connection breaks: what is under way is gone, and so is the       *)
(* gateway's session.                                                        *)
LinkDrop ==
  /\ Transport = "stream"
  /\ linkUp
  /\ Spend("drop")
  /\ linkUp' = FALSE
  /\ toGateway' = <<>>
  /\ toClient' = <<>>
  /\ gwSession' = FALSE
  /\ gwSubs' = {}
  /\ UNCHANGED clientVars

Network == (Lose \/ Duplicate) /\ UNCHANGED <<clientVars, gatewayVars>>

-----------------------------------------------------------------------------
Init == ClientInit /\ LinkInit /\ GatewayInit

Next ==
  \/ ClientNext /\ UNCHANGED gatewayVars
  \/ Gateway
  \/ GwPush
  \/ Noise
  \/ LinkDrop
  \/ Network

Spec == Init /\ [][Next]_vars

(* The thread always takes its next step; a loop that pumps the socket       *)
(* again and again eventually reads what keeps arriving, and has_beaten()    *)
(* becomes true; the gateway answers.  The sketch need not call anything,    *)
(* except loop(), which every sketch does in each turn.                      *)
Fairness ==
  /\ WF_vars(Continues /\ UNCHANGED gatewayVars)
  /\ SF_vars(ReceiveData /\ UNCHANGED gatewayVars)
  /\ SF_vars(ConnectBeat /\ UNCHANGED gatewayVars)
  /\ WF_vars(Gateway)

FairSpec == Spec /\ Fairness

-----------------------------------------------------------------------------
(* Properties *)

TypeOK ==
  /\ LinkTypeOK
  /\ ClientTypeOK
  /\ gwSession \in BOOLEAN
  /\ gwSubs \subseteq Subscriptions

(* subscribe() returns true only when the single registration names the     *)
(* topic of the call and holds the id the gateway gave that topic: a late or *)
(* duplicated SUBACK of an earlier subscribe() is never taken for the answer *)
(* (message id check of parse_suback()).                                     *)
SubscribedIdIsGateways ==
  call.op = "subscribe" /\ call.returned = "true" =>
    /\ registration.topic_name = call.topic
    /\ registration.topic_id = TopicIdOf[call.topic]

(* Every PUBLISH on its way to the gateway carries the id of the topic the   *)
(* sketch passed to publish(), whichever of the two registrations, or the    *)
(* REGACK of register_topic(), it came from.                                 *)
PublishCarriesOwnTopic ==
  \A i \in DOMAIN toGateway :
    toGateway[i].type = "PUBLISH" =>
      toGateway[i].topic_id = TopicIdOf[toGateway[i].topic]

(* handle_publish() hands a publication to callback() under the name of its  *)
(* own topic, and never under the null name of an unused registration.       *)
CallbackNamesTopic ==
  \A i \in DOMAIN called.names :
    /\ called.names[i] \in Topics
    /\ called.topic_id = TopicIdOf[called.names[i]]

RequestOf == [CONNACK |-> "CONNECT", SUBACK |-> "SUBSCRIBE",
              REGACK |-> "REGISTER", PINGRESP |-> "PINGREQ"]

(* Positions of the requests that are not answered, and of their answers     *)
Unanswered(type) == {i \in DOMAIN toGateway : toGateway[i].type = RequestOf[type]}
Answers(type) == {i \in DOMAIN toClient : /\ toClient[i].type = type
                                          /\ toClient[i].from = "gateway"}
InFlight(type) == Cardinality(Unanswered(type)) + Cardinality(Answers(type))

(* "wait until we have no other messages in flight": over a network that     *)
(* loses and duplicates nothing, await_msg_type tells exactly what is in     *)
(* flight.  While it is idle no exchange is under way, so no two requests    *)
(* ever are; while it names an answer, that answer or its request is still   *)
(* coming, so no loop of subscribe() or register_topic() waits in vain.      *)
AwaitsWhatIsInFlight ==
  mqttsn_connected =>
    \A type \in DOMAIN RequestOf :
      InFlight(type) = IF await_msg_type = type THEN 1 ELSE 0

(* What is asked for one at a time, and the client as an Exchange            *)
Requested == {"SUBACK", "REGACK", "PINGRESP"}

OneAtATime == INSTANCE Exchange WITH
  Kinds <- Requested,
  awaits <- IF await_msg_type \in Requested THEN await_msg_type ELSE "nothing",
  requests <- [type \in Requested |-> Cardinality(Unanswered(type))],
  answers <- [type \in Requested |-> Cardinality(Answers(type))]

(* subscribe(), register_topic() and the keep-alive of loop() ask one thing  *)
(* at a time, step by step: none of them, in whatever order the sketch calls *)
(* and the network delivers, sends while something is on its way, has its    *)
(* request answered twice, or goes on before it has read the answer.         *)
ExchangesOneAtATime == OneAtATime!Spec

(* The client believes it is connected only while the gateway has a session  *)
(* for it: a CONNACK that is not the gateway's, or not ACCEPTED, does not    *)
(* connect it, and it does not end the session it uses.                      *)
SessionAgrees == mqttsn_connected => gwSession

(* One lost datagram never makes connect() report failure: the second of its *)
(* two tries succeeds.                                                       *)
ConnectSurvivesOneLoss == ~(call.op = "connect" /\ call.returned = "false")

(* Every call of the client's API, and every turn of loop(), returns to the  *)
(* sketch.                                                                   *)
CallsReturn == []<>(pc = "app")

(* A due keep-alive is eventually answered, so that the next one can be sent *)
(* (the PINGREQ of loop() and parse_pingresp()).                             *)
KeepAliveAnswered == ping_outstanding ~> ~ping_outstanding
=============================================================================
