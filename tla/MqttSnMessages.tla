--------------------------- MODULE MqttSnMessages ---------------------------
(***************************************************************************)
(* mqttsn_messages.h and the reading of its structs in                     *)
(* MqttSnMessageHandler.h.  A flags byte is the set of its bits.  A text   *)
(* is what it says and how many bytes it has: strlen() of a name, the      *)
(* length of a payload.  The length byte of a message, which send() takes  *)
(* for the number of bytes to send, is computed in uint8_t.                *)
(***************************************************************************)
EXTENDS Integers

FLAG_DUP == {7}
FLAG_QOS_0 == {}
FLAG_QOS_1 == {5}
FLAG_QOS_2 == {6}
FLAG_QOS_M1 == {5, 6}
FLAG_RETAIN == {4}
FLAG_CLEAN == {2}
FLAG_TOPIC_SHORT_NAME == {1}
FLAG_TOPIC_PREDEFINED_ID == {0}

NoText == [says |-> <<>>, length |-> 0]

Message(type, length) ==
  [type |-> type, length |-> length % 256, flags |-> {}, topic_id |-> 0,
   message_id |-> 0, return_code |-> "ACCEPTED", text |-> NoText]

PINGREQ == Message("PINGREQ", 2)
PINGRESP == Message("PINGRESP", 2)
DISCONNECT == Message("DISCONNECT", 2)

FlagIf(condition, flag) == IF condition THEN flag ELSE {}

(* What the constructors of PUBLISH, SUBSCRIBE, SUBACK and WILLTOPIC do with *)
(* the QoS; only PUBLISH knows -1.                                           *)
QosFlags(qos) ==
  CASE qos = 1 -> FLAG_QOS_1
    [] qos = 2 -> FLAG_QOS_2
    [] OTHER -> FLAG_QOS_0

PublishQosFlags(qos) == IF qos = -1 THEN FLAG_QOS_M1 ELSE QosFlags(qos)

(* Mutant: the bit of QoS 1 is looked at before both.                        *)
QosOfLowFirst(flags) ==
  IF FLAG_QOS_1 \subseteq flags THEN 1
  ELSE IF FLAG_QOS_2 \subseteq flags THEN 2
  ELSE IF FLAG_QOS_M1 \subseteq flags THEN -1 ELSE 0

(* The QoS that parse_publish() and parse_suback() read                      *)
QosOf(flags) ==
  IF FLAG_QOS_M1 \subseteq flags THEN -1
  ELSE IF FLAG_QOS_2 \subseteq flags THEN 2
  ELSE IF FLAG_QOS_1 \subseteq flags THEN 1 ELSE 0

-----------------------------------------------------------------------------
(* The constructors *)

msg_advertise == Message("ADVERTISE", 5)
msg_searchgw == Message("SEARCHGW", 3)
msg_gwinfo == Message("GWINFO", 9)
msg_unsuback(msg_id) == [Message("UNSUBACK", 4) EXCEPT !.message_id = msg_id]
msg_pubrec(msg_id) == [Message("PUBREC", 4) EXCEPT !.message_id = msg_id]
msg_pubrel(msg_id) == [Message("PUBREL", 4) EXCEPT !.message_id = msg_id]
msg_pubcomp(msg_id) == [Message("PUBCOMP", 4) EXCEPT !.message_id = msg_id]

(* Only 23 bytes of a client id are sent, and the NUL after them.            *)
Clipped(length) == IF length % 256 > 22 THEN 23 ELSE length % 256

msg_connect(clean_session, client_id) ==
  [Message("CONNECT", 6 + 1 + Clipped(client_id.length)) EXCEPT
     !.flags = FlagIf(clean_session, FLAG_CLEAN),
     !.text = [says |-> client_id.says, length |-> Clipped(client_id.length) + 1]]

init_msg_pingreq(client_id) ==
  [Message("PINGREQ", 2 + 1 + Clipped(client_id.length)) EXCEPT
     !.text = [says |-> client_id.says, length |-> Clipped(client_id.length) + 1]]

msg_connack(return_code) ==
  [Message("CONNACK", 3) EXCEPT !.return_code = return_code]

(* The topic is counted, but not copied.                                     *)
msg_willtopic(willtopic, qos, retain) ==
  [Message("WILLTOPIC", 3 + willtopic.length + 1) EXCEPT
     !.flags = FlagIf(retain, FLAG_RETAIN) \cup QosFlags(qos),
     !.text = [says |-> <<"uninitialised">>, length |-> willtopic.length + 1]]

(* The type is left 0, that of ADVERTISE.                                    *)
msg_willmsg(data) == [Message("ADVERTISE", 2 + data.length) EXCEPT !.text = data]

(* Mutant: the NUL after the name is not counted.                            *)
msg_register_uncounted(topic_id, msg_id, topic_name) ==
  [Message("REGISTER", 6 + topic_name.length) EXCEPT
     !.topic_id = topic_id, !.message_id = msg_id,
     !.text = [says |-> topic_name.says, length |-> topic_name.length + 1]]

msg_register(topic_id, msg_id, topic_name) ==
  [Message("REGISTER", 6 + topic_name.length + 1) EXCEPT
     !.topic_id = topic_id, !.message_id = msg_id,
     !.text = [says |-> topic_name.says, length |-> topic_name.length + 1]]

msg_regack(topic_id, msg_id, return_code) ==
  [Message("REGACK", 7) EXCEPT
     !.topic_id = topic_id, !.message_id = msg_id, !.return_code = return_code]

msg_publish(dup, qos, retain, short_topic, topic_id, msg_id, data) ==
  [Message("PUBLISH", 7 + data.length) EXCEPT
     !.flags = FlagIf(dup, FLAG_DUP) \cup FlagIf(retain, FLAG_RETAIN)
               \cup (IF short_topic THEN FLAG_TOPIC_SHORT_NAME
                                    ELSE FLAG_TOPIC_PREDEFINED_ID)
               \cup PublishQosFlags(qos),
     !.topic_id = topic_id, !.message_id = msg_id, !.text = data]

msg_puback(topic_id, msg_id, return_code) ==
  [Message("PUBACK", 7) EXCEPT
     !.topic_id = topic_id, !.message_id = msg_id, !.return_code = return_code]

msg_subscribe_shorttopic(short_topic, topic_id, msg_id, qos, dup) ==
  [Message("SUBSCRIBE", 7) EXCEPT
     !.flags = FlagIf(dup, FLAG_DUP) \cup QosFlags(qos)
               \cup (IF short_topic THEN FLAG_TOPIC_SHORT_NAME
                                    ELSE FLAG_TOPIC_PREDEFINED_ID),
     !.topic_id = topic_id, !.message_id = msg_id]

(* The flags are those of a cleared byte; MqttSnClient has the other case.   *)
msg_subscribe_topicname(topic_name, msg_id, qos, dup) ==
  [Message("SUBSCRIBE", 5 + topic_name.length + 1) EXCEPT
     !.flags = FlagIf(dup, FLAG_DUP) \cup QosFlags(qos),
     !.message_id = msg_id,
     !.text = [says |-> topic_name.says, length |-> topic_name.length + 1]]

msg_suback(qos, topic_id, msg_id, return_code) ==
  [Message("SUBACK", 8) EXCEPT
     !.flags = QosFlags(qos), !.topic_id = topic_id, !.message_id = msg_id,
     !.return_code = return_code]

-----------------------------------------------------------------------------
(* The structs: where a text starts, and the size of its array               *)

TextOffset(type) ==
  CASE type \in {"PINGREQ", "ADVERTISE"} -> 2
    [] type = "WILLTOPIC" -> 3
    [] type = "SUBSCRIBE" -> 5
    [] type \in {"CONNECT", "REGISTER"} -> 6
    [] type = "PUBLISH" -> 7
    [] OTHER -> 0

TextSize(type) ==
  CASE type \in {"CONNECT", "PINGREQ"} -> 24
    [] type = "WILLTOPIC" -> 252
    [] type = "ADVERTISE" -> 253
    [] type = "SUBSCRIBE" -> 250
    [] type = "REGISTER" -> 255 - 6
    [] type = "PUBLISH" -> 255 - 7
    [] OTHER -> 0
=============================================================================
