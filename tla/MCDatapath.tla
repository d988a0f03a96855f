----------------------------- MODULE MCDatapath -----------------------------
(***************************************************************************)
(* A small instance of MqttSnDatapath for TLC: the names of the Uno sketch *)
(* and the longest that fit, a buffer for lines of two characters that a   *)
(* line of three overruns, with nothing or one character behind it.        *)
(***************************************************************************)
EXTENDS MqttSnDatapath

MCNames == {[client_id |-> 15, subscribe |-> 26, publish |-> 24],
            [client_id |-> 23, subscribe |-> 249, publish |-> 248]}
MCPayloads == {0, 248}
MCBehind == {<<>>, <<"a">>}
=============================================================================
