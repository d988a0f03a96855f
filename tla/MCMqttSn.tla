------------------------------- MODULE MCMqttSn -------------------------------
(***************************************************************************)
(* Small instances of MqttSnSystem for TLC.                                *)
(***************************************************************************)
EXTENDS MqttSnSystem

CONSTANTS t1, t2, t3, t4, none

(* Any injective map; the ids are small so that an id can be confused with   *)
(* another one.                                                              *)
MCTopicIdOf == t1 :> 1 @@ t2 :> 2 @@ t3 :> 3 @@ t4 :> 4

(* The QoS values whose PUBLISH is not acknowledged                         *)
MCQosWithoutPuback == {-1, 0}

Bounds(calls, pushes, losses, duplicates, drops) ==
  [call |-> calls, push |-> pushes, lose |-> losses, dup |-> duplicates,
   drop |-> drops]

MCBudgetDelivery == Bounds(3, 1, 1, 1, 0)
MCBudgetReliable == Bounds(4, 1, 0, 0, 0)
MCBudgetWrap == Bounds(3, 0, 1, 1, 0)
MCBudgetTcp == Bounds(4, 1, 0, 0, 1)

MCBudgetPublish == Bounds(4, 0, 0, 0, 0)
MCBudgetOverlap == Bounds(5, 0, 0, 0, 0)
MCBudgetPush == Bounds(4, 1, 0, 0, 0)
=============================================================================
