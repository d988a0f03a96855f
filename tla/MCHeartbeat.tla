----------------------------- MODULE MCHeartbeat -----------------------------
(***************************************************************************)
(* A small instance of Heartbeat for TLC: a second has one tick, millis()  *)
(* wraps every 24 ticks and duration * 1000 at five.                       *)
(***************************************************************************)
EXTENDS Heartbeat

ASSUME MCAssumption == PollsInTime

MCDurations == {3, 7}
=============================================================================
