-------------------------------- MODULE Timer --------------------------------
(***************************************************************************)
(* What the client relies on when it calls the heartbeat of System.h: a    *)
(* timer on a clock that never wraps.  It beats at the first poll more     *)
(* than a period after it was set or after it last beat, and at no other.  *)
(***************************************************************************)
EXTENDS Integers

VARIABLES
  now,      \* the time
  since,    \* when the timer was set or last beat
  period,
  poll      \* the last poll: [at, beat]

timerVars == <<now, since, period, poll>>

Init ==
  /\ now = 0 /\ since = 0
  /\ period \in Nat
  /\ poll = [at |-> 0, beat |-> FALSE]

Pass ==
  /\ now' > now
  /\ UNCHANGED <<since, period, poll>>

Set ==
  /\ since' = now
  /\ period' \in Nat
  /\ UNCHANGED <<now, poll>>

Poll ==
  /\ poll' = [at |-> now, beat |-> now - since > period]
  /\ since' = IF now - since > period THEN now ELSE since
  /\ UNCHANGED <<now, period>>

Next == Pass \/ Set \/ Poll

Spec == Init /\ [][Next]_timerVars
=============================================================================
