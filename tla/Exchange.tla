------------------------------- MODULE Exchange -------------------------------
(***************************************************************************)
(* What subscribe(), register_topic() and the keep-alive of loop() promise *)
(* of the requests they send: one exchange at a time.  A request leaves    *)
(* only when nothing is on its way in either direction, it is answered     *)
(* once, and the answer is taken before anything else is asked.            *)
(***************************************************************************)
EXTENDS Naturals

CONSTANT Kinds    \* what can be asked for

VARIABLES
  awaits,      \* the kind of answer the client awaits, or "nothing"
  requests,    \* of each kind, how many requests are on their way
  answers      \* and how many answers

exchangeVars == <<awaits, requests, answers>>

Empty == [k \in Kinds |-> 0]
Single(kind) == [k \in Kinds |-> IF k = kind THEN 1 ELSE 0]

Init == awaits = "nothing" /\ requests = Empty /\ answers = Empty

Ask(kind) ==
  /\ awaits = "nothing" /\ requests = Empty /\ answers = Empty
  /\ awaits' = kind
  /\ requests' = Single(kind)
  /\ UNCHANGED answers

Answer(kind) ==
  /\ requests = Single(kind) /\ answers = Empty
  /\ requests' = Empty
  /\ answers' = Single(kind)
  /\ UNCHANGED awaits

Take(kind) ==
  /\ awaits = kind /\ requests = Empty /\ answers = Single(kind)
  /\ awaits' = "nothing"
  /\ answers' = Empty
  /\ UNCHANGED requests

Next == \E kind \in Kinds : Ask(kind) \/ Answer(kind) \/ Take(kind)

Spec == Init /\ [][Next]_exchangeVars
=============================================================================
