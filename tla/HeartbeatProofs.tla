--------------------------- MODULE HeartbeatProofs ---------------------------
(***************************************************************************)
(* Proofs about Heartbeat: where the loops poll in time (PollsInTime), the *)
(* wrapping clock is never seen, the keep-alive duration is kept, PINGREQs *)
(* are paced and connect() is patient.                                     *)
(*                                                                         *)
(* The inductive invariant bounds the real time by the times the program   *)
(* acted at: where the thread polls, less than ClockRange has passed since *)
(* the heartbeat was set, so that the wrapped difference is the true one.  *)
(***************************************************************************)
EXTENDS Heartbeat, TLAPS

Places == {"app", "send", "connect", "sleep", "loop"}

TypeOK ==
  /\ now \in Nat /\ since \in Nat /\ sent \in Nat
  /\ clock \in Nat /\ clock < ClockRange
  /\ heartbeat_current \in Nat /\ heartbeat_current < ClockRange
  /\ heartbeat_period \in Nat
  /\ poll \in [at: Nat, beat: BOOLEAN]
  /\ pc \in Places
  /\ tries \in Nat
  /\ duration \in Nat
  /\ mqttsn_connected \in BOOLEAN /\ ping_outstanding \in BOOLEAN

(* The past is past.                                                         *)
Past == since <= now /\ poll.at <= now /\ sent <= now

(* The wrapped difference is the true one for as long as it can be.          *)
ElapsedTrue == now - since < ClockRange => Elapsed = now - since

(* A poll that found no beat was not later than the period.                  *)
PolledEarly == poll.at <= since + heartbeat_period

Turn == now <= since + MaxGap \/ now <= poll.at + MaxGap

Sending ==
  pc = "send" =>
    /\ heartbeat_period = ConnectTimeout
    /\ now <= since + MaxSend

Connecting ==
  pc = "connect" =>
    /\ heartbeat_period = ConnectTimeout
    /\ since <= sent /\ sent <= since + MaxSend
    /\ now <= sent \/ Turn

Waits == IF MaxReply > ConnectTimeout THEN MaxReply ELSE ConnectTimeout

Connected ==
  /\ ~mqttsn_connected => ~ping_outstanding
  /\ pc \in {"send", "connect", "sleep"} =>
       ~mqttsn_connected /\ duration \in Durations
  /\ pc = "loop" => mqttsn_connected
  /\ mqttsn_connected =>
       /\ heartbeat_period + MaxGap < ClockRange
       /\ heartbeat_period <= duration * Second
       /\ await_msg_type \in {"PINGREQ", "PINGRESP"}
       /\ Turn
  /\ mqttsn_connected /\ await_msg_type = "PINGREQ" =>
       /\ ~ping_outstanding
       /\ sent <= since /\ since <= sent + Waits + 2 * MaxGap
  /\ mqttsn_connected /\ await_msg_type = "PINGRESP" =>
       /\ reply \in {"coming", "there"}
       /\ reply = "coming" => now <= sent + MaxReply
       /\ pc = "app" => /\ since <= sent + MaxReply + MaxGap
                        /\ poll.at <= sent + MaxReply + MaxGap
       /\ pc = "loop" => /\ since <= sent + MaxReply
                         /\ poll.at <= sent + MaxReply

IInv ==
  /\ TypeOK /\ Past /\ ElapsedTrue /\ PolledEarly
  /\ Sending /\ Connecting /\ Connected

-----------------------------------------------------------------------------
LEMMA ModuloBound ==
  ASSUME NEW x \in Nat, NEW n \in Nat \ {0}
  PROVE  x % n \in Nat /\ x % n <= x
BY SMT

LEMMA ProductInNat ==
  ASSUME NEW d \in Nat
  PROVE  d * Second \in Nat
BY HeartbeatAssumption

LEMMA PeriodBound ==
  ASSUME NEW d \in Nat
  PROVE  Period(d) \in Nat /\ Period(d) <= d * Second
BY HeartbeatAssumption, ModuloBound DEF Period

(* set_heartbeat() starts the difference anew.                               *)
LEMMA SetIsTrue ==
  ASSUME TypeOK, Past, NEW p \in Nat, set_heartbeat(p), now' = now, clock' = clock
  PROVE  ElapsedTrue' /\ PolledEarly'
BY DEF TypeOK, Past, set_heartbeat, ElapsedTrue, PolledEarly, Elapsed

(* has_beaten() sees the true difference where it is polled.                 *)
LEMMA PollIsTrue ==
  ASSUME IInv, now - since < ClockRange, NEW beat \in BOOLEAN, has_beaten(beat),
         now' = now, clock' = clock
  PROVE  /\ beat <=> now - since > heartbeat_period
         /\ ElapsedTrue' /\ PolledEarly'
<1>1. Elapsed = now - since
  BY DEF IInv, ElapsedTrue
<1>2. beat <=> now - since > heartbeat_period
  BY <1>1 DEF has_beaten
<1>3. CASE beat
  <2>1. heartbeat_current' = clock' /\ since' = now' /\ poll'.at = now'
    BY <1>3 DEF has_beaten
  <2> QED
    BY <1>2, <2>1 DEF IInv, TypeOK, has_beaten, ElapsedTrue, PolledEarly, Elapsed
<1>4. CASE ~beat
  <2>1. heartbeat_current' = heartbeat_current /\ since' = since /\ poll'.at = now
    BY <1>4 DEF has_beaten
  <2>2. Elapsed' = Elapsed
    BY <2>1 DEF Elapsed
  <2> QED
    BY <1>1, <1>2, <1>4, <2>1, <2>2
       DEF IInv, TypeOK, has_beaten, ElapsedTrue, PolledEarly
<1> QED
  BY <1>2, <1>3, <1>4

(* Where the thread polls, the clock has not gone round.                     *)
LEMMA PollsBeforeWrap ==
  ASSUME IInv, PollsInTime, pc = "connect" \/ mqttsn_connected
  PROVE  now - since < ClockRange
BY HeartbeatAssumption
   DEF IInv, TypeOK, Past, PolledEarly, Connecting, Connected, Turn,
       PollsInTime, ConnectTimeout

-----------------------------------------------------------------------------
LEMMA InitHolds ==
  ASSUME Init
  PROVE  IInv
<1>1. TypeOK
  <2>1. 10 * Second \in Nat
    BY HeartbeatAssumption
  <2>2. poll \in [at: Nat, beat: BOOLEAN]
    BY DEF Init
  <2>3. mqttsn_connected \in BOOLEAN /\ ping_outstanding \in BOOLEAN
    BY DEF Init
  <2>4. pc \in Places
    BY DEF Init, Places
  <2> QED
    BY <2>1, <2>2, <2>3, <2>4, HeartbeatAssumption DEF Init, TypeOK
<1>2. Past /\ ElapsedTrue /\ PolledEarly
  BY HeartbeatAssumption DEF Init, Past, ElapsedTrue, Elapsed, PolledEarly
<1>3. Sending /\ Connecting /\ Connected
  BY DEF Init, Sending, Connecting, Connected
<1> QED
  BY <1>1, <1>2, <1>3 DEF IInv

LEMMA TickHolds ==
  ASSUME IInv, Tick
  PROVE  IInv'
<1> USE HeartbeatAssumption
<1>1. TypeOK' /\ Past'
  BY DEF IInv, TypeOK, Past, Tick, timer, session
<1>2. ElapsedTrue' /\ PolledEarly'
  BY DEF IInv, TypeOK, Past, PolledEarly, ElapsedTrue, Elapsed, Tick, timer
<1>3. Sending'
  BY DEF IInv, TypeOK, Sending, Tick, MayPass, timer
<1>4. Connecting'
  BY DEF IInv, TypeOK, Past, Connecting, Turn, Tick, MayPass, timer
<1>5. Connected'
  <2>1. UNCHANGED <<timer, pc, session, reply, sent>> /\ now' = now + 1
    BY DEF Tick
  <2>2. ASSUME mqttsn_connected  PROVE Turn'
    BY <2>1, <2>2 DEF IInv, TypeOK, Places, Past, Connected, Turn, Tick, MayPass, timer
  <2>3. ASSUME await_msg_type = "PINGRESP", reply = "coming"
        PROVE  now' <= sent + MaxReply
    BY <2>1, <2>3 DEF IInv, TypeOK, Tick, MayPass
  <2> QED
    BY <2>1, <2>2, <2>3 DEF IInv, Connected, timer, session
<1> QED
  BY <1>1, <1>2, <1>3, <1>4, <1>5 DEF IInv

(* connect() and the end of a sleep() start a try.                           *)
LEMMA TryHolds ==
  ASSUME IInv, NEW try \in Nat, StartTry(try), ~mqttsn_connected,
         mqttsn_connected' = mqttsn_connected, now' = now, clock' = clock, sent' = sent,
         duration' \in Durations,
         ping_outstanding' = ping_outstanding
  PROVE  IInv'
<1> USE HeartbeatAssumption
<1>1. set_heartbeat(ConnectTimeout) /\ ConnectTimeout \in Nat
  BY DEF StartTry, ConnectTimeout
<1>2. TypeOK' /\ Past'
  <2>1. /\ pc' = "send" /\ tries' = try /\ heartbeat_current' = clock
        /\ heartbeat_period' = ConnectTimeout /\ since' = now /\ poll' = poll
    BY <1>1 DEF StartTry, set_heartbeat
  <2>2. pc' \in Places
    BY <2>1 DEF Places
  <2>3. /\ mqttsn_connected' \in BOOLEAN /\ ping_outstanding' \in BOOLEAN
        /\ duration' \in Nat
    BY DEF IInv, TypeOK
  <2> QED
    BY <1>1, <2>1, <2>2, <2>3 DEF IInv, TypeOK, Past
<1>3. ElapsedTrue' /\ PolledEarly'
  BY <1>1, SetIsTrue DEF IInv
<1>4. Sending' /\ Connecting'
  BY <1>1, <1>2 DEF StartTry, set_heartbeat, Sending, Connecting, TypeOK
<1>5. Connected'
  BY DEF IInv, StartTry, Connected
<1> QED
  BY <1>2, <1>3, <1>4, <1>5 DEF IInv

LEMMA ConnectHolds ==
  ASSUME IInv, NEW d \in Durations, Connect(d)
  PROVE  IInv'
BY TryHolds, HeartbeatAssumption DEF Connect

LEMMA WakesHolds ==
  ASSUME IInv, Wakes
  PROVE  IInv'
<1>1. CASE StartTry(tries + 1)
  <2>1. ~mqttsn_connected /\ mqttsn_connected' = mqttsn_connected
    BY DEF Wakes, session, IInv, Connected
  <2>2. duration' \in Durations
    BY DEF Wakes, session, IInv, Connected
  <2> QED
    BY <1>1, <2>1, <2>2, TryHolds DEF IInv, TypeOK, Wakes, session
<1>2. CASE pc' = "app" /\ UNCHANGED <<timer, tries>>
  BY <1>2
     DEF Wakes, session, timer, IInv, TypeOK, Places, Past, ElapsedTrue, Elapsed,
         PolledEarly, Sending, Connecting, Connected
<1> QED
  BY <1>1, <1>2 DEF Wakes

LEMMA ConnectSentHolds ==
  ASSUME IInv, ConnectSent
  PROVE  IInv'
<1>1. TypeOK' /\ Past'
  BY DEF IInv, TypeOK, Places, Past, ConnectSent, timer
<1>2. ElapsedTrue' /\ PolledEarly'
  BY DEF IInv, ElapsedTrue, Elapsed, PolledEarly, ConnectSent, timer
<1>3. Sending' /\ Connecting'
  BY HeartbeatAssumption
     DEF IInv, TypeOK, Past, Sending, Connecting, ConnectSent, timer
<1>4. Connected'
  BY DEF IInv, Connected, ConnectSent
<1> QED
  BY <1>1, <1>2, <1>3, <1>4 DEF IInv

LEMMA ConnectReturnsHolds ==
  ASSUME IInv, PollsInTime, ConnectReturns
  PROVE  IInv'
<1> USE HeartbeatAssumption
<1>1. /\ Period(duration) \in Nat
      /\ Period(duration) <= duration * Second
      /\ Period(duration) + MaxGap < ClockRange
  BY PeriodBound DEF IInv, TypeOK, PollsInTime, Connected, ConnectReturns
<1>2. TypeOK' /\ Past'
  BY <1>1 DEF IInv, TypeOK, Places, Past, ConnectReturns, set_heartbeat
<1>3. ElapsedTrue' /\ PolledEarly'
  BY <1>1, SetIsTrue DEF IInv, ConnectReturns
<1>4. Sending' /\ Connecting'
  BY DEF Sending, Connecting, ConnectReturns
<1>5. now <= sent + ConnectTimeout + MaxGap
  BY DEF IInv, TypeOK, PolledEarly, Connecting, Turn, ConnectReturns,
         ConnectTimeout
<1>6. /\ since' = now /\ sent <= since' /\ now' <= since' + MaxGap
      /\ since' <= sent + Waits + 2 * MaxGap
  BY <1>5
     DEF IInv, TypeOK, Past, Waits, ConnectReturns, set_heartbeat, ConnectTimeout
<1>7. ~ping_outstanding
  BY DEF IInv, Connected, ConnectReturns
<1>8. Connected'
  BY <1>1, <1>6, <1>7 DEF Connected, Turn, ConnectReturns, set_heartbeat
<1> QED
  BY <1>2, <1>3, <1>4, <1>8 DEF IInv

LEMMA ConnectPollsHolds ==
  ASSUME IInv, PollsInTime, NEW beat \in BOOLEAN, ConnectPolls(beat)
  PROVE  IInv'
<1> USE HeartbeatAssumption
<1>1. now - since < ClockRange
  BY PollsBeforeWrap DEF ConnectPolls
<1>2. /\ beat <=> now - since > heartbeat_period
      /\ ElapsedTrue' /\ PolledEarly'
  BY <1>1, PollIsTrue DEF ConnectPolls
<1>3. TypeOK' /\ Past'
  <2>1. mqttsn_connected' \in BOOLEAN /\ ping_outstanding' \in BOOLEAN
    BY DEF IInv, TypeOK, ConnectPolls, session
  <2>2. pc' \in Places
    BY DEF IInv, TypeOK, ConnectPolls, Places
  <2>3. poll' \in [at: Nat, beat: BOOLEAN] /\ poll'.at = now
    BY DEF IInv, TypeOK, ConnectPolls, has_beaten
  <2> QED
    BY <2>1, <2>2, <2>3 DEF IInv, TypeOK, Past, ConnectPolls, has_beaten, session
<1>4. Sending'
  BY DEF Sending, ConnectPolls
<1>5. Connecting'
  BY <1>2
     DEF IInv, TypeOK, Past, Connecting, Turn, ConnectPolls, has_beaten
<1>6. Connected'
  BY DEF IInv, Connected, ConnectPolls, session
<1> QED
  BY <1>2, <1>3, <1>4, <1>5, <1>6 DEF IInv

LEMMA LoopPumpHolds ==
  ASSUME IInv, LoopPump
  PROVE  IInv'
<1> USE HeartbeatAssumption
<1>1. CASE await_msg_type = "PINGRESP" /\ reply = "there"
  <2>1. set_heartbeat(heartbeat_period)
    BY <1>1 DEF LoopPump
  <2>2. TypeOK' /\ Past'
    <3>1. mqttsn_connected' \in BOOLEAN /\ ping_outstanding' \in BOOLEAN
      BY <1>1 DEF IInv, TypeOK, LoopPump
    <3> QED
      BY <2>1, <3>1 DEF IInv, TypeOK, Places, Past, LoopPump, set_heartbeat
  <2>3. ElapsedTrue' /\ PolledEarly'
    BY <2>1, SetIsTrue DEF IInv, TypeOK, LoopPump
  <2>4. Sending' /\ Connecting'
    BY DEF LoopPump, Sending, Connecting
  <2>5. /\ since' = now' /\ sent' <= since' /\ now' <= since' + MaxGap
        /\ since' <= sent' + Waits + 2 * MaxGap
    BY <1>1, <2>1
       DEF IInv, TypeOK, Past, Connected, Turn, Waits, LoopPump, set_heartbeat,
           ConnectTimeout
  <2>6. Connected'
    BY <1>1, <2>1, <2>5
       DEF IInv, Connected, Turn, LoopPump, set_heartbeat
  <2> QED
    BY <2>2, <2>3, <2>4, <2>6 DEF IInv
<1>2. CASE ~(await_msg_type = "PINGRESP" /\ reply = "there")
  <2>1. UNCHANGED <<timer, ping_outstanding, await_msg_type, reply, now, clock,
                    tries, duration, mqttsn_connected, sent>>
    BY <1>2 DEF LoopPump
  <2>2. TypeOK' /\ Past'
    BY <2>1 DEF IInv, TypeOK, Places, Past, LoopPump, timer
  <2>3. ElapsedTrue' /\ PolledEarly'
    BY <2>1 DEF IInv, ElapsedTrue, Elapsed, PolledEarly, timer
  <2>4. Sending' /\ Connecting'
    BY DEF LoopPump, Sending, Connecting
  <2>5. ASSUME await_msg_type = "PINGRESP"
        PROVE  since <= sent + MaxReply /\ poll.at <= sent + MaxReply
    BY <1>2, <2>5 DEF IInv, TypeOK, Past, Connected, LoopPump
  <2>6. Connected'
    BY <2>1, <2>5 DEF IInv, Connected, Turn, LoopPump, timer
  <2> QED
    BY <2>2, <2>3, <2>4, <2>6 DEF IInv
<1> QED
  BY <1>1, <1>2

LEMMA LoopPollsHolds ==
  ASSUME IInv, PollsInTime, NEW beat \in BOOLEAN, LoopPolls(beat)
  PROVE  IInv'
<1> USE HeartbeatAssumption
<1>0. mqttsn_connected /\ mqttsn_connected'
  BY DEF IInv, Connected, LoopPolls
<1>1. now - since < ClockRange
  BY <1>0, PollsBeforeWrap
<1>2. /\ beat <=> now - since > heartbeat_period
      /\ ElapsedTrue' /\ PolledEarly'
  BY <1>1, PollIsTrue DEF LoopPolls
<1>3. /\ poll' \in [at: Nat, beat: BOOLEAN] /\ poll'.at = now
      /\ since' = IF beat THEN now ELSE since
      /\ heartbeat_period' = heartbeat_period
  BY DEF IInv, TypeOK, LoopPolls, has_beaten
<1>4. TypeOK' /\ Past'
  <2>1. mqttsn_connected' \in BOOLEAN /\ ping_outstanding' \in BOOLEAN
    BY DEF IInv, TypeOK, LoopPolls
  <2> QED
    BY <1>3, <2>1 DEF IInv, TypeOK, Places, Past, LoopPolls, has_beaten
<1>5. Sending' /\ Connecting'
  BY DEF LoopPolls, Sending, Connecting
<1>6. Turn'
  BY <1>3 DEF IInv, TypeOK, LoopPolls, Turn
<1>7. ASSUME await_msg_type = "PINGREQ"  PROVE Connected'
  <2>1. CASE beat
    <3>1. /\ await_msg_type' = "PINGRESP" /\ reply' = "coming" /\ sent' = now
          /\ since' = now /\ pc' = "app"
      BY <1>3, <1>7, <2>1 DEF LoopPolls
    <3>2. since' <= sent' + MaxReply + MaxGap /\ poll'.at <= sent' + MaxReply + MaxGap
      BY <1>3, <3>1 DEF IInv, TypeOK
    <3>3. now' <= sent' + MaxReply
      BY <3>1 DEF IInv, TypeOK, LoopPolls
    <3> QED
      BY <1>0, <1>3, <1>6, <3>1, <3>2, <3>3 DEF IInv, Connected, LoopPolls
  <2>2. CASE ~beat
    <3>1. ~ping_outstanding' /\ UNCHANGED <<await_msg_type, sent, reply, since>>
      BY <1>0, <1>3, <1>7, <2>2 DEF LoopPolls, IInv, Connected
    <3> QED
      BY <1>0, <1>3, <1>6, <1>7, <3>1 DEF IInv, Connected, LoopPolls
  <2> QED
    BY <2>1, <2>2
<1>8. ASSUME await_msg_type = "PINGRESP"  PROVE Connected'
  <2>1. UNCHANGED <<await_msg_type, sent, reply>> /\ now' = now /\ pc' = "app"
    BY <1>8 DEF LoopPolls
  <2>2. now <= sent + MaxReply + MaxGap
    BY <1>0, <1>8 DEF IInv, TypeOK, Connected, Turn, LoopPolls
  <2>3. since' <= sent' + MaxReply + MaxGap /\ poll'.at <= sent' + MaxReply + MaxGap
    BY <1>0, <1>3, <1>8, <2>1, <2>2 DEF IInv, TypeOK, Past
  <2>4. reply = "coming" => now <= sent + MaxReply
    BY <1>0, <1>8 DEF IInv, Connected
  <2> QED
    BY <1>0, <1>3, <1>6, <1>8, <2>1, <2>3, <2>4 DEF IInv, Connected, LoopPolls
<1> QED
  BY <1>0, <1>2, <1>4, <1>5, <1>7, <1>8 DEF IInv, Connected

LEMMA AnswerHolds ==
  ASSUME IInv, Answer
  PROVE  IInv'
BY DEF Answer, timer, session, IInv, TypeOK, Past, ElapsedTrue, Elapsed,
       PolledEarly, Sending, Connecting, Turn, Connected

LEMMA StepHolds ==
  ASSUME IInv, PollsInTime, [Next]_vars
  PROVE  IInv'
<1>1. CASE UNCHANGED vars
  BY <1>1
     DEF vars, timer, session, IInv, TypeOK, Past, ElapsedTrue, Elapsed,
         PolledEarly, Sending, Connecting, Turn, Connected
<1>2. CASE Next
  BY <1>2, TickHolds, ConnectHolds, ConnectSentHolds, ConnectReturnsHolds,
     WakesHolds, LoopPumpHolds, ConnectPollsHolds, LoopPollsHolds, AnswerHolds
     DEF Next
<1> QED
  BY <1>1, <1>2

-----------------------------------------------------------------------------
(* One step of the client is a step of the timer, or none.                   *)
LEMMA StepIsTimer ==
  ASSUME IInv, PollsInTime, [Next]_vars
  PROVE  [Timing!Next]_(Timing!timerVars)
<1> USE DEF Timing!Next, Timing!Pass, Timing!Set, Timing!Poll, Timing!timerVars
<1>1. CASE Tick
  BY <1>1 DEF Tick, timer, IInv, TypeOK
<1>2. ASSUME NEW try \in Nat, StartTry(try), now' = now
      PROVE  Timing!Set
  BY <1>2, HeartbeatAssumption DEF StartTry, set_heartbeat, ConnectTimeout
<1>3. ASSUME NEW d \in Durations, Connect(d)
      PROVE  Timing!Set
  BY <1>2, <1>3 DEF Connect
<1>4. CASE Wakes
  <2>1. CASE StartTry(tries + 1)
    BY <1>2, <1>4, <2>1 DEF Wakes, IInv, TypeOK
  <2>2. CASE UNCHANGED timer
    BY <1>4, <2>2 DEF Wakes, timer
  <2> QED
    BY <1>4, <2>1, <2>2 DEF Wakes
<1>5. CASE ConnectReturns
  BY <1>5, PeriodBound DEF ConnectReturns, set_heartbeat, IInv, TypeOK
<1>6. CASE LoopPump
  BY <1>6 DEF LoopPump, set_heartbeat, timer, IInv, TypeOK
<1>7. ASSUME NEW beat \in BOOLEAN, has_beaten(beat), now' = now, clock' = clock,
             now - since < ClockRange
      PROVE  Timing!Poll
  <2>1. beat <=> now - since > heartbeat_period
    BY <1>7, PollIsTrue
  <2>2. beat = (now - since > heartbeat_period)
    <3>1. Elapsed = now - since
      BY <1>7 DEF IInv, ElapsedTrue
    <3> QED
      BY <1>7, <3>1, Zenon DEF has_beaten
  <2>3. poll' = [at |-> now, beat |-> beat]
    BY <1>7 DEF has_beaten
  <2>4. since' = IF now - since > heartbeat_period THEN now ELSE since
    BY <1>7, <2>1 DEF has_beaten
  <2>5. UNCHANGED <<now, heartbeat_period>>
    BY <1>7 DEF has_beaten
  <2> QED
    BY <2>2, <2>3, <2>4, <2>5, Zenon
<1>8. ASSUME NEW beat \in BOOLEAN, ConnectPolls(beat)
      PROVE  Timing!Poll
  BY <1>7, <1>8, PollsBeforeWrap DEF ConnectPolls
<1>9. ASSUME NEW beat \in BOOLEAN, LoopPolls(beat)
      PROVE  Timing!Poll
  BY <1>7, <1>9, PollsBeforeWrap DEF LoopPolls, IInv, Connected
<1>10. CASE ConnectSent \/ Answer \/ UNCHANGED vars
  BY <1>10 DEF ConnectSent, Answer, vars, timer
<1> QED
  BY <1>1, <1>3, <1>4, <1>5, <1>6, <1>8, <1>9, <1>10 DEF Next

(* Where the loops poll in time, the heartbeat over a millis() that wraps is *)
(* a timer over a clock that does not: a has_beaten() tells the truth.       *)
THEOREM HeartbeatImplementsTimer == PollsInTime => (Spec => HeartbeatIsTimer)
<1> SUFFICES ASSUME PollsInTime  PROVE Spec => HeartbeatIsTimer
  OBVIOUS
<1>1. Init => Timing!Init
  BY HeartbeatAssumption DEF Init, Timing!Init
<1> QED
  BY <1>1, InitHolds, StepHolds, StepIsTimer, PTL
     DEF Spec, HeartbeatIsTimer, Timing!Spec

(* Where the loops poll in time, the gateway hears from a connected client   *)
(* within the duration of its CONNECT and the slack of the waits between.    *)
THEOREM KeepAliveCorrect == PollsInTime => (Spec => []KeepAliveKept)
<1> SUFFICES ASSUME PollsInTime  PROVE Spec => []KeepAliveKept
  OBVIOUS
<1>1. ASSUME IInv  PROVE KeepAliveKept
  <2>1. duration * Second \in Nat
    BY <1>1, ProductInNat DEF IInv, TypeOK
  <2> QED
    BY <1>1, <2>1, HeartbeatAssumption
       DEF IInv, TypeOK, PolledEarly, Connected, Places, Turn, Waits, KeepAliveKept,
           Slack, ConnectTimeout
<1> QED
  BY <1>1, InitHolds, StepHolds, PTL DEF Spec

(* Where the loops poll in time, a PINGREQ follows what was sent before by   *)
(* more than a heartbeat period.                                             *)
THEOREM PacingCorrect == PollsInTime => (Spec => PingsPaced)
<1> SUFFICES ASSUME PollsInTime  PROVE Spec => PingsPaced
  OBVIOUS
<1>1. ASSUME IInv, [Next]_vars, pc = "loop", sent' # sent
      PROVE  now - sent > heartbeat_period
  <2>1. PICK beat \in BOOLEAN : LoopPolls(beat)
    BY <1>1
       DEF Next, vars, Tick, Connect, ConnectSent, ConnectReturns, Wakes, LoopPump,
           ConnectPolls, Answer
  <2>2. mqttsn_connected /\ await_msg_type = "PINGREQ" /\ ~ping_outstanding
    BY <1>1, <2>1 DEF LoopPolls, IInv, Connected
  <2>3. beat
    BY <1>1, <2>1, <2>2 DEF LoopPolls
  <2>4. now - since > heartbeat_period
    BY <1>1, <2>1, <2>2, <2>3, PollsBeforeWrap, PollIsTrue DEF LoopPolls
  <2> QED
    BY <1>1, <2>2, <2>4 DEF IInv, TypeOK, Connected
<1> QED
  BY <1>1, InitHolds, StepHolds, PTL DEF Spec, PingsPaced

(* Where the loops poll in time, connect() waits 5 s for its answer before it *)
(* gives a try up, less what sending the CONNECT took.                       *)
THEOREM PatienceCorrect == PollsInTime => (Spec => ConnectPatient)
<1> SUFFICES ASSUME PollsInTime  PROVE Spec => ConnectPatient
  OBVIOUS
<1>1. ASSUME IInv, [Next]_vars, pc = "connect", pc' = "sleep"
      PROVE  now - sent > ConnectTimeout - MaxSend
  <2>1. PICK beat \in BOOLEAN : ConnectPolls(beat)
    BY <1>1
       DEF Next, vars, Tick, Connect, StartTry, ConnectSent, ConnectReturns, Wakes,
           LoopPump, LoopPolls, Answer
  <2>2. beat
    BY <1>1, <2>1 DEF ConnectPolls
  <2>3. now - since > heartbeat_period
    BY <1>1, <2>1, <2>2, PollsBeforeWrap, PollIsTrue DEF ConnectPolls
  <2> QED
    BY <1>1, <2>3, HeartbeatAssumption DEF IInv, TypeOK, Connecting, ConnectTimeout
<1> QED
  BY <1>1, InitHolds, StepHolds, PTL DEF Spec, ConnectPatient
=============================================================================
