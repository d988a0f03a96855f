------------------------------ MODULE Heartbeat ------------------------------
(***************************************************************************)
(* The client in real time: System.{h,cpp} with a millis() that wraps, and *)
(* the two users of its heartbeat in MqttSnClient.h, the timeout of        *)
(* connect() and the keep-alive of loop().                                 *)
(*                                                                         *)
(* The gateway answers what connect() sends or does not, and answers a     *)
(* PINGREQ within MaxReply; a lost PINGRESP ends the keep-alive for good   *)
(* (MqttSnSystem).  The socket never fails.  Other calls of the sketch are *)
(* part of the time between two turns of loop().                           *)
(***************************************************************************)
EXTENDS Integers

CONSTANTS
  Second,      \* milliseconds in a second
  ClockRange,  \* 2^32: millis() is a uint32_t
  IntRange,    \* 2^16 on AVR, 2^32 elsewhere: range of duration * 1000
  Durations,   \* durations sketches pass to connect(), in seconds
  MaxGap,      \* time between two turns of a loop that polls
  MaxSend,     \* time a send() takes: a LoRa socket waits for its radio
  MaxReply,    \* time until a PINGRESP is there
  MaxTime      \* bound on the time of a behaviour

ASSUME HeartbeatAssumption ==
  /\ Second \in Nat \ {0}
  /\ ClockRange \in Nat \ {0}
  /\ IntRange \in Nat \ {0}
  /\ Durations \subseteq Nat
  /\ MaxGap \in Nat /\ MaxSend \in Nat /\ MaxReply \in Nat /\ MaxTime \in Nat

VARIABLES
  now,                \* real time; the program sees clock
  clock,              \* millis()
  heartbeat_period,
  heartbeat_current,
  since,              \* the real time of heartbeat_current; no code reads it
  poll,               \* the last has_beaten(): its time and its result
  pc,                 \* where the thread is
  wake,               \* end of a sleep()
  tries,
  duration,           \* parameter of connect()
  mqttsn_connected,
  await_msg_type,
  ping_outstanding,
  reply,              \* the answer of the gateway: "none", "coming", "there"
  sent                \* when the client last sent

timer == <<heartbeat_period, heartbeat_current, since, poll>>
session == <<duration, mqttsn_connected, await_msg_type, ping_outstanding>>
vars == <<now, clock, timer, pc, wake, tries, session, reply, sent>>

-----------------------------------------------------------------------------
(* System *)

(* Mutant: the difference does not wrap.                                     *)
ElapsedSigned == clock - heartbeat_current

(* millis() - heartbeat_current, in uint32_t                                 *)
Elapsed == IF clock >= heartbeat_current
           THEN clock - heartbeat_current
           ELSE clock - heartbeat_current + ClockRange

set_heartbeat(p) ==
  /\ heartbeat_period' = p
  /\ heartbeat_current' = clock
  /\ since' = now
  /\ UNCHANGED poll

(* Mutant: the beat is not taken note of.                                    *)
has_beaten_again(beat) ==
  /\ beat = (Elapsed > heartbeat_period)
  /\ poll' = [at |-> now, beat |-> beat]
  /\ UNCHANGED <<heartbeat_period, heartbeat_current, since>>

has_beaten(beat) ==
  /\ beat = (Elapsed > heartbeat_period)
  /\ poll' = [at |-> now, beat |-> beat]
  /\ IF beat THEN heartbeat_current' = clock /\ since' = now
             ELSE UNCHANGED <<heartbeat_current, since>>
  /\ UNCHANGED heartbeat_period

-----------------------------------------------------------------------------
(* Time *)

(* The thread comes back to its loop, a send() or sleep() ends, a PINGREQ is *)
(* answered, each within its time.                                           *)
MayPass ==
  /\ pc = "loop" \/ pc = "connect" \/ (pc = "app" /\ mqttsn_connected) =>
       now < since + MaxGap \/ now < poll.at + MaxGap
  /\ pc = "send" => now < since + MaxSend
  /\ pc = "sleep" => now < wake
  /\ await_msg_type = "PINGRESP" /\ reply = "coming" => now < sent + MaxReply

Tick ==
  /\ now < MaxTime
  /\ MayPass
  /\ now' = now + 1
  /\ clock' = IF clock + 1 = ClockRange THEN 0 ELSE clock + 1
  /\ UNCHANGED <<timer, pc, wake, tries, session, reply, sent>>

-----------------------------------------------------------------------------
(* connect() *)

ConnectTimeout == 5 * Second
SleepTime(try) == (try + 1) * 10 * Second
Retries == 2

(* duration * 1000: the arithmetic of an int                                 *)
Period(d) == (d * Second) % IntRange

(* Mutant: the timeout is set once for all tries.                            *)
StartTryTimerOnce(try) ==
  /\ tries' = try
  /\ IF try = 0 THEN set_heartbeat(ConnectTimeout) ELSE UNCHANGED timer
  /\ pc' = "send"

(* The body of connect()'s loop up to send_connect()                         *)
StartTry(try) ==
  /\ tries' = try
  /\ set_heartbeat(ConnectTimeout)
  /\ pc' = "send"

Connect(d) ==
  /\ pc = "app" /\ ~mqttsn_connected
  /\ duration' = d
  /\ StartTry(0)
  /\ UNCHANGED <<now, clock, wake, mqttsn_connected, await_msg_type,
                 ping_outstanding, reply, sent>>

(* The CONNACK of an earlier try may lie in the socket already.              *)
ConnectSent ==
  /\ pc = "send"
  /\ await_msg_type' = "CONNACK"
  /\ sent' = now
  /\ reply' = IF reply = "there" THEN "there" ELSE "coming"
  /\ pc' = "connect"
  /\ UNCHANGED <<now, clock, timer, wake, tries, duration, mqttsn_connected,
                 ping_outstanding>>

(* A turn of connect()'s loop that finds the CONNACK                         *)
ConnectReturns ==
  /\ pc = "connect" /\ reply = "there"
  /\ mqttsn_connected' = TRUE
  /\ await_msg_type' = "PINGREQ"
  /\ reply' = "none"
  /\ set_heartbeat(Period(duration))
  /\ pc' = "app"
  /\ UNCHANGED <<now, clock, wake, tries, duration, ping_outstanding, sent>>

(* A turn that does not: the timeout breaks the loop.                        *)
ConnectPolls(beat) ==
  /\ pc = "connect" /\ reply # "there"
  /\ has_beaten(beat)
  /\ IF beat THEN pc' = "sleep" /\ wake' = now + SleepTime(tries)
             ELSE UNCHANGED <<pc, wake>>
  /\ UNCHANGED <<now, clock, tries, session, reply, sent>>

(* The end of sleep(): the next try, or connect() returns false.             *)
Wakes ==
  /\ pc = "sleep" /\ now = wake
  /\ IF tries + 1 < Retries
     THEN StartTry(tries + 1)
     ELSE pc' = "app" /\ UNCHANGED <<timer, tries>>
  /\ UNCHANGED <<now, clock, wake, session, reply, sent>>

-----------------------------------------------------------------------------
(* loop() *)

(* Mutant: ping_outstanding stays set when the PINGRESP arrives.             *)
LoopPumpKeepsPing ==
  /\ pc = "app" /\ mqttsn_connected
  /\ pc' = "loop"
  /\ IF await_msg_type = "PINGRESP" /\ reply = "there"
     THEN /\ set_heartbeat(heartbeat_period)
          /\ await_msg_type' = "PINGREQ"
          /\ reply' = "none"
     ELSE UNCHANGED <<timer, await_msg_type, reply>>
  /\ UNCHANGED <<now, clock, wake, tries, duration, mqttsn_connected,
                 ping_outstanding, sent>>

(* socketInterface.loop(): a PINGRESP sets the heartbeat anew.               *)
LoopPump ==
  /\ pc = "app" /\ mqttsn_connected
  /\ pc' = "loop"
  /\ IF await_msg_type = "PINGRESP" /\ reply = "there"
     THEN /\ set_heartbeat(heartbeat_period)
          /\ ping_outstanding' = FALSE
          /\ await_msg_type' = "PINGREQ"
          /\ reply' = "none"
     ELSE UNCHANGED <<timer, ping_outstanding, await_msg_type, reply>>
  /\ UNCHANGED <<now, clock, wake, tries, duration, mqttsn_connected, sent>>

LoopPolls(beat) ==
  LET due == ping_outstanding \/ beat IN
  /\ pc = "loop"
  /\ has_beaten(beat)
  /\ ping_outstanding' = due
  /\ IF due /\ await_msg_type = "PINGREQ"
     THEN /\ await_msg_type' = "PINGRESP"
          /\ sent' = now
          /\ reply' = "coming"
     ELSE UNCHANGED <<await_msg_type, sent, reply>>
  /\ pc' = "app"
  /\ UNCHANGED <<now, clock, wake, tries, duration, mqttsn_connected>>

-----------------------------------------------------------------------------
(* The gateway *)

Answer ==
  /\ reply = "coming"
  /\ reply' = "there"
  /\ UNCHANGED <<now, clock, timer, pc, wake, tries, session, sent>>

-----------------------------------------------------------------------------
Init ==
  /\ now = 0 /\ clock = 0
  /\ heartbeat_period = 10 * Second
  /\ heartbeat_current = 0 /\ since = 0
  /\ poll = [at |-> 0, beat |-> FALSE]
  /\ pc = "app" /\ wake = 0 /\ tries = 0
  /\ duration = 0
  /\ mqttsn_connected = FALSE
  /\ await_msg_type = "GWINFO"
  /\ ping_outstanding = FALSE
  /\ reply = "none" /\ sent = 0

Next ==
  \/ Tick
  \/ \E d \in Durations : Connect(d)
  \/ ConnectSent
  \/ ConnectReturns
  \/ Wakes
  \/ LoopPump
  \/ \E beat \in BOOLEAN : ConnectPolls(beat) \/ LoopPolls(beat)
  \/ Answer

Spec == Init /\ [][Next]_vars

-----------------------------------------------------------------------------
(* Properties *)

(* The loops poll again before millis() has gone round since the heartbeat   *)
(* was set: with 2^32 milliseconds, a turn may take weeks.                   *)
PollsInTime ==
  /\ ConnectTimeout + MaxGap + MaxSend < ClockRange
  /\ \A d \in Durations : Period(d) + MaxGap < ClockRange

Timing == INSTANCE Timer WITH period <- heartbeat_period

(* The heartbeat over a wrapping millis() is a timer on a clock that does    *)
(* not wrap: has_beaten() is true at the first poll more than a period after *)
(* the last beat or set_heartbeat(), and at no other poll.                   *)
HeartbeatIsTimer == Timing!Spec

(* The gateway hears from the client within its keep-alive duration, give or *)
(* take the turns of loop() and the time the last message waited for its     *)
(* answer, also where duration * 1000 overflows: the period is only shorter. *)
Slack == 3 * MaxGap + IF MaxReply > ConnectTimeout THEN MaxReply ELSE ConnectTimeout
KeepAliveKept == mqttsn_connected => now - sent <= duration * Second + Slack

(* loop() never sends two PINGREQs, nor a PINGREQ after the CONNECT, within  *)
(* a heartbeat period, although a beat may fall into the wait for a PINGRESP *)
(* and ping_outstanding remembers it.                                        *)
PingsPaced ==
  [][pc = "loop" /\ sent' # sent => now - sent > heartbeat_period]_vars

(* connect() gives up a try only after the CONNECT had 5 s for its answer,   *)
(* less the time send() took: the heartbeat is set before it is sent.        *)
ConnectPatient ==
  [][pc = "connect" /\ pc' = "sleep" => now - sent > ConnectTimeout - MaxSend]_vars
=============================================================================
