SPECIFICATION Spec
CONSTANTS
  Second = 1
  ClockRange = 24
  IntRange = 5
  Durations <- MCDurations
  MaxGap = 2
  MaxSend = 1
  MaxReply = 6
  MaxTime = 80
INVARIANTS
  KeepAliveKept
PROPERTIES
  HeartbeatIsTimer
  PingsPaced
  ConnectPatient
CHECK_DEADLOCK FALSE
