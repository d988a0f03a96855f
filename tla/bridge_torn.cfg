SPECIFICATION Spec
CONSTANTS
  n1 = n1
  n2 = n2
  Numbers = {n1, n2}
  AddressLength = 1
  SerialBufferSize = 8
  SendBufferSize = 7
  MaxBuffered = 9
  Lines <- MCReceiveLines
  Packets <- MCPackets
  ChipResets = TRUE
  SendMayFail = FALSE
  SocketMayFail = FALSE
INVARIANTS
  ReportedIsOnePacket
CHECK_DEADLOCK FALSE
