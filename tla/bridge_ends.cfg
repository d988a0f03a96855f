SPECIFICATION FairSpec
CONSTANTS
  n1 = n1
  n2 = n2
  Numbers = {n1, n2}
  AddressLength = 1
  SerialBufferSize = 4
  SendBufferSize = 7
  MaxBuffered = 4
  Lines <- MCFewLines
  Packets <- MCOnePacket
  ChipResets = FALSE
  SendMayFail = TRUE
  SocketMayFail = TRUE
INVARIANTS
  TypeOK
PROPERTIES
  LineTaken
  ExchangeEnds
CHECK_DEADLOCK FALSE
