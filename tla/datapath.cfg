SPECIFICATION Spec
CONSTANTS
  buffer_length = 2
  Characters = {"a"}
  Names <- MCNames
  Payloads <- MCPayloads
  Behind <- MCBehind
  MaxConnects = 1
  MaxLines = 3
  MaxUnasked = 1
INVARIANTS
  GatewayRecognised
  AnswerReachesSender
  HandedForMe
  ParsedAsBuilt
  PublishedAsTyped
  LengthHonest
CHECK_DEADLOCK FALSE
