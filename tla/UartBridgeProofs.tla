--------------------------- MODULE UartBridgeProofs ---------------------------
(***************************************************************************)
(* Proof of SerialBufferFits for every size of the serial buffer, every     *)
(* set of lines and every packet, over a socket whose loop() returns true.  *)
(*                                                                         *)
(* putChar() tests the counter with ==, and not at all for an end of line.  *)
(* What keeps it inside the buffer is that a finished line waits for at     *)
(* most five turns, those of CONFIGURATION, so that few characters pile up  *)
(* behind it.                                                              *)
(***************************************************************************)
EXTENDS UartBridge, SequenceTheorems, TLAPS

(* Room for what is typed during the longest exchange and in the turn of    *)
(* the next command                                                        *)
Roomy == LastConfiguration + 1 <= SerialBufferSize

-----------------------------------------------------------------------------
(* The inductive invariant *)

BridgeTypeInv ==
  /\ serialBuffer \in Seq(Chars)
  /\ lineReady \in BOOLEAN
  /\ lineReady => serialBuffer # <<>>
  /\ line \in Seq(Chars) /\ (line # Nothing => Len(line) >= 1)
  /\ pc \in Places
  /\ status \in Statuses
  /\ configuration_status \in 0 .. LastConfiguration

Buffered == Len(serialBuffer)

(* The buffer between two steps of an exchange, when the present turn has    *)
(* read more characters than the exchange has made steps: 0 or 1.           *)
Paced(more) ==
  /\ ~lineReady /\ status # "PARSE_FAILURE" => Buffered < SerialBufferSize
  /\ status = "CONFIGURATION" => /\ configuration_status >= 1
                                 /\ Buffered <= configuration_status - 1 + more
  /\ status = "RECEIVE" =>
       \/ receive_status = "SEND_ADDRESS" /\ Buffered <= more
       \/ receive_status = "SEND_DATA" /\ Buffered <= 1 + more
  /\ status = "SEND" =>
       \/ send_status \in {"AWAIT_ADDRESS", "AWAIT_DATA"} /\ (more = 0 => ~lineReady)
       \/ send_status = "SENDING" /\ Buffered <= more

(* The exchange was begun in this turn and has made no step.                 *)
Fresh ==
  /\ Buffered = 0 /\ ~lineReady
  /\ \/ status = "SEND" /\ send_status = "SEND_NONE"
     \/ status = "RECEIVE" /\ receive_status = "RECEIVE_NONE"
     \/ status = "CONFIGURATION" /\ configuration_status = 0

PaceInv ==
  /\ Buffered <= SerialBufferSize
  /\ pc \in {"read", "end"} =>
       Paced(0) /\ (status = "IDLE" /\ lineReady => Buffered <= LastConfiguration)
  /\ pc = "read" => status # "PARSE_FAILURE" /\ (status = "ERROR" => Buffered = 0)
  /\ pc \in {"socket", "reset", "command"} => Paced(1)
  /\ pc = "exchange" => (Paced(1) \/ Fresh) /\ (status = "IDLE" => ~lineReady)

BridgeInv == BridgeTypeInv /\ PaceInv

-----------------------------------------------------------------------------

LEMMA EmptyBuffer ==
  ASSUME resetSerialBuffer
  PROVE  Buffered' = 0 /\ lineReady' = FALSE /\ serialBuffer' \in Seq(Chars)
BY EmptySeq DEF resetSerialBuffer, Buffered

LEMMA EmptyTypeInv ==
  ASSUME BridgeTypeInv, resetSerialBuffer, line' = line, pc' \in Places,
         status' \in Statuses, configuration_status' \in 0 .. LastConfiguration
  PROVE  BridgeTypeInv'
<1>1. serialBuffer' \in Seq(Chars) /\ lineReady' = FALSE
  BY EmptyBuffer
<1>2. lineReady' \in BOOLEAN /\ (lineReady' => serialBuffer' # <<>>)
  BY <1>1
<1> QED
  BY <1>1, <1>2 DEF BridgeTypeInv

LEMMA BufferLength ==
  ASSUME BridgeTypeInv
  PROVE  Buffered \in Nat /\ (lineReady => Buffered >= 1)
BY EmptySeq, LenProperties DEF BridgeTypeInv, Buffered

LEMMA BridgeInit == Roomy /\ Init => BridgeInv
<1> SUFFICES ASSUME Roomy, Init PROVE BridgeInv
  OBVIOUS
<1>1. <<>> \in Seq(Chars) /\ Buffered = 0 /\ lineReady = FALSE
  BY EmptySeq DEF Init, Buffered
<1>2. /\ pc \in {"read", "halted"} /\ status \in {"IDLE", "ERROR"}
      /\ pc = "read" => status = "IDLE"
  BY DEF Init, Begun
<1>3. BridgeTypeInv
  <2>1. serialBuffer \in Seq(Chars) /\ lineReady \in BOOLEAN
    BY <1>1 DEF Init
  <2>2. line \in Seq(Chars) /\ line = Nothing
    BY <1>1 DEF Init, Nothing
  <2>3. pc \in Places /\ status \in Statuses
    BY <1>2 DEF Places, Statuses
  <2> QED
    BY <1>1, <2>1, <2>2, <2>3 DEF Init, BridgeTypeInv, LastConfiguration
<1>4. PaceInv
  BY <1>1, <1>2, BridgeAssumption DEF Roomy, PaceInv, Paced, LastConfiguration
<1> QED
  BY <1>3, <1>4 DEF BridgeInv

(* A restart leaves an empty buffer in IDLE, or stops the board.             *)
LEMMA RestartStep ==
  ASSUME Roomy, BridgeInv, Restart, UNCHANGED hostVars
  PROVE  BridgeInv'
<1>1. Buffered' = 0 /\ lineReady' = FALSE /\ serialBuffer' \in Seq(Chars)
  BY EmptyBuffer DEF Restart
<1>2. /\ pc' \in {"read", "halted"} /\ status' \in {"IDLE", "ERROR"}
      /\ pc' = "read" => status' = "IDLE"
      /\ configuration_status' = 0 /\ line' = line
  BY DEF Restart, Begun, hostVars
<1>3. BridgeTypeInv'
  BY <1>2, EmptyTypeInv
     DEF Restart, BridgeInv, LastConfiguration, Places, Statuses
<1>4. PaceInv'
  BY <1>1, <1>2, BridgeAssumption DEF Roomy, PaceInv, Paced, LastConfiguration
<1> QED
  BY <1>3, <1>4 DEF BridgeInv

LEMMA ReadCharStep ==
  ASSUME Roomy, BridgeInv, ReadChar
  PROVE  BridgeInv'
<1>1. PICK l \in IF line = Nothing THEN Lines ELSE {line} : Types(l)
  BY DEF ReadChar
<1>2. l \in Seq(Chars) /\ Len(l) >= 1
  BY LinesAssumption DEF BridgeInv, BridgeTypeInv
<1>3. Head(l) \in Chars /\ Tail(l) \in Seq(Chars)
  BY <1>2, HeadTailProperties, EmptySeq
<1>4. Buffered \in Nat
  BY BufferLength DEF BridgeInv
<1>5. /\ serialBuffer' = Append(serialBuffer, Head(l))
      /\ lineReady' = (lineReady \/ Head(l) = EndOfLine)
      /\ status' = IF Head(l) # EndOfLine /\ Buffered' = SerialBufferSize
                   THEN "PARSE_FAILURE" ELSE status
      /\ line' = Tail(l)
  BY <1>1 DEF Types, putChar, Buffered
<1>6. serialBuffer' \in Seq(Chars) /\ Buffered' = Buffered + 1 /\ serialBuffer' # <<>>
  BY <1>3, <1>5, AppendProperties DEF BridgeInv, BridgeTypeInv, Buffered
<1>7. line' \in Seq(Chars) /\ (line' # Nothing => Len(line') >= 1)
  BY <1>3, <1>5, EmptySeq, LenProperties DEF Nothing
<1>8. BridgeTypeInv'
  <2>1. lineReady' \in BOOLEAN
    BY <1>5
  <2>2. status' \in Statuses /\ pc' \in Places
    BY <1>5 DEF ReadChar, BridgeInv, BridgeTypeInv, Places, Statuses
  <2> QED
    BY <1>6, <1>7, <2>1, <2>2 DEF ReadChar, BridgeInv, BridgeTypeInv
<1>9. Buffered < SerialBufferSize
  BY <1>4, BridgeAssumption
     DEF Roomy, ReadChar, BridgeInv, BridgeTypeInv, PaceInv, Paced, LastConfiguration,
         Statuses
<1>10. PaceInv'
  <2>1. Buffered' <= SerialBufferSize
    BY <1>4, <1>6, <1>9, BridgeAssumption
  <2>2. Paced(0) /\ pc = "read" /\ pc' = "socket"
    BY DEF ReadChar, BridgeInv, PaceInv
  <2>3. UNCHANGED <<send_status, receive_status, configuration_status>>
    BY DEF ReadChar
  <2>4. ~lineReady' /\ status' # "PARSE_FAILURE" => Buffered' < SerialBufferSize
    <3>1. SerialBufferSize \in Nat /\ Buffered' \in Nat
      BY <1>4, <1>6, BridgeAssumption
    <3>2. ~lineReady' => Head(l) # EndOfLine
      BY <1>5
    <3>3. ~lineReady' /\ status' # "PARSE_FAILURE" => Buffered' # SerialBufferSize
      BY <1>5, <3>2
    <3> QED
      BY <2>1, <3>1, <3>3
  <2>5. status' # "PARSE_FAILURE" => status' = status
    BY <1>5
  <2>6. configuration_status \in Int
    BY DEF BridgeInv, BridgeTypeInv, LastConfiguration
  <2>7. Paced(1)'
    BY <1>4, <1>6, <2>2, <2>3, <2>4, <2>5, <2>6 DEF Paced
  <2> QED
    BY <2>1, <2>2, <2>7 DEF PaceInv
<1> QED
  BY <1>8, <1>10 DEF BridgeInv

(* Steps that leave the buffer and the statuses alone                       *)
LEMMA QuietStep ==
  ASSUME Roomy, BridgeInv, UNCHANGED <<statusVars, bufferVars, hostVars>>,
         \/ pc = "read" /\ pc' = "socket"
         \/ pc = "socket" /\ pc' = "reset"
         \/ pc = "reset" /\ pc' = "command"
         \/ pc = "exchange" /\ pc' = "end"
            /\ status \notin {"SEND", "RECEIVE", "CONFIGURATION"}
         \/ pc = "end" /\ pc' = "read" /\ status \notin {"PARSE_FAILURE", "ERROR"}
         \/ pc' = pc
  PROVE  BridgeInv'
<1>1. Buffered \in Nat /\ Buffered' = Buffered
  BY BufferLength DEF BridgeInv, Buffered, bufferVars
<1>2. BridgeTypeInv'
  BY DEF BridgeInv, BridgeTypeInv, statusVars, bufferVars, hostVars, Places
<1>3. PaceInv'
  BY <1>1 DEF BridgeInv, BridgeTypeInv, PaceInv, Paced, Fresh, statusVars, bufferVars
<1> QED
  BY <1>2, <1>3 DEF BridgeInv

LEMMA CheckResetStep ==
  ASSUME Roomy, BridgeInv, CheckReset
  PROVE  BridgeInv'
<1>1. CASE UNCHANGED <<statusVars, bufferVars>> /\ pc' = "command"
  BY <1>1, QuietStep DEF CheckReset
<1>2. CASE resetChip("command") /\ ChipResets
  BY <1>2, RestartStep DEF CheckReset, resetChip
<1>3. CASE resetChip("command") /\ ~ChipResets
  <2>1. Buffered' = 0 /\ lineReady' = FALSE /\ serialBuffer' \in Seq(Chars)
        /\ pc' = "command" /\ UNCHANGED statusVars
    BY <1>3, EmptyBuffer DEF resetChip
  <2>2. BridgeTypeInv'
    BY <1>3, EmptyTypeInv
       DEF CheckReset, resetChip, BridgeInv, BridgeTypeInv, statusVars, hostVars, Places
  <2> QED
    BY <2>1, <2>2, BridgeAssumption
       DEF Roomy, CheckReset, BridgeInv, BridgeTypeInv, PaceInv, Paced, statusVars,
           LastConfiguration
<1> QED
  BY <1>1, <1>2, <1>3 DEF CheckReset

LEMMA ParseCommandStep ==
  ASSUME Roomy, BridgeInv, ParseCommand
  PROVE  BridgeInv'
<1>1. Buffered \in Nat
  BY BufferLength DEF BridgeInv
<1>2. CASE UNCHANGED <<statusVars, bufferVars>> /\ ~(status = "IDLE" /\ lineReady)
  <2>1. Buffered' = Buffered
    BY <1>2 DEF Buffered, bufferVars
  <2>2. BridgeTypeInv'
    BY <1>2 DEF ParseCommand, BridgeInv, BridgeTypeInv, statusVars, bufferVars, hostVars,
       Places
  <2> QED
    BY <1>1, <1>2, <2>1, <2>2
       DEF ParseCommand, BridgeInv, PaceInv, Paced, statusVars, bufferVars
<1>3. CASE /\ resetSerialBuffer
           /\ status' \in {"SEND", "RECEIVE", "CONFIGURATION"}
           /\ status' = "SEND" => send_status' = "SEND_NONE"
           /\ status' = "RECEIVE" => receive_status' = "RECEIVE_NONE"
           /\ configuration_status' = IF status' = "CONFIGURATION" THEN 0
                                      ELSE configuration_status
  <2>1. Buffered' = 0 /\ lineReady' = FALSE /\ serialBuffer' \in Seq(Chars)
    BY <1>3, EmptyBuffer
  <2>2. BridgeTypeInv'
    BY <1>3, EmptyTypeInv
       DEF ParseCommand, BridgeInv, BridgeTypeInv, hostVars, LastConfiguration, Places,
           Statuses
  <2>3. Fresh'
    BY <1>3, <2>1 DEF Fresh
  <2> QED
    BY <1>3, <2>1, <2>2, <2>3, BridgeAssumption DEF ParseCommand, BridgeInv, PaceInv
<1>4. CASE status' = "PARSE_FAILURE"
           /\ UNCHANGED <<send_status, receive_status, configuration_status, bufferVars>>
  <2>1. Buffered' = Buffered
    BY <1>4 DEF Buffered, bufferVars
  <2>2. BridgeTypeInv'
    BY <1>4 DEF ParseCommand, BridgeInv, BridgeTypeInv, bufferVars, hostVars, Places,
       Statuses
  <2> QED
    BY <1>1, <1>4, <2>1, <2>2
       DEF ParseCommand, BridgeInv, PaceInv, Paced, bufferVars
<1> QED
  BY <1>2, <1>3, <1>4 DEF ParseCommand

(* A step of an exchange that leaves the buffer alone                       *)
LEMMA ExchangeStep ==
  ASSUME BridgeInv, pc = "exchange", pc' = "end", UNCHANGED <<bufferVars, hostVars>>,
         status' \in Statuses, configuration_status' \in 0 .. LastConfiguration
  PROVE  BridgeTypeInv' /\ Buffered' = Buffered /\ Buffered \in Nat
BY BufferLength DEF BridgeInv, BridgeTypeInv, Buffered, bufferVars, hostVars, Places

LEMMA SendStepKeeps ==
  ASSUME Roomy, BridgeInv, SendStep
  PROVE  BridgeInv'
<1>1. /\ pc = "exchange" /\ pc' = "end" /\ status = "SEND" /\ line' = line
      /\ UNCHANGED <<receive_status, configuration_status, hostVars>>
      /\ configuration_status \in 0 .. LastConfiguration
      /\ Buffered <= SerialBufferSize /\ SerialBufferSize \in Nat
      /\ Paced(1) \/ Fresh
  BY BridgeAssumption DEF SendStep, BridgeInv, BridgeTypeInv, PaceInv, hostVars
<1>2. CASE /\ UNCHANGED bufferVars
           /\ \/ status' \in {"PARSE_FAILURE", "ERROR"}
              \/ /\ status' = "SEND" /\ ~lineReady
                 /\ send_status' \in {"AWAIT_ADDRESS", "AWAIT_DATA"}
              \/ status' = "IDLE" /\ send_status = "SENDING"
  <2>1. BridgeTypeInv' /\ Buffered' = Buffered /\ Buffered \in Nat
    BY <1>1, <1>2, ExchangeStep DEF Statuses
  <2>2. lineReady' = lineReady
    BY <1>2 DEF bufferVars
  <2>3. ~lineReady => Buffered < SerialBufferSize
    BY <1>1, BridgeAssumption DEF Roomy, Paced, Fresh, LastConfiguration
  <2>4. send_status = "SENDING" => Buffered <= 1
    BY <1>1 DEF Paced, Fresh
  <2> QED
    BY <1>1, <1>2, <2>1, <2>2, <2>3, <2>4
       DEF BridgeInv, PaceInv, Paced, LastConfiguration
<1>3. CASE /\ resetSerialBuffer /\ status' = "SEND"
           /\ send_status' \in {"AWAIT_DATA", "SENDING"}
  <2>1. BridgeTypeInv'
    BY <1>1, <1>3, EmptyTypeInv DEF BridgeInv, Statuses, Places
  <2>2. Buffered' = 0 /\ lineReady' = FALSE
    BY <1>3, EmptyBuffer
  <2> QED
    BY <1>1, <1>3, <2>1, <2>2
       DEF Roomy, BridgeInv, PaceInv, Paced, LastConfiguration
<1>4. CASE AwaitsAddress
  <2>1. ~lineReady
    BY <1>1, <1>4 DEF AwaitsAddress, Paced, Fresh
  <2> QED
    BY <1>1, <1>2, <1>4, <2>1 DEF AwaitsAddress
<1>5. CASE TakesAddress
  BY <1>1, <1>2, <1>3, <1>5 DEF TakesAddress
<1>6. CASE TakesData
  BY <1>1, <1>2, <1>3, <1>6 DEF TakesData
<1>7. CASE sendDataToAddress
  BY <1>1, <1>2, <1>7 DEF sendDataToAddress
<1>8. CASE AwaitsLine
  BY <1>1, <1>2, <1>8 DEF AwaitsLine
<1> QED
  BY <1>4, <1>5, <1>6, <1>7, <1>8 DEF SendStep

LEMMA ReceiveStepKeeps ==
  ASSUME Roomy, BridgeInv, ReceiveStep
  PROVE  BridgeInv'
<1>1. /\ pc = "exchange" /\ pc' = "end" /\ status = "RECEIVE"
      /\ status' \in {"RECEIVE", "IDLE"}
      /\ UNCHANGED <<configuration_status, bufferVars, hostVars>>
      /\ configuration_status \in 0 .. LastConfiguration
      /\ Buffered <= SerialBufferSize /\ SerialBufferSize \in Nat
      /\ Paced(1) \/ Fresh
  BY BridgeAssumption DEF ReceiveStep, BridgeInv, BridgeTypeInv, PaceInv
<1>2. BridgeTypeInv' /\ Buffered' = Buffered /\ Buffered \in Nat
  BY <1>1, ExchangeStep DEF Statuses
<1>3. lineReady' = lineReady
  BY <1>1 DEF bufferVars
<1>4. ~lineReady => Buffered < SerialBufferSize
  BY <1>1, BridgeAssumption DEF Roomy, Paced, Fresh, LastConfiguration
<1>5. \/ /\ receive_status' = "SEND_ADDRESS" /\ status' = "RECEIVE"
         /\ Buffered = 0
      \/ /\ receive_status' = "SEND_DATA" /\ status' = "RECEIVE"
         /\ Buffered <= 1
      \/ status' = "IDLE" /\ Buffered <= 2
  BY <1>1 DEF ReceiveStep, Paced, Fresh
<1> QED
  BY <1>1, <1>2, <1>3, <1>4, <1>5
     DEF BridgeInv, PaceInv, Paced, LastConfiguration

LEMMA ConfigurationStepKeeps ==
  ASSUME Roomy, BridgeInv, ConfigurationStep
  PROVE  BridgeInv'
<1>1. /\ pc = "exchange" /\ pc' = "end" /\ status = "CONFIGURATION"
      /\ status' \in {"CONFIGURATION", "IDLE"}
      /\ UNCHANGED <<bufferVars, hostVars>>
      /\ configuration_status \in 0 .. 5
      /\ Buffered <= SerialBufferSize /\ SerialBufferSize \in Nat
      /\ Paced(1) \/ Fresh
  BY BridgeAssumption
     DEF ConfigurationStep, BridgeInv, BridgeTypeInv, PaceInv, LastConfiguration
<1>2. \/ /\ configuration_status = 5
         /\ configuration_status' = 0 /\ status' = "IDLE"
      \/ /\ configuration_status < 5
         /\ configuration_status' = configuration_status + 1
         /\ status' = "CONFIGURATION"
  BY <1>1 DEF ConfigurationStep, LastConfiguration
<1>3. configuration_status' \in 0 .. LastConfiguration
  BY <1>1, <1>2 DEF LastConfiguration
<1>4. BridgeTypeInv' /\ Buffered' = Buffered /\ Buffered \in Nat
  BY <1>1, <1>3, ExchangeStep DEF Statuses
<1>5. lineReady' = lineReady
  BY <1>1 DEF bufferVars
<1>6. ~lineReady => Buffered < SerialBufferSize
  BY <1>1, BridgeAssumption DEF Roomy, Paced, Fresh, LastConfiguration
<1>7. Buffered <= configuration_status
  BY <1>1, <1>4 DEF Paced, Fresh
<1> QED
  BY <1>1, <1>2, <1>4, <1>5, <1>6, <1>7
     DEF BridgeInv, PaceInv, Paced, LastConfiguration

LEMMA EndOfTurnKeeps ==
  ASSUME Roomy, BridgeInv, EndOfTurn
  PROVE  BridgeInv'
<1>1. SerialBufferSize \in Nat /\ LastConfiguration + 1 <= SerialBufferSize
      /\ configuration_status \in 0 .. LastConfiguration /\ status \in Statuses
  BY BridgeAssumption DEF Roomy, BridgeInv, BridgeTypeInv
<1>2. CASE ParseFailure
  <2>1. Buffered' = 0 /\ lineReady' = FALSE
    BY <1>2, EmptyBuffer DEF ParseFailure
  <2>2. BridgeTypeInv'
    BY <1>1, <1>2, EmptyTypeInv
       DEF EndOfTurn, ParseFailure, BridgeInv, hostVars, Places, Statuses
  <2> QED
    BY <1>1, <1>2, <2>1, <2>2
       DEF ParseFailure, BridgeInv, PaceInv, Paced, LastConfiguration
<1>3. CASE resetChip("read") /\ ChipResets
  BY <1>3, RestartStep DEF EndOfTurn, resetChip
<1>4. CASE status = "ERROR" /\ resetChip("read") /\ ~ChipResets
  <2>1. Buffered' = 0 /\ lineReady' = FALSE
    BY <1>4, EmptyBuffer DEF resetChip
  <2>2. BridgeTypeInv'
    BY <1>1, <1>4, EmptyTypeInv
       DEF EndOfTurn, resetChip, BridgeInv, hostVars, statusVars, Places
  <2> QED
    BY <1>1, <1>4, <2>1, <2>2
       DEF resetChip, statusVars, BridgeInv, PaceInv, Paced, LastConfiguration
<1>5. CASE /\ status \notin {"PARSE_FAILURE", "ERROR"} /\ pc' = "read"
           /\ UNCHANGED <<statusVars, bufferVars>>
  BY <1>5, QuietStep DEF EndOfTurn
<1> QED
  BY <1>2, <1>3, <1>4, <1>5 DEF EndOfTurn

(* Only a ClientSocket is ever not connected.                                *)
LEMMA ConnectedInit == ~SocketMayFail /\ Init => connected
BY DEF Init, Connections

LEMMA ConnectedNext ==
  ASSUME ~SocketMayFail, connected, [Next]_vars
  PROVE  connected'
<1>1. CASE Restart \/ sendDataToAddress
  BY <1>1 DEF Restart, Connections, sendDataToAddress
<1>2. CASE ~Restart /\ ~sendDataToAddress
  <2>1. ~ConnectionBreaks
    BY DEF ConnectionBreaks
  <2>2. UNCHANGED connected
    BY <1>2, <2>1
       DEF Next, Turn, ReadChar, NoChar, SocketLoop, CheckReset, ParseCommand, SendStep,
           AwaitsAddress, TakesAddress, TakesData, AwaitsLine, ReceiveStep,
           ConfigurationStep, NoExchange, EndOfTurn, ParseFailure, resetChip, vars
  <2> QED
    BY <2>2
<1> QED
  BY <1>1, <1>2

LEMMA BridgeNext ==
  Roomy /\ ~SocketMayFail /\ connected /\ BridgeInv /\ [Next]_vars => BridgeInv'
<1> SUFFICES ASSUME Roomy, ~SocketMayFail, connected, BridgeInv, [Next]_vars
             PROVE  BridgeInv'
  OBVIOUS
<1>1. CASE UNCHANGED vars
  BY <1>1, QuietStep DEF vars
<1>2. CASE NoChar \/ SocketLoop \/ NoExchange
  <2>1. UNCHANGED <<statusVars, bufferVars, hostVars>>
    BY <1>2 DEF NoChar, SocketLoop, NoExchange
  <2> QED
    BY <1>2, <2>1, QuietStep DEF NoChar, SocketLoop, NoExchange
<1> QED
  BY <1>1, <1>2, ReadCharStep, CheckResetStep, ParseCommandStep, SendStepKeeps,
     ReceiveStepKeeps, ConfigurationStepKeeps, EndOfTurnKeeps
     DEF Next, Turn, ConnectionBreaks

(* putChar() never writes past the serial buffer: over a socket whose loop() *)
(* returns true it is enough that the buffer has room for the characters of  *)
(* six turns, one each.                                                      *)
THEOREM SerialBufferNeverOverrun ==
  Roomy /\ ~SocketMayFail => (Spec => []SerialBufferFits)
<1> SUFFICES ASSUME Roomy, ~SocketMayFail PROVE Spec => []SerialBufferFits
  OBVIOUS
<1>1. Init => connected /\ BridgeInv
  BY ConnectedInit, BridgeInit
<1>2. connected /\ BridgeInv /\ [Next]_vars => connected' /\ BridgeInv'
  BY ConnectedNext, BridgeNext
<1>3. BridgeInv => SerialBufferFits
  BY DEF BridgeInv, PaceInv, Buffered, SerialBufferFits
<1> QED
  BY <1>1, <1>2, <1>3, PTL DEF Spec
=============================================================================
