------------------------------ MODULE UartBridge ------------------------------
(***************************************************************************)
(* TransmissionProtocolUartBridge.h: a host drives the radio or WiFi socket *)
(* of the board with lines of text on a serial port.                       *)
(*                                                                         *)
(* One turn of the sketch's loop() reads at most one character, putChar(),  *)
(* and then runs the bridge's loop(): the socket first, and after it one    *)
(* step of the exchange the host asked for.  pc names the next part of the *)
(* turn.  A character of the model is a keyword, a number, anything else    *)
(* ("JUNK") or the end of the line: the host of the model types faster than *)
(* a real one.                                                              *)
(***************************************************************************)
EXTENDS Integers, Sequences, SequencesExt

CONSTANTS
  Numbers,          \* what parseLong() accepts as a byte
  AddressLength,    \* sizeof(device_address)
  SerialBufferSize, \* SERIAL_BUFFER_SIZE
  SendBufferSize,   \* SEND_BUFFER_SIZE
  Lines,            \* lines the host types
  Packets,          \* packets that may arrive: [address, bytes]
  ChipResets,       \* resetChip() restarts the board; elsewhere it prints
  SendMayFail,      \* TRUE iff socketInterface.send() may return false
  SocketMayFail,    \* TRUE iff socketInterface.loop() may: a ClientSocket does
                    \* while it is not connected
  MaxBuffered       \* bound: the host pauses when so many are buffered

Keywords == {"SEND", "RECEIVE", "CONFIGURATION", "RESET", "ADDRESS", "DATA"}
EndOfLine == "EOL"
Chars == Keywords \cup Numbers \cup {"JUNK", EndOfLine}
Address == Seq(Numbers)

Places == {"read", "socket", "reset", "command", "exchange", "end", "halted"}
Statuses == {"IDLE", "SEND", "RECEIVE", "CONFIGURATION", "PARSE_FAILURE", "ERROR"}

ASSUME BridgeAssumption ==
  /\ AddressLength \in Nat \ {0}
  /\ SerialBufferSize \in Nat
  /\ SendBufferSize \in Nat
  /\ MaxBuffered \in Nat
  /\ Numbers \cap (Keywords \cup {"JUNK", EndOfLine}) = {}
  /\ ChipResets \in BOOLEAN
  /\ SendMayFail \in BOOLEAN
  /\ SocketMayFail \in BOOLEAN

(* A line ends where it ends, and is not empty.  parseData() does not check  *)
(* the length of data: the host types no more numbers than fit in it.       *)
ASSUME LinesAssumption ==
  \A l \in Lines : /\ l \in Seq(Chars)
                   /\ Len(l) \in 2 .. SendBufferSize + 2
                   /\ \A i \in DOMAIN l : l[i] = EndOfLine <=> i = Len(l)

ASSUME PacketsAssumption == Packets \subseteq [address : Address, bytes : Seq(Numbers)]

VARIABLES
  pc,                   \* part of the sketch's turn
  connected,            \* client->connected() of a ClientSocket; TRUE of others
  status,
  send_status,
  receive_status,
  configuration_status,
  serialBuffer,         \* serialBufferCounter is its length
  lineReady,
  destination_address,
  data,                 \* data_length is its length
  receive_address,
  receive_buffer,       \* receive_buffer_length is its length
  line,                 \* the host: what is left of the line it types
  typed,                \* the host: what it has typed of it
  lines,                \* the host: the last two lines it completed
  sent,                 \* the packet of socketInterface.send() in this turn
  reported              \* what this RECEIVE has printed: address, then bytes

statusVars == <<status, send_status, receive_status, configuration_status>>
bufferVars == <<serialBuffer, lineReady>>
sendVars == <<destination_address, data>>
receiveVars == <<receive_address, receive_buffer>>
hostVars == <<line, typed, lines>>

vars == <<pc, connected, statusVars, bufferVars, sendVars, receiveVars, hostVars, sent,
          reported>>

Nothing == <<>>

-----------------------------------------------------------------------------
(* Buffers *)

resetSerialBuffer == serialBuffer' = <<>> /\ lineReady' = FALSE
resetSendBuffer == destination_address' = <<>> /\ data' = <<>>
reset_received_buffer == receive_address' = <<>> /\ receive_buffer' = <<>>

(* The tokens behind the keyword, from left to right: parseLong() stops at an *)
(* end of line and accepts what it has got, so a character glued to one is  *)
(* lost.                                                                    *)
Operands(buffer) ==
  LET operands[i \in 0 .. Len(buffer)] ==
        IF i < 2 THEN <<>>
        ELSE IF EndOfLine \in {buffer[i - 1], buffer[i]} THEN operands[i - 1]
        ELSE Append(operands[i - 1], buffer[i])
  IN  operands[Len(buffer)]

(* What parseAddress() and parseData() have stored when they stop            *)
Leading(operands) ==
  LET bad == {i \in DOMAIN operands : operands[i] \notin Numbers}
  IN  IF bad = {} THEN operands ELSE SubSeq(operands, 1, Min(bad) - 1)

parseAddress(buffer, ok) ==
  IF Head(buffer) = "ADDRESS"
  THEN LET numbers == Leading(Operands(buffer)) IN
       /\ ok = (numbers = Operands(buffer) /\ Len(numbers) = AddressLength)
       /\ destination_address' =
            SubSeq(numbers, 1, IF Len(numbers) < AddressLength
                               THEN Len(numbers) ELSE AddressLength)
  ELSE ok = FALSE /\ UNCHANGED destination_address

(* Mutant: a token that is no number ends the data.                          *)
parseDataLenient(buffer, ok) ==
  IF Head(buffer) = "DATA"
  THEN ok = TRUE /\ data' = Leading(Operands(buffer))
  ELSE ok = FALSE /\ UNCHANGED data

parseData(buffer, ok) ==
  IF Head(buffer) = "DATA"
  THEN LET numbers == Leading(Operands(buffer)) IN
       /\ ok = (numbers = Operands(buffer))
       /\ data' = numbers
  ELSE ok = FALSE /\ UNCHANGED data

-----------------------------------------------------------------------------
(* begin() and restarts *)

(* Neither begin() nor resetChip() touches the connection; the sketch may.   *)
Connections == IF SocketMayFail THEN BOOLEAN ELSE {TRUE}

(* setup() calls begin(), and stops the board when the socket cannot begin.  *)
Begun(nextPc, nextStatus) ==
  \/ nextPc = "read" /\ nextStatus = "IDLE"
  \/ nextPc = "halted" /\ nextStatus = "ERROR"

Init ==
  /\ Begun(pc, status)
  /\ connected \in Connections
  /\ send_status = "SEND_NONE"
  /\ receive_status = "RECEIVE_NONE"
  /\ configuration_status = 0
  /\ serialBuffer = <<>> /\ lineReady = FALSE
  /\ destination_address = <<>> /\ data = <<>>
  /\ receive_address = <<>> /\ receive_buffer = <<>>
  /\ line = Nothing /\ typed = <<>> /\ lines = <<>>
  /\ sent = Nothing
  /\ reported = Nothing

(* resetChip() on a board that can restart                                  *)
Restart ==
  /\ Begun(pc', status')
  /\ connected' \in Connections
  /\ send_status' = "SEND_NONE"
  /\ receive_status' = "RECEIVE_NONE"
  /\ configuration_status' = 0
  /\ resetSerialBuffer
  /\ resetSendBuffer
  /\ reset_received_buffer
  /\ reported' = Nothing

resetChip(nextPc) ==
  IF ChipResets
  THEN Restart
  ELSE /\ pc' = nextPc
       /\ resetSerialBuffer
       /\ UNCHANGED <<connected, statusVars, sendVars, receiveVars, reported>>

-----------------------------------------------------------------------------
(* The turn: putChar() *)

(* Mutant: the buffer is found full one character too late.                  *)
putCharLate(c) ==
  /\ serialBuffer' = Append(serialBuffer, c)
  /\ lineReady' = (lineReady \/ c = EndOfLine)
  /\ status' = IF c # EndOfLine /\ Len(serialBuffer') = SerialBufferSize + 1
               THEN "PARSE_FAILURE" ELSE status

putChar(c) ==
  /\ serialBuffer' = Append(serialBuffer, c)
  /\ lineReady' = (lineReady \/ c = EndOfLine)
  /\ status' = IF c # EndOfLine /\ Len(serialBuffer') = SerialBufferSize
               THEN "PARSE_FAILURE" ELSE status

LastTwo(s) == SubSeq(s, IF Len(s) > 2 THEN Len(s) - 1 ELSE 1, Len(s))

(* The host types the next character of l.                                   *)
Types(l) ==
  /\ putChar(Head(l))
  /\ line' = Tail(l)
  /\ IF Tail(l) = <<>>
     THEN typed' = <<>> /\ lines' = LastTwo(Append(lines, Append(typed, Head(l))))
     ELSE typed' = Append(typed, Head(l)) /\ UNCHANGED lines

ReadChar ==
  /\ pc = "read"
  /\ Len(serialBuffer) < MaxBuffered
  /\ \E l \in IF line = Nothing THEN Lines ELSE {line} : Types(l)
  /\ pc' = "socket"
  /\ sent' = Nothing
  /\ UNCHANGED <<connected, send_status, receive_status, configuration_status,
                 sendVars, receiveVars, reported>>

(* Serial.available() is 0.                                                  *)
NoChar ==
  /\ pc = "read"
  /\ pc' = "socket"
  /\ sent' = Nothing
  /\ UNCHANGED <<connected, statusVars, bufferVars, sendVars, receiveVars, hostVars,
                 reported>>

-----------------------------------------------------------------------------
(* The turn: loop() *)

(* socketInterface.loop() hands at most one packet to receiveData(); when it *)
(* returns false loop() returns.                                            *)
SocketLoop ==
  /\ pc = "socket"
  /\ \/ ~connected /\ pc' = "read" /\ UNCHANGED receiveVars
     \/ connected /\ pc' = "reset" /\ UNCHANGED receiveVars
     \/ /\ connected /\ pc' = "reset"
        /\ \E p \in Packets : receive_address' = p.address /\ receive_buffer' = p.bytes
  /\ UNCHANGED <<connected, statusVars, bufferVars, sendVars, hostVars, sent, reported>>

(* RESET is looked for in every status.                                      *)
CheckReset ==
  /\ pc = "reset"
  /\ IF lineReady /\ Head(serialBuffer) = "RESET"
     THEN resetChip("command")
     ELSE /\ pc' = "command"
          /\ UNCHANGED <<connected, statusVars, bufferVars, sendVars, receiveVars,
                         reported>>
  /\ UNCHANGED <<hostVars, sent>>

(* isSend(), isReceived(), isConfiguration()                                 *)
ParseCommand ==
  /\ pc = "command"
  /\ IF status = "IDLE" /\ lineReady
     THEN IF Head(serialBuffer) \in {"SEND", "RECEIVE", "CONFIGURATION"}
          THEN /\ status' = Head(serialBuffer)
               /\ resetSerialBuffer
               /\ send_status' = IF status' = "SEND" THEN "SEND_NONE" ELSE send_status
               /\ receive_status' = IF status' = "RECEIVE" THEN "RECEIVE_NONE"
                                                           ELSE receive_status
               /\ configuration_status' = IF status' = "CONFIGURATION" THEN 0
                                          ELSE configuration_status
          ELSE /\ status' = "PARSE_FAILURE"
               /\ UNCHANGED <<send_status, receive_status, configuration_status,
                              bufferVars>>
     ELSE UNCHANGED <<statusVars, bufferVars>>
  /\ pc' = "exchange"
  /\ UNCHANGED <<connected, sendVars, receiveVars, hostVars, sent, reported>>

AwaitsAddress ==
  /\ send_status = "SEND_NONE"
  /\ resetSendBuffer
  /\ send_status' = "AWAIT_ADDRESS"
  /\ UNCHANGED <<connected, status, bufferVars, sent>>

TakesAddress ==
  /\ send_status = "AWAIT_ADDRESS" /\ lineReady
  /\ \E ok \in BOOLEAN :
       /\ parseAddress(serialBuffer, ok)
       /\ IF ok THEN send_status' = "AWAIT_DATA" /\ resetSerialBuffer /\ UNCHANGED status
                ELSE status' = "PARSE_FAILURE" /\ UNCHANGED <<send_status, bufferVars>>
  /\ UNCHANGED <<connected, data, sent>>

TakesData ==
  /\ send_status = "AWAIT_DATA" /\ lineReady
  /\ \E ok \in BOOLEAN :
       /\ parseData(serialBuffer, ok)
       /\ IF ok THEN send_status' = "SENDING" /\ resetSerialBuffer /\ UNCHANGED status
                ELSE status' = "PARSE_FAILURE" /\ UNCHANGED <<send_status, bufferVars>>
  /\ UNCHANGED <<connected, destination_address, sent>>

(* socketInterface.send() connects a ClientSocket that is not connected.     *)
sendDataToAddress ==
  /\ send_status = "SENDING"
  /\ sent' = <<destination_address, data>>
  /\ \/ /\ status' = "IDLE"
        /\ connected' = TRUE
        /\ send_status' = "SEND_NONE"
        /\ resetSendBuffer
     \/ /\ SendMayFail
        /\ status' = "ERROR"
        /\ connected' \in {connected, TRUE}
        /\ UNCHANGED <<send_status, sendVars>>
  /\ UNCHANGED bufferVars

AwaitsLine ==
  /\ send_status \in {"AWAIT_ADDRESS", "AWAIT_DATA"} /\ ~lineReady
  /\ UNCHANGED <<connected, status, send_status, bufferVars, sendVars, sent>>

SendStep ==
  /\ pc = "exchange" /\ status = "SEND"
  /\ AwaitsAddress \/ TakesAddress \/ TakesData \/ sendDataToAddress \/ AwaitsLine
  /\ pc' = "end"
  /\ UNCHANGED <<receive_status, configuration_status, receiveVars, hostVars, reported>>

ReceiveStep ==
  /\ pc = "exchange" /\ status = "RECEIVE"
  /\ \/ /\ receive_status = "RECEIVE_NONE"
        /\ receive_status' = "SEND_ADDRESS"
        /\ reported' = Nothing
        /\ UNCHANGED <<status, receiveVars>>
     \/ /\ receive_status = "SEND_ADDRESS"
        /\ receive_status' = "SEND_DATA"
        /\ reported' = <<receive_address>>
        /\ UNCHANGED <<status, receiveVars>>
     \/ /\ receive_status = "SEND_DATA"
        /\ receive_status' = "RECEIVE_NONE"
        /\ status' = "IDLE"
        /\ reported' = Append(reported, receive_buffer)
        /\ reset_received_buffer
  /\ pc' = "end"
  /\ UNCHANGED <<connected, send_status, configuration_status, bufferVars, sendVars,
                 hostVars, sent>>

(* Mutant: one value too many                                               *)
LateConfiguration == 6

LastConfiguration == 5

(* Mutant: the last configuration value does not end the exchange.           *)
ConfigurationRepeats ==
  /\ pc = "exchange" /\ status = "CONFIGURATION"
  /\ configuration_status' = (configuration_status + 1) % (LastConfiguration + 1)
  /\ pc' = "end"
  /\ UNCHANGED <<connected, status, send_status, receive_status, bufferVars, sendVars,
                 receiveVars, hostVars, sent, reported>>

(* Each of the five print functions succeeds: printStatus() only fails in    *)
(* status RECEIVE.                                                          *)
ConfigurationStep ==
  /\ pc = "exchange" /\ status = "CONFIGURATION"
  /\ IF configuration_status = LastConfiguration
     THEN configuration_status' = 0 /\ status' = "IDLE"
     ELSE configuration_status' = configuration_status + 1 /\ UNCHANGED status
  /\ pc' = "end"
  /\ UNCHANGED <<connected, send_status, receive_status, bufferVars, sendVars,
                 receiveVars, hostVars, sent, reported>>

NoExchange ==
  /\ pc = "exchange" /\ status \notin {"SEND", "RECEIVE", "CONFIGURATION"}
  /\ pc' = "end"
  /\ UNCHANGED <<connected, statusVars, bufferVars, sendVars, receiveVars, hostVars,
                 sent, reported>>

(* Mutant: the failed line stays in the buffer.                              *)
EndsParseFailureOnly ==
  /\ status = "PARSE_FAILURE"
  /\ status' = "IDLE"
  /\ send_status' = "SEND_NONE"
  /\ receive_status' = "RECEIVE_NONE"
  /\ pc' = "read"
  /\ UNCHANGED <<connected, configuration_status, bufferVars, sendVars, receiveVars,
                 reported>>

ParseFailure ==
  /\ status = "PARSE_FAILURE"
  /\ resetSerialBuffer
  /\ status' = "IDLE"
  /\ send_status' = "SEND_NONE"
  /\ receive_status' = "RECEIVE_NONE"
  /\ pc' = "read"
  /\ UNCHANGED <<connected, configuration_status, sendVars, receiveVars, reported>>

(* PARSE_FAILURE and ERROR end the turn; ERROR stays where the board does    *)
(* not restart.                                                             *)
EndOfTurn ==
  /\ pc = "end"
  /\ \/ ParseFailure
     \/ status = "ERROR" /\ resetChip("read")
     \/ /\ status \notin {"PARSE_FAILURE", "ERROR"}
        /\ pc' = "read"
        /\ UNCHANGED <<connected, statusVars, bufferVars, sendVars, receiveVars, reported>>
  /\ UNCHANGED <<hostVars, sent>>

(* The peer of a ClientSocket closes the connection, or it breaks.           *)
ConnectionBreaks ==
  /\ SocketMayFail /\ connected
  /\ connected' = FALSE
  /\ UNCHANGED <<pc, statusVars, bufferVars, sendVars, receiveVars, hostVars, sent,
                 reported>>

-----------------------------------------------------------------------------
Turn ==
  \/ NoChar
  \/ SocketLoop
  \/ CheckReset
  \/ ParseCommand
  \/ SendStep
  \/ ReceiveStep
  \/ ConfigurationStep
  \/ NoExchange
  \/ EndOfTurn

Next == ReadChar \/ Turn \/ ConnectionBreaks

Spec == Init /\ [][Next]_vars

(* The sketch turns for ever.  Nothing obliges the host to type, packets to  *)
(* arrive or a lost connection to come back.                                *)
Fairness == WF_vars(ReadChar \/ Turn)

FairSpec == Spec /\ Fairness

-----------------------------------------------------------------------------
(* Properties *)

TypeOK ==
  /\ pc \in Places
  /\ connected \in Connections
  /\ status \in Statuses
  /\ send_status \in {"SEND_NONE", "AWAIT_ADDRESS", "AWAIT_DATA", "SENDING"}
  /\ receive_status \in {"RECEIVE_NONE", "SEND_ADDRESS", "SEND_DATA"}
  /\ configuration_status \in 0 .. 5
  /\ serialBuffer \in Seq(Chars)
  /\ lineReady \in BOOLEAN
  /\ destination_address \in Address
  /\ data \in Seq(Numbers)
  /\ receive_address \in Address
  /\ receive_buffer \in Seq(Numbers)
  /\ line \in Seq(Chars) /\ typed \in Seq(Chars) /\ lines \in Seq(Seq(Chars))

(* putChar() never writes past serialBuffer, although it tests the counter    *)
(* with == and a finished line may wait for the end of a CONFIGURATION while *)
(* more characters arrive behind it.                                         *)
SerialBufferFits == Len(serialBuffer) <= SerialBufferSize

(* A packet leaves only for the last two lines of the host, "ADDRESS a" and   *)
(* "DATA d" in this order, with that address and that data: no line that was *)
(* refused, cut by an overflow or lost to a restart, and none of an earlier  *)
(* exchange, has a part in it.  The host may type ahead of the answers.      *)
SentAsTyped ==
  sent # Nothing =>
    lines = << <<"ADDRESS">> \o sent[1] \o <<EndOfLine>>,
               <<"DATA">> \o sent[2] \o <<EndOfLine>> >>

(* The ADDRESS and the DATA one RECEIVE prints are those of one packet, or   *)
(* both empty.                                                               *)
ReportedIsOnePacket ==
  Len(reported) = 2 =>
    \/ reported = << <<>>, <<>> >>
    \/ \E p \in Packets : reported = <<p.address, p.bytes>>

(* Every finished line is taken, whichever exchange or failure it meets,     *)
(* unless a ClientSocket is not connected: its loop() then fails, the bridge *)
(* returns before it looks at the line, and so does not come to the send()  *)
(* that would connect again.                                                *)
LineTaken == lineReady ~> (~lineReady \/ ~connected)

(* RECEIVE and CONFIGURATION always end, and the next command can be given,  *)
(* whatever the host types meanwhile, with the same exception.               *)
ExchangeEnds ==
  status \in {"RECEIVE", "CONFIGURATION"} ~> (status = "IDLE" \/ ~connected)
=============================================================================
