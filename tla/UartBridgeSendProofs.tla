------------------------- MODULE UartBridgeSendProofs -------------------------
(***************************************************************************)
(* Proofs about the parser of the UART bridge and what it sends.           *)
(***************************************************************************)
EXTENDS UartBridgeProofs, WellFoundedInduction

-----------------------------------------------------------------------------
(* Induction over the natural numbers, for a set instead of a predicate     *)

LEMMA SetInduction ==
  ASSUME NEW S, 0 \in S, \A n \in Nat : n \in S => n + 1 \in S
  PROVE  \A n \in Nat : n \in S
<1>1. SUFFICES ASSUME Nat \ S # {} PROVE FALSE
  OBVIOUS
<1>2. PICK m \in Nat \ S : \A k \in Nat \ S : ~(<<k, m>> \in OpToRel(<, Nat))
  BY <1>1, NatLessThanWellFounded, WFMin, Zenon
<1>3. m \in Nat /\ m \notin S /\ m # 0
  BY <1>2
<1>4. m - 1 \in Nat /\ (m - 1) + 1 = m
  BY <1>3
<1>5. m - 1 \in Nat \ S
  BY <1>3, <1>4
<1>6. <<m - 1, m>> \in OpToRel(<, Nat)
  BY <1>3, <1>4, SMT DEF OpToRel
<1> QED
  BY <1>2, <1>5, <1>6, Zenon

LEMMA LeastOfNat ==
  ASSUME NEW S, S \subseteq Nat, S # {}
  PROVE  Min(S) \in S /\ \A n \in S : Min(S) <= n
<1>1. PICK m \in S : \A k \in S : ~(<<k, m>> \in OpToRel(<, Nat))
  BY NatLessThanWellFounded, WFMin, Zenon
<1>2. ASSUME NEW k \in S, k < m
      PROVE  FALSE
  <2>1. <<k, m>> \in OpToRel(<, Nat)
    BY <1>2, SMT DEF OpToRel
  <2> QED
    BY <1>1, <2>1, Zenon
<1>3. \A k \in S : m <= k
  BY <1>2
<1> QED
  BY <1>3 DEF Min

-----------------------------------------------------------------------------
(* The parser *)

(* One step of the scan of Operands                                         *)
Scanned(b, before, i) ==
  IF i < 2 THEN <<>>
  ELSE IF EndOfLine \in {b[i - 1], b[i]} THEN before
  ELSE Append(before, b[i])

Scan(f, b, n) == f = [i \in 0 .. n |-> Scanned(b, f[i - 1], i)]

LEMMA ScanExists ==
  ASSUME NEW b, NEW n \in Nat
  PROVE  \E f : Scan(f, b, n)
<1> DEFINE S == {k \in Nat : \E f : Scan(f, b, k)}
<1>1. 0 \in S
  <2>1. Scan([i \in 0 .. 0 |-> <<>>], b, 0)
    BY DEF Scan, Scanned
  <2> QED
    BY <2>1
<1>2. ASSUME NEW k \in Nat, k \in S
      PROVE  k + 1 \in S
  <2>1. PICK f : Scan(f, b, k)
    BY <1>2
  <2> DEFINE g == [i \in 0 .. k + 1 |-> IF i <= k THEN f[i] ELSE Scanned(b, f[k], i)]
  <2>2. \A i \in 0 .. k : f[i] = Scanned(b, f[i - 1], i)
    BY <2>1 DEF Scan
  <2>3. \A i \in 1 .. k + 1 : g[i - 1] = f[i - 1]
    OBVIOUS
  <2>4. \A i \in 0 .. k + 1 : g[i] = Scanned(b, g[i - 1], i)
    <3>1. TAKE i \in 0 .. k + 1
    <3>2. CASE i = 0
      BY <2>2, <3>2 DEF Scanned
    <3>3. CASE i \in 1 .. k
      BY <2>2, <2>3, <3>3
    <3>4. CASE i = k + 1
      BY <2>3, <3>4
    <3> QED
      BY <3>2, <3>3, <3>4
  <2>5. g = [i \in 0 .. k + 1 |-> g[i]]
    OBVIOUS
  <2>6. Scan(g, b, k + 1)
    BY <2>4, <2>5 DEF Scan
  <2> QED
    BY <2>6
<1>3. \A k \in Nat : k \in S
  <2> HIDE DEF S
  <2> QED
    BY <1>1, <1>2, SetInduction
<1> QED
  BY <1>3

LEMMA OperandsScan ==
  ASSUME NEW b, Len(b) \in Nat
  PROVE  \E f : /\ \A i \in 0 .. Len(b) : f[i] = Scanned(b, f[i - 1], i)
                /\ Operands(b) = f[Len(b)]
<1> DEFINE f == CHOOSE f : Scan(f, b, Len(b))
<1>1. Scan(f, b, Len(b))
  BY ScanExists
<1>2. Operands(b) = f[Len(b)]
  BY DEF Operands, Scan, Scanned
<1>3. \A i \in 0 .. Len(b) : f[i] = Scanned(b, f[i - 1], i)
  BY <1>1 DEF Scan
<1> HIDE DEF f
<1> QED
  BY <1>2, <1>3

(* Operands() leaves out characters and adds none.                          *)
LEMMA OperandsType ==
  ASSUME NEW b \in Seq(Chars)
  PROVE  Operands(b) \in Seq(Chars)
<1>1. Len(b) \in Nat
  BY LenProperties
<1>2. PICK f : /\ \A i \in 0 .. Len(b) : f[i] = Scanned(b, f[i - 1], i)
               /\ Operands(b) = f[Len(b)]
  BY <1>1, OperandsScan
<1> DEFINE S == {k \in Nat : k <= Len(b) => f[k] \in Seq(Chars)}
<1>3. 0 \in S
  <2>1. f[0] = Scanned(b, f[0 - 1], 0)
    BY <1>1, <1>2
  <2>2. f[0] = <<>>
    BY <2>1 DEF Scanned
  <2> QED
    BY <2>2, EmptySeq
<1>4. ASSUME NEW k \in Nat, k \in S
      PROVE  k + 1 \in S
  <2>1. SUFFICES ASSUME k + 1 <= Len(b) PROVE f[k + 1] \in Seq(Chars)
    OBVIOUS
  <2>2. f[k + 1] = Scanned(b, f[k], k + 1) /\ f[k] \in Seq(Chars)
    BY <1>1, <1>2, <1>4, <2>1
  <2>3. b[k + 1] \in Chars
    BY <1>1, <2>1, ElementOfSeq
  <2>4. Append(f[k], b[k + 1]) \in Seq(Chars)
    BY <2>2, <2>3, AppendProperties
  <2> QED
    BY <2>2, <2>4, EmptySeq DEF Scanned
<1>5. \A k \in Nat : k \in S
  <2> HIDE DEF S
  <2> QED
    BY <1>3, <1>4, SetInduction
<1> QED
  BY <1>1, <1>2, <1>5

(* The end of line ends the line, and nothing else does.                     *)
OneLine(b) ==
  /\ b \in Seq(Chars) /\ Len(b) >= 2
  /\ \A i \in DOMAIN b : b[i] = EndOfLine <=> i = Len(b)

(* Of a single line Operands() are all there is between keyword and end.     *)
LEMMA OperandsOfLine ==
  ASSUME NEW b, OneLine(b)
  PROVE  Operands(b) = SubSeq(b, 2, Len(b) - 1)
<1> DEFINE n == Len(b)
<1>1. n \in Nat /\ n >= 2 /\ DOMAIN b = 1 .. n /\ \A i \in 1 .. n : b[i] \in Chars
  BY LenProperties, ElementOfSeq DEF OneLine
<1>2. \A i \in 1 .. n : b[i] = EndOfLine <=> i = n
  BY <1>1 DEF OneLine
<1>3. PICK f : /\ \A i \in 0 .. n : f[i] = Scanned(b, f[i - 1], i)
               /\ Operands(b) = f[n]
  BY <1>1, OperandsScan
<1> HIDE DEF n
<1> DEFINE S == {k \in Nat : k + 1 < n => f[k + 1] = SubSeq(b, 2, k + 1)}
<1>4. 0 \in S
  <2>1. f[1] = <<>>
    BY <1>1, <1>3 DEF Scanned
  <2>2. SubSeq(b, 2, 1) = <<>>
    BY SubSeqEmpty
  <2>3. 0 + 1 = 1
    OBVIOUS
  <2> QED
    BY <2>1, <2>2, <2>3
<1>5. ASSUME NEW k \in Nat, k \in S
      PROVE  k + 1 \in S
  <2>1. SUFFICES ASSUME k + 2 < n PROVE f[k + 2] = SubSeq(b, 2, k + 2)
    OBVIOUS
  <2>2. f[k + 2] = Scanned(b, f[k + 1], k + 2) /\ f[k + 1] = SubSeq(b, 2, k + 1)
    BY <1>1, <1>3, <1>5, <2>1
  <2>3. b[k + 1] # EndOfLine /\ b[k + 2] # EndOfLine
    BY <1>1, <1>2, <2>1
  <2>4. f[k + 2] = Append(SubSeq(b, 2, k + 1), b[k + 2])
    BY <2>2, <2>3 DEF Scanned
  <2>5. /\ b \in Seq(Chars) /\ 2 \in 1 .. Len(b) /\ k + 2 \in 2 .. Len(b)
    BY <1>1, <2>1 DEF OneLine, n
  <2>6. SubSeq(b, 2, k + 2) = SubSeq(b, 2, (k + 2) - 1) \o <<b[k + 2]>>
    BY <2>5, SubSeqRecursiveSecond
  <2>7. (k + 2) - 1 = k + 1 /\ b[k + 2] \in Chars
    BY <1>1, <2>1
  <2>8. SubSeq(b, 2, k + 1) \in Seq(Chars)
    BY <1>1, <2>1, SubSeqProperties
  <2>9. Append(SubSeq(b, 2, k + 1), b[k + 2]) = SubSeq(b, 2, k + 1) \o <<b[k + 2]>>
    BY <2>7, <2>8, AppendIsConcat
  <2> QED
    BY <2>4, <2>6, <2>7, <2>9
<1>6. \A k \in Nat : k \in S
  <2> HIDE DEF S
  <2> QED
    BY <1>4, <1>5, SetInduction
<1>7. f[n - 1] = SubSeq(b, 2, n - 1)
  <2>1. n - 2 \in Nat /\ (n - 2) + 1 = n - 1 /\ n - 1 < n
    BY <1>1
  <2>2. n - 2 \in S
    BY <1>6, <2>1
  <2> QED
    BY <2>1, <2>2
<1>8. f[n] = f[n - 1]
  BY <1>1, <1>2, <1>3 DEF Scanned
<1> QED
  BY <1>3, <1>7, <1>8 DEF n

LEMMA LeadingType ==
  ASSUME NEW s \in Seq(Chars)
  PROVE  Leading(s) \in Seq(Numbers)
<1> DEFINE bad == {i \in DOMAIN s : s[i] \notin Numbers}
<1>1. DOMAIN s = 1 .. Len(s) /\ Len(s) \in Nat /\ bad \subseteq Nat
  BY LenProperties
<1>2. CASE bad = {}
  <2>1. s = [i \in 1 .. Len(s) |-> s[i]] /\ \A i \in 1 .. Len(s) : s[i] \in Numbers
    BY <1>1, <1>2, LenProperties
  <2>2. s \in Seq(Numbers)
    BY <1>1, <2>1
  <2> QED
    BY <1>2, <2>2 DEF Leading
<1>3. CASE bad # {}
  <2>1. Min(bad) \in bad /\ \A i \in bad : Min(bad) <= i
    BY <1>1, <1>3, LeastOfNat
  <2>2. ASSUME NEW i \in 1 .. Min(bad) - 1
        PROVE  s[i] \in Numbers
    <3> DEFINE m == Min(bad)
    <3>1. m \in 1 .. Len(s) /\ i \in 1 .. m - 1 /\ (i \in bad => m <= i)
      BY <1>1, <2>1
    <3> HIDE DEF m
    <3>2. i \in 1 .. Len(s) /\ ~(m <= i)
      BY <1>1, <3>1
    <3> QED
      BY <1>1, <3>1, <3>2
  <2>3. SubSeq(s, 1, Min(bad) - 1) \in Seq(Numbers)
    BY <1>1, <2>1, <2>2, SubSeqProperties
  <2> QED
    BY <1>3, <2>3 DEF Leading
<1> QED
  BY <1>2, <1>3

LEMMA ParseAddressType ==
  ASSUME TypeOK, NEW ok, parseAddress(serialBuffer, ok)
  PROVE  destination_address' \in Address
<1> DEFINE numbers == Leading(Operands(serialBuffer))
           n == IF Len(numbers) < AddressLength THEN Len(numbers) ELSE AddressLength
<1>1. numbers \in Seq(Numbers)
  BY OperandsType, LeadingType DEF TypeOK
<1> HIDE DEF numbers
<1>2. n \in 0 .. Len(numbers) /\ Len(numbers) \in Nat
  BY <1>1, LenProperties, BridgeAssumption
<1> HIDE DEF n
<1>3. \A i \in 1 .. n : numbers[i] \in Numbers
  BY <1>1, <1>2, ElementOfSeq
<1>4. SubSeq(numbers, 1, n) \in Seq(Numbers)
  BY <1>2, <1>3, SubSeqProperties
<1> QED
  BY <1>4 DEF parseAddress, numbers, n, Address, TypeOK

LEMMA ParseDataType ==
  ASSUME TypeOK, NEW ok, parseData(serialBuffer, ok)
  PROVE  data' \in Seq(Numbers)
<1>1. Leading(Operands(serialBuffer)) \in Seq(Numbers)
  BY OperandsType, LeadingType DEF TypeOK
<1> QED
  BY <1>1 DEF parseData, TypeOK

-----------------------------------------------------------------------------
(* The host *)

(* The last two of s and what follows it                                    *)
LEMMA LastTwoOfAppend ==
  ASSUME NEW T, NEW s \in Seq(T), NEW e \in T
  PROVE  /\ LastTwo(Append(s, e)) \in Seq(T)
         /\ LastTwo(Append(s, e)) =
              IF s = <<>> THEN <<e>> ELSE <<s[Len(s)], e>>
<1> DEFINE t == Append(s, e)
           n == Len(s)
<1>1. n \in Nat /\ (s = <<>> <=> n = 0)
  BY LenProperties, EmptySeq
<1>2. t \in Seq(T) /\ Len(t) = n + 1 /\ t[n + 1] = e /\ (n > 0 => t[n] = s[n])
  BY <1>1, AppendProperties
<1> HIDE DEF t, n
<1>3. CASE n = 0
  <2>1. LastTwo(t) = SubSeq(t, 1, Len(t))
    BY <1>2, <1>3 DEF LastTwo
  <2>2. LastTwo(t) = t
    BY <1>2, <2>1, SubSeqFull
  <2>3. t = <<e>>
    BY <1>1, <1>3 DEF t
  <2> QED
    BY <1>1, <1>2, <1>3, <2>2, <2>3 DEF t, n
<1>4. CASE n > 0
  <2>1. LastTwo(t) = SubSeq(t, n, n + 1)
    BY <1>1, <1>2, <1>4 DEF LastTwo
  <2>2. \A i \in n .. n + 1 : t[i] \in T
    BY <1>1, <1>2, <1>4, ElementOfSeq
  <2>3. /\ SubSeq(t, n, n + 1) \in Seq(T)
        /\ Len(SubSeq(t, n, n + 1)) = 2
        /\ \A i \in 1 .. 2 : SubSeq(t, n, n + 1)[i] = t[n + i - 1]
    BY <1>1, <1>4, <2>2, SubSeqProperties
  <2>4. t[n] \in T /\ t[n + 1] \in T
    BY <1>1, <2>2
  <2>5. <<t[n], t[n + 1]>> \in Seq(T) /\ Len(<<t[n], t[n + 1]>>) = 2
    BY <2>4
  <2>6. \A i \in 1 .. 2 : SubSeq(t, n, n + 1)[i] = <<t[n], t[n + 1]>>[i]
    <3>1. n + 1 - 1 = n /\ n + 2 - 1 = n + 1
      BY <1>1
    <3>2. SubSeq(t, n, n + 1)[1] = t[n] /\ SubSeq(t, n, n + 1)[2] = t[n + 1]
      BY <2>3, <3>1
    <3>3. \A i \in 1 .. 2 : i = 1 \/ i = 2
      OBVIOUS
    <3>4. <<t[n], t[n + 1]>>[1] = t[n] /\ <<t[n], t[n + 1]>>[2] = t[n + 1]
      OBVIOUS
    <3> QED
      BY <3>2, <3>3, <3>4, Zenon
  <2>7. SubSeq(t, n, n + 1) = <<t[n], t[n + 1]>>
    BY <2>3, <2>5, <2>6, SeqEqual
  <2> QED
    BY <1>1, <1>2, <1>4, <2>1, <2>3, <2>7 DEF t, n
<1> QED
  BY <1>1, <1>3, <1>4

-----------------------------------------------------------------------------
(* Types *)

LEMMA ReadCharType ==
  ASSUME TypeOK, ReadChar
  PROVE  TypeOK'
<1>1. PICK l \in IF line = Nothing THEN Lines ELSE {line} : Types(l)
  BY DEF ReadChar
<1>2. l \in Seq(Chars) /\ l # <<>>
  <2>1. CASE line = Nothing
    BY <1>1, <2>1, LinesAssumption, EmptySeq
  <2>2. CASE line # Nothing
    BY <1>1, <2>2 DEF TypeOK, Nothing
  <2> QED
    BY <2>1, <2>2
<1>3. Head(l) \in Chars /\ Tail(l) \in Seq(Chars)
  BY <1>2, HeadTailProperties
<1>4. serialBuffer' \in Seq(Chars) /\ lineReady' \in BOOLEAN /\ status' \in Statuses
  BY <1>1, <1>3, AppendProperties DEF Types, putChar, TypeOK, Statuses
<1>5. Append(typed, Head(l)) \in Seq(Chars)
  BY <1>3, AppendProperties DEF TypeOK
<1>6. typed' \in Seq(Chars) /\ lines' \in Seq(Seq(Chars)) /\ line' \in Seq(Chars)
  BY <1>1, <1>3, <1>5, EmptySeq, LastTwoOfAppend DEF Types, TypeOK
<1> QED
  BY <1>4, <1>6 DEF ReadChar, TypeOK, Places, sendVars, receiveVars

LEMMA SocketLoopType ==
  ASSUME TypeOK, SocketLoop
  PROVE  TypeOK'
<1>1. receive_address' \in Address /\ receive_buffer' \in Seq(Numbers)
  BY PacketsAssumption DEF SocketLoop, TypeOK, receiveVars
<1> QED
  BY <1>1 DEF SocketLoop, TypeOK, Places, statusVars, bufferVars, sendVars,
     hostVars

(* resetChip() on either kind of board                                      *)
LEMMA ResetChipType ==
  ASSUME TypeOK, NEW next \in Places, resetChip(next), UNCHANGED hostVars
  PROVE  TypeOK'
<1>1. /\ <<>> \in Seq(Chars) /\ <<>> \in Seq(Numbers)
  BY EmptySeq
<1>2. CASE ChipResets
  <2>1. Restart
    BY <1>2 DEF resetChip
  <2>2. pc' \in Places /\ status' \in Statuses
    BY <2>1 DEF Restart, Begun, Places, Statuses
  <2>3. /\ serialBuffer' \in Seq(Chars) /\ lineReady' \in BOOLEAN
        /\ destination_address' \in Address /\ data' \in Seq(Numbers)
        /\ receive_address' \in Address /\ receive_buffer' \in Seq(Numbers)
    BY <1>1, <2>1 DEF Address, Restart, resetSerialBuffer, resetSendBuffer,
       reset_received_buffer
  <2>4. UNCHANGED <<line, typed, lines>>
    BY DEF hostVars
  <2>5. /\ send_status' = "SEND_NONE" /\ receive_status' = "RECEIVE_NONE"
        /\ configuration_status' = 0 /\ connected' \in Connections
    BY <2>1 DEF Restart
  <2> QED
    BY <2>2, <2>3, <2>4, <2>5 DEF TypeOK
<1>3. CASE ~ChipResets
  BY <1>1, <1>3
     DEF resetChip, TypeOK, hostVars, statusVars, sendVars, receiveVars,
         resetSerialBuffer
<1> QED
  BY <1>2, <1>3

LEMMA SendStepType ==
  ASSUME TypeOK, SendStep
  PROVE  TypeOK'
<1>1. <<>> \in Seq(Chars) /\ <<>> \in Seq(Numbers)
  BY EmptySeq
<1> SUFFICES /\ status' \in Statuses /\ connected' \in Connections
             /\ send_status' \in {"SEND_NONE", "AWAIT_ADDRESS", "AWAIT_DATA", "SENDING"}
             /\ serialBuffer' \in Seq(Chars) /\ lineReady' \in BOOLEAN
             /\ destination_address' \in Address /\ data' \in Seq(Numbers)
  BY DEF SendStep, TypeOK, Places, receiveVars, hostVars
<1>2. CASE AwaitsAddress
  BY <1>1, <1>2 DEF AwaitsAddress, TypeOK, resetSendBuffer, bufferVars, Address
<1>3. CASE TakesAddress
  BY <1>1, <1>3, ParseAddressType
     DEF TakesAddress, TypeOK, Statuses, resetSerialBuffer, bufferVars
<1>4. CASE TakesData
  BY <1>1, <1>4, ParseDataType
     DEF TakesData, TypeOK, Statuses, resetSerialBuffer, bufferVars
<1>5. CASE sendDataToAddress
  BY <1>1, <1>5
     DEF sendDataToAddress, TypeOK, Connections, Statuses, resetSendBuffer, bufferVars,
         sendVars, Address
<1>6. CASE AwaitsLine
  BY <1>6 DEF AwaitsLine, TypeOK, bufferVars, sendVars
<1> QED
  BY <1>2, <1>3, <1>4, <1>5, <1>6 DEF SendStep

LEMMA OtherStepsType ==
  ASSUME TypeOK,
         \/ NoChar \/ CheckReset \/ ParseCommand \/ ReceiveStep \/ ConfigurationStep
         \/ NoExchange \/ EndOfTurn \/ ConnectionBreaks \/ UNCHANGED vars
  PROVE  TypeOK'
<1>1. <<>> \in Seq(Chars) /\ <<>> \in Seq(Numbers)
  BY EmptySeq
<1>2. CASE NoChar \/ NoExchange \/ ConnectionBreaks \/ UNCHANGED vars
  BY <1>2 DEF NoChar, NoExchange, ConnectionBreaks, vars, TypeOK, Connections, Places,
     statusVars, bufferVars, sendVars, receiveVars, hostVars
<1>3. CASE CheckReset
  <2>1. CASE resetChip("command")
    BY <1>3, <2>1, ResetChipType DEF CheckReset, Places
  <2>2. CASE ~resetChip("command")
    BY <1>3, <2>2
       DEF CheckReset, TypeOK, Places, statusVars, bufferVars, sendVars, receiveVars,
           hostVars
  <2> QED
    BY <2>1, <2>2
<1>4. CASE ParseCommand
  <2>1. /\ pc' \in Places /\ status' \in Statuses
        /\ UNCHANGED <<connected, sendVars, receiveVars, hostVars>>
    BY <1>4 DEF ParseCommand, TypeOK, Places, Statuses, statusVars
  <2>2. /\ send_status' \in {send_status, "SEND_NONE"}
        /\ receive_status' \in {receive_status, "RECEIVE_NONE"}
        /\ configuration_status' \in {configuration_status, 0}
    BY <1>4 DEF ParseCommand, statusVars
  <2>3. serialBuffer' \in Seq(Chars) /\ lineReady' \in BOOLEAN
    BY <1>1, <1>4 DEF ParseCommand, TypeOK, resetSerialBuffer, statusVars, bufferVars
  <2> QED
    BY <2>1, <2>2, <2>3 DEF TypeOK, sendVars, receiveVars, hostVars
<1>5. CASE ReceiveStep
  BY <1>1, <1>5
     DEF ReceiveStep, TypeOK, Places, Statuses, Address, reset_received_buffer, bufferVars,
         sendVars, receiveVars, hostVars
<1>6. CASE ConfigurationStep
  BY <1>6
     DEF ConfigurationStep, LastConfiguration, TypeOK, Places, Statuses, bufferVars,
         sendVars, receiveVars, hostVars
<1>7. CASE EndOfTurn
  <2>1. CASE resetChip("read")
    BY <1>7, <2>1, ResetChipType DEF EndOfTurn, Places
  <2>2. CASE ParseFailure
    BY <1>1, <1>7, <2>2
       DEF EndOfTurn, ParseFailure, TypeOK, Places, Statuses, resetSerialBuffer, sendVars,
           receiveVars, hostVars
  <2>3. CASE /\ UNCHANGED <<connected, statusVars, bufferVars, sendVars, receiveVars>>
             /\ pc' = "read"
    BY <1>7, <2>3
       DEF EndOfTurn, TypeOK, Places, statusVars, bufferVars, sendVars, receiveVars, hostVars
  <2> QED
    BY <1>7, <2>1, <2>2, <2>3 DEF EndOfTurn
<1> QED
  BY <1>2, <1>3, <1>4, <1>5, <1>6, <1>7

LEMMA InitType == Init => TypeOK
<1>1. <<>> \in Seq(Chars) /\ <<>> \in Seq(Numbers) /\ <<>> \in Seq(Seq(Chars))
  BY EmptySeq
<1>2. Init => pc \in Places /\ status \in Statuses
  BY DEF Init, Begun, Places, Statuses
<1>3. Init => /\ serialBuffer \in Seq(Chars) /\ data \in Seq(Numbers)
              /\ destination_address \in Address
              /\ receive_address \in Address /\ receive_buffer \in Seq(Numbers)
  BY <1>1 DEF Init, Address
<1>4. Init => line \in Seq(Chars) /\ typed \in Seq(Chars) /\ lines \in Seq(Seq(Chars))
  BY <1>1 DEF Init, Nothing
<1>5. Init => /\ send_status = "SEND_NONE" /\ receive_status = "RECEIVE_NONE"
              /\ configuration_status = 0 /\ lineReady \in BOOLEAN
              /\ connected \in Connections
  BY DEF Init
<1> QED
  BY <1>2, <1>3, <1>4, <1>5 DEF TypeOK

LEMMA NextType == TypeOK /\ [Next]_vars => TypeOK'
BY ReadCharType, SocketLoopType, SendStepType, OtherStepsType DEF Next, Turn

(* Whatever the host types, however small the buffers, and with a socket or  *)
(* a board that fails: every variable of the bridge keeps its type; the      *)
(* numbers that parseAddress() and parseData() store are bytes of the line,  *)
(* and configuration_status names one of the five values or the end.        *)
THEOREM BridgeTypeCorrect == Spec => []TypeOK
BY InitType, NextType, PTL DEF Spec

-----------------------------------------------------------------------------
(* What is sent *)

(* A host that names ADDRESS only where a line begins.  Without it a first   *)
(* character lost behind a command makes another line of the rest.          *)
AddressLeads == \A l \in Lines : \A i \in DOMAIN l : l[i] = "ADDRESS" => i = 1

(* A RESET ends the exchange.  On a board that cannot restart it is only     *)
(* taken out of it.                                                         *)
ResetEnds == ChipResets \/ \A l \in Lines : Head(l) # "RESET"

AddressLine(a) == <<"ADDRESS">> \o a \o <<EndOfLine>>
DataLine(d) == <<"DATA">> \o d \o <<EndOfLine>>

(* s is what t ends with.                                                   *)
Ends(s, t) == \E k \in 0 .. Len(t) : s = SubSeq(t, k + 1, Len(t))

LastLine == lines[Len(lines)]

HostInv ==
  /\ lines \in Seq(Lines)
  /\ IF line = Nothing THEN typed = <<>> ELSE typed # <<>> /\ typed \o line \in Lines

AwaitAddressInv ==
  IF lineReady
  THEN lines # <<>> /\ typed = <<>> /\ Ends(serialBuffer, LastLine)
  ELSE Ends(serialBuffer, typed)

AwaitDataInv ==
  IF lineReady
  THEN lines = <<AddressLine(destination_address), serialBuffer>> /\ typed = <<>>
  ELSE /\ lines # <<>> /\ LastLine = AddressLine(destination_address)
       /\ serialBuffer = typed

SendingInv ==
  /\ lines = <<AddressLine(destination_address), DataLine(data)>>
  /\ pc \in {"read", "end"} => typed = <<>>

SendInv ==
  status = "SEND" =>
    /\ send_status = "AWAIT_ADDRESS" => AwaitAddressInv
    /\ send_status = "AWAIT_DATA" => AwaitDataInv
    /\ send_status = "SENDING" => SendingInv

BridgeSendInv == BridgeInv /\ TypeOK /\ HostInv /\ SendInv /\ SentAsTyped

LEMMA LineIsOne ==
  ASSUME NEW l \in Lines
  PROVE  OneLine(l) /\ l \in Seq(Chars) /\ DOMAIN l = 1 .. Len(l) /\ Len(l) \in Nat
BY LinesAssumption, LenProperties DEF OneLine

LEMMA EndsWhole ==
  ASSUME AddressLeads, NEW l \in Lines, NEW b, Ends(b, l), b # <<>>, Head(b) = "ADDRESS"
  PROVE  b = l
<1>1. l \in Seq(Chars) /\ DOMAIN l = 1 .. Len(l) /\ Len(l) \in Nat
  BY LineIsOne
<1>2. PICK k \in 0 .. Len(l) : b = SubSeq(l, k + 1, Len(l))
  BY DEF Ends
<1>3. k # Len(l)
  <2>1. SubSeq(l, Len(l) + 1, Len(l)) = <<>>
    BY <1>1, SubSeqEmpty
  <2> QED
    BY <1>2, <2>1
<1>4. k + 1 \in 1 .. Len(l) /\ Len(l) \in k + 1 .. Len(l)
  <2> DEFINE n == Len(l)
  <2>1. n \in Nat /\ k \in 0 .. n /\ k # n
    BY <1>1, <1>2, <1>3
  <2> HIDE DEF n
  <2>2. k + 1 \in 1 .. n /\ n \in k + 1 .. n
    BY <2>1
  <2> QED
    BY <2>2 DEF n
<1>5. Head(b) = l[k + 1]
  BY <1>1, <1>2, <1>4, HeadTailOfSubSeq
<1>6. k = 0
  BY <1>1, <1>4, <1>5 DEF AddressLeads
<1> QED
  BY <1>1, <1>2, <1>6, SubSeqFull

LEMMA EndsAppend ==
  ASSUME NEW t \in Seq(Chars), NEW b, Ends(b, t), NEW c \in Chars
  PROVE  Ends(Append(b, c), Append(t, c))
<1> DEFINE u == Append(t, c)
           n == Len(t)
<1>1. n \in Nat /\ \A i \in 1 .. n : t[i] \in Chars
  BY LenProperties, ElementOfSeq
<1>2. u \in Seq(Chars) /\ Len(u) = n + 1 /\ u[n + 1] = c /\ \A i \in 1 .. n : u[i] = t[i]
  BY AppendProperties
<1>3. PICK k \in 0 .. n : b = SubSeq(t, k + 1, n)
  BY DEF Ends
<1> HIDE DEF u, n
<1>4. k + 1 \in Int /\ n \in Int /\ n - (k + 1) + 1 = n - k
  BY <1>1, <1>3
<1>5. /\ b \in Seq(Chars)
      /\ Len(b) = n - k
      /\ \A i \in 1 .. n - k : b[i] = t[(k + 1) + i - 1]
  <2>1. \A i \in k + 1 .. n : t[i] \in Chars
    BY <1>1, <1>3
  <2>2. /\ SubSeq(t, k + 1, n) \in Seq(Chars)
        /\ Len(SubSeq(t, k + 1, n)) = IF k + 1 <= n THEN n - (k + 1) + 1 ELSE 0
        /\ \A i \in 1 .. n - (k + 1) + 1 : SubSeq(t, k + 1, n)[i] = t[(k + 1) + i - 1]
    BY <1>4, <2>1, SubSeqProperties
  <2> QED
    BY <1>1, <1>3, <1>4, <2>2
<1>6. /\ SubSeq(u, k + 1, n + 1) \in Seq(Chars)
      /\ Len(SubSeq(u, k + 1, n + 1)) = n - k + 1
      /\ \A i \in 1 .. n - k + 1 : SubSeq(u, k + 1, n + 1)[i] = u[(k + 1) + i - 1]
  <2>1. \A i \in k + 1 .. n + 1 : u[i] \in Chars
    BY <1>1, <1>2, <1>3, ElementOfSeq
  <2>2. n + 1 \in Int /\ (n + 1) - (k + 1) + 1 = n - k + 1 /\ k + 1 <= n + 1
    BY <1>1, <1>3
  <2> QED
    BY <1>4, <2>1, <2>2, SubSeqProperties
<1>7. /\ Append(b, c) \in Seq(Chars)
      /\ Len(Append(b, c)) = n - k + 1
      /\ \A i \in 1 .. n - k : Append(b, c)[i] = b[i]
      /\ Append(b, c)[n - k + 1] = c
  BY <1>5, AppendProperties
<1>8. ASSUME NEW i \in 1 .. n - k + 1
      PROVE  Append(b, c)[i] = SubSeq(u, k + 1, n + 1)[i]
  <2>1. SubSeq(u, k + 1, n + 1)[i] = u[k + i] /\ (k + 1) + i - 1 = k + i
    BY <1>1, <1>3, <1>6
  <2>2. CASE i = n - k + 1
    BY <1>1, <1>2, <1>3, <1>7, <2>1, <2>2
  <2>3. CASE i \in 1 .. n - k
    <3>1. Append(b, c)[i] = t[k + i]
      BY <1>5, <1>7, <2>1, <2>3
    <3>2. k + i \in 1 .. n
      BY <1>1, <1>3, <2>3
    <3> QED
      BY <1>2, <2>1, <3>1, <3>2
  <2> QED
    BY <1>1, <1>3, <2>2, <2>3
<1>9. Append(b, c) = SubSeq(u, k + 1, n + 1)
  BY <1>6, <1>7, <1>8, SeqEqual
<1>10. k \in 0 .. Len(u)
  BY <1>1, <1>2, <1>3
<1> QED
  BY <1>2, <1>9, <1>10 DEF Ends, u

(* A line is its keyword, its operands and its end.                          *)
LEMMA LineParts ==
  ASSUME NEW b, OneLine(b)
  PROVE  b = <<Head(b)>> \o Operands(b) \o <<EndOfLine>>
<1> DEFINE n == Len(b)
<1>1. /\ b \in Seq(Chars) /\ n \in Nat /\ n >= 2 /\ b[n] = EndOfLine
      /\ \A i \in 1 .. n : b[i] \in Chars
  BY LenProperties, ElementOfSeq DEF OneLine
<1> HIDE DEF n
<1>2. Head(b) = b[1] /\ b[1] \in Chars /\ b[n] \in Chars
  BY <1>1
<1>3. 1 \in 1 .. Len(b) /\ Len(b) \in 1 .. Len(b) /\ Len(b) \in 2 .. Len(b) /\ 2 \in 1 .. Len(b)
  BY <1>1 DEF n
<1>4. SubSeq(b, 1, n) = <<b[1]>> \o SubSeq(b, 1 + 1, n)
  BY <1>1, <1>3, SubSeqRecursiveFirst DEF n
<1>5. SubSeq(b, 2, n) = SubSeq(b, 2, n - 1) \o <<b[n]>>
  BY <1>1, <1>3, SubSeqRecursiveSecond DEF n
<1>6. SubSeq(b, 1, n) = b
  BY <1>1, SubSeqFull DEF n
<1>7. SubSeq(b, 2, n - 1) = Operands(b) /\ Operands(b) \in Seq(Chars)
  BY <1>1, OperandsOfLine, OperandsType DEF n
<1>8. b = <<b[1]>> \o (Operands(b) \o <<EndOfLine>>)
  BY <1>1, <1>4, <1>5, <1>6, <1>7
<1>9. <<b[1]>> \in Seq(Chars) /\ <<EndOfLine>> \in Seq(Chars)
  BY <1>1, <1>2
<1> QED
  BY <1>2, <1>7, <1>8, <1>9, ConcatAssociative

(* parseAddress() and parseData() succeed on a line of the host: they have   *)
(* stored all of it.                                                        *)
LEMMA AddressTaken ==
  ASSUME NEW l \in Lines, parseAddress(l, TRUE)
  PROVE  Head(l) = "ADDRESS" /\ l = AddressLine(destination_address')
<1> DEFINE numbers == Leading(Operands(l))
<1>1. /\ Head(l) = "ADDRESS" /\ numbers = Operands(l) /\ Len(numbers) = AddressLength
      /\ destination_address' = SubSeq(numbers, 1, AddressLength)
  BY BridgeAssumption DEF parseAddress
<1>2. OneLine(l) /\ l \in Seq(Chars)
  BY LineIsOne
<1>3. numbers \in Seq(Numbers)
  BY <1>2, OperandsType, LeadingType
<1>4. destination_address' = Operands(l)
  BY <1>1, <1>3, SubSeqFull
<1> QED
  BY <1>1, <1>2, <1>4, LineParts DEF AddressLine

LEMMA DataTaken ==
  ASSUME NEW l \in Lines, parseData(l, TRUE)
  PROVE  Head(l) = "DATA" /\ l = DataLine(data')
<1>1. Head(l) = "DATA" /\ data' = Operands(l)
  BY DEF parseData
<1> QED
  BY <1>1, LineIsOne, LineParts DEF DataLine

(* Whatever happens while the host types nothing                            *)
LEMMA HostQuiet ==
  ASSUME HostInv, UNCHANGED hostVars
  PROVE  HostInv' /\ LastLine' = LastLine
BY DEF HostInv, hostVars, LastLine

(* The exchange goes on as it was.                                          *)
LEMMA SendQuiet ==
  ASSUME SendInv, UNCHANGED hostVars,
         status' = "SEND" =>
           /\ UNCHANGED <<status, send_status, bufferVars, destination_address, data>>
           /\ pc' \in {"read", "end"} => pc \in {"read", "end"}
  PROVE  SendInv'
<1>1. UNCHANGED <<line, typed, lines, LastLine>>
  BY DEF hostVars, LastLine
<1> QED
  BY <1>1 DEF SendInv, AwaitAddressInv, AwaitDataInv, SendingInv, bufferVars

LEMMA SentQuiet ==
  ASSUME SentAsTyped, UNCHANGED hostVars, sent' = sent \/ sent' = Nothing
  PROVE  SentAsTyped'
BY DEF SentAsTyped, hostVars

LEMMA ReadCharSends ==
  ASSUME BridgeSendInv, ReadChar
  PROVE  HostInv' /\ SendInv' /\ SentAsTyped'
<1>1. PICK l \in IF line = Nothing THEN Lines ELSE {line} : Types(l)
  BY DEF ReadChar
<1> DEFINE c == Head(l)
           whole == typed \o l
           n == Len(typed)
<1>2. typed \in Seq(Chars) /\ n \in Nat /\ (typed = <<>> <=> n = 0)
  BY LenProperties, EmptySeq DEF BridgeSendInv, TypeOK
<1>3. l \in Seq(Chars) /\ l # <<>> /\ Len(l) \in Nat \ {0} /\ c = l[1]
  <2>1. CASE line = Nothing
    BY <1>1, <2>1, LineIsOne, EmptySeq DEF OneLine
  <2>2. CASE line # Nothing
    BY <1>1, <2>2, EmptySeq DEF BridgeSendInv, TypeOK, Nothing
  <2>3. l \in Seq(Chars) /\ l # <<>>
    BY <2>1, <2>2
  <2> QED
    BY <2>3, EmptySeq, LenProperties
<1>4. whole \in Lines
  <2>1. CASE line = Nothing
    BY <1>1, <1>3, <2>1, ConcatEmptySeq DEF BridgeSendInv, HostInv
  <2>2. CASE line # Nothing
    BY <1>1, <2>2 DEF BridgeSendInv, HostInv
  <2> QED
    BY <2>1, <2>2
<1>5. c \in Chars /\ Tail(l) \in Seq(Chars) /\ Len(Tail(l)) = Len(l) - 1
  BY <1>3, HeadTailProperties
<1>6. /\ Len(whole) = n + Len(l)
      /\ whole[n + 1] = c
  <2>1. n + 1 \in 1 .. Len(typed) + Len(l) /\ ~(n + 1 <= Len(typed)) /\ (n + 1) - Len(typed) = 1
    BY <1>2, <1>3
  <2> QED
    BY <1>2, <1>3, <2>1, ConcatProperties
<1>7. Tail(l) = <<>> <=> Len(l) = 1
  <2> DEFINE m == Len(l)
             t == Tail(l)
  <2>1. m \in Nat \ {0} /\ Len(t) = m - 1 /\ t \in Seq(Chars)
    BY <1>3, <1>5
  <2>2. t = <<>> <=> Len(t) = 0
    BY <2>1, EmptySeq
  <2> HIDE DEF m, t
  <2>3. Len(t) = 0 <=> m = 1
    BY <2>1
  <2> QED
    BY <2>2, <2>3 DEF m, t
<1>8. c = EndOfLine <=> Tail(l) = <<>>
  <2>1. OneLine(whole) /\ n + 1 \in DOMAIN whole
    BY <1>2, <1>3, <1>4, <1>6, LineIsOne
  <2>2. whole[n + 1] = EndOfLine <=> n + 1 = Len(whole)
    BY <2>1 DEF OneLine
  <2>3. n + 1 = n + Len(l) <=> Len(l) = 1
    <3> DEFINE m == Len(l)
    <3>1. m \in Nat /\ n \in Nat
      BY <1>2, <1>3
    <3> HIDE DEF m, n
    <3>2. n + 1 = n + m <=> m = 1
      BY <3>1
    <3> QED
      BY <3>2 DEF m, n
  <2> QED
    BY <1>6, <1>7, <2>2, <2>3
<1>9. /\ Append(typed, c) \in Seq(Chars) /\ Append(typed, c) # <<>>
      /\ Append(typed, c) = typed \o <<c>>
  BY <1>2, <1>5, AppendProperties, AppendIsConcat
<1>10. <<c>> \in Seq(Chars) /\ l = <<c>> \o Tail(l)
  <2>1. 1 \in 1 .. Len(l) /\ Len(l) \in 1 .. Len(l)
    BY <1>3
  <2>2. SubSeq(l, 1, Len(l)) = <<l[1]>> \o SubSeq(l, 1 + 1, Len(l))
    BY <1>3, <2>1, SubSeqRecursiveFirst
  <2>3. Tail(l) = SubSeq(l, 2, Len(l)) /\ SubSeq(l, 1, Len(l)) = l
    BY <1>3, TailIsSubSeq, SubSeqFull
  <2> QED
    BY <1>3, <1>5, <2>2, <2>3
<1>11. Append(typed, c) \o Tail(l) = whole
  BY <1>2, <1>5, <1>9, <1>10, ConcatAssociative
<1>12. Tail(l) = <<>> => Append(typed, c) = whole
  BY <1>9, <1>11, ConcatEmptySeq
<1> HIDE DEF c, whole, n
<1>13. /\ line' = Tail(l)
       /\ Tail(l) = <<>> => typed' = <<>> /\ lines' = LastTwo(Append(lines, whole))
       /\ Tail(l) # <<>> => typed' = Append(typed, c) /\ lines' = lines
       /\ serialBuffer' = Append(serialBuffer, c)
       /\ lineReady' = (lineReady \/ c = EndOfLine)
       /\ status' \in {status, "PARSE_FAILURE"}
  BY <1>1, <1>12 DEF Types, putChar, c
<1>14. lines \in Seq(Lines)
  BY DEF BridgeSendInv, HostInv
<1>15. Tail(l) = <<>> =>
         /\ lines' \in Seq(Lines) /\ lines' # <<>>
         /\ LastLine' = whole
         /\ lines # <<>> => lines' = <<LastLine, whole>>
  <2>1. SUFFICES ASSUME Tail(l) = <<>>
                 PROVE  /\ lines' \in Seq(Lines) /\ lines' # <<>>
                        /\ LastLine' = whole
                        /\ lines # <<>> => lines' = <<LastLine, whole>>
    OBVIOUS
  <2>2. /\ lines' \in Seq(Lines)
        /\ lines' = IF lines = <<>> THEN <<whole>> ELSE <<lines[Len(lines)], whole>>
    BY <1>4, <1>13, <1>14, <2>1, LastTwoOfAppend
  <2> QED
    BY <2>2 DEF LastLine
<1>16. HostInv'
  <2>1. CASE Tail(l) = <<>>
    BY <1>13, <1>15, <2>1 DEF HostInv, Nothing
  <2>2. CASE Tail(l) # <<>>
    BY <1>4, <1>9, <1>11, <1>13, <1>14, <2>2 DEF HostInv, Nothing
  <2> QED
    BY <2>1, <2>2
<1>17. SendInv'
  <2>1. SUFFICES ASSUME status' = "SEND"
                 PROVE  /\ send_status' = "AWAIT_ADDRESS" => AwaitAddressInv'
                        /\ send_status' = "AWAIT_DATA" => AwaitDataInv'
                        /\ send_status' = "SENDING" => SendingInv'
    BY DEF SendInv
  <2>2. /\ status = "SEND" /\ send_status' = send_status /\ pc' = "socket"
        /\ UNCHANGED <<destination_address, data>>
    BY <1>13, <2>1 DEF ReadChar, sendVars
  <2>3. /\ pc = "read"
        /\ send_status \in {"AWAIT_ADDRESS", "AWAIT_DATA"} => ~lineReady
    BY <2>2 DEF ReadChar, BridgeSendInv, BridgeInv, PaceInv, Paced
  <2>4. CASE send_status = "AWAIT_ADDRESS"
    <3>1. Ends(serialBuffer, typed)
      BY <2>2, <2>3, <2>4 DEF BridgeSendInv, SendInv, AwaitAddressInv
    <3>2. Ends(serialBuffer', Append(typed, c))
      BY <1>2, <1>5, <1>13, <3>1, EndsAppend DEF c
    <3> QED
      BY <1>8, <1>12, <1>13, <1>15, <2>2, <2>3, <2>4, <3>2 DEF AwaitAddressInv
  <2>5. CASE send_status = "AWAIT_DATA"
    <3>1. /\ lines # <<>> /\ LastLine = AddressLine(destination_address)
          /\ serialBuffer = typed
      BY <2>2, <2>3, <2>5 DEF BridgeSendInv, SendInv, AwaitDataInv
    <3>2. serialBuffer' = Append(typed, c)
      BY <1>13, <3>1
    <3>3. AddressLine(destination_address)' = AddressLine(destination_address)
      BY <2>2 DEF AddressLine
    <3>4. CASE Tail(l) = <<>>
      BY <1>8, <1>12, <1>13, <1>15, <2>2, <2>3, <2>5, <3>1, <3>2, <3>3, <3>4
         DEF AwaitDataInv
    <3>5. CASE Tail(l) # <<>>
      <4>1. LastLine' = LastLine /\ lines' = lines /\ typed' = Append(typed, c)
        BY <1>13, <3>5 DEF LastLine
      <4> QED
        BY <1>8, <1>13, <2>2, <2>3, <2>5, <3>1, <3>2, <3>3, <3>5, <4>1 DEF AwaitDataInv
    <3> QED
      BY <3>4, <3>5
  <2>6. CASE send_status = "SENDING"
    <3>1. SendingInv /\ typed = <<>>
      BY <2>2, <2>3, <2>6 DEF BridgeSendInv, SendInv, SendingInv
    <3>2. line = Nothing
      BY <3>1 DEF BridgeSendInv, HostInv
    <3>3. Len(l) >= 2
      BY <1>1, <3>2, LineIsOne DEF OneLine
    <3>4. lines' = lines
      BY <1>7, <1>13, <3>3
    <3> QED
      BY <2>2, <2>6, <3>1, <3>4 DEF SendingInv, AddressLine, DataLine
  <2> QED
    BY <2>2, <2>4, <2>5, <2>6
<1>18. SentAsTyped'
  BY DEF ReadChar, SentAsTyped, Nothing
<1> QED
  BY <1>16, <1>17, <1>18

(* The steps of SEND: a line that parseAddress() takes is an ADDRESS line of *)
(* the host, the line behind it is what parseData() takes or refuses.        *)
LEMMA SendStepSends ==
  ASSUME AddressLeads, BridgeSendInv, SendStep
  PROVE  SendInv' /\ SentAsTyped'
<1>1. /\ UNCHANGED <<line, typed, lines, LastLine>>
      /\ pc = "exchange" /\ pc' = "end" /\ status = "SEND"
  BY DEF SendStep, hostVars, LastLine
<1>2. /\ lines \in Seq(Lines)
      /\ lineReady => serialBuffer # <<>>
      /\ PaceInv
  BY DEF BridgeSendInv, HostInv, BridgeInv, BridgeTypeInv
<1>3. CASE AwaitsAddress
  <2>1. serialBuffer = <<>> /\ ~lineReady
    <3>1. Fresh
      BY <1>1, <1>2, <1>3 DEF AwaitsAddress, PaceInv, Paced
    <3>2. serialBuffer \in Seq(Chars)
      BY DEF BridgeSendInv, TypeOK
    <3> QED
      BY <3>1, <3>2, EmptySeq DEF Fresh, Buffered
  <2>2. /\ serialBuffer' = <<>> /\ lineReady' = lineReady
        /\ send_status' = "AWAIT_ADDRESS" /\ sent' = sent
    BY <1>3, <2>1 DEF AwaitsAddress, bufferVars
  <2>3. Ends(<<>>, typed)
    <3>1. typed \in Seq(Chars) /\ Len(typed) \in Nat
      BY LenProperties DEF BridgeSendInv, TypeOK
    <3>2. SubSeq(typed, Len(typed) + 1, Len(typed)) = <<>>
      BY <3>1, SubSeqEmpty
    <3>3. Len(typed) \in 0 .. Len(typed)
      BY <3>1
    <3> QED
      BY <3>2, <3>3 DEF Ends
  <2>4. AwaitAddressInv'
    BY <1>1, <2>1, <2>2, <2>3 DEF AwaitAddressInv
  <2> QED
    BY <1>1, <2>2, <2>4 DEF SendInv, SentAsTyped, BridgeSendInv
<1>4. CASE TakesAddress
  <2>1. PICK ok \in BOOLEAN :
          /\ parseAddress(serialBuffer, ok)
          /\ IF ok THEN send_status' = "AWAIT_DATA" /\ resetSerialBuffer /\ UNCHANGED status
                   ELSE status' = "PARSE_FAILURE" /\ UNCHANGED <<send_status, bufferVars>>
    BY <1>4 DEF TakesAddress
  <2>2. send_status = "AWAIT_ADDRESS" /\ lineReady /\ sent' = sent
    BY <1>4 DEF TakesAddress
  <2>3. SentAsTyped'
    BY <1>1, <2>2 DEF SentAsTyped, BridgeSendInv
  <2>4. CASE ~ok
    BY <2>1, <2>3, <2>4 DEF SendInv
  <2>5. CASE ok
    <3>1. lines # <<>> /\ typed = <<>> /\ Ends(serialBuffer, LastLine)
      BY <1>1, <2>2 DEF BridgeSendInv, SendInv, AwaitAddressInv
    <3>2. LastLine \in Lines
      <4>1. Len(lines) \in 1 .. Len(lines)
        BY <1>2, <3>1, EmptySeq, LenProperties
      <4> QED
        BY <1>2, <4>1, ElementOfSeq DEF LastLine
    <3>3. Head(serialBuffer) = "ADDRESS" /\ parseAddress(serialBuffer, TRUE)
      BY <2>1, <2>5 DEF parseAddress
    <3>4. serialBuffer = LastLine
      BY <1>2, <2>2, <3>1, <3>2, <3>3, EndsWhole
    <3>5. LastLine = AddressLine(destination_address')
      BY <3>2, <3>3, <3>4, AddressTaken
    <3>6. /\ serialBuffer' = <<>> /\ lineReady' = FALSE
          /\ send_status' = "AWAIT_DATA"
      BY <2>1, <2>5 DEF resetSerialBuffer
    <3>7. AwaitDataInv'
      BY <1>1, <3>1, <3>5, <3>6 DEF AwaitDataInv, AddressLine
    <3> QED
      BY <2>3, <3>6, <3>7 DEF SendInv
  <2> QED
    BY <2>1, <2>4, <2>5
<1>5. CASE TakesData
  <2>1. PICK ok \in BOOLEAN :
          /\ parseData(serialBuffer, ok)
          /\ IF ok THEN send_status' = "SENDING" /\ resetSerialBuffer /\ UNCHANGED status
                   ELSE status' = "PARSE_FAILURE" /\ UNCHANGED <<send_status, bufferVars>>
    BY <1>5 DEF TakesData
  <2>2. /\ send_status = "AWAIT_DATA" /\ lineReady /\ sent' = sent
        /\ destination_address' = destination_address
    BY <1>5 DEF TakesData
  <2>3. SentAsTyped'
    BY <1>1, <2>2 DEF SentAsTyped, BridgeSendInv
  <2>4. CASE ~ok
    BY <2>1, <2>3, <2>4 DEF SendInv
  <2>5. CASE ok
    <3>1. lines = <<AddressLine(destination_address), serialBuffer>> /\ typed = <<>>
      BY <1>1, <2>2 DEF BridgeSendInv, SendInv, AwaitDataInv
    <3>2. serialBuffer \in Lines
      <4>1. Len(lines) = 2 /\ lines[2] = serialBuffer
        BY <3>1
      <4> QED
        BY <1>2, <4>1, ElementOfSeq
    <3>3. serialBuffer = DataLine(data')
      BY <2>1, <2>5, <3>2, DataTaken
    <3>4. send_status' = "SENDING"
      BY <2>1, <2>5
    <3>5. AddressLine(destination_address)' = AddressLine(destination_address)
      BY <2>2 DEF AddressLine
    <3>6. DataLine(data)' = DataLine(data')
      BY DEF DataLine
    <3>7. SendingInv'
      BY <1>1, <3>1, <3>3, <3>5, <3>6 DEF SendingInv
    <3> QED
      BY <2>3, <3>4, <3>7 DEF SendInv
  <2> QED
    BY <2>1, <2>4, <2>5
<1>6. CASE sendDataToAddress
  <2>1. lines = <<AddressLine(destination_address), DataLine(data)>>
    BY <1>1, <1>6 DEF sendDataToAddress, BridgeSendInv, SendInv, SendingInv
  <2>2. sent' = <<destination_address, data>> /\ status' \in {"IDLE", "ERROR"}
    BY <1>6 DEF sendDataToAddress
  <2>3. SentAsTyped'
    BY <1>1, <2>1, <2>2 DEF SentAsTyped, AddressLine, DataLine
  <2> QED
    BY <2>2, <2>3 DEF SendInv
<1>7. CASE AwaitsLine
  <2>1. SentAsTyped'
    BY <1>1, <1>7 DEF AwaitsLine, SentAsTyped, BridgeSendInv
  <2>2. /\ UNCHANGED <<status, send_status, bufferVars, destination_address, data>>
        /\ send_status \in {"AWAIT_ADDRESS", "AWAIT_DATA"}
    BY <1>7 DEF AwaitsLine, sendVars
  <2> QED
    BY <1>1, <2>1, <2>2
       DEF BridgeSendInv, SendInv, AwaitAddressInv, AwaitDataInv, bufferVars
<1> QED
  BY <1>3, <1>4, <1>5, <1>6, <1>7 DEF SendStep

(* A RESET typed between ADDRESS and DATA does not pass for the DATA.        *)
LEMMA CheckResetSends ==
  ASSUME ResetEnds, BridgeSendInv, CheckReset
  PROVE  SendInv' /\ SentAsTyped'
<1>1. UNCHANGED hostVars /\ sent' = sent /\ pc = "reset"
  BY DEF CheckReset
<1>2. SentAsTyped'
  BY <1>1, SentQuiet DEF BridgeSendInv
<1>3. CASE ~(lineReady /\ Head(serialBuffer) = "RESET")
  BY <1>1, <1>2, <1>3, SendQuiet
     DEF CheckReset, BridgeSendInv, statusVars, sendVars, bufferVars
<1>4. CASE lineReady /\ Head(serialBuffer) = "RESET" /\ ChipResets
  <2>1. status' # "SEND"
    BY <1>4 DEF CheckReset, resetChip, Restart, Begun
  <2> QED
    BY <1>2, <2>1 DEF SendInv
<1>5. CASE lineReady /\ Head(serialBuffer) = "RESET" /\ ~ChipResets
  <2>1. /\ UNCHANGED <<status, send_status, destination_address, data>>
        /\ pc' = "command" /\ serialBuffer' = <<>> /\ lineReady' = FALSE
    BY <1>5 DEF CheckReset, resetChip, resetSerialBuffer, statusVars, sendVars
  <2>2. UNCHANGED <<line, typed, lines, LastLine>>
    BY <1>1 DEF hostVars, LastLine
  <2>3. CASE status = "SEND" /\ send_status = "AWAIT_ADDRESS"
    <3>1. typed = <<>>
      BY <1>5, <2>3 DEF BridgeSendInv, SendInv, AwaitAddressInv
    <3>2. Ends(<<>>, <<>>)
      <4>1. Len(<<>>) = 0 /\ SubSeq(<<>>, 1, 0) = <<>>
        BY EmptySeq, SubSeqEmpty
      <4> QED
        BY <4>1 DEF Ends
    <3> QED
      BY <1>2, <2>1, <2>2, <2>3, <3>1, <3>2 DEF SendInv, AwaitAddressInv
  <2>4. CASE status = "SEND" /\ send_status = "AWAIT_DATA"
    <3>1. lines = <<AddressLine(destination_address), serialBuffer>>
      BY <1>5, <2>4 DEF BridgeSendInv, SendInv, AwaitDataInv
    <3>2. serialBuffer \in Lines
      <4>1. Len(lines) = 2 /\ lines[2] = serialBuffer
        BY <3>1
      <4> QED
        BY <4>1, ElementOfSeq DEF BridgeSendInv, HostInv
    <3> QED
      BY <1>5, <3>2 DEF ResetEnds
  <2>5. CASE status = "SEND" /\ send_status = "SENDING"
    BY <1>2, <2>1, <2>2, <2>5
       DEF BridgeSendInv, SendInv, SendingInv, AddressLine, DataLine
  <2>6. CASE status # "SEND" \/ send_status = "SEND_NONE"
    BY <1>2, <2>1, <2>6 DEF SendInv
  <2> QED
    BY <2>3, <2>4, <2>5, <2>6 DEF BridgeSendInv, TypeOK
<1> QED
  BY <1>3, <1>4, <1>5

LEMMA OtherStepsSend ==
  ASSUME ~SocketMayFail, BridgeSendInv,
         \/ NoChar \/ SocketLoop \/ ParseCommand \/ ReceiveStep \/ ConfigurationStep
         \/ NoExchange \/ EndOfTurn \/ ConnectionBreaks \/ UNCHANGED vars
  PROVE  SendInv' /\ SentAsTyped'
<1>1. UNCHANGED hostVars /\ (sent' = sent \/ sent' = Nothing)
  BY DEF NoChar, SocketLoop, ParseCommand, ReceiveStep, ConfigurationStep, NoExchange,
         EndOfTurn, ConnectionBreaks, vars
<1>2. SentAsTyped'
  BY <1>1, SentQuiet DEF BridgeSendInv
<1>3. CASE NoChar \/ SocketLoop \/ NoExchange \/ ConnectionBreaks \/ UNCHANGED vars
  <2>1. /\ UNCHANGED <<status, send_status, bufferVars, destination_address, data>>
        /\ pc' \in {"read", "end"} => pc \in {"read", "end"} \/ status # "SEND"
    <3>1. connected
      BY DEF BridgeSendInv, TypeOK, Connections
    <3> QED
      BY <1>3, <3>1
         DEF NoChar, SocketLoop, NoExchange, ConnectionBreaks, vars, statusVars, sendVars
  <2> QED
    BY <1>1, <1>2, <2>1, SendQuiet DEF BridgeSendInv
<1>4. CASE ParseCommand
  <2>1. CASE status' = "SEND" /\ status # "SEND"
    BY <1>2, <1>4, <2>1 DEF ParseCommand, SendInv, statusVars
  <2>2. CASE status = "SEND"
    BY <1>1, <1>2, <1>4, <2>2, SendQuiet
       DEF ParseCommand, BridgeSendInv, statusVars, sendVars, bufferVars
  <2>3. CASE status' # "SEND"
    BY <1>2, <2>3 DEF SendInv
  <2> QED
    BY <2>1, <2>2, <2>3
<1>5. CASE ReceiveStep \/ ConfigurationStep
  <2>1. status' # "SEND"
    BY <1>5 DEF ReceiveStep, ConfigurationStep
  <2> QED
    BY <1>2, <2>1 DEF SendInv
<1>6. CASE EndOfTurn
  <2>1. CASE status' = "SEND"
    <3>1. /\ pc = "end"
          /\ UNCHANGED <<status, send_status, bufferVars, destination_address, data>>
      BY <1>6, <2>1
         DEF EndOfTurn, ParseFailure, resetChip, Restart, Begun, statusVars, sendVars
    <3> QED
      BY <1>1, <1>2, <3>1, SendQuiet DEF BridgeSendInv
  <2>2. CASE status' # "SEND"
    BY <1>2, <2>2 DEF SendInv
  <2> QED
    BY <2>1, <2>2
<1> QED
  BY <1>3, <1>4, <1>5, <1>6

LEMMA BridgeSendInit == Roomy /\ Init => BridgeSendInv
<1> SUFFICES ASSUME Roomy, Init PROVE BridgeSendInv
  OBVIOUS
<1>1. TypeOK /\ BridgeInv
  BY InitType, BridgeInit
<1>2. HostInv
  <2>1. <<>> \in Seq(Lines)
    BY EmptySeq
  <2> QED
    BY <2>1 DEF Init, HostInv, Nothing
<1>3. SendInv /\ SentAsTyped
  BY DEF Init, Begun, SendInv, SentAsTyped
<1> QED
  BY <1>1, <1>2, <1>3 DEF BridgeSendInv

LEMMA BridgeSendNext ==
  ASSUME Roomy, ~SocketMayFail, AddressLeads, ResetEnds, BridgeSendInv, [Next]_vars
  PROVE  BridgeSendInv'
<1>1. TypeOK' /\ BridgeInv'
  BY NextType, BridgeNext DEF BridgeSendInv, TypeOK, Connections
<1>2. CASE ReadChar
  BY <1>1, <1>2, ReadCharSends DEF BridgeSendInv
<1>3. CASE ~ReadChar
  <2>1. UNCHANGED hostVars
    BY <1>3 DEF Next, Turn, NoChar, SocketLoop, CheckReset, ParseCommand, SendStep,
                ReceiveStep, ConfigurationStep, NoExchange, EndOfTurn, ConnectionBreaks, vars
  <2>2. HostInv'
    BY <2>1, HostQuiet DEF BridgeSendInv
  <2>3. SendInv' /\ SentAsTyped'
    BY <1>3, SendStepSends, CheckResetSends, OtherStepsSend DEF Next, Turn
  <2> QED
    BY <1>1, <2>2, <2>3 DEF BridgeSendInv
<1> QED
  BY <1>2, <1>3

(* Over a socket whose loop() returns true, with room in the serial buffer:   *)
(* for every host that writes ADDRESS only where a line begins, and, on a    *)
(* board that cannot restart, types no RESET, what leaves is the address and *)
(* the data of its last two lines, however far it types ahead, with every    *)
(* failing send(), overflow and restart between the lines.                   *)
THEOREM SentIsTyped ==
  Roomy /\ ~SocketMayFail /\ AddressLeads /\ ResetEnds => (Spec => []SentAsTyped)
<1> SUFFICES ASSUME Roomy, ~SocketMayFail, AddressLeads, ResetEnds
             PROVE  Spec => []SentAsTyped
  OBVIOUS
<1>1. Init => BridgeSendInv
  BY BridgeSendInit
<1>2. BridgeSendInv /\ [Next]_vars => BridgeSendInv'
  BY BridgeSendNext
<1>3. BridgeSendInv => SentAsTyped
  BY DEF BridgeSendInv
<1> QED
  BY <1>1, <1>2, <1>3, PTL DEF Spec
=============================================================================
