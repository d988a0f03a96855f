----------------------------- MODULE MCUartBridge -----------------------------
(***************************************************************************)
(* Small instances of UartBridge for TLC.                                  *)
(***************************************************************************)
EXTENDS UartBridge

CONSTANTS n1, n2

Line(chars) == Append(chars, EndOfLine)

Commands == {Line(<<c>>) : c \in {"SEND", "RECEIVE", "CONFIGURATION"}}
Addresses == {Line(<<"ADDRESS", n>>) : n \in {n1, n2}}

(* Too long an address, a number that is none, a line that does not fit      *)
BadLines == {Line(<<"ADDRESS", n1, n2>>), Line(<<"DATA", n1, "JUNK">>),
             Line(<<"DATA", n1, n1, n1, n1, n1, n2, n2>>)}

MCLines ==
  Commands \cup Addresses \cup BadLines
    \cup {Line(<<"RESET">>), Line(<<"DATA", n1>>), Line(<<"DATA", n2, n1>>)}

(* One line of each exchange, a RESET, and a line that does not fit          *)
MCFewLines == Commands \cup {Line(<<"RESET">>), Line(<<"DATA", n1, n1, n1>>)}

MCReceiveLines == {Line(<<"RECEIVE">>)}

Packet(n) == [address |-> <<n>>, bytes |-> <<n>>]
MCNoPackets == {}
MCOnePacket == {Packet(n1)}
MCPackets == {Packet(n1), Packet(n2)}
=============================================================================
