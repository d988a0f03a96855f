---------------------------- MODULE MqttSnSockets ----------------------------
(***************************************************************************)
(* The datagram sockets: which node a send() to a device_address reaches,  *)
(* and which device_address a received packet is handed on with.           *)
(*                                                                         *)
(* On an IP network an endpoint is an address and a port, on a radio       *)
(* network it is the byte the driver puts into the header.  A device       *)
(* address is six bytes, whatever the network.  ClientSocket is the stream *)
(* of MqttSnLink.                                                          *)
(***************************************************************************)
EXTENDS Integers

IpSockets == {"UDPSocket", "WiFiUdpSocket"}
RadioHeadSockets == {"RHDatagramSocket", "RHGenericDriverSocket"}
SocketTypes == IpSockets \cup RadioHeadSockets \cup {"SX1276Socket"}

RECEIVE_BUFFER_SIZE == 255

(* device_address(one, 0, 0, 0, 0, 0)                                        *)
device_address(one) == <<one, 0, 0, 0, 0, 0>>

-----------------------------------------------------------------------------
(* The drivers *)

BroadcastEndpoint(socket) ==
  CASE socket \in IpSockets -> [ip |-> <<255, 255, 255, 255>>, port |-> 8888]
    [] socket \in RadioHeadSockets -> 255
    [] OTHER -> 0

(* RadioHead's driver for the RF95 has 255 bytes, less four for its header.  *)
DriverTakes(socket, length) == socket \in IpSockets \/ length <= 251

(* A RadioHead driver in promiscuous mode leaves the filter to its user.     *)
DriverHears(socket, endpoint, promiscuous, packet) ==
  promiscuous \/ packet.to \in {endpoint, BroadcastEndpoint(socket)}

-----------------------------------------------------------------------------
(* UDPSocket and WiFiUdpSocket *)

convertIPAddressAndPortToDeviceAddress(e) ==
  <<e.ip[1], e.ip[2], e.ip[3], e.ip[4], e.port \div 256, e.port % 256>>

(* Mutant: the bytes of the port change places.                              *)
convertSwapped(bytes) ==
  [ip |-> <<bytes[1], bytes[2], bytes[3], bytes[4]>>, port |-> bytes[6] * 256 + bytes[5]]

convertDeviceAddressToIPAddressAndPort(bytes) ==
  [ip |-> <<bytes[1], bytes[2], bytes[3], bytes[4]>>, port |-> bytes[5] * 256 + bytes[6]]

UDPSocketSend(destination, accepted) ==
  [to |-> convertDeviceAddressToIPAddressAndPort(destination), returns |-> accepted]

(* Mutant: the local port is taken for the remote one.                       *)
UDPSocketLoopLocalPort(packet) ==
  IF packet.message.length < RECEIVE_BUFFER_SIZE
  THEN {convertIPAddressAndPortToDeviceAddress([packet.from EXCEPT !.port = packet.to.port])}
  ELSE {}

(* A packet that fills the buffer is flushed.                                *)
UDPSocketLoop(packet) ==
  IF packet.message.length < RECEIVE_BUFFER_SIZE
  THEN {convertIPAddressAndPortToDeviceAddress(packet.from)}
  ELSE {}

(* WiFiUdpSocket has both, and the conversions, once more.                   *)
WiFiUdpSocketSend(destination, accepted) == UDPSocketSend(destination, accepted)
WiFiUdpSocketLoop(packet) == UDPSocketLoop(packet)

(* RHDatagramSocket *)

RHDatagramSocketSend(destination, accepted) ==
  [to |-> destination[1], returns |-> accepted]

RHDatagramSocketLoop(packet) == {device_address(packet.from)}

(* RHGenericDriverSocket *)

RHGenericDriverSocketSend(destination, accepted) ==
  [to |-> destination[1], returns |-> accepted]

(* Mutant: whatever the driver delivers is handed on.                        *)
RHGenericDriverSocketLoopUnfiltered(own_address, packet) ==
  {device_address(packet.from)}

RHGenericDriverSocketLoop(own_address, packet) ==
  IF packet.to \in {own_address[1], BroadcastEndpoint("RHGenericDriverSocket")}
  THEN {device_address(packet.from)}
  ELSE {}

(* SX1276Socket: the second byte is the destination, send() is never true,   *)
(* and a packet is handed on with the address it was sent to.                *)

SX1276SocketSend(destination, accepted) ==
  [to |-> destination[2], returns |-> FALSE]

SX1276SocketLoop(packet) == {device_address(packet.to)}

-----------------------------------------------------------------------------
(* SocketInterface *)

(* The endpoint of a send() and its result; accepted: the driver took it     *)
Send(socket, destination, accepted) ==
  CASE socket = "UDPSocket" -> UDPSocketSend(destination, accepted)
    [] socket = "WiFiUdpSocket" -> WiFiUdpSocketSend(destination, accepted)
    [] socket = "RHDatagramSocket" -> RHDatagramSocketSend(destination, accepted)
    [] socket = "RHGenericDriverSocket" -> RHGenericDriverSocketSend(destination, accepted)
    [] OTHER -> SX1276SocketSend(destination, accepted)

(* The address, if any, that loop() gives receiveData() with a packet        *)
Loop(socket, endpoint, packet) ==
  CASE socket = "UDPSocket" -> UDPSocketLoop(packet)
    [] socket = "WiFiUdpSocket" -> WiFiUdpSocketLoop(packet)
    [] socket = "RHDatagramSocket" -> RHDatagramSocketLoop(packet)
    [] socket = "RHGenericDriverSocket" -> RHGenericDriverSocketLoop(device_address(endpoint), packet)
    [] OTHER -> SX1276SocketLoop(packet)
=============================================================================
