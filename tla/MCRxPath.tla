------------------------------ MODULE MCRxPath ------------------------------
(* TLC instances of RxPath. *)
EXTENDS RxPath

\* The host that is told rxQueueNotEmpty finds a packet: "A packet was received
\* and is waiting in the receive queue" (HostIf/Commands.h:278).
ToldOfPacket == host = "told" => gRxQueue # <<>>

\* gRxAllocBytes is the "Total number of bytes allocated for receive packet
\* buffers" (Packet/Handler.h:290), and no more.
NothingLost == lost = 0
=============================================================================
