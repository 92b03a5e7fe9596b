------------------------------ MODULE HostLink ------------------------------
(***************************************************************************)
(* What the host gets to know over the link of HostIfTask: the handlers of *)
(* HostIf/Handlers/, with the receive queue, the interrupts and the        *)
(* counters they read and change, the radio task that goes on adding to    *)
(* them meanwhile, and the transfer that carries the answer, or does not.  *)
(*                                                                         *)
(* The host asks for a packet only after it was told of one, with the size *)
(* it was told, and acknowledges only interrupts that it knows of.         *)
(*                                                                         *)
(* Abstracted: a packet is its number; the handlers that are written to    *)
(* without a part in this (TxPath and Supervision model TransmitPacket and *)
(* BeaconConfig); the interrupt mask lets all through (IrqManager); one    *)
(* counter stands for all; the steps of HandleRxPacket are one (RxPath).   *)
(***************************************************************************)
EXTENDS HostIfTask

CONSTANTS
    MaxPackets,         \* bound: packets that arrive
    RxQueueSize         \* kMaxRxQueueSize

ASSUME MaxPacketsAssumption == MaxPackets \in Nat
ASSUME RxQueueSizeAssumption == RxQueueSize \in Nat \ {0}

VARIABLES
    arrived,            \* packets the radio task has read
    radioPc,            \* "idle", or where it is in ReadPacket: "count", "store"
    radioLoaded,        \* gRxFrames as the increment has read it
    gRxQueue,
    gRxFrames,
    packetReceived,     \* PacketReceived is in IrqManager::gActive
    gPbuf,
    response,           \* what the response under way says (gPayloadBuffer)
    knows,              \* the host has been told of a packet, not yet of an empty queue
    offered,            \* and may ask for one
    told,               \* history: the packets the host was given, ...
    lost,               \* ... those in responses that failed, ...
    missed,             \* ... an interrupt that was in one, ...
    counted,            \* ... the frames told or lost that way, ...
    refused,            \* ... the packets that were turned away, ...
    freed               \* ... and the buffers given back

queueVars == <<gRxQueue, packetReceived>>
radioVars == <<arrived, radioPc, radioLoaded, refused>>
knownVars == <<knows, offered, told, lost, missed, counted>>
linkVars == <<radioVars, queueVars, gRxFrames, gPbuf, response, knownVars, freed>>

-----------------------------------------------------------------------------
NoPacket == 0
Packets == 1 .. MaxPackets

\* What a response says: of the queue, of PacketReceived, a packet and a count.
Queue == {"untold", "empty", "waiting"}
Silent == [queue |-> "untold", interrupt |-> FALSE, packet |-> NoPacket, frames |-> 0]

QueueSays(state) == [Silent EXCEPT !.queue = state]
InterruptSays(pending) == [Silent EXCEPT !.interrupt = pending]
PacketSays(packet) == [Silent EXCEPT !.packet = packet]
CountersSay(frames) == [Silent EXCEPT !.frames = frames]

NoticeOf(answer) == answer.interrupt \/ answer.queue = "waiting"
PacketOf(answer) == {answer.packet} \ {NoPacket}

LinkTypeOK ==
    /\ TypeOK
    /\ arrived \in 0 .. MaxPackets
    /\ radioPc \in {"idle", "count", "store"}
    /\ gRxQueue \in Seq(Packets) /\ Len(gRxQueue) <= RxQueueSize
    /\ packetReceived \in BOOLEAN
    /\ gPbuf \in Packets \cup {NoPacket}
    /\ response.queue \in Queue
    /\ knows \in BOOLEAN /\ offered \in BOOLEAN
    /\ told \in Seq(Packets) /\ lost \subseteq Packets /\ missed \in BOOLEAN
    /\ counted \in Nat
    /\ refused \subseteq Packets

LinkInit ==
    /\ Init
    /\ arrived = 0 /\ radioPc = "idle" /\ radioLoaded = 0
    /\ gRxQueue = <<>> /\ packetReceived = FALSE
    /\ gRxFrames = 0
    /\ gPbuf = NoPacket
    /\ response = Silent
    /\ knows = FALSE /\ offered = FALSE
    /\ told = <<>> /\ lost = {} /\ missed = FALSE /\ counted = 0
    /\ refused = {}
    /\ freed = <<>>

-----------------------------------------------------------------------------
(* The radio task: Radio::Task::ReadPacket.                                 *)

\* Fault: the queue is looked at before the packet is in it.
AssertsBefore(before, after) == before # <<>>

\* UpdateRxQueueState.
Asserts(before, after) == after # <<>>

HandleRxPacket ==
    /\ radioPc = "idle"
    /\ arrived < MaxPackets
    /\ arrived' = arrived + 1
    /\ \/ /\ Len(gRxQueue) = RxQueueSize
          /\ refused' = refused \cup {arrived'}
          /\ UNCHANGED gRxQueue
       \/ /\ Len(gRxQueue) < RxQueueSize
          /\ gRxQueue' = Append(gRxQueue, arrived')
          /\ UNCHANGED refused
    /\ packetReceived' = (packetReceived \/ Asserts(gRxQueue, gRxQueue'))
    /\ radioPc' = "count"
    /\ UNCHANGED <<radioLoaded, gRxFrames, gPbuf, response, knownVars, freed>>

\* gRxFrames++, whether the packet was queued or not ...
CountFrame ==
    /\ radioPc = "count"
    /\ gRxFrames' = gRxFrames + 1
    /\ radioPc' = "idle"
    /\ UNCHANGED <<arrived, refused, radioLoaded, queueVars, gPbuf,
                   response, knownVars, freed>>

\* ... which is a load and a store.
LoadFrames ==
    /\ "torn" \in risks
    /\ radioPc = "count"
    /\ radioLoaded' = gRxFrames
    /\ radioPc' = "store"
    /\ UNCHANGED <<arrived, refused, queueVars, gRxFrames, gPbuf, response, knownVars,
                   freed>>

StoreFrames ==
    /\ radioPc = "store"
    /\ gRxFrames' = radioLoaded + 1
    /\ radioPc' = "idle"
    /\ radioLoaded' = 0
    /\ UNCHANGED <<arrived, refused, queueVars, gPbuf, response,
                   knownVars, freed>>

RadioTask == HandleRxPacket \/ CountFrame \/ LoadFrames \/ StoreFrames

-----------------------------------------------------------------------------
(* The handlers' DoRead, when it does not fail.                             *)

Says(answer) == response' = answer

\* Fault: front() is taken for a packet, also that of an empty queue.
QueueReadUnchecked ==
    /\ Says(QueueSays("waiting"))
    /\ UNCHANGED <<queueVars, gRxFrames, gPbuf>>

\* rxQueueNotEmpty, and rxPacketPending with the packet's size.
QueueRead ==
    /\ Says(QueueSays(IF gRxQueue = <<>> THEN "empty" ELSE "waiting"))
    /\ UNCHANGED <<queueVars, gRxFrames, gPbuf>>

\* PopRxQueue; of an empty queue, front() is no packet.
ReadPacketRead ==
    /\ gPbuf' = IF gRxQueue = <<>> THEN NoPacket ELSE Head(gRxQueue)
    /\ gRxQueue' = IF gRxQueue = <<>> THEN <<>> ELSE Tail(gRxQueue)
    /\ packetReceived' = (packetReceived \/ gRxQueue' # <<>>)
    /\ Says(PacketSays(gPbuf'))
    /\ UNCHANGED gRxFrames

\* Fault: the counters go on from where they are.
GetCountersKeeps ==
    /\ Says(CountersSay(gRxFrames))
    /\ UNCHANGED <<queueVars, gRxFrames, gPbuf>>

\* The two ReadCounters: etl::exchange.
GetCountersRead ==
    /\ Says(CountersSay(gRxFrames))
    /\ gRxFrames' = 0
    /\ UNCHANGED <<queueVars, gPbuf>>

\* What is pending, acknowledged in the same critical section.
IrqStatusRead ==
    /\ Says(InterruptSays(packetReceived))
    /\ packetReceived' = FALSE
    /\ commandError' = FALSE
    /\ UNCHANGED <<gRxQueue, gRxFrames, gPbuf>>

\* GetInfo, and the mask of IrqConfig.
GetInfoRead == Says(Silent) /\ UNCHANGED <<queueVars, gRxFrames, gPbuf>>

DoRead(h) ==
    \/ h \in {GetStatus, GetPacketQueueStatus} /\ QueueRead
    \/ h = ReadPacket /\ ReadPacketRead
    \/ h = GetCounters /\ GetCountersRead
    \/ h = IrqStatus /\ IrqStatusRead
    \/ h \in {GetInfo, IrqConfig} /\ GetInfoRead

\* PostRead: the buffer goes back, and an acknowledgement to the sender.
ReadPacketPostRead ==
    /\ freed' = Append(freed, gPbuf)
    /\ UNCHANGED <<queueVars, gRxFrames, gPbuf, response>>

\* DoWrite: the host may acknowledge PacketReceived; the rest is not seen here.
DoWrite(h) ==
    /\ \/ UNCHANGED packetReceived
       \/ h = IrqStatus /\ ~gErrorFlag' /\ knows /\ packetReceived' = FALSE
    /\ UNCHANGED <<gRxQueue, gRxFrames, gPbuf, response>>

\* What the handler call of a step of the task does.
Effect(call) ==
    \/ call.op = "read" /\ gErrorFlag'
          /\ UNCHANGED <<queueVars, gRxFrames, gPbuf, response, freed>>
    \/ call.op = "read" /\ ~gErrorFlag' /\ DoRead(call.handler) /\ UNCHANGED freed
    \/ call.op = "write" /\ DoWrite(call.handler) /\ UNCHANGED freed
    \/ call.op = "post" /\ ReadPacketPostRead

TaskSteps ==
    /\ Task
    /\ \/ /\ calls' = calls
          /\ UNCHANGED <<queueVars, gRxFrames, gPbuf, response, freed>>
       \/ calls' # calls /\ Effect(calls'[Len(calls')])
    /\ UNCHANGED <<radioVars, knownVars>>

-----------------------------------------------------------------------------
(* The host.                                                                *)

Reads(h, command) == h.command = command /\ h.read /\ h.payloadLength > 0

HostAsks ==
    /\ \E h \in Headers, ok \in BOOLEAN :
          /\ Reads(h, ReadPacket) => offered
          /\ HeaderReceived(h, ok)
          /\ offered' = (offered /\ ~(ok /\ Reads(h, ReadPacket)))
    /\ UNCHANGED <<radioVars, queueVars, gRxFrames, gPbuf, response, knows, told, lost,
                   missed, counted, freed>>

HostWrites ==
    /\ \E ok \in BOOLEAN : PayloadReceived(ok)
    /\ UNCHANGED linkVars

HostHears ==
    /\ ResponseTransmitted(TRUE)
    /\ told' = IF PacketOf(response) = {} THEN told ELSE Append(told, response.packet)
    /\ missed' = (missed /\ ~NoticeOf(response))
    /\ counted' = counted + response.frames
    /\ response' = Silent
    /\ knows' = IF response.queue = "empty" THEN FALSE
                ELSE knows \/ NoticeOf(response)
    /\ offered' = IF response.queue = "untold" THEN offered
                  ELSE response.queue = "waiting"
    /\ UNCHANGED <<radioVars, queueVars, gRxFrames, gPbuf, lost, freed>>

HostMishears ==
    /\ ResponseTransmitted(FALSE)
    /\ lost' = lost \cup PacketOf(response)
    /\ missed' = (missed \/ NoticeOf(response))
    /\ counted' = counted + response.frames
    /\ response' = Silent
    /\ UNCHANGED <<radioVars, queueVars, gRxFrames, gPbuf, knows, offered, told, freed>>

HostSteps == HostAsks \/ HostWrites \/ HostHears \/ HostMishears

LinkNext ==
    \/ HostSteps
    \/ TaskSteps
    \/ RadioTask /\ UNCHANGED vars

allVars == <<vars, linkVars>>

LinkFairness ==
    /\ WF_allVars(TaskSteps)
    /\ WF_allVars(HostHears)
    /\ WF_allVars(PayloadReceived(TRUE) /\ UNCHANGED linkVars)

LinkSpec == LinkInit /\ [][LinkNext]_allVars /\ LinkFairness

-----------------------------------------------------------------------------
(* Properties. *)

Elements(seq) == {seq[i] : i \in DOMAIN seq}
Ascending(seq) == \A i, j \in DOMAIN seq : i < j => seq[i] < seq[j]

\* The packets that have left the queue.
Taken == {p \in 1 .. arrived : p \notin refused \cup Elements(gRxQueue)}

\* Every packet that was let in comes to the host once and in the order of
\* arrival; a response whose transfer fails takes its packet with it, and only
\* that.  Each buffer is given back once, by the time the task listens again,
\* and never while its packet waits; nothing is read from an empty queue.
PacketsKept ==
    /\ Ascending(told)
    /\ Elements(told) \cap lost = {}
    /\ Taken = Elements(told) \cup lost \cup PacketOf(response)
    /\ Ascending(freed)
    /\ Elements(freed) \subseteq Taken
    /\ \A p \in Taken \ Elements(freed), q \in Elements(freed) : q < p
    /\ Running /\ spi = "header" => Elements(freed) = Taken

\* Each frame that was counted is told to the host once, whenever it asks, or
\* lost with a response that failed.  If the task reads the counters within the
\* increment the host is told of too many, never of too few.
Accounted ==
    LET read  == arrived - (IF radioPc = "idle" THEN 0 ELSE 1)
        found == counted + response.frames + gRxFrames
    IN  found >= read /\ ("torn" \notin risks => found = read)

\* No packet waits unnoticed: its interrupt is pending, or a response carries
\* it, or the host knows and will ask, or the transfer that last told it has
\* failed.  That is true although a read of the status acknowledges before the
\* answer is out, and whatever arrives between the two.
Noticed ==
    gRxQueue # <<>> => packetReceived \/ knows \/ missed \/ NoticeOf(response)
=============================================================================
