------------------------------ MODULE RxPath ------------------------------
(***************************************************************************)
(* The receive path of the coprocessor: the RX half of the radio task and  *)
(* its RAIL event thunk (Radio/Task.cpp), the RX half of Packet::Handler   *)
(* (Packet/Handler.cpp, .h), and the host's commands that read packets     *)
(* (HostIf/Handlers/IrqStatus.h, GetPacketQueueStatus.h, ReadPacket.h).    *)
(*                                                                         *)
(* The HostIf task has the higher priority: it runs between any two steps  *)
(* of the radio task, and the radio task never between two of a handler.   *)
(* So ReadPacket and HandleRxPacket are taken apart here, and a command's  *)
(* handler is one step.                                                    *)
(*                                                                         *)
(* Abstracted: payloads, RSSI and LQI, the discard counters, the transmit  *)
(* side of QueueAck (TxPath), and the inside of etl::queue, which is not   *)
(* part of the repository: a push and a pop are one step each.             *)
(***************************************************************************)
EXTENDS Integers, Sequences, Functions

CONSTANTS
    Sizes,             \* sizeof(RxPacketBuffer) + info.packetBytes
    FifoSize,          \* packets that fit RAIL's receive FIFO
    MaxRxBufferSize,   \* kMaxRxBufferSize
    MaxRxQueueSize,    \* kMaxRxQueueSize
    MaxPackets         \* bound: packets received in a behaviour

ASSUME SizesAssumption == Sizes \subseteq Nat \ {0}
ASSUME LimitsAssumption ==
    /\ FifoSize \in Nat \ {0}
    /\ MaxRxBufferSize \in Nat
    /\ MaxRxQueueSize \in Nat \ {0}
    /\ MaxPackets \in Nat

VARIABLES
    arrived,            \* number of packets received, and the last one's number
    fifo,               \* complete packets in RAIL's receive FIFO, held there
    note,               \* NotifyBits::PacketReceived is pending
    pc,                 \* where the radio task is in ReadPacket, HandleRxPacket
    cur,                \* the packet of ReadPacket's info
    holding,            \* cur is still the oldest packet of the FIFO
    sum,                \* the register gRxAllocBytes is added to in
    heap,               \* the receive buffers that are allocated
    gRxQueue,
    gRxAllocBytes,
    gRxOverflowFlag,
    rxIrq,              \* PacketReceived is in IrqManager::gActive
    gPbuf,              \* ReadPacket::gPbuf, which is never reset
    host,               \* how far the host is in reading a packet
    lost,               \* history: bytes given back while gRxAllocBytes was added to
    sys                 \* "run", or why the firmware stopped

radioVars == <<pc, cur, sum>>
railVars == <<arrived, fifo, note, holding>>
handlerVars == <<heap, gRxQueue, gRxAllocBytes, gRxOverflowFlag>>
hostVars == <<gPbuf, host, lost>>
vars == <<arrived, fifo, note, pc, cur, holding, sum, heap, gRxQueue, gRxAllocBytes,
          gRxOverflowFlag, rxIrq, gPbuf, host, lost, sys>>

-----------------------------------------------------------------------------
\* ack: it asks for an acknowledgement and is for our address; intact: it has
\* the bytes that were received.
Packet == [id : Nat, size : Sizes \cup {0}, ack : BOOLEAN, intact : BOOLEAN]
NoPacket == [id |-> 0, size |-> 0, ack |-> FALSE, intact |-> FALSE]
Buffer(p) == [id |-> p.id, size |-> p.size]

Steps == {"idle", "info", "check", "alloc", "count", "store", "copy", "update", "assert",
          "release"}

TypeOK ==
    /\ arrived \in Nat
    /\ fifo \in Seq(Packet)
    /\ note \in BOOLEAN
    /\ pc \in Steps
    /\ cur \in Packet
    /\ holding \in BOOLEAN
    /\ sum \in Int
    /\ heap \subseteq [id : Nat, size : Sizes]
    /\ gRxQueue \in Seq(Packet)
    /\ gRxAllocBytes \in Int
    /\ gRxOverflowFlag \in BOOLEAN
    /\ rxIrq \in BOOLEAN
    /\ gPbuf \in Packet
    /\ host \in {"idle", "told", "sized", "response"}
    /\ lost \in Nat
    /\ sys \in {"run", "peekFault", "ackPanic"}

Init ==
    /\ arrived = 0
    /\ fifo = <<>>
    /\ note = FALSE
    /\ pc = "idle"
    /\ cur = NoPacket
    /\ holding = FALSE
    /\ sum = 0
    /\ heap = {}
    /\ gRxQueue = <<>>
    /\ gRxAllocBytes = 0
    /\ gRxOverflowFlag = FALSE
    /\ rxIrq = FALSE
    /\ gPbuf = NoPacket
    /\ host = "idle"
    /\ lost = 0
    /\ sys = "run"

Running == sys = "run"

-----------------------------------------------------------------------------
(* RAIL's interrupt: sl_rail_util_on_event. *)

\* RX_PACKET_RECEIVED: the packet is held, and the radio task notified.
RxPacketReceived(s, ack) ==
    /\ Running
    /\ arrived < MaxPackets
    /\ Len(fifo) < FifoSize
    /\ arrived' = arrived + 1
    /\ fifo' = Append(fifo, [id |-> arrived + 1, size |-> s, ack |-> ack, intact |-> TRUE])
    /\ note' = TRUE
    /\ UNCHANGED <<radioVars, holding, handlerVars, rxIrq, hostVars, sys>>

\* RAIL_ResetFifo(handle, _, true): held packets are discarded like the others.
ResetFifo ==
    /\ fifo' = <<>>
    /\ holding' = FALSE
    /\ UNCHANGED <<arrived, note, radioVars, handlerVars, rxIrq, hostVars, sys>>

\* RX_FIFO_OVERFLOW.
RxFifoOverflow ==
    /\ Running
    /\ Len(fifo) = FifoSize
    /\ ResetFifo

-----------------------------------------------------------------------------
(* The radio task: Main, ReadPacket and HandleRxPacket. *)

\* xTaskNotifyWaitIndexed returns with PacketReceived, and clears it.
RadioWake ==
    /\ Running
    /\ pc = "idle"
    /\ note
    /\ note' = FALSE
    /\ pc' = "info"
    /\ UNCHANGED <<arrived, fifo, cur, holding, sum, handlerVars, rxIrq, hostVars, sys>>

\* RAIL_GetRxPacketInfo: one packet for a notification, if there is one.
RadioGetInfo ==
    /\ Running
    /\ pc = "info"
    /\ \/ fifo = <<>> /\ pc' = "idle" /\ UNCHANGED <<cur, holding>>
       \/ fifo # <<>> /\ pc' = "check" /\ cur' = Head(fifo) /\ holding' = TRUE
    /\ UNCHANGED <<arrived, fifo, note, sum, handlerVars, rxIrq, hostVars, sys>>

Full == Len(gRxQueue) >= MaxRxQueueSize

\* The limits.  Meanwhile the HostIf task can only make room, so that looking
\* at both in one step loses nothing.
RadioCheck ==
    /\ Running
    /\ pc = "check"
    /\ LET room == ~Full /\ gRxAllocBytes + cur.size <= MaxRxBufferSize
       IN  /\ pc' = IF room THEN "alloc" ELSE "update"
           /\ gRxOverflowFlag' = (gRxOverflowFlag \/ ~room)
    /\ UNCHANGED <<railVars, cur, sum, heap, gRxQueue, gRxAllocBytes, rxIrq, hostVars, sys>>

\* malloc, from a heap that others use too.
RadioAlloc ==
    /\ Running
    /\ pc = "alloc"
    /\ \/ heap' = heap \cup {Buffer(cur)} /\ pc' = "count" /\ UNCHANGED gRxOverflowFlag
       \/ gRxOverflowFlag' = TRUE /\ pc' = "update" /\ UNCHANGED heap
    /\ UNCHANGED <<railVars, cur, sum, gRxQueue, gRxAllocBytes, rxIrq, hostVars, sys>>

\* gRxAllocBytes += requiredBytes: a load and an addition, ...
RadioCount ==
    /\ Running
    /\ pc = "count"
    /\ sum' = gRxAllocBytes + cur.size
    /\ pc' = "store"
    /\ UNCHANGED <<railVars, cur, handlerVars, rxIrq, hostVars, sys>>

\* ... and a store, which undoes what was given back since the load.
RadioStore ==
    /\ Running
    /\ pc = "store"
    /\ gRxAllocBytes' = sum
    /\ sum' = 0
    /\ pc' = "copy"
    /\ UNCHANGED <<railVars, cur, heap, gRxQueue, gRxOverflowFlag, rxIrq, hostVars, sys>>

\* Fault: the packet is put before the others.
QueuedFirst(p) == <<p>> \o gRxQueue

Queued(p) == Append(gRxQueue, p)

\* RAIL_CopyRxPacket, the look at the header, and emplace.  Of a packet that a
\* reset of the FIFO discarded, whatever bytes are there now are copied.
RadioCopy ==
    /\ Running
    /\ pc = "copy"
    /\ \/ holding /\ gRxQueue' = Queued(cur)
       \/ /\ ~holding
          /\ \E ack \in BOOLEAN :
                gRxQueue' = Queued([cur EXCEPT !.ack = ack, !.intact = FALSE])
    /\ pc' = "update"
    /\ UNCHANGED <<railVars, cur, sum, heap, gRxAllocBytes, gRxOverflowFlag, rxIrq, hostVars,
                   sys>>

\* UpdateRxQueueState, also where a packet was turned away: it looks, ...
RadioUpdate ==
    /\ Running
    /\ pc = "update"
    /\ pc' = IF gRxQueue = <<>> THEN "release" ELSE "assert"
    /\ UNCHANGED <<railVars, cur, sum, handlerVars, rxIrq, hostVars, sys>>

\* ... and asserts what it saw.
RadioAssert ==
    /\ Running
    /\ pc = "assert"
    /\ rxIrq' = TRUE
    /\ pc' = "release"
    /\ UNCHANGED <<railVars, cur, sum, handlerVars, hostVars, sys>>

\* RAIL_ReleaseRxPacket, and back to Main.
RadioRelease ==
    /\ Running
    /\ pc = "release"
    /\ fifo' = IF holding THEN Tail(fifo) ELSE fifo
    /\ holding' = FALSE
    /\ cur' = NoPacket
    /\ pc' = "idle"
    /\ UNCHANGED <<arrived, note, sum, handlerVars, rxIrq, hostVars, sys>>

-----------------------------------------------------------------------------
(* Commands of a host that is driven by the interrupt, as the HostIf task    *)
(* runs them, and preempts the radio task for them.                          *)

\* IrqStatus: the host is told of PacketReceived, which is acknowledged.
HostIrqStatus ==
    /\ Running
    /\ host = "idle"
    /\ rxIrq
    /\ rxIrq' = FALSE
    /\ host' = "told"
    /\ UNCHANGED <<railVars, radioVars, handlerVars, gPbuf, lost, sys>>

\* temp.rxPacketPending
RxPending == gRxQueue # <<>>

\* GetPacketQueueStatus.  It reads the size of the packet at the front of the
\* queue even if there is none: the pointer there is an old one then, or not
\* even that, and what reading through it does is open.
HostQueueStatus ==
    /\ Running
    /\ host = "told"
    /\ \/ host' = (IF RxPending THEN "sized" ELSE "idle") /\ UNCHANGED sys
       \/ gRxQueue = <<>> /\ sys' = "peekFault" /\ UNCHANGED host
    /\ UNCHANGED <<railVars, radioVars, handlerVars, rxIrq, gPbuf, lost>>

\* Fault: the interrupt is not asserted again for the packets that are left.
IrqAfterPopQuiet(queue) == rxIrq

\* UpdateRxQueueState in PopRxQueue.
IrqAfterPop(queue) == rxIrq \/ queue # <<>>

\* ReadPacket: PopRxQueue, and the response is handed to SPIDRV.
HostReadPacket ==
    /\ Running
    /\ host = "sized"
    /\ gRxQueue # <<>>
    /\ gPbuf' = Head(gRxQueue)
    /\ gRxQueue' = Tail(gRxQueue)
    /\ rxIrq' = IrqAfterPop(Tail(gRxQueue))
    /\ host' = "response"
    /\ UNCHANGED <<railVars, radioVars, heap, gRxAllocBytes, gRxOverflowFlag, lost, sys>>

\* Faults: the buffer is kept; the size of its header is not given back.
HeapAfterReadKept == heap
BytesAfterReadShort == gRxAllocBytes - gPbuf.size + 1

HeapAfterRead == heap \ {Buffer(gPbuf)}
BytesAfterRead == gRxAllocBytes - gPbuf.size

\* PostRead, when the response is out: DiscardRxPacket(gPbuf, true).  Whether
\* QueueAck's REQUIRE holds is up to the transmit path.
HostPostRead ==
    /\ Running
    /\ host = "response"
    /\ heap' = HeapAfterRead
    /\ gRxAllocBytes' = BytesAfterRead
    /\ lost' = IF pc = "store" THEN lost + gPbuf.size ELSE lost
    /\ host' = "idle"
    /\ \/ UNCHANGED sys
       \/ gPbuf.ack /\ sys' = "ackPanic"
    /\ UNCHANGED <<railVars, radioVars, gRxQueue, gRxOverflowFlag, rxIrq, gPbuf>>

\* RadioConfig: SetChannel resets the receive FIFO.
HostSetChannel ==
    /\ Running
    /\ host = "idle"
    /\ fifo # <<>>
    /\ ResetFifo

-----------------------------------------------------------------------------
Rail ==
    \/ \E s \in Sizes, ack \in BOOLEAN : RxPacketReceived(s, ack)
    \/ RxFifoOverflow

Radio ==
    \/ RadioWake
    \/ RadioGetInfo
    \/ RadioCheck
    \/ RadioAlloc
    \/ RadioCount
    \/ RadioStore
    \/ RadioCopy
    \/ RadioUpdate
    \/ RadioAssert
    \/ RadioRelease

HostReads ==
    \/ HostIrqStatus
    \/ HostQueueStatus
    \/ HostReadPacket
    \/ HostPostRead

Next == Rail \/ Radio \/ HostReads \/ HostSetChannel

Spec == Init /\ [][Next]_vars

\* The radio task runs when the HostIf task sleeps, and the host answers
\* interrupts and finishes reading a packet it began to read.
Fairness == WF_vars(Radio) /\ WF_vars(HostReads)

FairSpec == Spec /\ Fairness

-----------------------------------------------------------------------------
(* Properties.  Once the firmware has stopped nothing is claimed of it.    *)

\* Where a buffer can be: with the radio task, in the queue, or with ReadPacket.
Owned ==
    (IF pc \in {"count", "store", "copy"} THEN {Buffer(cur)} ELSE {})
        \cup {Buffer(gRxQueue[i]) : i \in 1 .. Len(gRxQueue)}
        \cup (IF host = "response" THEN {Buffer(gPbuf)} ELSE {})

\* Every allocated buffer is in one of these places, and every buffer there is
\* allocated: none leaks, none is used or freed a second time.
BuffersOwned == Running => heap = Owned

\* What gRxAllocBytes holds, or will once HandleRxPacket's addition is done.
Counted ==
    CASE pc = "count" -> gRxAllocBytes + cur.size
      [] pc = "store" -> sum
      [] OTHER        -> gRxAllocBytes

\* gRxAllocBytes is the "Total number of bytes allocated for receive packet
\* buffers" (Packet/Handler.h:290), and whatever ReadPacket gave back in the
\* middle of the addition, which is never given back again.  It is not too low
\* then, so that kMaxRxBufferSize is kept.
BytesCounted ==
    Running =>
        /\ Counted = SumFunction([b \in heap |-> b.size]) + lost
        /\ Counted <= MaxRxBufferSize

\* While packets wait in the queue, the host will hear of it: the interrupt is
\* asserted, or the radio task is about to assert it, or the host has been told
\* and is yet to read, which asserts it again if more packets are left.  The
\* host can rely on the interrupt alone (HostIf/Commands.h:142).
InterruptOwed ==
    Running /\ gRxQueue # <<>> =>
        rxIrq \/ pc \in {"update", "assert"} \/ host \in {"told", "sized"}

\* The packets the firmware holds: queued, in HandleRxPacket's hands, in RAIL's.
Ids(s) == [i \in 1 .. Len(s) |-> s[i].id]
InHand == IF pc \in {"check", "alloc", "count", "store", "copy"} THEN <<cur.id>> ELSE <<>>
Behind == IF holding THEN Tail(fifo) ELSE fifo
Held == Ids(gRxQueue) \o InHand \o Ids(Behind)

\* Packets reach the host in the order they were received, each at most once.
Abstract == INSTANCE LossyFifo WITH
    received <- arrived, held <- Held, delivered <- gPbuf.id
DeliversInOrder == Abstract!SafeSpec

\* Every packet that was queued gets to the host, unless the firmware stops.
QueuedIsRead ==
    \A n \in 1 .. MaxPackets :
        (\E i \in 1 .. Len(gRxQueue) : gRxQueue[i].id = n) ~> (gPbuf.id = n \/ ~Running)
============================================================================
