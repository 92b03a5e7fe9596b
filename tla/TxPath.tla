------------------------------ MODULE TxPath ------------------------------
(***************************************************************************)
(* The transmit path of the coprocessor: the TX half of Packet::Handler    *)
(* (Packet/Handler.cpp, .h), the TX half of the radio task and its RAIL    *)
(* event thunk (Radio/Task.cpp), and the beacon (BlazeNet/Beacon.cpp), as  *)
(* the HostIf task, the radio task, the timer task and the radio's         *)
(* interrupt drive them.                                                   *)
(*                                                                         *)
(* One call into the handler is one step: "Calls into the handler are not  *)
(* thread safe" (Packet/Handler.h:25), so serialised calls are the only    *)
(* ones it is meant to see.  What is done between two calls is not: the    *)
(* radio task ends a packet (HandleTxComplete) in five steps, and the      *)
(* HostIf task, whose priority is higher (HostIf/Task.h:49,                *)
(* Radio/Task.h:35), runs its commands between any two of them.  The timer *)
(* task has a lower priority than both (FreeRTOSConfig.h:76).              *)
(*                                                                         *)
(* Abstracted: payload bytes, the RSSI/priority wire format, the discard   *)
(* counters read by GetCounters, and logging.                              *)
(***************************************************************************)
EXTENDS Integers, Sequences, FiniteSets, Functions

CONSTANTS
    Buffers,           \* the packet buffers malloc has room for
    NoBuffer,          \* nullptr
    Sizes,             \* sizeof(TxPacketBuffer) + payload, for the payloads sent
    AckSizes,          \* the same, for acknowledgements; {} if no peer asks for one
    MaxTxBufferSize,   \* kMaxTxBufferSize
    MaxTxQueueSize,    \* kMaxTxQueueSize
    MaxCsmaFails,      \* kMaxCsmaFails
    SizeMax,           \* largest value of a size_t
    Risks              \* what the host may do that the code does not cope with

\* The enumerators of TxPacketPriority, Background to NetworkControl.
Priorities == 0 .. 3
NetworkControl == 3

\* "retune":    RadioConfig while a packet is on the air
\* "replace":   BeaconConfig with a payload when there already is one
\* "untuned":   TransmitPacket, or a beacon, before the first RadioConfig
\* "noPayload": BeaconConfig enabling a beacon that has no payload
AllRisks == {"retune", "replace", "untuned", "noPayload"}

ASSUME BuffersAssumption == NoBuffer \notin Buffers /\ IsFiniteSet(Buffers)
ASSUME SizesAssumption ==
    /\ Sizes \subseteq Nat \ {0}
    /\ AckSizes \subseteq Nat \ {0}
ASSUME LimitsAssumption ==
    /\ MaxTxBufferSize \in Nat
    /\ MaxTxQueueSize \in Nat
    /\ MaxCsmaFails \in 1 .. 255
    /\ SizeMax \in Nat
    /\ 4 * MaxTxQueueSize + 1 < SizeMax
ASSUME RisksAssumption == Risks \subseteq AllRisks

VARIABLES
    heap,               \* contents of each buffer (Freed when not allocated)
    queues,             \* gTxQueues
    gTxPacketsPending,
    gTxAllocBytes,
    gTxOverflowFlag,
    txEmptyIrq,         \* TxQueueEmpty is in IrqManager::gActive
    gPacket,            \* Beacon::gPacket
    gEnabled,           \* Beacon::gEnabled, and with it the beacon timer
    gLastTx,
    tuned,              \* gTxChannel is a channel RAIL accepts
    air,                \* RAIL has a transmission (or its CSMA) under way
    notes,              \* notification bits pending for the radio task
    work,               \* bits the radio task has fetched and not yet handled
    radio,              \* what the radio task does next in HandleTxComplete
    next,               \* its local variable there: the packet to start
    raced,              \* history: see Races
    sys                 \* "run", or why the firmware stopped

handlerVars == <<heap, queues, gTxPacketsPending, gTxAllocBytes, gTxOverflowFlag, txEmptyIrq>>
taskVars == <<radio, next>>
radioVars == <<gLastTx, tuned, air, notes, work, taskVars>>
beaconVars == <<gPacket, gEnabled>>
vars == <<heap, queues, gTxPacketsPending, gTxAllocBytes, gTxOverflowFlag, txEmptyIrq,
          gPacket, gEnabled, gLastTx, tuned, air, notes, work, radio, next, raced, sys>>

-----------------------------------------------------------------------------
(* Buffers and the size_t counters. *)

Freed == [size |-> 0, sticky |-> FALSE, csma |-> 0]
Packet == [size : Nat, sticky : BOOLEAN, csma : 0 .. 255]
\* Fault: the buffer's retry count is not cleared.
NewPacketDirty(s, isSticky) == [size |-> s, sticky |-> isSticky, csma |-> 1]

NewPacket(s, isSticky) == [size |-> s, sticky |-> isSticky, csma |-> 0]
Live(b) == heap[b].size > 0

\* size_t arithmetic: ++ and -- wrap around.
Inc(n) == IF n = SizeMax THEN 0 ELSE n + 1
Dec(n) == IF n = 0 THEN SizeMax ELSE n - 1

NoteBits == {"PacketTransmitted", "TxChannelBusy"}
\* "waits": it is not in HandleTxComplete; the others are its statements.
RadioSteps == {"waits", "forget", "test", "pop", "start"}
\* REQUIREs of the transmit path that can fail, and a null gLastTx used.
TxPanics == {"nullLastTx", "popFailed", "noLastTx", "startFailed"}
\* "locked": TxPacketImmediate returned early, its critical section still open.
Halts == TxPanics \cup {"locked", "ackPanic", "beaconPanic"}

TypeOK ==
    /\ heap \in [Buffers -> Packet]
    /\ queues \in [Priorities -> Seq(Buffers)]
    /\ gTxPacketsPending \in 0 .. SizeMax
    /\ gTxAllocBytes \in Int
    /\ gTxOverflowFlag \in BOOLEAN
    /\ txEmptyIrq \in BOOLEAN
    /\ gPacket \in Buffers \cup {NoBuffer}
    /\ gEnabled \in BOOLEAN
    /\ gLastTx \in Buffers \cup {NoBuffer}
    /\ tuned \in BOOLEAN
    /\ air \in BOOLEAN
    /\ notes \in SUBSET NoteBits
    /\ work \in SUBSET NoteBits
    /\ radio \in RadioSteps
    /\ next \in Buffers \cup {NoBuffer}
    /\ raced \in BOOLEAN
    /\ sys \in {"run"} \cup Halts

Init ==
    /\ heap = [b \in Buffers |-> Freed]
    /\ queues = [p \in Priorities |-> <<>>]
    /\ gTxPacketsPending = 0
    /\ gTxAllocBytes = 0
    /\ gTxOverflowFlag = FALSE
    /\ txEmptyIrq = FALSE
    /\ gPacket = NoBuffer
    /\ gEnabled = FALSE
    /\ gLastTx = NoBuffer
    /\ tuned = FALSE
    /\ air = FALSE
    /\ notes = {}
    /\ work = {}
    /\ radio = "waits"
    /\ next = NoBuffer
    /\ raced = FALSE
    /\ sys = "run"

-----------------------------------------------------------------------------
(* Packet::Handler *)

\* RAIL accepts a transmission: the channel is valid and none is under way.
CanStart == tuned /\ ~air

\* Fault: gLastTx is not updated.
StartForgotten(b) ==
    /\ CanStart
    /\ air' = TRUE
    /\ UNCHANGED gLastTx

\* TxPacketImmediate(b) returning 0.
Start(b) ==
    /\ CanStart
    /\ gLastTx' = b
    /\ air' = TRUE

\* Fault: the interrupt is updated before the count is.
UpdateTxQueueStateEarly(pending) ==
    IF gTxPacketsPending = 0 THEN txEmptyIrq' = TRUE ELSE UNCHANGED txEmptyIrq

\* UpdateTxQueueState, given the new value of gTxPacketsPending.
UpdateTxQueueState(pending) ==
    IF pending = 0 THEN txEmptyIrq' = TRUE ELSE UNCHANGED txEmptyIrq

\* Fault: a packet that skips the queue is not counted.
QueueTxPacketFinalUncounted(p, b) ==
    /\ \/ /\ gTxPacketsPending = 0
          /\ Start(b)
          /\ UNCHANGED <<queues, gTxPacketsPending>>
       \/ /\ gTxPacketsPending # 0
          /\ queues' = [queues EXCEPT ![p] = Append(@, b)]
          /\ gTxPacketsPending' = Inc(gTxPacketsPending)
          /\ UNCHANGED <<gLastTx, air>>
    /\ UpdateTxQueueState(Inc(gTxPacketsPending))

\* QueueTxPacketFinal, when TxPacketImmediate does not fail: with nothing
\* pending the packet skips the queue, otherwise it is put behind the others.
QueueTxPacketFinal(p, b) ==
    /\ gTxPacketsPending' = Inc(gTxPacketsPending)
    /\ \/ /\ gTxPacketsPending = 0
          /\ Start(b)
          /\ UNCHANGED queues
       \/ /\ gTxPacketsPending # 0
          /\ queues' = [queues EXCEPT ![p] = Append(@, b)]
          /\ UNCHANGED <<gLastTx, air>>
    /\ UpdateTxQueueState(Inc(gTxPacketsPending))

\* The conditions under which AllocTxPacket returns nullptr.
AllocFails(s) ==
    \/ gTxAllocBytes + s > MaxTxBufferSize
    \/ \A b \in Buffers : Live(b)

QueueFull(p) == Len(queues[p]) >= MaxTxQueueSize

\* Fault: the packet is counted as pending before the queue is looked at.
RefuseCounted ==
    /\ gTxOverflowFlag' = TRUE
    /\ gTxPacketsPending' = Inc(gTxPacketsPending)
    /\ UpdateTxQueueState(gTxPacketsPending)
    /\ UNCHANGED <<heap, queues, gTxAllocBytes, gLastTx, air>>

\* A packet is turned away before anything was done with it.
Refuse ==
    /\ gTxOverflowFlag' = TRUE
    /\ UpdateTxQueueState(gTxPacketsPending)
    /\ UNCHANGED <<heap, queues, gTxPacketsPending, gTxAllocBytes, gLastTx, air>>

\* QueueTxPacket(p, payload): refused ...
RefusePayload(p, s) ==
    /\ QueueFull(p) \/ AllocFails(s)
    /\ Refuse

\* ... or accepted in a buffer of its own ...
AcceptPayload(p, s, b) ==
    /\ ~QueueFull(p)
    /\ ~AllocFails(s)
    /\ ~Live(b)
    /\ heap' = [heap EXCEPT ![b] = NewPacket(s, FALSE)]
    /\ gTxAllocBytes' = gTxAllocBytes + s
    /\ QueueTxPacketFinal(p, b)
    /\ UNCHANGED gTxOverflowFlag

\* ... or allocated, not started, and discarded again (forced), with the
\* critical section of TxPacketImmediate left open.
FailPayload(p, s) ==
    /\ ~QueueFull(p)
    /\ ~AllocFails(s)
    /\ gTxPacketsPending = 0
    /\ ~CanStart
    /\ UpdateTxQueueState(0)
    /\ sys' = "locked"
    /\ UNCHANGED <<heap, queues, gTxPacketsPending, gTxAllocBytes, gTxOverflowFlag,
                   gLastTx, air>>

\* Faults: sticky packets are freed too; only forced ones are; bytes of a packet
\* that is kept are given back.
HeapAfterDiscardAlways(b, force) == [heap EXCEPT ![b] = Freed]
HeapAfterDiscardForced(b, force) ==
    IF heap[b].sticky \/ ~force THEN heap ELSE [heap EXCEPT ![b] = Freed]
BytesAfterDiscardAlways(b, force) == gTxAllocBytes - heap[b].size

\* The contents of the heap and the bytes in use once DiscardTxPacket(b, force)
\* has returned.
HeapAfterDiscard(b, force) ==
    IF heap[b].sticky /\ ~force THEN heap ELSE [heap EXCEPT ![b] = Freed]
BytesAfterDiscard(b, force) ==
    IF heap[b].sticky /\ ~force THEN gTxAllocBytes ELSE gTxAllocBytes - heap[b].size

\* Fault: the queues are searched in ascending order.
HighestLast(p) ==
    /\ queues[p] # <<>>
    /\ \A q \in Priorities : q < p => queues[q] = <<>>

\* The queue PopTxQueue takes its packet from.
Highest(p) ==
    /\ queues[p] # <<>>
    /\ \A q \in Priorities : q > p => queues[q] = <<>>

-----------------------------------------------------------------------------
(* Commands of the host, run by the HostIf task. *)

Running == sys = "run"

\* A packet is submitted between the discard of the last one that was pending
\* and the test for another, and started at once ("XXX: is this potentially
\* racy?", Radio/Task.cpp:272).
Races == radio \in {"forget", "test"} /\ gTxPacketsPending = 0 /\ gTxPacketsPending' # 0

\* TransmitPacket.
HostTransmit(p, s) ==
    /\ Running
    /\ tuned \/ "untuned" \in Risks
    /\ \/ RefusePayload(p, s) /\ UNCHANGED sys
       \/ \E b \in Buffers : AcceptPayload(p, s, b) /\ UNCHANGED sys
       \/ FailPayload(p, s)
    /\ raced' = (raced \/ Races)
    /\ UNCHANGED <<beaconVars, tuned, notes, work, taskVars>>

\* Radio::Task::QueueAck, when a packet that asked for it was read out.  Its
\* REQUIRE(!tx) lets the firmware go on only if no buffer was returned.
QueueAck(s) ==
    /\ Running
    /\ tuned
    /\ \/ RefusePayload(NetworkControl, s) /\ UNCHANGED sys
       \/ \E b \in Buffers : AcceptPayload(NetworkControl, s, b) /\ sys' = "ackPanic"
       \/ FailPayload(NetworkControl, s)
    /\ raced' = (raced \/ Races)
    /\ UNCHANGED <<beaconVars, tuned, notes, work, taskVars>>

\* RadioConfig with a valid channel: SetChannel resets the FIFOs and restarts
\* the receiver.  A transmission under way may be aborted; the event RAIL
\* raises for that is not one sl_rail_util_on_event looks at.
SetChannel ==
    /\ Running
    /\ air => "retune" \in Risks
    /\ air' \in {air, FALSE}
    /\ tuned' \in {tuned, TRUE}     \* unchanged if RAIL_StartRx fails
    /\ UNCHANGED <<handlerVars, beaconVars, gLastTx, notes, work, taskVars, raced, sys>>

\* Beacon::SetPayload: drop the old packet if there is one, allocate the new.
ReleaseThenAlloc(s, old, freeBytes, pending) ==
    \/ \* AllocTxPacket returns nullptr
       /\ \/ freeBytes + s > MaxTxBufferSize
          \/ \A b \in Buffers : old[b].size > 0
       /\ heap' = old
       /\ gTxAllocBytes' = freeBytes
       /\ gTxOverflowFlag' = TRUE
       /\ gPacket' = NoBuffer
       /\ UpdateTxQueueState(pending)
    \/ \* it returns a sticky packet
       /\ freeBytes + s <= MaxTxBufferSize
       /\ \E b \in Buffers :
             /\ old[b].size = 0
             /\ heap' = [old EXCEPT ![b] = NewPacket(s, TRUE)]
             /\ gPacket' = b
       /\ gTxAllocBytes' = freeBytes + s
       /\ UNCHANGED gTxOverflowFlag
       /\ IF gPacket # NoBuffer THEN UpdateTxQueueState(pending) ELSE UNCHANGED txEmptyIrq

SetPayload(s) ==
    \/ /\ gPacket = NoBuffer
       /\ ReleaseThenAlloc(s, heap, gTxAllocBytes, gTxPacketsPending)
       /\ UNCHANGED gTxPacketsPending
    \/ /\ gPacket # NoBuffer
       /\ "replace" \in Risks
       /\ ReleaseThenAlloc(s, HeapAfterDiscard(gPacket, TRUE),
                           BytesAfterDiscard(gPacket, TRUE), Dec(gTxPacketsPending))
       /\ gTxPacketsPending' = Dec(gTxPacketsPending)

\* BeaconConfig carrying a payload; the host turns the beacon on or leaves it.
BeaconConfigPayload(s, enable) ==
    /\ Running
    /\ SetPayload(s)
    /\ gEnabled' \in {gEnabled, enable}
    /\ UNCHANGED <<queues, radioVars, raced, sys>>

\* BeaconConfig without one.
BeaconConfig(enable) ==
    /\ Running
    /\ enable /\ gPacket = NoBuffer => "noPayload" \in Risks
    /\ gEnabled' = enable
    /\ UNCHANGED <<handlerVars, radioVars, gPacket, raced, sys>>

\* IrqStatus: the host reads, and with that acknowledges, TxQueueEmpty.
HostAcknowledge ==
    /\ Running
    /\ txEmptyIrq
    /\ txEmptyIrq' = FALSE
    /\ UNCHANGED <<heap, queues, gTxPacketsPending, gTxAllocBytes, gTxOverflowFlag,
                   beaconVars, radioVars, raced, sys>>

-----------------------------------------------------------------------------
(* The beacon timer, in the timer task: Beacon::EmitBeacon and             *)
(* QueueTxPacket(NetworkControl, gPacket).  It runs when the radio task     *)
(* waits: nothing in HandleTxComplete blocks.                               *)

BeaconMissing ==
    /\ gPacket = NoBuffer
    /\ sys' = "beaconPanic"
    /\ UNCHANGED <<handlerVars, gLastTx, air>>

BeaconRefused ==
    /\ gPacket # NoBuffer
    /\ QueueFull(NetworkControl)
    /\ Refuse
    /\ UNCHANGED sys

\* A sticky packet starts over with no CSMA failures each time it is queued.
BeaconQueued ==
    /\ gPacket # NoBuffer
    /\ ~QueueFull(NetworkControl)
    /\ heap' = [heap EXCEPT ![gPacket].csma = 0]
    /\ QueueTxPacketFinal(NetworkControl, gPacket)
    /\ UNCHANGED <<gTxAllocBytes, gTxOverflowFlag, sys>>

\* The error of TxPacketImmediate is handed up and ignored.
BeaconNotStarted ==
    /\ gPacket # NoBuffer
    /\ ~QueueFull(NetworkControl)
    /\ gTxPacketsPending = 0
    /\ ~CanStart
    /\ heap' = [heap EXCEPT ![gPacket].csma = 0]
    /\ gTxPacketsPending' = Inc(gTxPacketsPending)
    /\ sys' = "locked"
    /\ UNCHANGED <<queues, gTxAllocBytes, gTxOverflowFlag, txEmptyIrq, gLastTx, air>>

EmitBeacon ==
    /\ Running
    /\ radio = "waits"
    /\ gEnabled
    /\ tuned \/ "untuned" \in Risks
    /\ BeaconMissing \/ BeaconRefused \/ BeaconQueued \/ BeaconNotStarted
    /\ UNCHANGED <<beaconVars, tuned, notes, work, taskVars, raced>>

-----------------------------------------------------------------------------
(* The radio's interrupt: sl_rail_util_on_event. *)

RadioEvent(bit) ==
    /\ Running
    /\ air
    /\ air' = FALSE
    /\ notes' = notes \cup {bit}
    /\ UNCHANGED <<handlerVars, beaconVars, gLastTx, tuned, work, taskVars, raced, sys>>

\* TX_PACKET_SENT and TX_CHANNEL_BUSY.
TxPacketSent == RadioEvent("PacketTransmitted")
TxChannelBusy == RadioEvent("TxChannelBusy")

-----------------------------------------------------------------------------
(* The radio task. *)

Goes(from, to) == radio = from /\ radio' = to

\* xTaskNotifyWaitIndexed returns with all the bits, and clears them.
RadioWake ==
    /\ Running
    /\ radio = "waits"
    /\ work = {}
    /\ notes # {}
    /\ work' = notes
    /\ notes' = {}
    /\ UNCHANGED <<handlerVars, beaconVars, gLastTx, tuned, air, taskVars, raced, sys>>

\* DiscardTxPacket(gLastTx), the first statement of HandleTxComplete.
DiscardLast ==
    \/ /\ gLastTx # NoBuffer
       /\ heap' = HeapAfterDiscard(gLastTx, FALSE)
       /\ gTxAllocBytes' = BytesAfterDiscard(gLastTx, FALSE)
       /\ gTxPacketsPending' = Dec(gTxPacketsPending)
       /\ UpdateTxQueueState(Dec(gTxPacketsPending))
       /\ Goes("waits", "forget")
       /\ UNCHANGED <<queues, gTxOverflowFlag, sys>>
    \/ /\ gLastTx = NoBuffer
       /\ sys' = "nullLastTx"
       /\ UNCHANGED <<handlerVars, radio>>

\* The PacketTransmitted arm of the task's loop.
RadioTransmitted ==
    /\ Running
    /\ radio = "waits"
    /\ "PacketTransmitted" \in work
    /\ work' = work \ {"PacketTransmitted"}
    /\ DiscardLast
    /\ UNCHANGED <<beaconVars, gLastTx, tuned, air, notes, next, raced>>

\* gLastTx = nullptr.
ForgetLast ==
    /\ Running
    /\ Goes("forget", "test")
    /\ gLastTx' = NoBuffer
    /\ UNCHANGED <<handlerVars, beaconVars, tuned, air, notes, work, next, raced, sys>>

\* GetTxEmptyFlag: with nothing pending it is done.
TestEmpty ==
    /\ Running
    /\ Goes("test", IF gTxPacketsPending = 0 THEN "waits" ELSE "pop")
    /\ UNCHANGED <<handlerVars, beaconVars, gLastTx, tuned, air, notes, work, next, raced, sys>>

\* PopTxQueue, and the REQUIRE of a packet.
PopNext ==
    /\ Running
    /\ \/ \E p \in Priorities :
             /\ Highest(p)
             /\ next' = Head(queues[p])
             /\ queues' = [queues EXCEPT ![p] = Tail(@)]
             /\ Goes("pop", "start")
             /\ UNCHANGED sys
       \/ /\ \A p \in Priorities : queues[p] = <<>>
          /\ radio = "pop"
          /\ sys' = "popFailed"
          /\ UNCHANGED <<queues, taskVars>>
    /\ UNCHANGED <<heap, gTxPacketsPending, gTxAllocBytes, gTxOverflowFlag, txEmptyIrq,
                   beaconVars, gLastTx, tuned, air, notes, work, raced>>

\* TxPacketImmediate(next), in its critical section, and the REQUIRE after it.
StartNext ==
    /\ Running
    /\ Goes("start", "waits")
    /\ next' = NoBuffer
    /\ \/ Start(next) /\ UNCHANGED sys
       \/ ~CanStart /\ sys' = "startFailed" /\ UNCHANGED <<gLastTx, air>>
    /\ UNCHANGED <<handlerVars, beaconVars, tuned, notes, work, raced>>

\* What follows the discard.
HandleTxComplete == ForgetLast \/ TestEmpty \/ PopNext \/ StartNext

\* Fault: failures are not counted.
CsmaFailsUncounted == heap[gLastTx].csma

\* ++gLastTx->csmaFailCount, a uint8_t.
CsmaFails == (heap[gLastTx].csma + 1) % 256

\* The TxChannelBusy arm, which comes after it: try again ...
RadioRetry ==
    /\ CsmaFails < MaxCsmaFails
    /\ heap' = [heap EXCEPT ![gLastTx].csma = CsmaFails]
    /\ \/ Start(gLastTx) /\ UNCHANGED sys
       \/ ~CanStart /\ sys' = "startFailed" /\ UNCHANGED <<gLastTx, air>>
    /\ UNCHANGED <<queues, gTxPacketsPending, gTxAllocBytes, gTxOverflowFlag, txEmptyIrq, radio>>

\* ... or give the packet up.  A sticky packet keeps its count of failures.
RadioGiveUp ==
    /\ CsmaFails >= MaxCsmaFails
    /\ heap' = IF heap[gLastTx].sticky THEN [heap EXCEPT ![gLastTx].csma = CsmaFails]
               ELSE HeapAfterDiscard(gLastTx, FALSE)
    /\ gTxAllocBytes' = BytesAfterDiscard(gLastTx, FALSE)
    /\ gTxPacketsPending' = Dec(gTxPacketsPending)
    /\ UpdateTxQueueState(Dec(gTxPacketsPending))
    /\ Goes("waits", "forget")
    /\ UNCHANGED <<queues, gTxOverflowFlag, gLastTx, air, sys>>

RadioBusy ==
    /\ Running
    /\ radio = "waits"
    /\ "TxChannelBusy" \in work
    /\ "PacketTransmitted" \notin work
    /\ work' = work \ {"TxChannelBusy"}
    /\ \/ gLastTx # NoBuffer /\ (RadioRetry \/ RadioGiveUp)
       \/ gLastTx = NoBuffer /\ sys' = "noLastTx" /\ UNCHANGED <<handlerVars, gLastTx, air, radio>>
    /\ UNCHANGED <<beaconVars, tuned, notes, next, raced>>

-----------------------------------------------------------------------------
Submit ==
    \/ \E p \in Priorities, s \in Sizes : HostTransmit(p, s)
    \/ \E s \in AckSizes : QueueAck(s)
    \/ EmitBeacon

Configure ==
    \/ SetChannel
    \/ \E s \in Sizes, e \in BOOLEAN : BeaconConfigPayload(s, e)
    \/ \E e \in BOOLEAN : BeaconConfig(e)
    \/ HostAcknowledge

Progress ==
    \/ TxPacketSent
    \/ TxChannelBusy
    \/ RadioWake
    \/ RadioTransmitted
    \/ RadioBusy
    \/ HandleTxComplete

Next == Submit \/ Configure \/ Progress

Spec == Init /\ [][Next]_vars

\* RAIL ends every transmission with an event, and the radio task runs when it
\* has been notified: the other tasks block between commands and ticks.
Fairness ==
    /\ WF_vars(TxPacketSent \/ TxChannelBusy)
    /\ WF_vars(RadioWake)
    /\ WF_vars(RadioTransmitted)
    /\ WF_vars(RadioBusy)
    /\ WF_vars(HandleTxComplete)

FairSpec == Spec /\ Fairness

-----------------------------------------------------------------------------
(* Properties.  Of firmware that has stopped nothing is claimed, and most    *)
(* is claimed only until a submission has raced with HandleTxComplete.       *)

Orderly == Running /\ ~raced

\* The packet the radio side holds: in the air or about to be, or what is to
\* become of its transmission still to be looked at.
Serving ==
    IF radio = "forget" THEN NoBuffer       \* freed; gLastTx is not used before it is reset
    ELSE IF radio = "start" THEN next
    ELSE gLastTx

InFlight == IF Serving = NoBuffer THEN 0 ELSE 1

\* gTxPacketsPending is the number of packets the radio side holds and of those
\* in the queues: "Total number of packets pending (if 0, transmit directly)"
\* (Packet/Handler.h:311).  QueueTxPacketFinal decides on it whether the radio
\* is idle, and GetStatus reports it to the host.
PendingCounts ==
    Orderly => gTxPacketsPending = InFlight + Len(queues[0]) + Len(queues[1])
                                     + Len(queues[2]) + Len(queues[3])

InQueue(b) == \E p \in Priorities : \E i \in 1 .. Len(queues[p]) : queues[p][i] = b

\* Every pointer that is kept in a queue, by the radio task or in
\* Beacon::gPacket is to an allocated buffer.
PointersLive ==
    /\ \A p \in Priorities : \A i \in 1 .. Len(queues[p]) : Live(queues[p][i])
    /\ Serving # NoBuffer => Live(Serving)
    /\ gPacket # NoBuffer => Live(gPacket)

\* Of a packet that is freed once it is sent there is only one pointer, so that
\* freeing it leaves none behind.
PointersUnique ==
    \A p, q \in Priorities : \A i \in 1 .. Len(queues[p]) :
        ~heap[queues[p][i]].sticky =>
            /\ queues[p][i] # Serving
            /\ \A j \in 1 .. Len(queues[q]) :
                  queues[p][i] = queues[q][j] => p = q /\ i = j

\* No use after free and no double free (DiscardTxPacket, HandleTxComplete).
NoDangling == Orderly => PointersLive /\ PointersUnique

\* Every allocated buffer can still be reached: none is leaked by a packet that
\* was refused, sent or given up.
NoLeak ==
    Orderly => \A b \in Buffers : Live(b) => b = gPacket \/ b = Serving \/ InQueue(b)

\* gTxAllocBytes is the number of bytes in the buffers that are allocated; the
\* limit kMaxTxBufferSize is enforced against it.
BytesAccounted ==
    /\ gTxAllocBytes = SumFunction([b \in Buffers |-> heap[b].size])
    /\ gTxAllocBytes <= MaxTxBufferSize

\* While the radio has a packet, exactly one thing that will make the radio task
\* look at it is outstanding: the transmission, a notification bit, or a bit the
\* task has fetched.  Otherwise, and while the task ends one packet and starts
\* the next, there is none.
OneEvent ==
    \/ air /\ notes = {} /\ work = {}
    \/ ~air /\ work = {} /\ \E n \in NoteBits : notes = {n}
    \/ ~air /\ notes = {} /\ \E n \in NoteBits : work = {n}
NoEvent == ~air /\ notes = {} /\ work = {}
EventOwed ==
    Orderly => IF radio = "waits" /\ gLastTx # NoBuffer THEN OneEvent ELSE NoEvent

\* None of the transmit path's REQUIREs fails (Radio/Task.cpp:139, 147, 275,
\* 278), nor is gLastTx null when HandleTxComplete discards it, unless before
\* that a packet was submitted in the window that line 272 wonders about.
OnlyRacePanics == sys \in TxPanics => raced

\* The host is told each time the last pending packet is gone, and not before
\* ("Set: All pending packets are transmitted", HostIf/IrqManager.h:44).
DrainReported ==
    [][/\ gTxPacketsPending # 0 /\ gTxPacketsPending' = 0 => txEmptyIrq'
       /\ ~txEmptyIrq /\ txEmptyIrq' => gTxPacketsPending' = 0]_vars

\* Until a submission races, packets are served as PriorityTx promises.
Abstract == INSTANCE PriorityTx WITH
    Packets <- Buffers, Nobody <- NoBuffer, waiting <- queues, serving <- Serving
ServesByPriority == Abstract!Init /\ [][Abstract!Next \/ raced']_(Abstract!vars)

\* Unless the firmware stops, either packets keep being submitted for ever or
\* what was submitted is sent, or given up, to the last packet.
Drains ==
    \/ <>(~Running)
    \/ []<><<Submit>>_vars
    \/ <>[](gTxPacketsPending = 0)

\* A packet queued as NetworkControl, an acknowledgement for one, gets its turn
\* whatever else is submitted; beacons are queued with the same priority and may
\* even reset the count of failures of the one on the air.
NetworkControlServed ==
    \A b \in Buffers :
        (InQueue(b) /\ ~heap[b].sticky /\ \E i \in 1 .. Len(queues[NetworkControl]) :
            queues[NetworkControl][i] = b)
        ~> (~InQueue(b) \/ ~Running)
============================================================================
