------------------------------- MODULE TxRace -------------------------------
(***************************************************************************)
(* HandleTxComplete as the processor runs it.  TxPath makes a step of each *)
(* of its statements and of each call into the packet handler; in fact the *)
(* HostIf task, whose priority is higher (Radio/Task.h, HostIf/Task.h),    *)
(* preempts the radio task between any two instructions, with a whole      *)
(* TransmitPacket.  Here the radio task goes from one access to what they  *)
(* share to the next, and each "++" and "--" is a load and a store.        *)
(*                                                                         *)
(* Abstracted: priorities (one queue), failures of CSMA and of memory, and *)
(* the beacon (TxPath).                                                    *)
(***************************************************************************)
EXTENDS Integers, Sequences

CONSTANTS
    MaxSubmitted,       \* bound: the packets the host submits
    MaxTxQueueSize      \* kMaxTxQueueSize

VARIABLES
    submitted,          \* history: the packets the host has submitted
    gTxPacketsPending,
    queue,              \* what the queue's ring holds
    currentSize,        \* the size etl::queue keeps of it
    gLastTx,            \* the packet the radio has, 0 if none
    air,                \* it is being sent
    note,               \* PacketTransmitted is pending
    radio,              \* where the radio task is
    register,           \* what it has loaded to change
    popped              \* the packet PopTxQueue has found

vars == <<submitted, gTxPacketsPending, queue, currentSize, gLastTx, air, note, radio, register,
          popped>>

Init ==
    /\ submitted = 0
    /\ gTxPacketsPending = 0
    /\ queue = <<>>
    /\ currentSize = 0
    /\ gLastTx = 0
    /\ air = FALSE
    /\ note = FALSE
    /\ radio = "waits"
    /\ register = 0
    /\ popped = 0

-----------------------------------------------------------------------------
\* Where the task's code ends: a REQUIRE, or a start RAIL refuses (TxPath).
Stopped == {"panic", "startFailed"}

\* TransmitPacket, in the HostIf task: Handler::QueueTxPacketFinal.
HostTransmits ==
    /\ radio \notin Stopped
    /\ submitted < MaxSubmitted /\ currentSize < MaxTxQueueSize
    /\ submitted' = submitted + 1
    /\ gTxPacketsPending' = gTxPacketsPending + 1
    /\ \/ /\ gTxPacketsPending = 0 /\ ~air
          /\ gLastTx' = submitted' /\ air' = TRUE
          /\ UNCHANGED <<queue, currentSize, radio>>
       \/ /\ gTxPacketsPending = 0 /\ air
          /\ radio' = "startFailed"
          /\ UNCHANGED <<queue, currentSize, gLastTx, air>>
       \/ /\ gTxPacketsPending # 0
          /\ queue' = Append(queue, submitted')
          /\ currentSize' = currentSize + 1
          /\ UNCHANGED <<gLastTx, air, radio>>
    /\ UNCHANGED <<note, register, popped>>

\* Task::IrqHandler: the packet is out.
Transmitted ==
    /\ air
    /\ air' = FALSE
    /\ note' = TRUE
    /\ UNCHANGED <<submitted, gTxPacketsPending, queue, currentSize, gLastTx, radio, register, popped>>

-----------------------------------------------------------------------------
(* The radio task. *)

Goes(from, to) == radio = from /\ radio' = to

Wake ==
    /\ note /\ note' = FALSE
    /\ Goes("waits", "discard")
    /\ UNCHANGED <<submitted, gTxPacketsPending, queue, currentSize, gLastTx, air, register, popped>>

\* --gTxPacketsPending, in DiscardTxPacket.
LoadPending ==
    /\ Goes("discard", "discarding")
    /\ register' = gTxPacketsPending
    /\ UNCHANGED <<submitted, gTxPacketsPending, queue, currentSize, gLastTx, air, note, popped>>

StorePending ==
    /\ Goes("discarding", "discarded")
    /\ gTxPacketsPending' = register - 1
    /\ UNCHANGED <<submitted, queue, currentSize, gLastTx, air, note, register, popped>>

ForgetLast ==
    /\ Goes("discarded", "test")
    /\ gLastTx' = 0
    /\ UNCHANGED <<submitted, gTxPacketsPending, queue, currentSize, air, note, register, popped>>

TestEmpty ==
    /\ \/ gTxPacketsPending = 0 /\ Goes("test", "waits")
       \/ gTxPacketsPending # 0 /\ Goes("test", "pop")
    /\ UNCHANGED <<submitted, gTxPacketsPending, queue, currentSize, gLastTx, air, note, register, popped>>

\* PopTxQueue: no packet, or the oldest.
PopNothing ==
    /\ currentSize = 0
    /\ Goes("pop", "popped")
    /\ popped' = 0
    /\ UNCHANGED <<submitted, gTxPacketsPending, queue, currentSize, gLastTx, air, note, register>>

PopOldest ==
    /\ currentSize # 0
    /\ Goes("pop", "popping")
    /\ popped' = Head(queue)
    /\ queue' = Tail(queue)
    /\ register' = currentSize
    /\ UNCHANGED <<submitted, gTxPacketsPending, currentSize, gLastTx, air, note>>

StoreSize ==
    /\ Goes("popping", "popped")
    /\ currentSize' = register - 1
    /\ UNCHANGED <<submitted, gTxPacketsPending, queue, gLastTx, air, note, register, popped>>

Require ==
    /\ popped = 0
    /\ Goes("popped", "panic")
    /\ UNCHANGED <<submitted, gTxPacketsPending, queue, currentSize, gLastTx, air, note, register, popped>>

\* TxPacketImmediate, under its critical section.
StartNext ==
    /\ popped # 0
    /\ Goes("popped", IF air THEN "startFailed" ELSE "waits")
    /\ IF air THEN UNCHANGED <<gLastTx, air>> ELSE gLastTx' = popped /\ air' = TRUE
    /\ UNCHANGED <<submitted, gTxPacketsPending, queue, currentSize, note, register, popped>>

Next ==
    \/ HostTransmits \/ Transmitted
    \/ Wake \/ LoadPending \/ StorePending \/ ForgetLast \/ TestEmpty
    \/ PopNothing \/ PopOldest \/ StoreSize \/ Require \/ StartNext

Spec == Init /\ [][Next]_vars

-----------------------------------------------------------------------------
\* The REQUIRE of HandleTxComplete (Radio/Task.cpp:275): when the handler says it
\* has packets, there is one to pop.
NextIsThere == radio = "popped" => popped # 0
=============================================================================
