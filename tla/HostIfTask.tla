---------------------------- MODULE HostIfTask ----------------------------
(***************************************************************************)
(* The host interface task (HostIf/Task.cpp) with the completion callbacks *)
(* that SPIDRV runs in interrupt context, and the command table            *)
(* (HostIf/CommandHandlers.cpp), against a host that speaks the protocol   *)
(* of HostIf/Commands.h: a two-byte header, then the bytes of a payload,   *)
(* written by the host or read by it.                                      *)
(*                                                                         *)
(* There is no handshake: the host only ever clocks a transfer, and which  *)
(* transfer that is depends on what the task has armed by then.            *)
(*                                                                         *)
(* Abstracted: what the handlers do besides succeeding or failing          *)
(* (HostLink, TxPath and RxPath model that), payload bytes, logging, the   *)
(* watchdog's kick.                                                        *)
(***************************************************************************)
EXTENDS Naturals, Sequences

CONSTANTS
    Cmds,        \* the command ids the host sends, with the read bit removed
    Lens,        \* the payload lengths it asks for
    NoHandler,   \* nullptr
    NoHeader,    \* no command was got through to the coprocessor
    RiskSets     \* bound: what may happen in a behaviour that the code does
                 \* not cope with

\* "unreadable":     the host reads from a command that can only be written
\* "failedRead":     a read handler returns an error
\* "unknown":        a payload follows a command id beyond the table
\* "offByOne":       the id is the first one beyond the table
\* "failedPayload":  the transfer of a payload ends with an error
\* "eager":          the host clocks the payload as soon as its transfer is armed
\* "failedResponse": the transfer of a response ends with an error
\* "torn":           the task runs within gRxFrames++ of the radio task (HostLink)
AllRisks == {"unreadable", "failedRead", "unknown", "offByOne", "failedPayload", "eager",
             "failedResponse", "torn"}

ASSUME CmdsAssumption == Cmds \subseteq 0 .. 127 /\ NoHandler \notin Cmds
ASSUME LensAssumption == Lens \subseteq 0 .. 255
ASSUME RisksAssumption == RiskSets \subseteq SUBSET AllRisks

VARIABLES
    spi,                    \* the transfer SPIDRV has under way, or "idle"
    gCommandBuffer,
    gCommandBufferValid,
    gCurrentHandler,
    gPayloadBytesReceived,
    gErrorFlag,
    commandError,           \* CommandError is in IrqManager::gActive
    notes,                  \* notification bits pending for the task
    work,                   \* bits the task has fetched and not yet handled
    pc,                     \* "wait": blocked, "run": in Main's loop,
                            \* "clear": between lines 131 and 132 of ProcessCommand
    host,                   \* the transfer the host is to clock next
    asked,                  \* the last header the host got through
    calls,                  \* the handler calls made for it
    risks,                  \* those of this behaviour
    sys                     \* "run", or why the firmware stopped

errorVars == <<gErrorFlag, commandError>>
taskVars == <<gCurrentHandler, errorVars, work, pc, sys>>
hostVars == <<host, asked, risks>>
vars == <<spi, gCommandBuffer, gCommandBufferValid, gCurrentHandler, gPayloadBytesReceived,
          gErrorFlag, commandError, notes, work, pc, host, asked, calls, risks, sys>>

-----------------------------------------------------------------------------
(* The command table. *)

NumCommands == 11
NoOp == 0
GetInfo == 1
GetStatus == 3
IrqConfig == 4
GetPacketQueueStatus == 5
ReadPacket == 6
GetCounters == 9
IrqStatus == 10

SupportsRead == {GetInfo, GetStatus, IrqConfig, GetPacketQueueStatus, ReadPacket, GetCounters, IrqStatus}
SupportsWrite == {NoOp, 2, IrqConfig, 7, 8, IrqStatus}
\* Fault: every command that is read has something done after the read.
WantsPostReadAll == SupportsRead

WantsPostRead == {ReadPacket}

\* Handlers with a path that returns an error.
ReadMayFail == {GetCounters}
WriteMayFail == SupportsWrite \ {NoOp}

Headers == [command : Cmds, read : BOOLEAN, payloadLength : Lens]

ASSUME NoHeaderAssumption == NoHeader \notin Headers

NoteBits == {"CmdReceiveComplete", "PayloadReceiveComplete", "ResponseTransmitComplete"}
Transfers == {"header", "payload", "response"}
Calls == [op : {"write", "read", "post"}, handler : Cmds, bytes : Nat]
Call(op, handler, bytes) == [op |-> op, handler |-> handler, bytes |-> bytes]
Halts == {"outOfTable", "nullHandler", "spiBusy", "returned"}

TypeOK ==
    /\ spi \in Transfers \cup {"idle"}
    /\ gCommandBuffer \in Headers \cup {NoHeader}
    /\ gCommandBufferValid \in BOOLEAN
    /\ gCurrentHandler \in Cmds \cup {NoHandler}
    /\ gPayloadBytesReceived \in Lens \cup {0}
    /\ gErrorFlag \in BOOLEAN
    /\ commandError \in BOOLEAN
    /\ notes \in SUBSET NoteBits
    /\ work \in SUBSET NoteBits
    /\ pc \in {"wait", "run", "clear"}
    /\ host \in Transfers
    /\ asked \in Headers \cup {NoHeader}
    /\ calls \in Seq(Calls)
    /\ risks \in RiskSets
    /\ sys \in {"run"} \cup Halts

\* Main has armed the first header and blocks.
Init ==
    /\ spi = "header"
    /\ gCommandBuffer = NoHeader
    /\ gCommandBufferValid = FALSE
    /\ gCurrentHandler = NoHandler
    /\ gPayloadBytesReceived = 0
    /\ gErrorFlag = FALSE
    /\ commandError = FALSE
    /\ notes = {}
    /\ work = {}
    /\ pc = "wait"
    /\ host = "header"
    /\ asked = NoHeader
    /\ calls = <<>>
    /\ risks \in RiskSets
    /\ sys = "run"

Running == sys = "run"

-----------------------------------------------------------------------------
(* The host clocks a transfer, and SPIDRV calls back from its interrupt.    *)

\* What the host is to clock after the header h.
Follows(h) ==
    IF h.payloadLength = 0 THEN "header" ELSE IF h.read THEN "response" ELSE "payload"

\* The headers a host sends that keeps to the table, or at a risk.
Sane(h) ==
    /\ h.command = NumCommands => "offByOne" \in risks
    /\ h.command > NumCommands /\ h.payloadLength > 0 => "unknown" \in risks
    /\ h.read /\ h.payloadLength > 0 /\ h.command < NumCommands =>
          h.command \in SupportsRead \/ "unreadable" \in risks

\* A header; if its transfer fails the host starts over, and nobody looks at
\* what is in the buffer.
HeaderReceived(h, ok) ==
    /\ Running
    /\ host = "header"
    /\ spi = "header"
    /\ Sane(h)
    /\ spi' = "idle"
    /\ gCommandBuffer' = IF ok THEN h ELSE NoHeader
    /\ gCommandBufferValid' = ok
    /\ notes' = notes \cup {"CmdReceiveComplete"}
    /\ host' = IF ok THEN Follows(h) ELSE "header"
    /\ asked' = IF ok THEN h ELSE NoHeader
    /\ calls' = <<>>
    /\ UNCHANGED <<taskVars, gPayloadBytesReceived, risks>>

BytesReceived(ok) == IF ok THEN gCommandBuffer.payloadLength ELSE 0

PayloadReceived(ok) ==
    /\ Running
    /\ host = "payload"
    /\ spi = "payload"
    /\ pc = "wait" \/ "eager" \in risks
    /\ ok \/ "failedPayload" \in risks
    /\ spi' = "idle"
    /\ gPayloadBytesReceived' = BytesReceived(ok)
    /\ notes' = notes \cup {"PayloadReceiveComplete"}
    /\ host' = "header"
    /\ UNCHANGED <<taskVars, gCommandBuffer, gCommandBufferValid, asked, calls, risks>>

\* The status is not looked at.
ResponseTransmitted(ok) ==
    /\ Running
    /\ host = "response"
    /\ spi = "response"
    /\ ok \/ "failedResponse" \in risks
    /\ spi' = "idle"
    /\ notes' = notes \cup {"ResponseTransmitComplete"}
    /\ host' = "header"
    /\ UNCHANGED <<taskVars, gCommandBuffer, gCommandBufferValid, gPayloadBytesReceived,
                   asked, calls, risks>>

-----------------------------------------------------------------------------
(* What the task's functions do. *)

\* SPIDRV_SReceive and SPIDRV_STransmit, with the REQUIRE that they accept.
Arm(transfer) ==
    \/ spi = "idle" /\ spi' = transfer /\ UNCHANGED sys
    \/ spi # "idle" /\ sys' = "spiBusy" /\ UNCHANGED spi

\* Fault: the state is cleared, but no transfer is started.
ReadCommandUnarmed ==
    /\ gCommandBufferValid' = FALSE
    /\ gCurrentHandler' = NoHandler
    /\ UNCHANGED <<spi, sys>>

ReadCommand ==
    /\ gCommandBufferValid' = FALSE
    /\ gCurrentHandler' = NoHandler
    /\ Arm("header")

\* gErrorFlag and the interrupt after a handler that failed or not.  IrqStatus
\* acknowledges CommandError if the host's mask or its request says so.
Outcome(h, failed) ==
    /\ gErrorFlag' = failed
    /\ \/ failed /\ commandError' = TRUE
       \/ ~failed /\ h # IrqStatus /\ UNCHANGED commandError
       \/ ~failed /\ h = IrqStatus /\ commandError' \in {commandError, FALSE}

\* DispatchCommand, with h the current handler and a payload of n bytes.
DispatchCommand(h, n) ==
    \/ h \notin SupportsWrite /\ UNCHANGED <<errorVars, calls>>
    \/ /\ h \in SupportsWrite
       /\ \E failed \in BOOLEAN : (failed => h \in WriteMayFail) /\ Outcome(h, failed)
       /\ calls' = Append(calls, Call("write", h, n))

\* The calls of DispatchCommandPostRead.
PostRead(h) == IF h \in WantsPostRead THEN <<Call("post", h, 0)>> ELSE <<>>

\* DispatchCommandWithResponse: there is no such response, ...
NotReadable(h) ==
    /\ h \notin SupportsRead
    /\ UNCHANGED <<spi, sys, errorVars, calls>>

\* ... the handler fails, and there is none, ...
ReadFails(h, n) ==
    /\ h \in ReadMayFail
    /\ "failedRead" \in risks
    /\ Outcome(h, TRUE)
    /\ calls' = Append(calls, Call("read", h, n)) \o PostRead(h)
    /\ UNCHANGED <<spi, sys>>

\* ... or it is handed to SPIDRV.
ReadResponds(h, n) ==
    /\ h \in SupportsRead
    /\ Outcome(h, FALSE)
    /\ calls' = Append(calls, Call("read", h, n))
    /\ Arm("response")

-----------------------------------------------------------------------------
(* The task's loop. *)

TaskWake ==
    /\ Running
    /\ pc = "wait"
    /\ notes # {}
    /\ work' = notes
    /\ notes' = {}
    /\ pc' = "run"
    /\ UNCHANGED <<spi, gCommandBuffer, gCommandBufferValid, gCurrentHandler,
                   gPayloadBytesReceived, errorVars, hostVars, calls, sys>>

\* The bit is dealt with; with none left the task blocks again.
Handled(bit) ==
    /\ work' = work \ {bit}
    /\ pc' = IF work \subseteq {bit} THEN "wait" ELSE "run"

HandlesHeader ==
    /\ Running
    /\ pc = "run"
    /\ "CmdReceiveComplete" \in work
    /\ UNCHANGED <<gCommandBuffer, notes, hostVars>>

\* Fault: the command id is not looked at.
BeyondTableNever(c) == FALSE

\* The check of ProcessCommand.
BeyondTable(c) == c > NumCommands

\* Nothing usable was received: read the next header.
HeaderIgnored ==
    /\ HandlesHeader
    /\ gCommandBufferValid => BeyondTable(gCommandBuffer.command)
    /\ ReadCommand
    /\ Handled("CmdReceiveComplete")
    /\ UNCHANGED <<gPayloadBytesReceived, errorVars, calls>>

\* gHandlers has NumCommands entries.
HeaderMisindexed ==
    /\ HandlesHeader
    /\ gCommandBufferValid
    /\ ~BeyondTable(gCommandBuffer.command)
    /\ gCommandBuffer.command >= NumCommands
    /\ sys' = "outOfTable"
    /\ UNCHANGED <<spi, gCommandBufferValid, gCurrentHandler, gPayloadBytesReceived, errorVars,
                   work, pc, calls>>

HeaderAccepted ==
    /\ HandlesHeader
    /\ gCommandBufferValid
    /\ ~BeyondTable(gCommandBuffer.command)
    /\ gCommandBuffer.command < NumCommands

\* A command without payload is dispatched as a write, read bit or not.
CommandAlone ==
    /\ HeaderAccepted
    /\ gCommandBuffer.payloadLength = 0
    /\ DispatchCommand(gCommandBuffer.command, 0)
    /\ ReadCommand
    /\ Handled("CmdReceiveComplete")
    /\ UNCHANGED gPayloadBytesReceived

CommandRead ==
    /\ HeaderAccepted
    /\ gCommandBuffer.payloadLength # 0
    /\ gCommandBuffer.read
    /\ gCurrentHandler' = gCommandBuffer.command
    /\ \/ NotReadable(gCommandBuffer.command)
       \/ ReadFails(gCommandBuffer.command, gCommandBuffer.payloadLength)
       \/ ReadResponds(gCommandBuffer.command, gCommandBuffer.payloadLength)
    /\ Handled("CmdReceiveComplete")
    /\ UNCHANGED <<gCommandBufferValid, gPayloadBytesReceived>>

\* ReadPayload; the count is cleared once more after it has returned.
CommandWritten ==
    /\ HeaderAccepted
    /\ gCommandBuffer.payloadLength # 0
    /\ ~gCommandBuffer.read
    /\ gCurrentHandler' = gCommandBuffer.command
    /\ gPayloadBytesReceived' = 0
    /\ Arm("payload")
    /\ pc' = "clear"
    /\ UNCHANGED <<gCommandBufferValid, errorVars, work, calls>>

CountCleared ==
    /\ Running
    /\ pc = "clear"
    /\ gPayloadBytesReceived' = 0
    /\ Handled("CmdReceiveComplete")
    /\ UNCHANGED <<spi, gCommandBuffer, gCommandBufferValid, gCurrentHandler, errorVars, notes,
                   hostVars, calls, sys>>

PayloadHandled ==
    /\ Running
    /\ pc = "run"
    /\ "PayloadReceiveComplete" \in work
    /\ "CmdReceiveComplete" \notin work
    /\ UNCHANGED <<gCommandBuffer, gPayloadBytesReceived, notes, hostVars>>
    /\ \/ \* break: Main returns
          /\ gPayloadBytesReceived = 0
          /\ sys' = "returned"
          /\ UNCHANGED <<spi, gCommandBufferValid, gCurrentHandler, errorVars, work, pc, calls>>
       \/ /\ gPayloadBytesReceived # 0
          /\ gCurrentHandler = NoHandler
          /\ sys' = "nullHandler"
          /\ UNCHANGED <<spi, gCommandBufferValid, gCurrentHandler, errorVars, work, pc, calls>>
       \/ /\ gPayloadBytesReceived # 0
          /\ gCurrentHandler # NoHandler
          /\ DispatchCommand(gCurrentHandler, gPayloadBytesReceived)
          /\ ReadCommand
          /\ Handled("PayloadReceiveComplete")

ResponseHandled ==
    /\ Running
    /\ pc = "run"
    /\ "ResponseTransmitComplete" \in work
    /\ work \subseteq {"ResponseTransmitComplete"}
    /\ UNCHANGED <<gCommandBuffer, gPayloadBytesReceived, errorVars, notes, hostVars>>
    /\ \/ /\ gCurrentHandler = NoHandler
          /\ sys' = "nullHandler"
          /\ UNCHANGED <<spi, gCommandBufferValid, gCurrentHandler, work, pc, calls>>
       \/ /\ gCurrentHandler # NoHandler
          /\ calls' = calls \o PostRead(gCurrentHandler)
          /\ ReadCommand
          /\ Handled("ResponseTransmitComplete")

-----------------------------------------------------------------------------
Host ==
    \/ \E h \in Headers, ok \in BOOLEAN : HeaderReceived(h, ok)
    \/ \E ok \in BOOLEAN : PayloadReceived(ok) \/ ResponseTransmitted(ok)

Task ==
    \/ TaskWake
    \/ HeaderIgnored
    \/ HeaderMisindexed
    \/ CommandAlone
    \/ CommandRead
    \/ CommandWritten
    \/ CountCleared
    \/ PayloadHandled
    \/ ResponseHandled

Next == Host \/ Task

Spec == Init /\ [][Next]_vars

\* The task runs when it is notified, and a host that began a command clocks the
\* rest of it.
Fairness ==
    /\ WF_vars(Task)
    /\ WF_vars(ResponseTransmitted(TRUE))
    /\ WF_vars(PayloadReceived(TRUE))

FairSpec == Spec /\ Fairness

-----------------------------------------------------------------------------
(* Properties. *)

\* The host waits for a response or a payload that the task knows nothing of:
\* the command id was unknown, the command has no response, or its read failed.
Deafened ==
    /\ asked # NoHeader
    /\ host # "header"
    /\ \/ asked.command > NumCommands
       \/ asked.read /\ asked.command \notin SupportsRead
       \/ asked.read /\ gErrorFlag /\ calls # <<>>

\* When the task sleeps, the transfer it has armed is the one the host is about
\* to clock.  With no handshake between the two, a host that clocks any other
\* has its bytes lost, or taken for something they are not.  Only three errors
\* break it, at once and for good.
InStep ==
    Running /\ pc = "wait" /\ notes = {} /\ ~Deafened => spi = host

\* The handler calls that h asks for, in order (Commands.h, Task.h:70-108).
Expected(h) ==
    IF h = NoHeader THEN <<>>
    ELSE IF h.read /\ h.payloadLength > 0
    THEN IF h.command \notin SupportsRead THEN <<>>
         ELSE IF h.command = ReadPacket
              THEN <<Call("read", h.command, h.payloadLength), Call("post", h.command, 0)>>
              ELSE <<Call("read", h.command, h.payloadLength)>>
    ELSE IF h.command \in SupportsWrite
         THEN <<Call("write", h.command, h.payloadLength)>> ELSE <<>>

\* Whatever happens, a handler is only ever called for the command the host
\* sent last, with all the bytes it sent for it, and in the order of Expected;
\* a header that did not come through runs nothing.
OnlyAsked ==
    /\ Len(calls) <= Len(Expected(asked))
    /\ calls = SubSeq(Expected(asked), 1, Len(calls))

\* And every command is run exactly once, its cleanup included, before the next
\* header is listened for.
CallsAsAsked ==
    /\ OnlyAsked
    /\ Running /\ spi = "header" => calls = Expected(asked)

\* What may stop the firmware, and at which risks.
Causes ==
    [returned    |-> {"failedPayload", "eager"},
     outOfTable  |-> {"offByOne"},
     nullHandler |-> {},
     spiBusy     |-> {}]

\* No null handler is called, no index is out of the table, no transfer is
\* started while one is under way (the REQUIREs at HostIf/Task.cpp:208, 256 and
\* 290), and Main does not return, but for a host that sends what the check of
\* ProcessCommand lets through, and a payload whose transfer fails or overtakes
\* ProcessCommand.
StopsAtRisk == ~Running => risks \cap Causes[sys] # {}

\* The task always gets back to listening for a header, but for those errors.
Listens == []<>(spi = "header" \/ ~Running \/ Deafened)
============================================================================
