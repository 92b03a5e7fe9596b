--------------------------- MODULE HostLinkProofs ---------------------------
(***************************************************************************)
(* Theorems about HostIfTask and about HostLink, which extends it.         *)
(*                                                                         *)
(* About HostIfTask, for every set of commands, payload lengths and risks: *)
(* the task and the host keep in step, each command is run as it was asked *)
(* for, and only the named risks stop the firmware.  The inductive         *)
(* invariant says where an exchange can be: from one header to the next it *)
(* goes through the phases below, and in each of them the transfer, the    *)
(* notification, the handler and the calls made so far are determined by   *)
(* the header that was asked for.                                          *)
(*                                                                         *)
(* About HostLink, for any number of packets and any size of the receive   *)
(* queue: what the host gets to know of packets, interrupts and counters   *)
(* adds up.  Every step of HostLink is one of HostIfTask or leaves it      *)
(* alone, so that invariant holds, and with it the phase in which a        *)
(* handler runs.  To it come the order of the packets, what the response   *)
(* under way can say in that phase, and what the host relies on when it    *)
(* asks for a packet.                                                      *)
(***************************************************************************)
EXTENDS HostLink, SequenceTheorems, TLAPS

-----------------------------------------------------------------------------
(* HostIfTask *)

\* The task is blocked with nothing pending, or a bit is on its way to it.
Quiet == pc = "wait" /\ notes = {} /\ work = {}
Pending(bit) ==
    \/ pc = "wait" /\ notes = {bit} /\ work = {}
    \/ pc = "run" /\ notes = {} /\ work = {bit}

\* A header of the table that is in the buffer: one to read, one to write.
Buffered == asked \in Headers /\ gCommandBuffer = asked
Handling == Buffered /\ asked.command < NumCommands /\ gCurrentHandler = asked.command
Reading == Handling /\ asked.read /\ asked.payloadLength # 0
Writing == Handling /\ ~asked.read /\ asked.payloadLength # 0

\* What was asked for is done; the host is to send a header, unless it sent a
\* command that is beyond the table.
Listening ==
    /\ Quiet
    /\ spi = "header"
    /\ calls = Expected(asked)
    /\ host # "header" => asked # NoHeader /\ asked.command > NumCommands

\* A header is in, or has failed.
HeaderIn ==
    /\ Pending("CmdReceiveComplete")
    /\ spi = "idle"
    /\ calls = <<>>
    /\ \/ Buffered /\ gCommandBufferValid /\ Sane(asked) /\ host = Follows(asked)
       \/ asked = NoHeader /\ ~gCommandBufferValid /\ host = "header"

\* There is no response: for good.
Unanswered ==
    /\ Quiet
    /\ spi = "idle"
    /\ Reading
    /\ host = "response"
    /\ \/ asked.command \notin SupportsRead /\ calls = <<>>
       \/ /\ asked.command \in ReadMayFail /\ gErrorFlag
          /\ calls = <<Call("read", asked.command, asked.payloadLength)>>

\* A response is under way, or out.
Responding ==
    /\ Reading
    /\ asked.command \in SupportsRead
    /\ calls = <<Call("read", asked.command, asked.payloadLength)>>
    /\ \/ Quiet /\ spi = "response" /\ host = "response"
       \/ Pending("ResponseTransmitComplete") /\ spi = "idle" /\ host = "header"

\* A payload is listened for.
Receiving ==
    /\ Writing
    /\ calls = <<>>
    /\ spi = "payload" /\ host = "payload"
    /\ \/ Quiet
       \/ pc = "clear" /\ notes = {} /\ work = {"CmdReceiveComplete"}

\* It is in; it may have overtaken the task that clears its count.
Received ==
    /\ Writing
    /\ calls = <<>>
    /\ spi = "idle" /\ host = "header"
    /\ gPayloadBytesReceived \in {0, asked.payloadLength}
    /\ gPayloadBytesReceived = 0 => risks \cap {"failedPayload", "eager"} # {}
    /\ \/ Pending("PayloadReceiveComplete")
       \/ /\ pc = "clear" /\ work = {"CmdReceiveComplete"}
          /\ notes = {"PayloadReceiveComplete"}
          /\ "eager" \in risks

Phase == Listening \/ HeaderIn \/ Unanswered \/ Responding \/ Receiving \/ Received

IInv ==
    /\ TypeOK
    /\ OnlyAsked
    /\ StopsAtRisk
    /\ Running => Phase

-----------------------------------------------------------------------------
(* The calls that a header asks for, and what has been made of them. *)

LEMMA HeaderType ==
    ASSUME NEW h \in Headers
    PROVE  /\ h.command \in Cmds /\ h.read \in BOOLEAN /\ h.payloadLength \in Lens
           /\ h.command \in Nat /\ h.payloadLength \in Nat
           /\ h # NoHeader /\ h.command # NoHandler
<1>1. h.command \in Cmds /\ h.read \in BOOLEAN /\ h.payloadLength \in Lens
    BY DEF Headers
<1>2. Cmds \subseteq Nat /\ Lens \subseteq Nat
    BY CmdsAssumption, LensAssumption
<1> QED
    BY <1>1, <1>2, CmdsAssumption, NoHeaderAssumption

LEMMA ExpectedNone == Expected(NoHeader) = <<>>
BY DEF Expected

\* Nothing is run for a command beyond the table.
LEMMA ExpectedBeyond ==
    ASSUME NEW h \in Headers, h.command >= NumCommands
    PROVE  Expected(h) = <<>>
<1>1. h.command \notin SupportsRead /\ h.command \notin SupportsWrite
    BY HeaderType DEF NumCommands, SupportsRead, SupportsWrite, NoOp, GetInfo,
        GetStatus, IrqConfig, GetPacketQueueStatus, ReadPacket, GetCounters, IrqStatus
<1> QED
    BY <1>1 DEF Expected

LEMMA ExpectedRead ==
    ASSUME NEW h \in Headers, h.read, h.payloadLength # 0, h.command \in SupportsRead
    PROVE  Expected(h) = <<Call("read", h.command, h.payloadLength)>> \o PostRead(h.command)
<1>1. h.payloadLength > 0 /\ h # NoHeader
    BY HeaderType
<1>2. CASE h.command = ReadPacket
    BY <1>1, <1>2 DEF Expected, PostRead, WantsPostRead
<1>3. CASE h.command # ReadPacket
    BY <1>1, <1>3 DEF Expected, PostRead, WantsPostRead
<1> QED
    BY <1>2, <1>3

LEMMA ExpectedUnreadable ==
    ASSUME NEW h \in Headers, h.read, h.payloadLength # 0, h.command \notin SupportsRead
    PROVE  Expected(h) = <<>>
<1>1. h.payloadLength > 0
    BY HeaderType
<1> QED
    BY <1>1 DEF Expected

LEMMA ExpectedWrite ==
    ASSUME NEW h \in Headers, ~h.read \/ h.payloadLength = 0
    PROVE  Expected(h) = IF h.command \in SupportsWrite
                         THEN <<Call("write", h.command, h.payloadLength)>> ELSE <<>>
<1>1. ~(h.read /\ h.payloadLength > 0) /\ h # NoHeader
    BY HeaderType
<1> QED
    BY <1>1 DEF Expected

LEMMA CallType ==
    ASSUME NEW op \in {"write", "read", "post"}, NEW handler \in Cmds, NEW bytes \in Nat
    PROVE  Call(op, handler, bytes) \in Calls
BY DEF Call, Calls

LEMMA ExpectedType ==
    ASSUME NEW h \in Headers \cup {NoHeader}
    PROVE  Expected(h) \in Seq(Calls)
<1>1. CASE h = NoHeader
    BY <1>1, ExpectedNone
<1> SUFFICES ASSUME h \in Headers
             PROVE  Expected(h) \in Seq(Calls)
    BY <1>1
<1>2. h.command \in Cmds /\ h.payloadLength \in Nat /\ 0 \in Nat
    BY HeaderType
<1>3. /\ Call("read", h.command, h.payloadLength) \in Calls
      /\ Call("write", h.command, h.payloadLength) \in Calls
      /\ Call("post", h.command, 0) \in Calls
    BY <1>2, CallType
<1> QED
    BY <1>3 DEF Expected

LEMMA WholeSequence ==
    ASSUME NEW S, NEW s \in Seq(S)
    PROVE  /\ Len(s) \in Nat /\ SubSeq(s, 1, Len(s)) = s
           /\ Len(<<>>) <= Len(s) /\ SubSeq(s, 1, Len(<<>>)) = <<>>
OBVIOUS

LEMMA FirstOfTwo ==
    ASSUME NEW a, NEW b
    PROVE  /\ <<a>> \o <<b>> = <<a, b>> /\ <<a>> \o <<>> = <<a>>
           /\ SubSeq(<<a, b>>, 1, Len(<<a>>)) = <<a>> /\ Len(<<a>>) <= Len(<<a, b>>)
           /\ SubSeq(<<a>>, 1, Len(<<a>>)) = <<a>>
<1> DEFINE S == {a, b}
<1>1. <<a>> \in Seq(S) /\ <<b>> \in Seq(S) /\ <<a, b>> \in Seq(S)
    OBVIOUS
<1> HIDE DEF S
<1>2. <<a>> \o <<b>> = <<a, b>>
    <2>1. /\ Len(<<a>> \o <<b>>) = 2 /\ <<a>> \o <<b>> \in Seq(S)
          /\ \A i \in 1 .. 2 : (<<a>> \o <<b>>)[i] = <<a, b>>[i]
        BY <1>1, ConcatProperties
    <2> QED
        BY <1>1, <2>1, SeqEqual
<1>3. <<a>> \o <<>> = <<a>>
    BY <1>1, ConcatEmptySeq
<1>4. SubSeq(<<a, b>>, 1, 1) = <<a>>
    <2>1. SubSeq(<<a>> \o <<b>>, 1, 1) = SubSeq(<<a>>, 1, 1)
        BY <1>1, SubSeqOfConcat1
    <2>2. SubSeq(<<a>>, 1, 1) = <<a>>
        BY <1>1, SubSeqFull
    <2> QED
        BY <1>2, <2>1, <2>2
<1>5. SubSeq(<<a>>, 1, Len(<<a>>)) = <<a>>
    BY <1>1, SubSeqFull
<1> QED
    BY <1>2, <1>3, <1>4, <1>5

\* A part of them that the code may have reached.
LEMMA PartExpected ==
    ASSUME NEW h \in Headers \cup {NoHeader}, NEW made,
           \/ made = <<>> \/ made = Expected(h)
           \/ /\ h \in Headers /\ h.read /\ h.payloadLength # 0 /\ h.command \in SupportsRead
              /\ made = <<Call("read", h.command, h.payloadLength)>>
    PROVE  Len(made) <= Len(Expected(h)) /\ made = SubSeq(Expected(h), 1, Len(made))
<1> DEFINE all == Expected(h)
<1>1. all \in Seq(Calls)
    BY ExpectedType
<1> HIDE DEF all
<1> SUFFICES Len(made) <= Len(all) /\ made = SubSeq(all, 1, Len(made))
    BY DEF all
<1>2. CASE made = <<>>
    BY <1>1, <1>2, WholeSequence
<1>3. CASE made = all
    BY <1>1, <1>3, WholeSequence
<1>4. CASE /\ h \in Headers /\ h.read /\ h.payloadLength # 0 /\ h.command \in SupportsRead
           /\ made = <<Call("read", h.command, h.payloadLength)>>
    <2> DEFINE first == Call("read", h.command, h.payloadLength)
               second == Call("post", h.command, 0)
    <2>1. all = <<first>> \o PostRead(h.command)
        BY <1>4, ExpectedRead DEF all
    <2>2. PostRead(h.command) = <<second>> \/ PostRead(h.command) = <<>>
        BY DEF PostRead
    <2>3. made = <<first>>
        BY <1>4
    <2> HIDE DEF first, second
    <2>4. all = <<first, second>> \/ all = <<first>>
        BY <2>1, <2>2, FirstOfTwo
    <2> QED
        BY <2>3, <2>4, FirstOfTwo
<1> QED
    BY <1>2, <1>3, <1>4 DEF all

-----------------------------------------------------------------------------
(* The invariant. *)

\* In every phase what has been called is a part of what was asked for.
LEMMA RunningIInv ==
    ASSUME TypeOK', Phase', UNCHANGED sys, Running
    PROVE  IInv'
<1>1. Running'
    BY DEF Running
<1>2. asked' \in Headers \cup {NoHeader}
    BY DEF TypeOK
<1>3. CASE Listening' \/ HeaderIn' \/ Receiving' \/ Received'
    <2>1. calls' = <<>> \/ calls' = Expected(asked')
        BY <1>3 DEF Listening, HeaderIn, Receiving, Received
    <2> QED
        BY <1>1, <1>2, <2>1, PartExpected DEF IInv, OnlyAsked, StopsAtRisk, Running
<1>4. CASE Unanswered' \/ Responding'
    <2>1. asked' \in Headers /\ asked.read' /\ asked.payloadLength' # 0
        BY <1>4 DEF Unanswered, Responding, Reading, Handling, Buffered
    <2>2. calls' = <<>> \/ calls' = <<Call("read", asked.command', asked.payloadLength')>>
        BY <1>4 DEF Unanswered, Responding
    <2>3. ReadMayFail \subseteq SupportsRead
        BY DEF ReadMayFail, SupportsRead
    <2>4. calls' = <<>> \/ asked.command' \in SupportsRead
        BY <1>4, <2>3 DEF Unanswered, Responding
    <2> QED
        BY <1>1, <1>2, <2>1, <2>2, <2>4, PartExpected DEF IInv, OnlyAsked, StopsAtRisk, Running
<1> QED
    BY <1>3, <1>4 DEF Phase

\* A step that stops the firmware makes no calls.
LEMMA StoppedIInv ==
    ASSUME IInv, TypeOK', UNCHANGED <<calls, asked, risks>>, sys' # "run",
           risks \cap Causes[sys'] # {}
    PROVE  IInv'
BY DEF IInv, OnlyAsked, StopsAtRisk, Running

LEMMA IInvInit == Init => IInv
<1> SUFFICES ASSUME Init
             PROVE  IInv
    OBVIOUS
<1>1. TypeOK
    <2>1. {} \in SUBSET NoteBits /\ <<>> \in Seq(Calls)
        OBVIOUS
    <2>2. 0 \in Lens \cup {0} /\ FALSE \in BOOLEAN
        OBVIOUS
    <2>3. spi \in Transfers \cup {"idle"} /\ host \in Transfers
        BY DEF Init, Transfers
    <2> QED
        BY <2>1, <2>2, <2>3 DEF Init, TypeOK
<1>2. Expected(asked) = <<>>
    BY ExpectedNone DEF Init
<1>3. OnlyAsked
    BY <1>1, <1>2, PartExpected DEF Init, OnlyAsked, TypeOK
<1>4. Listening
    BY <1>2 DEF Init, Listening, Quiet
<1> QED
    BY <1>1, <1>3, <1>4 DEF Init, IInv, StopsAtRisk, Running, Phase

LEMMA HeaderReceivedIInv ==
    ASSUME IInv, NEW h \in Headers, NEW ok \in BOOLEAN, HeaderReceived(h, ok)
    PROVE  IInv'
<1> USE DEF HeaderReceived, taskVars, errorVars, Running
<1>1. Listening
    BY DEF IInv, Phase, HeaderIn, Unanswered, Responding, Receiving, Received, Listening
<1>2. TypeOK'
    <2>1. notes' \in SUBSET NoteBits
        BY DEF IInv, TypeOK, NoteBits
    <2>2. host' \in Transfers
        BY DEF Follows, Transfers
    <2>3. calls' \in Seq(Calls)
        OBVIOUS
    <2>4. gCommandBuffer' \in Headers \cup {NoHeader} /\ asked' \in Headers \cup {NoHeader}
        OBVIOUS
    <2>5. gCommandBufferValid' \in BOOLEAN
        OBVIOUS
    <2> QED
        BY <2>1, <2>2, <2>3, <2>4, <2>5 DEF IInv, TypeOK, Transfers
<1>3. HeaderIn'
    <2>1. Pending("CmdReceiveComplete")'
        BY <1>1 DEF Listening, Quiet, Pending
    <2>2. CASE ok
        BY <2>1, <2>2 DEF HeaderIn, Buffered, Sane
    <2>3. CASE ~ok
        BY <2>1, <2>3 DEF HeaderIn
    <2> QED
        BY <2>2, <2>3
<1> QED
    BY <1>2, <1>3, RunningIInv DEF Phase

LEMMA PayloadReceivedIInv ==
    ASSUME IInv, NEW ok \in BOOLEAN, PayloadReceived(ok)
    PROVE  IInv'
<1> USE DEF PayloadReceived, taskVars, errorVars, Running
<1>1. Receiving
    BY DEF IInv, Phase, HeaderIn, Unanswered, Responding, Receiving, Received, Listening
<1>2. gPayloadBytesReceived' \in {0, asked.payloadLength} /\ asked \in Headers
    BY <1>1 DEF BytesReceived, Receiving, Writing, Handling, Buffered
<1>3. TypeOK'
    <2>1. notes' \in SUBSET NoteBits
        BY DEF IInv, TypeOK, NoteBits
    <2>2. gPayloadBytesReceived' \in Lens \cup {0}
        BY <1>2, HeaderType
    <2> QED
        BY <2>1, <2>2 DEF IInv, TypeOK, Transfers
<1>4. gPayloadBytesReceived' = 0 => risks' \cap {"failedPayload", "eager"} # {}
    BY <1>1 DEF BytesReceived, Receiving, Writing, Handling, Buffered
<1>5. Received'
    <2>1. Writing' /\ calls' = <<>> /\ spi' = "idle" /\ host' = "header"
        BY <1>1 DEF Receiving, Writing, Handling, Buffered
    <2>2. \/ Pending("PayloadReceiveComplete")'
          \/ /\ pc' = "clear" /\ work' = {"CmdReceiveComplete"}
             /\ notes' = {"PayloadReceiveComplete"}
             /\ "eager" \in risks'
        BY <1>1 DEF Receiving, Quiet, Pending
    <2> QED
        BY <1>2, <1>4, <2>1, <2>2 DEF Received
<1> QED
    BY <1>3, <1>5, RunningIInv DEF Phase

LEMMA ResponseTransmittedIInv ==
    ASSUME IInv, NEW ok \in BOOLEAN, ResponseTransmitted(ok)
    PROVE  IInv'
<1> USE DEF ResponseTransmitted, taskVars, errorVars, Running
<1>1. Responding
    BY DEF IInv, Phase, HeaderIn, Unanswered, Responding, Receiving, Received, Listening
<1>2. TypeOK'
    <2>1. notes' \in SUBSET NoteBits
        BY DEF IInv, TypeOK, NoteBits
    <2> QED
        BY <2>1 DEF IInv, TypeOK, Transfers
<1>3. Responding'
    BY <1>1 DEF Responding, Reading, Handling, Buffered, Quiet, Pending
<1> QED
    BY <1>2, <1>3, RunningIInv DEF Phase

-----------------------------------------------------------------------------
(* The steps of the task. *)

LEMMA TaskWakeIInv ==
    ASSUME IInv, TaskWake
    PROVE  IInv'
<1> USE DEF TaskWake, errorVars, hostVars, Running
<1>1. TypeOK'
    BY DEF IInv, TypeOK
<1>2. Quiet => FALSE
    BY DEF Quiet
<1>3. ASSUME NEW bit, Pending(bit)
      PROVE  Pending(bit)'
    BY <1>3 DEF Pending
<1>4. HeaderIn \/ Responding \/ Received
    BY <1>2 DEF IInv, Phase, Listening, Unanswered, Receiving
<1>5. CASE HeaderIn
    BY <1>1, <1>3, <1>5, RunningIInv DEF Phase, HeaderIn, Buffered, Sane
<1>6. CASE Responding
    BY <1>1, <1>2, <1>3, <1>6, RunningIInv DEF Phase, Responding, Reading, Handling, Buffered
<1>7. CASE Received
    <2>1. Received'
        BY <1>3, <1>7 DEF Received, Writing, Handling, Buffered
    <2> QED
        BY <1>1, <2>1, RunningIInv DEF Phase
<1> QED
    BY <1>4, <1>5, <1>6, <1>7

\* Which phase the task can be in when it handles a header, ...
LEMMA AtHeader ==
    ASSUME IInv, HandlesHeader
    PROVE  HeaderIn
BY DEF HandlesHeader, IInv, Running, Phase, Listening, HeaderIn, Unanswered, Responding,
    Receiving, Received, Quiet, Pending

\* ... and one that is in the table.
LEMMA AtCommand ==
    ASSUME IInv, HeaderAccepted
    PROVE  /\ HeaderIn /\ Buffered /\ gCommandBuffer \in Headers /\ Sane(asked)
           /\ host = Follows(asked)
BY AtHeader DEF HeaderAccepted, HandlesHeader, HeaderIn, Buffered

\* The bit is the only one, so the task blocks again.
LEMMA HandledBlocks ==
    ASSUME NEW bit, Handled(bit), work = {bit}, notes = {}, UNCHANGED notes
    PROVE  Quiet'
BY DEF Handled, Quiet

LEMMA HeaderIgnoredIInv ==
    ASSUME IInv, HeaderIgnored
    PROVE  IInv'
<1> USE DEF HeaderIgnored, HandlesHeader, ReadCommand, Arm, errorVars, hostVars, Running
<1>1. HeaderIn
    BY AtHeader
<1>2. Quiet'
    BY <1>1, HandledBlocks DEF HeaderIn, Pending
<1>3. spi' = "header" /\ UNCHANGED sys
    BY <1>1 DEF HeaderIn
<1>4. TypeOK'
    BY <1>2, <1>3 DEF IInv, TypeOK, Transfers, Quiet
<1>5. calls' = Expected(asked')
    <2>1. CASE asked = NoHeader
        BY <1>1, <2>1, ExpectedNone DEF HeaderIn
    <2>2. CASE asked # NoHeader
        <3>1. asked \in Headers /\ asked.command > NumCommands
            BY <1>1, <2>2 DEF HeaderIn, Buffered, BeyondTable
        <3>2. asked.command >= NumCommands
            BY <3>1, HeaderType DEF NumCommands
        <3> QED
            BY <1>1, <3>1, <3>2, ExpectedBeyond DEF HeaderIn
    <2> QED
        BY <2>1, <2>2
<1>6. host' # "header" => asked' # NoHeader /\ asked.command' > NumCommands
    BY <1>1, NoHeaderAssumption DEF HeaderIn, Buffered, BeyondTable
<1>7. Listening'
    BY <1>2, <1>3, <1>5, <1>6 DEF Listening
<1> QED
    BY <1>3, <1>4, <1>7, RunningIInv DEF Phase

LEMMA HeaderMisindexedIInv ==
    ASSUME IInv, HeaderMisindexed
    PROVE  IInv'
<1> USE DEF HeaderMisindexed, HandlesHeader, errorVars, hostVars
<1>1. HeaderIn /\ Buffered
    BY AtHeader DEF HeaderIn
<1>2. asked.command = NumCommands
    BY <1>1, HeaderType DEF Buffered, BeyondTable, NumCommands
<1>3. "offByOne" \in risks
    BY <1>1, <1>2 DEF HeaderIn, Sane
<1>4. TypeOK'
    BY DEF IInv, TypeOK, Halts
<1>5. Causes["outOfTable"] = {"offByOne"}
    BY DEF Causes
<1> QED
    BY <1>3, <1>4, <1>5, StoppedIInv

LEMMA OutcomeType ==
    ASSUME TypeOK, NEW h, NEW failed \in BOOLEAN, Outcome(h, failed)
    PROVE  gErrorFlag' \in BOOLEAN /\ commandError' \in BOOLEAN
BY DEF Outcome, TypeOK

\* A write that is asked for makes the one call expected, and no other.
LEMMA DispatchCommandCalls ==
    ASSUME TypeOK, calls = <<>>, NEW h \in Headers, ~h.read \/ h.payloadLength = 0,
           DispatchCommand(h.command, h.payloadLength)
    PROVE  /\ calls' = Expected(h) /\ calls' \in Seq(Calls)
           /\ gErrorFlag' \in BOOLEAN /\ commandError' \in BOOLEAN
<1>1. calls' = Expected(h)
    BY ExpectedWrite DEF DispatchCommand
<1>2. gErrorFlag' \in BOOLEAN /\ commandError' \in BOOLEAN
    BY OutcomeType DEF DispatchCommand, errorVars, TypeOK
<1> QED
    BY <1>1, <1>2, ExpectedType

LEMMA CommandAloneIInv ==
    ASSUME IInv, CommandAlone
    PROVE  IInv'
<1> USE DEF CommandAlone, HeaderAccepted, HandlesHeader, ReadCommand, Arm, hostVars, Running
<1>1. HeaderIn /\ Buffered /\ host = Follows(asked) /\ asked \in Headers
    BY AtCommand DEF Buffered
<1>2. Quiet'
    BY <1>1, HandledBlocks DEF HeaderIn, Pending
<1>3. spi' = "header" /\ UNCHANGED sys
    BY <1>1 DEF HeaderIn
<1>4. /\ calls' = Expected(asked) /\ calls' \in Seq(Calls)
      /\ gErrorFlag' \in BOOLEAN /\ commandError' \in BOOLEAN
    <2>1. calls = <<>> /\ TypeOK /\ asked.payloadLength = 0
        BY <1>1 DEF HeaderIn, IInv, Buffered
    <2>2. DispatchCommand(asked.command, asked.payloadLength)
        BY <1>1, <2>1 DEF Buffered
    <2> QED
        BY <1>1, <2>1, <2>2, DispatchCommandCalls
<1>5. host' = "header"
    BY <1>1 DEF Follows, Buffered
<1>6. TypeOK'
    <2>1. spi' \in Transfers \cup {"idle"} /\ host' \in Transfers
        BY <1>3, <1>5 DEF Transfers
    <2>2. notes' \in SUBSET NoteBits /\ work' \in SUBSET NoteBits /\ pc' = "wait"
        BY <1>2 DEF Quiet
    <2> QED
        BY <1>3, <1>4, <2>1, <2>2 DEF IInv, TypeOK
<1>7. Listening'
    BY <1>2, <1>3, <1>4, <1>5 DEF Listening
<1> QED
    BY <1>3, <1>6, <1>7, RunningIInv DEF Phase

LEMMA CommandReadIInv ==
    ASSUME IInv, CommandRead
    PROVE  IInv'
<1> USE DEF CommandRead, HeaderAccepted, HandlesHeader, hostVars, Running
<1> DEFINE c == asked.command
           n == asked.payloadLength
<1>1. HeaderIn /\ Buffered /\ host = Follows(asked) /\ asked \in Headers /\ calls = <<>>
      /\ spi = "idle"
    BY AtCommand DEF Buffered, HeaderIn
<1>2. Quiet'
    BY <1>1, HandledBlocks DEF HeaderIn, Pending
<1>3. Reading' /\ asked.read /\ n # 0 /\ gCommandBuffer = asked
    BY <1>1 DEF Reading, Handling, Buffered
<1>4. host' = "response"
    BY <1>1, <1>3 DEF Follows
<1>5. c \in Cmds /\ n \in Nat
    BY <1>1, HeaderType
<1>6. ASSUME spi' \in {"idle", "response"}, UNCHANGED sys, calls' \in Seq(Calls),
             gErrorFlag' \in BOOLEAN, commandError' \in BOOLEAN
      PROVE  TypeOK'
    <2>1. spi' \in Transfers \cup {"idle"} /\ host' \in Transfers
        BY <1>4, <1>6 DEF Transfers
    <2>2. notes' \in SUBSET NoteBits /\ work' \in SUBSET NoteBits /\ pc' = "wait"
        BY <1>2 DEF Quiet
    <2>3. gCurrentHandler' \in Cmds
        BY <1>3, <1>5
    <2> QED
        BY <1>6, <2>1, <2>2, <2>3 DEF IInv, TypeOK
<1>7. CASE NotReadable(c)
    <2>1. TypeOK'
        BY <1>1, <1>6, <1>7 DEF NotReadable, errorVars, IInv, TypeOK
    <2>2. Unanswered'
        BY <1>1, <1>2, <1>3, <1>4, <1>7 DEF NotReadable, Unanswered
    <2> QED
        BY <1>7, <2>1, <2>2, RunningIInv DEF Phase, NotReadable
<1>8. Append(calls, Call("read", c, n)) = <<Call("read", c, n)>>
      /\ <<Call("read", c, n)>> \in Seq(Calls)
    BY <1>1, <1>5, CallType
<1>9. CASE ReadFails(c, n)
    <2>1. PostRead(c) = <<>>
        BY <1>9 DEF ReadFails, PostRead, WantsPostRead, ReadMayFail, ReadPacket, GetCounters
    <2>2. calls' = <<Call("read", c, n)>>
        BY <1>8, <1>9, <2>1, ConcatEmptySeq DEF ReadFails
    <2>3. gErrorFlag' /\ commandError'
        BY <1>9 DEF ReadFails, Outcome
    <2>4. gErrorFlag' \in BOOLEAN /\ commandError' \in BOOLEAN
        BY <1>9, OutcomeType DEF ReadFails, IInv
    <2>5. TypeOK'
        BY <1>1, <1>6, <1>8, <1>9, <2>2, <2>4 DEF ReadFails
    <2>6. Unanswered'
        BY <1>1, <1>2, <1>3, <1>4, <1>9, <2>2, <2>3 DEF ReadFails, Unanswered
    <2> QED
        BY <1>9, <2>5, <2>6, RunningIInv DEF Phase, ReadFails
<1>10. CASE ReadResponds(c, n)
    <2>1. spi' = "response" /\ UNCHANGED sys
        BY <1>1, <1>10 DEF ReadResponds, Arm
    <2>2. calls' = <<Call("read", c, n)>>
        BY <1>8, <1>10 DEF ReadResponds
    <2>3. gErrorFlag' \in BOOLEAN /\ commandError' \in BOOLEAN
        BY <1>10, OutcomeType DEF ReadResponds, IInv
    <2>4. TypeOK'
        BY <1>6, <1>8, <2>1, <2>2, <2>3
    <2>5. Responding'
        BY <1>2, <1>3, <1>4, <1>10, <2>1, <2>2 DEF ReadResponds, Responding
    <2> QED
        BY <2>1, <2>4, <2>5, RunningIInv DEF Phase
<1> QED
    BY <1>3, <1>7, <1>9, <1>10

LEMMA CommandWrittenIInv ==
    ASSUME IInv, CommandWritten
    PROVE  IInv'
<1> USE DEF CommandWritten, HeaderAccepted, HandlesHeader, Arm, errorVars, hostVars, Running
<1>1. HeaderIn /\ Buffered /\ host = Follows(asked) /\ asked \in Headers
    BY AtCommand DEF Buffered
<1>2. spi' = "payload" /\ UNCHANGED sys
    BY <1>1 DEF HeaderIn
<1>3. TypeOK'
    <2>1. asked.command \in Cmds
        BY <1>1, HeaderType
    <2> QED
        BY <1>1, <1>2, <2>1 DEF IInv, TypeOK, Transfers, Buffered
<1>4. Receiving'
    <2>1. Writing'
        BY <1>1 DEF Writing, Handling, Buffered
    <2>2. host' = "payload" /\ calls' = <<>>
        BY <1>1 DEF Follows, Buffered, HeaderIn
    <2>3. notes' = {} /\ work' = {"CmdReceiveComplete"} /\ pc' = "clear"
        BY <1>1 DEF HeaderIn, Pending
    <2> QED
        BY <1>2, <2>1, <2>2, <2>3 DEF Receiving
<1> QED
    BY <1>2, <1>3, <1>4, RunningIInv DEF Phase

\* The count of a payload that has overtaken the task is lost here.
LEMMA CountClearedIInv ==
    ASSUME IInv, CountCleared
    PROVE  IInv'
<1> USE DEF CountCleared, errorVars, hostVars, Running, Handled
<1>1. pc = "clear" /\ work = {"CmdReceiveComplete"} /\ (Receiving \/ Received)
    BY DEF IInv, Phase, Listening, HeaderIn, Unanswered, Responding, Receiving, Received, Quiet,
        Pending
<1>2. pc' = "wait" /\ work' = {}
    BY <1>1
<1>3. TypeOK'
    BY <1>2 DEF IInv, TypeOK
<1>4. CASE Receiving
    BY <1>1, <1>2, <1>3, <1>4, RunningIInv
       DEF Phase, Receiving, Quiet, Writing, Handling, Buffered
<1>5. CASE Received
    <2>1. notes = {"PayloadReceiveComplete"} /\ "eager" \in risks
        BY <1>1, <1>5 DEF Received, Pending
    <2>2. Writing' /\ calls' = <<>> /\ spi' = "idle" /\ host' = "header"
        BY <1>5 DEF Received, Writing, Handling, Buffered
    <2>3. Received'
        BY <1>2, <2>1, <2>2 DEF Received, Pending
    <2> QED
        BY <1>3, <2>3, RunningIInv DEF Phase
<1> QED
    BY <1>1, <1>4, <1>5

LEMMA PayloadHandledIInv ==
    ASSUME IInv, PayloadHandled
    PROVE  IInv'
<1> USE DEF PayloadHandled, ReadCommand, Arm, hostVars, Running
<1>1. Received /\ work = {"PayloadReceiveComplete"} /\ notes = {}
    BY DEF IInv, Phase, Listening, HeaderIn, Unanswered, Responding, Receiving, Received, Quiet,
        Pending
<1>2. Writing /\ asked \in Headers /\ asked.command = gCurrentHandler /\ gCurrentHandler \in Cmds
    BY <1>1, HeaderType DEF Received, Writing, Handling, Buffered
<1>3. CASE gPayloadBytesReceived = 0
    <2>1. sys' = "returned"
          /\ UNCHANGED <<spi, gCommandBufferValid, gCurrentHandler, errorVars, work, pc, calls>>
        BY <1>3
    <2>2. TypeOK'
        BY <2>1 DEF IInv, TypeOK, Halts, errorVars
    <2>3. risks \cap Causes["returned"] # {}
        BY <1>1, <1>3 DEF Received, Causes
    <2> QED
        BY <2>1, <2>2, <2>3, StoppedIInv
<1>4. CASE gPayloadBytesReceived # 0
    <2>1. /\ DispatchCommand(asked.command, asked.payloadLength)
          /\ gCommandBufferValid' = FALSE /\ gCurrentHandler' = NoHandler
          /\ Handled("PayloadReceiveComplete")
        BY <1>1, <1>2, <1>4, CmdsAssumption DEF Received
    <2>2. spi' = "header" /\ UNCHANGED sys
        BY <1>1, <1>2, <1>4, CmdsAssumption DEF Received
    <2>3. Quiet'
        BY <1>1, <2>1, HandledBlocks
    <2>4. /\ calls' = Expected(asked) /\ calls' \in Seq(Calls)
          /\ gErrorFlag' \in BOOLEAN /\ commandError' \in BOOLEAN
        BY <1>1, <1>2, <2>1, DispatchCommandCalls DEF Received, Writing, IInv
    <2>5. TypeOK'
        <3>1. notes' \in SUBSET NoteBits /\ work' \in SUBSET NoteBits /\ pc' = "wait"
            BY <2>3 DEF Quiet
        <3>2. spi' \in Transfers
            BY <2>2 DEF Transfers
        <3> QED
            BY <2>1, <2>2, <2>4, <3>1, <3>2 DEF IInv, TypeOK
    <2>6. Listening'
        BY <1>1, <2>2, <2>3, <2>4 DEF Listening, Received
    <2> QED
        BY <2>2, <2>5, <2>6, RunningIInv DEF Phase
<1> QED
    BY <1>3, <1>4

LEMMA ResponseHandledIInv ==
    ASSUME IInv, ResponseHandled
    PROVE  IInv'
<1> USE DEF ResponseHandled, ReadCommand, Arm, hostVars, errorVars, Running
<1>1. Responding /\ work = {"ResponseTransmitComplete"} /\ notes = {} /\ spi = "idle"
      /\ host = "header"
    BY DEF IInv, Phase, Listening, HeaderIn, Unanswered, Responding, Receiving, Received, Quiet,
        Pending
<1>2. Reading /\ asked \in Headers /\ asked.command = gCurrentHandler /\ gCurrentHandler \in Cmds
    BY <1>1, HeaderType DEF Responding, Reading, Handling, Buffered
<1>3. /\ calls' = calls \o PostRead(asked.command)
      /\ gCommandBufferValid' = FALSE /\ gCurrentHandler' = NoHandler
      /\ Handled("ResponseTransmitComplete")
      /\ spi' = "header" /\ UNCHANGED sys
    BY <1>1, <1>2, CmdsAssumption
<1>4. calls' = Expected(asked)
    BY <1>1, <1>2, <1>3, ExpectedRead DEF Responding, Reading
<1>5. Quiet'
    BY <1>1, <1>3, HandledBlocks
<1>6. TypeOK'
    <2>1. notes' \in SUBSET NoteBits /\ work' \in SUBSET NoteBits /\ pc' = "wait"
        BY <1>5 DEF Quiet
    <2>2. spi' \in Transfers /\ calls' \in Seq(Calls)
        BY <1>2, <1>3, <1>4, ExpectedType DEF Transfers
    <2> QED
        BY <1>3, <2>1, <2>2 DEF IInv, TypeOK
<1>7. Listening'
    BY <1>1, <1>3, <1>4, <1>5 DEF Listening
<1> QED
    BY <1>3, <1>6, <1>7, RunningIInv DEF Phase

-----------------------------------------------------------------------------
LEMMA IInvStep ==
    ASSUME IInv, [Next]_vars
    PROVE  IInv'
<1>1. CASE Host
    BY <1>1, HeaderReceivedIInv, PayloadReceivedIInv, ResponseTransmittedIInv DEF Host
<1>2. CASE Task
    BY <1>2, TaskWakeIInv, HeaderIgnoredIInv, HeaderMisindexedIInv, CommandAloneIInv,
       CommandReadIInv, CommandWrittenIInv, CountClearedIInv, PayloadHandledIInv,
       ResponseHandledIInv DEF Task
<1>3. CASE UNCHANGED vars
    <2>1. TypeOK' /\ OnlyAsked' /\ StopsAtRisk' /\ (Running' <=> Running)
        BY <1>3 DEF vars, IInv, TypeOK, OnlyAsked, StopsAtRisk, Running
    <2>2. Phase => Phase'
        BY <1>3 DEF vars, Phase, Listening, HeaderIn, Unanswered, Responding, Receiving, Received,
            Reading, Writing, Handling, Buffered, Quiet, Pending, Sane
    <2> QED
        BY <2>1, <2>2 DEF IInv
<1> QED
    BY <1>1, <1>2, <1>3 DEF Next

\* With nothing pending the transfer is the host's, or nobody will ever answer.
LEMMA QuietInStep == IInv => InStep
<1> SUFFICES ASSUME IInv, Running, pc = "wait", notes = {}, ~Deafened
             PROVE  spi = host
    BY DEF InStep
<1>1. CASE Listening
    BY <1>1 DEF Listening, Deafened
<1>2. CASE Unanswered
    <2>1. asked # NoHeader /\ asked.read /\ host # "header"
        BY <1>2, NoHeaderAssumption DEF Unanswered, Reading, Handling, Buffered
    <2>2. CASE asked.command \notin SupportsRead
        BY <2>1, <2>2 DEF Deafened
    <2>3. CASE gErrorFlag /\ calls = <<Call("read", asked.command, asked.payloadLength)>>
        BY <2>1, <2>3 DEF Deafened
    <2> QED
        BY <1>2, <2>2, <2>3 DEF Unanswered
<1>3. CASE Responding \/ Receiving
    BY <1>3 DEF Responding, Receiving, Pending
<1>4. ~HeaderIn /\ ~Received
    BY DEF HeaderIn, Received, Pending
<1> QED
    BY <1>1, <1>2, <1>3, <1>4 DEF IInv, Phase

LEMMA ListeningIsDone == IInv => CallsAsAsked
<1> SUFFICES ASSUME IInv, Running, spi = "header"
             PROVE  calls = Expected(asked)
    BY DEF CallsAsAsked, IInv
<1> QED
    BY DEF IInv, Phase, Listening, HeaderIn, Unanswered, Responding, Receiving, Received

-----------------------------------------------------------------------------
(* The theorems. *)

LEMMA Invariance == Spec => []IInv
    BY IInvInit, IInvStep, PTL DEF Spec

\* The variables keep their types, whatever the host sends and whatever fails.
THEOREM TypeCorrect == Spec => []TypeOK
<1>1. IInv => TypeOK
    BY DEF IInv
<1> QED
    BY <1>1, Invariance, PTL

\* With no handshake the task and the host keep in step: when the task sleeps in
\* Main, the transfer it has armed is the one the host will clock, but after the
\* three errors that leave the host waiting for good.
THEOREM KeepsInStep == Spec => []InStep
    BY QuietInStep, Invariance, PTL

\* Every handler is called for the command the host sent last, with all its bytes
\* and in the order of the protocol, and every command has been run once when the
\* next header is listened for (ProcessCommand, DispatchCommand and the rest).
THEOREM RunsWhatWasAsked == Spec => []CallsAsAsked
    BY ListeningIsDone, Invariance, PTL

\* No REQUIRE of the task fails and no null handler is called; the table is
\* overrun only by the id that the check of ProcessCommand lets through, and Main
\* returns only after a payload that failed or overtook it.
THEOREM StopsOnlyAtRisk == Spec => []StopsAtRisk
<1>1. IInv => StopsAtRisk
    BY DEF IInv
<1> QED
    BY <1>1, Invariance, PTL

-----------------------------------------------------------------------------
(* HostLink *)

\* The header asked for reads this command, with an answer.
Asks(command) == asked # NoHeader /\ Reads(asked, command)

\* The queue holds the packets let in last, in the order of arrival.
QueueInOrder ==
    /\ arrived \in 0 .. MaxPackets
    /\ refused \subseteq 1 .. arrived
    /\ gRxQueue \in Seq(1 .. arrived)
    /\ Ascending(gRxQueue)
    /\ Elements(gRxQueue) \cap refused = {}
    /\ \A p \in Taken, q \in Elements(gRxQueue) : p < q

\* A response says what its command is for, and only while it is under way.
ResponseFits ==
    \/ response = Silent
    \/ /\ spi = "response" /\ asked # NoHeader
       /\ \/ /\ asked.command \in {GetStatus, GetPacketQueueStatus}
             /\ \/ response = QueueSays("waiting") /\ gRxQueue # <<>>
                \/ response = QueueSays("empty") /\ (gRxQueue # <<>> => packetReceived)
          \/ asked.command = ReadPacket /\ response = PacketSays(gPbuf) /\ gPbuf \in Taken
          \/ /\ asked.command = GetCounters
             /\ response.frames \in Nat /\ response = CountersSay(response.frames)
          \/ /\ asked.command = IrqStatus
             /\ response.interrupt \in BOOLEAN /\ response = InterruptSays(response.interrupt)

\* A packet is asked for only when there is one, and only once.
NoneInVain ==
    /\ offered => gRxQueue # <<>> /\ ~Asks(ReadPacket)
    /\ Asks(ReadPacket) /\ calls = <<>> => gRxQueue # <<>>

\* Between the read of a packet and its PostRead the buffer is still owed.
Owed == IF Asks(ReadPacket) /\ Len(calls) = 1 THEN {gPbuf} ELSE {}

PacketsInOrder ==
    /\ told \in Seq(Nat) /\ Ascending(told)
    /\ Elements(told) \cap lost = {}
    /\ Taken = Elements(told) \cup lost \cup PacketOf(response)
    /\ \A p \in PacketOf(response), q \in Elements(told) \cup lost : q < p

BuffersGivenBack ==
    /\ freed \in Seq(Nat) /\ Ascending(freed)
    /\ Owed \subseteq Taken
    /\ Elements(freed) = Taken \ Owed
    /\ \A p \in Owed, q \in Elements(freed) : q < p

\* The counter, and what an increment under way is about to make of it.
CountersTyped ==
    /\ counted \in Nat /\ gRxFrames \in Nat /\ radioLoaded \in Nat
    /\ radioPc \in {"idle", "count", "store"}
    /\ radioPc # "idle" => arrived > 0
    /\ radioPc = "store" => "torn" \in risks /\ radioLoaded >= gRxFrames

LinkTyped == packetReceived \in BOOLEAN /\ knows \in BOOLEAN /\ missed \in BOOLEAN

LinkInv ==
    /\ IInv
    /\ LinkTyped
    /\ QueueInOrder
    /\ ResponseFits
    /\ NoneInVain
    /\ PacketsInOrder
    /\ BuffersGivenBack
    /\ CountersTyped
    /\ Accounted
    /\ Noticed

-----------------------------------------------------------------------------
(* Sequences of packets. *)

LEMMA ElementsAppend ==
    ASSUME NEW S, NEW seq \in Seq(S), NEW e \in S
    PROVE  Elements(Append(seq, e)) = Elements(seq) \cup {e}
<1>1. /\ Append(seq, e) \in Seq(S) /\ Len(Append(seq, e)) = Len(seq) + 1 /\ Len(seq) \in Nat
      /\ \A i \in 1 .. Len(seq) : Append(seq, e)[i] = seq[i]
      /\ Append(seq, e)[Len(seq) + 1] = e
    BY AppendProperties, LenProperties
<1>2. DOMAIN Append(seq, e) = 1 .. Len(seq) + 1 /\ DOMAIN seq = 1 .. Len(seq)
    BY <1>1, LenProperties
<1>3. \A i \in 1 .. Len(seq) + 1 : i \in 1 .. Len(seq) \/ i = Len(seq) + 1
    BY <1>1
<1> QED
    BY <1>1, <1>2, <1>3 DEF Elements

LEMMA ElementsType ==
    ASSUME NEW S, NEW seq \in Seq(S)
    PROVE  Elements(seq) \subseteq S /\ (seq = <<>> <=> Elements(seq) = {})
<1>1. DOMAIN seq = 1 .. Len(seq) /\ Len(seq) \in Nat /\ \A i \in 1 .. Len(seq) : seq[i] \in S
    BY LenProperties, ElementOfSeq
<1>2. seq # <<>> => 1 \in DOMAIN seq
    BY <1>1, EmptySeq
<1>3. seq = <<>> => DOMAIN seq = {}
    BY <1>1, EmptySeq
<1>4. Elements(seq) \subseteq S
    BY <1>1 DEF Elements
<1>5. seq = <<>> <=> Elements(seq) = {}
    BY <1>2, <1>3 DEF Elements
<1> QED
    BY <1>4, <1>5

LEMMA ElementsTail ==
    ASSUME NEW S, NEW seq \in Seq(S), seq # <<>>
    PROVE  /\ Elements(seq) = {Head(seq)} \cup Elements(Tail(seq))
           /\ Head(seq) \in S /\ Tail(seq) \in Seq(S)
<1>1. /\ Tail(seq) \in Seq(S) /\ Len(Tail(seq)) = Len(seq) - 1 /\ Len(seq) \in Nat \ {0}
      /\ \A i \in 1 .. Len(Tail(seq)) : Tail(seq)[i] = seq[i + 1]
      /\ Head(seq) \in S
    BY HeadTailProperties, EmptySeq
<1>2. DOMAIN seq = 1 .. Len(seq) /\ DOMAIN Tail(seq) = 1 .. Len(seq) - 1 /\ Head(seq) = seq[1]
    BY <1>1, LenProperties
<1>3. \A i \in 1 .. Len(seq) : i = 1 \/ (i - 1 \in 1 .. Len(seq) - 1 /\ seq[i] = Tail(seq)[i - 1])
    BY <1>1
<1>4. \A i \in 1 .. Len(seq) - 1 : i + 1 \in 1 .. Len(seq) /\ Tail(seq)[i] = seq[i + 1]
    BY <1>1
<1>5. Elements(seq) \subseteq {Head(seq)} \cup Elements(Tail(seq))
    BY <1>2, <1>3, ZenonT(30) DEF Elements
<1>6. Elements(Tail(seq)) \subseteq Elements(seq)
    BY <1>2, <1>4 DEF Elements
<1>7. Head(seq) \in Elements(seq)
    BY <1>1, <1>2 DEF Elements
<1> QED
    BY <1>1, <1>5, <1>6, <1>7

LEMMA AscendingAppend ==
    ASSUME NEW seq \in Seq(Nat), NEW e \in Nat, Ascending(seq), \A q \in Elements(seq) : q < e
    PROVE  Append(seq, e) \in Seq(Nat) /\ Ascending(Append(seq, e))
<1>1. /\ Append(seq, e) \in Seq(Nat) /\ Len(Append(seq, e)) = Len(seq) + 1 /\ Len(seq) \in Nat
      /\ \A i \in 1 .. Len(seq) : Append(seq, e)[i] = seq[i]
      /\ Append(seq, e)[Len(seq) + 1] = e
    BY AppendProperties, LenProperties
<1>2. DOMAIN Append(seq, e) = 1 .. Len(seq) + 1 /\ DOMAIN seq = 1 .. Len(seq)
    BY <1>1, LenProperties
<1> SUFFICES ASSUME NEW i \in 1 .. Len(seq) + 1, NEW j \in 1 .. Len(seq) + 1, i < j
             PROVE  Append(seq, e)[i] < Append(seq, e)[j]
    BY <1>1, <1>2 DEF Ascending
<1>3. i \in 1 .. Len(seq)
    BY <1>1
<1>4. CASE j = Len(seq) + 1
    BY <1>1, <1>2, <1>3, <1>4 DEF Elements
<1>5. CASE j # Len(seq) + 1
    BY <1>1, <1>2, <1>3, <1>5 DEF Ascending
<1> QED
    BY <1>4, <1>5

LEMMA AscendingTail ==
    ASSUME NEW S, NEW seq \in Seq(S), S \subseteq Nat, seq # <<>>, Ascending(seq)
    PROVE  Ascending(Tail(seq)) /\ \A q \in Elements(Tail(seq)) : Head(seq) < q
<1>1. /\ Tail(seq) \in Seq(S) /\ Len(Tail(seq)) = Len(seq) - 1 /\ Len(seq) \in Nat \ {0}
      /\ \A i \in 1 .. Len(Tail(seq)) : Tail(seq)[i] = seq[i + 1]
    BY HeadTailProperties, EmptySeq
<1>2. DOMAIN seq = 1 .. Len(seq) /\ DOMAIN Tail(seq) = 1 .. Len(seq) - 1 /\ Head(seq) = seq[1]
    BY <1>1, LenProperties
<1>3. \A i \in 1 .. Len(seq) - 1 :
          i + 1 \in DOMAIN seq /\ 1 < i + 1 /\ Tail(seq)[i] = seq[i + 1] /\ 1 \in DOMAIN seq
    BY <1>1, <1>2
<1>4. \A i, j \in 1 .. Len(seq) - 1 : i < j => i + 1 < j + 1
    BY <1>1
<1>5. Ascending(Tail(seq))
    BY <1>2, <1>3, <1>4 DEF Ascending
<1>6. \A q \in Elements(Tail(seq)) : Head(seq) < q
    BY <1>2, <1>3 DEF Ascending, Elements
<1> QED
    BY <1>5, <1>6

-----------------------------------------------------------------------------
(* Which handler a step of the task calls, and in which phase. *)

LEMMA OneCall ==
    ASSUME NEW call
    PROVE  <<call>> # <<>> /\ Len(<<call>>) = 1 /\ <<call>>[1] = call
OBVIOUS

LEMMA TaskCalls ==
    ASSUME IInv, Task
    PROVE  /\ spi # "response" /\ UNCHANGED <<asked, risks>>
           /\ \/ calls' = calls
              \/ /\ calls = <<>> /\ ~(asked.read /\ asked.payloadLength > 0)
                 /\ calls' = <<Call("write", asked.command, asked.payloadLength)>>
              \/ /\ calls = <<>> /\ Asks(asked.command) /\ asked.command \in SupportsRead
                 /\ calls' = <<Call("read", asked.command, asked.payloadLength)>>
                 /\ IF gErrorFlag' THEN asked.command = GetCounters ELSE spi' = "response"
              \/ /\ Asks(ReadPacket) /\ Len(calls) = 1
                 /\ calls' = calls \o <<Call("post", ReadPacket, 0)>>
<1> USE DEF errorVars, hostVars
<1>0. spi # "response"
    BY DEF Task, TaskWake, HeaderIgnored, HeaderMisindexed, CommandAlone, CommandRead,
        CommandWritten, CountCleared, PayloadHandled, ResponseHandled, HeaderAccepted,
        HandlesHeader, Running, IInv, Phase, Listening, HeaderIn, Unanswered, Responding,
        Receiving, Received, Quiet, Pending
<1>1. CASE TaskWake
    BY <1>0, <1>1 DEF TaskWake
<1>2. CASE HeaderIgnored
    BY <1>0, <1>2 DEF HeaderIgnored, HandlesHeader
<1>3. CASE HeaderMisindexed
    BY <1>0, <1>3 DEF HeaderMisindexed, HandlesHeader
<1>4. CASE CommandAlone
    <2>1. HeaderIn /\ Buffered /\ asked \in Headers /\ calls = <<>>
        BY <1>4, AtCommand DEF CommandAlone, Buffered, HeaderIn
    <2>2. asked.payloadLength = 0 /\ DispatchCommand(asked.command, 0) /\ UNCHANGED hostVars
        BY <1>4, <2>1 DEF CommandAlone, HeaderAccepted, HandlesHeader, Buffered
    <2>3. calls' = calls \/ calls' = <<Call("write", asked.command, asked.payloadLength)>>
        BY <2>1, <2>2 DEF DispatchCommand
    <2>4. ~(asked.read /\ asked.payloadLength > 0)
        BY <2>2
    <2> QED
        BY <1>0, <2>1, <2>2, <2>3, <2>4
<1>5. CASE CommandRead
    <2> DEFINE c == asked.command
               n == asked.payloadLength
    <2>1. HeaderIn /\ Buffered /\ asked \in Headers /\ calls = <<>>
        BY <1>5, AtCommand DEF CommandRead, Buffered, HeaderIn
    <2>2. UNCHANGED hostVars /\ asked.read /\ n # 0
          /\ (NotReadable(c) \/ ReadFails(c, n) \/ ReadResponds(c, n))
        BY <1>5, <2>1 DEF CommandRead, HeaderAccepted, HandlesHeader, Buffered
    <2>3. Asks(c)
        BY <2>1, <2>2, HeaderType DEF Asks, Reads
    <2>4. CASE NotReadable(c)
        BY <1>0, <2>2, <2>4 DEF NotReadable
    <2>5. CASE ReadFails(c, n)
        <3>1. PostRead(c) = <<>> /\ c = GetCounters /\ c \in SupportsRead
            BY <2>5 DEF ReadFails, PostRead, WantsPostRead, ReadMayFail, ReadPacket, GetCounters,
                SupportsRead
        <3>2. <<Call("read", c, n)>> \in Seq(Calls)
            BY <2>1, HeaderType, CallType
        <3>3. calls' = <<Call("read", c, n)>>
            BY <2>1, <2>5, <3>1, <3>2, ConcatEmptySeq DEF ReadFails
        <3>4. gErrorFlag'
            BY <2>5 DEF ReadFails, Outcome
        <3> QED
            BY <1>0, <2>1, <2>2, <2>3, <3>1, <3>3, <3>4
    <2>6. CASE ReadResponds(c, n)
        <3>1. spi' = "response" /\ ~gErrorFlag' /\ c \in SupportsRead
            BY <2>1, <2>6 DEF ReadResponds, Arm, Outcome, HeaderIn
        <3>2. calls' = <<Call("read", c, n)>>
            BY <2>1, <2>6 DEF ReadResponds
        <3> QED
            BY <1>0, <2>1, <2>2, <2>3, <3>1, <3>2
    <2> QED
        BY <2>2, <2>4, <2>5, <2>6
<1>6. CASE CommandWritten
    BY <1>0, <1>6 DEF CommandWritten, HeaderAccepted, HandlesHeader
<1>7. CASE CountCleared
    BY <1>0, <1>7 DEF CountCleared
<1>8. CASE PayloadHandled
    <2>1. Received
        BY <1>8 DEF PayloadHandled, Running, IInv, Phase, Listening, HeaderIn, Unanswered,
            Responding, Receiving, Received, Quiet, Pending
    <2>2. asked \in Headers /\ ~asked.read /\ calls = <<>> /\ gCurrentHandler = asked.command
        BY <2>1 DEF Received, Writing, Handling, Buffered
    <2>3. UNCHANGED hostVars
        BY <1>8 DEF PayloadHandled
    <2>4. \/ calls' = calls
          \/ /\ gPayloadBytesReceived # 0
             /\ calls' = <<Call("write", asked.command, gPayloadBytesReceived)>>
        BY <1>8, <2>2 DEF PayloadHandled, DispatchCommand
    <2> QED
        BY <1>0, <2>1, <2>2, <2>3, <2>4 DEF Received
<1>9. CASE ResponseHandled
    <2>1. Responding
        BY <1>9 DEF ResponseHandled, Running, IInv, Phase, Listening, HeaderIn, Unanswered,
            Responding, Receiving, Received, Quiet, Pending
    <2>2. /\ asked \in Headers /\ asked.read /\ asked.payloadLength # 0
          /\ gCurrentHandler = asked.command
          /\ calls = <<Call("read", asked.command, asked.payloadLength)>>
        BY <2>1 DEF Responding, Reading, Handling, Buffered
    <2>3. Asks(asked.command) /\ Len(calls) = 1 /\ calls \in Seq(Calls)
        BY <2>2, HeaderType DEF Asks, Reads, IInv, TypeOK
    <2>4. UNCHANGED hostVars /\ (calls' = calls \/ calls' = calls \o PostRead(asked.command))
        BY <1>9, <2>2 DEF ResponseHandled
    <2>5. CASE asked.command = ReadPacket
        BY <1>0, <2>3, <2>4, <2>5 DEF PostRead, WantsPostRead
    <2>6. CASE asked.command # ReadPacket
        <3>1. calls' = calls
            BY <2>3, <2>4, <2>6, ConcatEmptySeq DEF PostRead, WantsPostRead
        <3> QED
            BY <1>0, <2>4, <3>1
    <2> QED
        BY <2>5, <2>6
<1> QED
    BY <1>1, <1>2, <1>3, <1>4, <1>5, <1>6, <1>7, <1>8, <1>9 DEF Task

-----------------------------------------------------------------------------
(* The invariant. *)

LEMMA LinkInvInit == LinkInit => LinkInv
<1> SUFFICES ASSUME LinkInit
             PROVE  LinkInv
    OBVIOUS
<1> USE DEF LinkInit
<1>1. IInv
    BY IInvInit
<1>2. Elements(<<>>) = {} /\ Ascending(<<>>)
    BY DEF Elements, Ascending
<1>3. Taken = {}
    BY DEF Taken
<1>4. ~Asks(ReadPacket) /\ asked = NoHeader
    BY DEF Asks, Init
<1>5. response = Silent /\ PacketOf(response) = {} /\ response.frames = 0
    BY DEF PacketOf, Silent
<1>6. QueueInOrder
    BY <1>2, <1>3, MaxPacketsAssumption DEF QueueInOrder
<1>7. NoneInVain /\ ResponseFits /\ Noticed /\ LinkTyped
    BY <1>4, <1>5 DEF NoneInVain, ResponseFits, Noticed, LinkTyped
<1>8. PacketsInOrder
    BY <1>2, <1>3, <1>5 DEF PacketsInOrder
<1>9. BuffersGivenBack
    BY <1>2, <1>3, <1>4 DEF BuffersGivenBack, Owed
<1>10. CountersTyped /\ Accounted
    BY <1>5 DEF CountersTyped, Accounted
<1> QED
    BY <1>1, <1>6, <1>7, <1>8, <1>9, <1>10 DEF LinkInv

\* The radio task.

LEMMA HandleRxPacketLinkInv ==
    ASSUME LinkInv, HandleRxPacket, UNCHANGED vars, IInv'
    PROVE  LinkInv'
<1> USE DEF HandleRxPacket, knownVars, vars
<1> DEFINE p == arrived + 1
<1>0. arrived \in Nat /\ MaxPackets \in Nat /\ p \in 1 .. arrived' /\ arrived' = p
      /\ 1 .. arrived' = (1 .. arrived) \cup {p} /\ p \notin 1 .. arrived
      /\ \A q \in 1 .. arrived : q < p
    BY MaxPacketsAssumption DEF LinkInv, QueueInOrder
<1>1. gRxQueue \in Seq(1 .. arrived') /\ gRxQueue \in Seq(Nat)
      /\ Elements(gRxQueue) \subseteq 1 .. arrived /\ refused \subseteq 1 .. arrived
    <2>1. gRxQueue \in Seq(1 .. arrived) /\ refused \subseteq 1 .. arrived
        BY DEF LinkInv, QueueInOrder
    <2>2. 1 .. arrived \subseteq 1 .. arrived' /\ 1 .. arrived \subseteq Nat
        BY <1>0
    <2> QED
        BY <2>1, <2>2, SeqMonotonic, ElementsType
<1>2. ASSUME refused' = refused \cup {p}, UNCHANGED gRxQueue
      PROVE  QueueInOrder' /\ Taken' = Taken
    <2>1. Taken' = Taken
        BY <1>0, <1>1, <1>2 DEF Taken
    <2>2. refused' \subseteq 1 .. arrived' /\ Elements(gRxQueue') \cap refused' = {}
        BY <1>0, <1>1, <1>2 DEF LinkInv, QueueInOrder
    <2> QED
        BY <1>0, <1>1, <1>2, <2>1, <2>2 DEF LinkInv, QueueInOrder
<1>3. ASSUME gRxQueue' = Append(gRxQueue, p), UNCHANGED refused
      PROVE  QueueInOrder' /\ Taken' = Taken
    <2>1. Elements(gRxQueue') = Elements(gRxQueue) \cup {p} /\ gRxQueue' \in Seq(1 .. arrived')
        BY <1>0, <1>1, <1>3, ElementsAppend, AppendProperties
    <2>2. Taken' = Taken
        BY <1>0, <1>1, <1>3, <2>1 DEF Taken
    <2>3. Ascending(gRxQueue')
        BY <1>0, <1>1, <1>3, AscendingAppend DEF LinkInv, QueueInOrder
    <2>4. Elements(gRxQueue') \cap refused' = {}
        BY <1>0, <1>1, <1>3, <2>1 DEF LinkInv, QueueInOrder
    <2>5. \A t \in Taken', q \in Elements(gRxQueue') : t < q
        BY <1>0, <2>1, <2>2 DEF LinkInv, QueueInOrder, Taken
    <2>6. arrived' \in 0 .. MaxPackets /\ refused' \subseteq 1 .. arrived'
        BY <1>0, <1>1, <1>3
    <2> QED
        BY <2>1, <2>2, <2>3, <2>4, <2>5, <2>6 DEF QueueInOrder
<1>4. QueueInOrder' /\ Taken' = Taken
    BY <1>2, <1>3
<1>5. gRxQueue' # <<>> /\ packetReceived' = TRUE
    <2>1. Len(gRxQueue) = RxQueueSize => gRxQueue # <<>>
        BY RxQueueSizeAssumption, EmptySeq
    <2>2. Append(gRxQueue, p) # <<>>
        <3>1. p \in Nat
            BY <1>0
        <3> HIDE DEF p
        <3> QED
            BY <1>1, <3>1, AppendProperties
    <2>3. gRxQueue' # <<>>
        BY <2>1, <2>2
    <2> QED
        BY <2>3 DEF Asserts
<1>6. LinkTyped'
    BY <1>5 DEF LinkInv, LinkTyped
<1>7. ResponseFits'
    BY <1>4, <1>5 DEF LinkInv, ResponseFits
<1>8. NoneInVain'
    BY <1>5 DEF LinkInv, NoneInVain, Asks, Reads
<1>9. PacketsInOrder'
    BY <1>4 DEF LinkInv, PacketsInOrder
<1>10. BuffersGivenBack'
    BY <1>4 DEF LinkInv, BuffersGivenBack, Owed, Asks
<1>11. CountersTyped' /\ Accounted'
    <2>1. radioPc = "idle" /\ radioPc' = "count" /\ arrived' = arrived + 1
        OBVIOUS
    <2>2. UNCHANGED <<gRxFrames, radioLoaded, counted, response, risks>>
        OBVIOUS
    <2>3. CountersTyped'
        BY <1>0, <2>1, <2>2 DEF LinkInv, CountersTyped
    <2>4. Accounted'
        BY <1>0, <2>1, <2>2 DEF LinkInv, Accounted
    <2> QED
        BY <2>3, <2>4
<1>12. Noticed'
    BY <1>5 DEF Noticed
<1> QED
    BY <1>4, <1>6, <1>7, <1>8, <1>9, <1>10, <1>11, <1>12 DEF LinkInv

\* What depends neither on the counter nor on how the firmware got where it is.
LEMMA SameLinkInv ==
    ASSUME LinkInv,
           UNCHANGED <<arrived, refused, queueVars, gPbuf, knows, offered, missed, told, lost, freed>>
    PROVE  /\ LinkTyped' /\ QueueInOrder' /\ Taken' = Taken
           /\ UNCHANGED response => PacketsInOrder' /\ Noticed'
           /\ UNCHANGED <<asked, calls>> => NoneInVain' /\ BuffersGivenBack'
           /\ UNCHANGED response /\ (response = Silent \/ UNCHANGED <<asked, spi>>) => ResponseFits'
<1> USE DEF queueVars
<1>1. LinkTyped'
    BY DEF LinkInv, LinkTyped
<1>2. Taken' = Taken
    BY DEF Taken
<1>3. QueueInOrder'
    BY <1>2 DEF LinkInv, QueueInOrder
<1>4. UNCHANGED response => PacketsInOrder' /\ Noticed'
    BY <1>2 DEF LinkInv, PacketsInOrder, Noticed
<1>5. UNCHANGED <<asked, calls>> => NoneInVain' /\ BuffersGivenBack'
    BY <1>2 DEF LinkInv, NoneInVain, BuffersGivenBack, Owed, Asks, Reads
<1>6. UNCHANGED response /\ (response = Silent \/ UNCHANGED <<asked, spi>>) => ResponseFits'
    BY <1>2 DEF LinkInv, ResponseFits
<1> QED
    BY <1>1, <1>2, <1>3, <1>4, <1>5, <1>6

\* An increment, whole or torn; what is read in between is counted once more.
LEMMA CountsLinkInv ==
    ASSUME LinkInv, CountFrame \/ LoadFrames \/ StoreFrames, UNCHANGED vars, IInv'
    PROVE  LinkInv'
<1> USE DEF knownVars
<1>1. UNCHANGED <<arrived, refused, queueVars, gPbuf, knows, offered, missed, told, lost, freed>>
      /\ UNCHANGED <<response, counted>>
    BY DEF CountFrame, LoadFrames, StoreFrames
<1>2. UNCHANGED <<asked, calls, spi, risks>>
    BY DEF vars
<1>3. /\ LinkTyped' /\ QueueInOrder' /\ PacketsInOrder' /\ Noticed' /\ NoneInVain'
      /\ BuffersGivenBack' /\ ResponseFits'
    BY <1>1, <1>2, SameLinkInv
<1>4. response.frames \in Nat
    BY DEF LinkInv, ResponseFits, Silent, QueueSays, PacketSays, InterruptSays
<1>5. arrived \in Nat
    BY MaxPacketsAssumption DEF LinkInv, QueueInOrder
<1>6. CountersTyped' /\ Accounted'
    <2>1. CountFrame => CountersTyped' /\ Accounted'
        BY <1>1, <1>2, <1>4, <1>5 DEF CountFrame, CountersTyped, Accounted, LinkInv
    <2>2. LoadFrames => CountersTyped' /\ Accounted'
        BY <1>1, <1>2, <1>4, <1>5 DEF LoadFrames, CountersTyped, Accounted, LinkInv
    <2>3. StoreFrames => CountersTyped' /\ Accounted'
        BY <1>1, <1>2, <1>4, <1>5 DEF StoreFrames, CountersTyped, Accounted, LinkInv
    <2> QED
        BY <2>1, <2>2, <2>3
<1> QED
    BY <1>3, <1>6 DEF LinkInv

\* The host.

LEMMA Answers ==
    /\ /\ Silent.queue = "untold" /\ Silent.interrupt = FALSE
       /\ Silent.packet = NoPacket /\ Silent.frames = 0
    /\ \A state : LET answer == QueueSays(state)
                  IN  /\ answer.queue = state /\ answer.interrupt = FALSE
                      /\ answer.packet = NoPacket /\ answer.frames = 0
    /\ \A pending : LET answer == InterruptSays(pending)
                    IN  /\ answer.queue = "untold" /\ answer.interrupt = pending
                        /\ answer.packet = NoPacket /\ answer.frames = 0
    /\ \A packet : LET answer == PacketSays(packet)
                   IN  /\ answer.queue = "untold" /\ answer.interrupt = FALSE
                       /\ answer.packet = packet /\ answer.frames = 0
    /\ \A frames : LET answer == CountersSay(frames)
                   IN  /\ answer.queue = "untold" /\ answer.interrupt = FALSE
                       /\ answer.packet = NoPacket /\ answer.frames = frames
BY DEF Silent, QueueSays, InterruptSays, PacketSays, CountersSay

LEMMA OwedOnce ==
    /\ calls = <<>> => Owed = {}
    /\ IInv /\ Listening => Owed = {}
<1>1. ASSUME calls = <<>>
      PROVE  Owed = {}
    BY <1>1, EmptySeq DEF Owed
<1>2. ASSUME IInv, Listening, Asks(ReadPacket)
      PROVE  Len(calls) = 2
    <2>1. asked \in Headers /\ asked.read /\ asked.payloadLength # 0 /\ asked.command = ReadPacket
          /\ ReadPacket \in SupportsRead
        BY <1>2, HeaderType DEF Asks, Reads, IInv, TypeOK, SupportsRead
    <2> DEFINE first == Call("read", asked.command, asked.payloadLength)
               second == Call("post", asked.command, 0)
    <2>2. calls = <<first>> \o <<second>>
        BY <1>2, <2>1, ExpectedRead DEF Listening, PostRead, WantsPostRead
    <2> HIDE DEF first, second
    <2> QED
        BY <2>2, FirstOfTwo
<1> QED
    BY <1>1, <1>2 DEF Owed

LEMMA HostAsksLinkInv ==
    ASSUME LinkInv, HostAsks, IInv'
    PROVE  LinkInv'
<1> USE DEF HostAsks, HeaderReceived, radioVars, queueVars
<1>1. Listening /\ response = Silent
    BY DEF LinkInv, IInv, Phase, HeaderIn, Unanswered, Responding, Receiving, Received, Listening,
        ResponseFits
<1>2. Taken' = Taken
    BY DEF Taken
<1>3. calls' = <<>> /\ Owed = {} /\ Owed' = {}
    <2>1. calls' = <<>>
        OBVIOUS
    <2>2. Owed = {}
        BY <1>1, OwedOnce DEF LinkInv
    <2>3. Owed' = {}
        BY <2>1, EmptySeq DEF Owed
    <2> QED
        BY <2>1, <2>2, <2>3
<1>4. LinkTyped' /\ QueueInOrder' /\ PacketsInOrder' /\ Noticed'
    BY <1>2 DEF LinkInv, LinkTyped, QueueInOrder, PacketsInOrder, Noticed
<1>5. ResponseFits'
    BY <1>1 DEF ResponseFits
<1>6. BuffersGivenBack'
    BY <1>2, <1>3 DEF LinkInv, BuffersGivenBack
<1>7. NoneInVain'
    <2>1. PICK h \in Headers, ok \in BOOLEAN :
              /\ Reads(h, ReadPacket) => offered
              /\ HeaderReceived(h, ok)
              /\ offered' = (offered /\ ~(ok /\ Reads(h, ReadPacket)))
        OBVIOUS
    <2>2. Asks(ReadPacket)' => ok /\ Reads(h, ReadPacket)
        BY <2>1 DEF Asks, Reads
    <2>3. offered' => offered /\ ~Asks(ReadPacket)'
        BY <2>1, <2>2
    <2> QED
        BY <2>1, <2>2, <2>3 DEF LinkInv, NoneInVain
<1>8. CountersTyped' /\ Accounted'
    BY DEF LinkInv, CountersTyped, Accounted
<1> QED
    BY <1>4, <1>5, <1>6, <1>7, <1>8 DEF LinkInv

LEMMA HostWritesLinkInv ==
    ASSUME LinkInv, HostWrites, IInv'
    PROVE  LinkInv'
<1>1. response = Silent /\ UNCHANGED <<asked, calls, risks>>
    BY DEF HostWrites, PayloadReceived, LinkInv, ResponseFits
<1>2. UNCHANGED linkVars
    BY DEF HostWrites
<1>3. UNCHANGED <<arrived, refused, queueVars, gPbuf, knows, offered, missed, told, lost, freed>>
      /\ UNCHANGED <<response, counted, radioPc, radioLoaded, gRxFrames>>
    BY <1>2 DEF linkVars, radioVars, knownVars
<1>4. /\ LinkTyped' /\ QueueInOrder' /\ PacketsInOrder' /\ Noticed' /\ NoneInVain'
      /\ BuffersGivenBack' /\ ResponseFits'
    BY <1>1, <1>3, SameLinkInv
<1>5. CountersTyped' /\ Accounted'
    BY <1>1, <1>3 DEF LinkInv, CountersTyped, Accounted
<1> QED
    BY <1>4, <1>5 DEF LinkInv

\* What a response may say, by what it says.
LEMMA ResponseSays ==
    ASSUME LinkInv
    PROVE  /\ response.frames \in Nat /\ response.interrupt \in BOOLEAN
           /\ response.queue = "waiting" => gRxQueue # <<>> /\ ~Asks(ReadPacket)
           /\ response.queue = "empty" =>
                 /\ gRxQueue # <<>> => packetReceived
                 /\ ~response.interrupt
           /\ response.queue \in Queue
           /\ PacketOf(response) # {} => PacketOf(response) = {response.packet}
           /\ PacketOf(response) \subseteq {gPbuf}
<1> DEFINE Fields(queue, interrupt, packet, frames) ==
               /\ response.queue = queue /\ response.interrupt = interrupt
               /\ response.packet = packet /\ response.frames = frames
<1>1. \/ Fields("untold", FALSE, NoPacket, 0)
      \/ Fields("waiting", FALSE, NoPacket, 0) /\ gRxQueue # <<>> /\ ~Asks(ReadPacket)
      \/ Fields("empty", FALSE, NoPacket, 0) /\ (gRxQueue # <<>> => packetReceived)
      \/ Fields("untold", FALSE, gPbuf, 0)
      \/ response.frames \in Nat /\ Fields("untold", FALSE, NoPacket, response.frames)
      \/ response.interrupt \in BOOLEAN /\ Fields("untold", response.interrupt, NoPacket, 0)
    <2>1. asked.command \in {GetStatus, GetPacketQueueStatus} => ~Asks(ReadPacket)
        BY DEF Asks, Reads, GetStatus, GetPacketQueueStatus, ReadPacket
    <2>2. \/ response = Silent
          \/ response = QueueSays("waiting") /\ gRxQueue # <<>> /\ ~Asks(ReadPacket)
          \/ response = QueueSays("empty") /\ (gRxQueue # <<>> => packetReceived)
          \/ response = PacketSays(gPbuf)
          \/ response.frames \in Nat /\ response = CountersSay(response.frames)
          \/ response.interrupt \in BOOLEAN /\ response = InterruptSays(response.interrupt)
        BY <2>1 DEF LinkInv, ResponseFits
    <2> HIDE DEF Fields
    <2>3. response = Silent => Fields("untold", FALSE, NoPacket, 0)
        BY Answers DEF Fields
    <2>4. \A state : response = QueueSays(state) => Fields(state, FALSE, NoPacket, 0)
        BY Answers DEF Fields
    <2>5. response = PacketSays(gPbuf) => Fields("untold", FALSE, gPbuf, 0)
        BY Answers DEF Fields
    <2>6. response = CountersSay(response.frames)
             => Fields("untold", FALSE, NoPacket, response.frames)
        BY Answers DEF Fields
    <2>7. response = InterruptSays(response.interrupt)
             => Fields("untold", response.interrupt, NoPacket, 0)
        BY Answers DEF Fields
    <2> QED
        BY <2>2, <2>3, <2>4, <2>5, <2>6, <2>7
<1>2. response.frames \in Nat /\ response.interrupt \in BOOLEAN
    <2>1. response.frames \in Nat
        BY <1>1
    <2>2. response.interrupt \in BOOLEAN
        BY <1>1, Zenon
    <2> QED
        BY <2>1, <2>2
<1>3. response.queue = "waiting" => gRxQueue # <<>> /\ ~Asks(ReadPacket)
    BY <1>1
<1>4. response.queue = "empty" => (gRxQueue # <<>> => packetReceived) /\ ~response.interrupt
    BY <1>1
<1>5. response.queue \in Queue
    BY <1>1 DEF Queue
<1>6. response.packet \in {NoPacket, gPbuf}
    BY <1>1
<1> QED
    BY <1>2, <1>3, <1>4, <1>5, <1>6 DEF PacketOf

\* Nothing of a response is left once the host has clocked it, well or not.
LEMMA TransmittedLinkInv ==
    ASSUME LinkInv, IInv', NEW ok \in BOOLEAN, ResponseTransmitted(ok), response' = Silent,
           counted' = counted + response.frames,
           UNCHANGED <<radioVars, queueVars, gRxFrames, gPbuf, freed>>
    PROVE  /\ QueueInOrder' /\ ResponseFits' /\ BuffersGivenBack' /\ CountersTyped' /\ Accounted'
           /\ Taken' = Taken /\ UNCHANGED <<asked, calls>>
<1> USE DEF ResponseTransmitted, radioVars, queueVars
<1>1. Taken' = Taken /\ UNCHANGED <<asked, calls>>
    BY DEF Taken
<1>2. QueueInOrder'
    BY <1>1 DEF LinkInv, QueueInOrder
<1>3. ResponseFits'
    BY DEF ResponseFits
<1>4. BuffersGivenBack'
    BY <1>1 DEF LinkInv, BuffersGivenBack, Owed, Asks
<1>5. response.frames \in Nat /\ response'.frames = 0
    BY ResponseSays, Answers
<1>6. CountersTyped'
    BY <1>5 DEF LinkInv, CountersTyped
<1>7. Accounted'
    <2>1. arrived \in Nat /\ counted \in Nat /\ gRxFrames \in Nat
        BY MaxPacketsAssumption DEF LinkInv, QueueInOrder, CountersTyped
    <2> QED
        BY <1>5, <2>1 DEF LinkInv, Accounted
<1> QED
    BY <1>1, <1>2, <1>3, <1>4, <1>6, <1>7

LEMMA HostHearsLinkInv ==
    ASSUME LinkInv, HostHears, IInv'
    PROVE  LinkInv'
<1>1. /\ QueueInOrder' /\ ResponseFits' /\ BuffersGivenBack' /\ CountersTyped' /\ Accounted'
      /\ Taken' = Taken /\ UNCHANGED <<asked, calls>>
    BY TransmittedLinkInv DEF HostHears
<1> USE DEF HostHears, queueVars
<1>2. LinkTyped'
    BY ResponseSays DEF LinkInv, LinkTyped, NoticeOf
<1>3. NoneInVain'
    BY <1>1, ResponseSays DEF LinkInv, NoneInVain, Asks, Reads, Queue
<1>4. Noticed'
    BY <1>2, ResponseSays DEF LinkInv, Noticed, NoticeOf, LinkTyped, Queue
<1>5. PacketsInOrder'
    <2>1. PacketOf(response') = {}
        BY Answers DEF PacketOf
    <2>2. CASE PacketOf(response) = {}
        BY <1>1, <2>1, <2>2 DEF LinkInv, PacketsInOrder
    <2>3. CASE PacketOf(response) # {}
        <3> DEFINE p == response.packet
        <3>1. PacketOf(response) = {p} /\ told' = Append(told, p) /\ UNCHANGED lost
            BY <2>3, ResponseSays
        <3>2. /\ told \in Seq(Nat) /\ Ascending(told) /\ Elements(told) \cap lost = {}
              /\ Taken = Elements(told) \cup lost \cup {p}
              /\ \A q \in Elements(told) \cup lost : q < p
            BY <3>1 DEF LinkInv, PacketsInOrder
        <3> HIDE DEF p
        <3>3. p \in Nat
            <4>1. p \in Taken
                BY <3>2
            <4> QED
                BY <4>1, MaxPacketsAssumption DEF Taken, LinkInv, QueueInOrder
        <3>4. told' \in Seq(Nat) /\ Ascending(told') /\ Elements(told') = Elements(told) \cup {p}
            BY <3>1, <3>2, <3>3, AscendingAppend, ElementsAppend
        <3>5. p \notin lost
            BY <3>2, <3>3
        <3> QED
            BY <1>1, <2>1, <3>1, <3>2, <3>4, <3>5 DEF PacketsInOrder
    <2> QED
        BY <2>2, <2>3
<1> QED
    BY <1>1, <1>2, <1>3, <1>4, <1>5 DEF LinkInv

LEMMA HostMishearsLinkInv ==
    ASSUME LinkInv, HostMishears, IInv'
    PROVE  LinkInv'
<1>1. /\ QueueInOrder' /\ ResponseFits' /\ BuffersGivenBack' /\ CountersTyped' /\ Accounted'
      /\ Taken' = Taken /\ UNCHANGED <<asked, calls>>
    BY TransmittedLinkInv DEF HostMishears
<1> USE DEF HostMishears, queueVars
<1>2. LinkTyped'
    BY ResponseSays DEF LinkInv, LinkTyped, NoticeOf
<1>3. NoneInVain'
    BY <1>1 DEF LinkInv, NoneInVain, Asks, Reads
<1>4. Noticed'
    BY ResponseSays DEF LinkInv, Noticed, NoticeOf, LinkTyped
<1>5. PacketsInOrder'
    <2>1. PacketOf(response') = {}
        BY Answers DEF PacketOf
    <2>2. \A p \in PacketOf(response) : p \in Nat
        BY MaxPacketsAssumption DEF LinkInv, PacketsInOrder, Taken, QueueInOrder
    <2>3. \A p \in PacketOf(response) : p \notin Elements(told)
        BY <2>2 DEF LinkInv, PacketsInOrder
    <2> QED
        BY <1>1, <2>1, <2>3 DEF LinkInv, PacketsInOrder
<1> QED
    BY <1>1, <1>2, <1>3, <1>4, <1>5 DEF LinkInv

\* The task.

\* Steps that call no handler, or one that fails.
LEMMA NoEffectLinkInv ==
    ASSUME LinkInv, IInv', response = Silent, UNCHANGED <<asked, risks>>,
           \/ UNCHANGED calls
           \/ calls = <<>> /\ ~Asks(ReadPacket),
           UNCHANGED <<radioVars, knownVars, queueVars, gRxFrames, gPbuf, response, freed>>
    PROVE  LinkInv'
<1> USE DEF radioVars, knownVars
<1>1. LinkTyped' /\ QueueInOrder' /\ PacketsInOrder' /\ Noticed' /\ ResponseFits' /\ Taken' = Taken
    BY SameLinkInv
<1>2. NoneInVain' /\ BuffersGivenBack'
    <2>1. CASE UNCHANGED calls
        BY <2>1, SameLinkInv
    <2>2. CASE calls = <<>> /\ ~Asks(ReadPacket)
        <3>1. ~Asks(ReadPacket)'
            BY <2>2 DEF Asks, Reads
        <3>2. Owed = {} /\ Owed' = {}
            BY <2>2, <3>1 DEF Owed
        <3> QED
            BY <1>1, <3>1, <3>2 DEF LinkInv, NoneInVain, BuffersGivenBack, queueVars
    <2> QED
        BY <2>1, <2>2
<1>3. CountersTyped' /\ Accounted'
    BY DEF LinkInv, CountersTyped, Accounted
<1> QED
    BY <1>1, <1>2, <1>3 DEF LinkInv

\* IrqStatus may acknowledge PacketReceived, which the host knows of then.
LEMMA DoWriteLinkInv ==
    ASSUME LinkInv, IInv', response = Silent, UNCHANGED <<asked, risks>>,
           calls = <<>>, ~(asked.read /\ asked.payloadLength > 0),
           NEW command, DoWrite(command), UNCHANGED <<radioVars, knownVars, freed>>
    PROVE  LinkInv'
<1> USE DEF radioVars, knownVars, DoWrite
<1>1. ~Asks(ReadPacket) /\ ~Asks(ReadPacket)'
    BY DEF Asks, Reads
<1>2. packetReceived' = packetReceived \/ (packetReceived' = FALSE /\ knows)
    OBVIOUS
<1>3. Taken' = Taken
    BY DEF Taken
<1>4. LinkTyped' /\ QueueInOrder' /\ PacketsInOrder' /\ ResponseFits'
    BY <1>2, <1>3 DEF LinkInv, LinkTyped, QueueInOrder, PacketsInOrder, ResponseFits
<1>5. Noticed'
    BY <1>2 DEF LinkInv, Noticed
<1>6. NoneInVain'
    BY <1>1 DEF LinkInv, NoneInVain
<1>7. BuffersGivenBack'
    <2>1. Owed = {} /\ Owed' = {}
        BY <1>1 DEF Owed
    <2> QED
        BY <1>3, <2>1 DEF LinkInv, BuffersGivenBack
<1>8. CountersTyped' /\ Accounted'
    BY DEF LinkInv, CountersTyped, Accounted
<1> QED
    BY <1>4, <1>5, <1>6, <1>7, <1>8 DEF LinkInv

\* The answers that leave the queue alone.
LEMMA DoReadLinkInv ==
    ASSUME LinkInv, IInv', response = Silent, UNCHANGED <<asked, risks>>, spi' = "response",
           calls = <<>>, asked # NoHeader, asked.command # ReadPacket, DoRead(asked.command),
           UNCHANGED <<radioVars, knownVars, freed>>
    PROVE  LinkInv'
<1> USE DEF radioVars, knownVars, queueVars, Says
<1>1. ~Asks(ReadPacket) /\ ~Asks(ReadPacket)'
    BY DEF Asks, Reads
<1>2. CASE asked.command \in {GetStatus, GetPacketQueueStatus} /\ QueueRead
    <2> USE <1>2 DEF QueueRead
    <2>1. response' = QueueSays(IF gRxQueue = <<>> THEN "empty" ELSE "waiting")
        OBVIOUS
    <2>2. UNCHANGED <<queueVars, gRxFrames, gPbuf>>
        OBVIOUS
    <2>3. QueueInOrder' /\ LinkTyped' /\ Taken' = Taken
        BY <2>2, SameLinkInv
    <2>4. ResponseFits'
        BY <2>1, <2>2 DEF ResponseFits
    <2>5. /\ response'.frames = response.frames /\ PacketOf(response') = PacketOf(response)
          /\ NoticeOf(response') = (gRxQueue # <<>>) /\ NoticeOf(response) = FALSE
        BY <2>1, Answers DEF PacketOf, NoticeOf
    <2>6. PacketsInOrder' /\ Noticed'
        BY <2>2, <2>3, <2>5 DEF LinkInv, PacketsInOrder, Noticed
    <2>7. NoneInVain' /\ BuffersGivenBack'
        BY <1>1, <2>2, <2>3 DEF LinkInv, NoneInVain, BuffersGivenBack, Owed
    <2>8. CountersTyped' /\ Accounted'
        BY <2>2, <2>5 DEF LinkInv, CountersTyped, Accounted
    <2> QED
        BY <2>3, <2>4, <2>6, <2>7, <2>8 DEF LinkInv
<1>3. CASE asked.command = GetCounters /\ GetCountersRead
    <2> USE <1>3 DEF GetCountersRead
    <2>1. response' = CountersSay(gRxFrames) /\ gRxFrames' = 0 /\ UNCHANGED <<queueVars, gPbuf>>
        OBVIOUS
    <2>2. QueueInOrder' /\ LinkTyped' /\ Taken' = Taken
        BY <2>1, SameLinkInv
    <2>3. gRxFrames \in Nat /\ response'.frames = gRxFrames /\ response.frames = 0
          /\ PacketOf(response') = PacketOf(response) /\ NoticeOf(response') = NoticeOf(response)
        BY <2>1, Answers DEF PacketOf, NoticeOf, LinkInv, CountersTyped
    <2>4. ResponseFits'
        BY <2>1, <2>3 DEF ResponseFits
    <2>5. PacketsInOrder' /\ Noticed'
        BY <2>1, <2>2, <2>3 DEF LinkInv, PacketsInOrder, Noticed
    <2>6. NoneInVain' /\ BuffersGivenBack'
        BY <1>1, <2>1, <2>2 DEF LinkInv, NoneInVain, BuffersGivenBack, Owed
    <2>7. CountersTyped'
        BY <2>1 DEF LinkInv, CountersTyped
    <2>8. Accounted'
        BY <2>1, <2>3 DEF LinkInv, CountersTyped, Accounted
    <2> QED
        BY <2>2, <2>4, <2>5, <2>6, <2>7, <2>8 DEF LinkInv
<1>4. CASE asked.command = IrqStatus /\ IrqStatusRead
    <2> USE <1>4 DEF IrqStatusRead
    <2>1. /\ response' = InterruptSays(packetReceived) /\ packetReceived' = FALSE
          /\ UNCHANGED <<gRxQueue, gRxFrames, gPbuf>>
        OBVIOUS
    <2>2. Taken' = Taken /\ LinkTyped'
        BY <2>1 DEF Taken, LinkInv, LinkTyped
    <2>3. QueueInOrder'
        BY <2>1, <2>2 DEF LinkInv, QueueInOrder
    <2>4. /\ response'.interrupt = packetReceived /\ response'.queue = "untold"
          /\ response'.frames = response.frames
          /\ PacketOf(response') = PacketOf(response)
          /\ NoticeOf(response) = FALSE
        BY <2>1, Answers DEF PacketOf, NoticeOf
    <2>5. ResponseFits'
        BY <2>1, <2>4 DEF ResponseFits, LinkInv, LinkTyped
    <2>6. PacketsInOrder'
        BY <2>1, <2>2, <2>4 DEF LinkInv, PacketsInOrder
    <2>7. Noticed'
        BY <2>1, <2>4 DEF LinkInv, Noticed, NoticeOf
    <2>8. NoneInVain' /\ BuffersGivenBack'
        BY <1>1, <2>1, <2>2 DEF LinkInv, NoneInVain, BuffersGivenBack, Owed
    <2>9. CountersTyped' /\ Accounted'
        BY <2>1, <2>4 DEF LinkInv, CountersTyped, Accounted
    <2> QED
        BY <2>2, <2>3, <2>5, <2>6, <2>7, <2>8, <2>9 DEF LinkInv
<1>5. CASE GetInfoRead
    BY <1>1, <1>5, NoEffectLinkInv DEF GetInfoRead
<1> QED
    BY <1>2, <1>3, <1>4, <1>5 DEF DoRead

\* ReadPacket takes the first packet of a queue that is not empty.
LEMMA ReadPacketLinkInv ==
    ASSUME LinkInv, IInv', response = Silent, UNCHANGED <<asked, risks>>, spi' = "response",
           calls = <<>>, Asks(ReadPacket), ReadPacketRead, NEW call, calls' = <<call>>,
           UNCHANGED <<radioVars, knownVars, freed>>
    PROVE  LinkInv'
<1> USE DEF radioVars, knownVars, ReadPacketRead, Says
<1> DEFINE p == Head(gRxQueue)
<1>1. gRxQueue # <<>> /\ ~offered /\ Asks(ReadPacket)'
    BY DEF LinkInv, NoneInVain, Asks, Reads
<1>2. /\ gPbuf' = p /\ gRxQueue' = Tail(gRxQueue) /\ response' = PacketSays(p)
      /\ packetReceived' = (packetReceived \/ gRxQueue' # <<>>) /\ UNCHANGED gRxFrames
    BY <1>1
<1> HIDE DEF ReadPacketRead
<1>3. /\ gRxQueue \in Seq(1 .. arrived) /\ 1 .. arrived \subseteq Nat /\ arrived \in Nat
      /\ refused \subseteq 1 .. arrived /\ Ascending(gRxQueue)
    BY MaxPacketsAssumption DEF LinkInv, QueueInOrder
<1>4. /\ Elements(gRxQueue) = {p} \cup Elements(gRxQueue')
      /\ p \in 1 .. arrived /\ gRxQueue' \in Seq(1 .. arrived)
      /\ Ascending(gRxQueue') /\ \A q \in Elements(gRxQueue') : p < q
    BY <1>1, <1>2, <1>3, ElementsTail, AscendingTail
<1> HIDE DEF p
<1>5. p \in Nat \ {NoPacket} /\ p \notin Elements(gRxQueue')
    BY <1>4 DEF NoPacket
<1>6. Taken' = Taken \cup {p} /\ \A t \in Taken : t < p
    <2>1. p \in Elements(gRxQueue) /\ p \notin refused
        BY <1>4 DEF LinkInv, QueueInOrder
    <2>2. Taken' = Taken \cup {p}
        BY <1>4, <1>5, <2>1 DEF Taken
    <2> QED
        BY <2>1, <2>2 DEF LinkInv, QueueInOrder
<1>7. QueueInOrder'
    <2>1. Elements(gRxQueue') \cap refused' = {}
        BY <1>4 DEF LinkInv, QueueInOrder
    <2>2. \A t \in Taken', q \in Elements(gRxQueue') : t < q
        BY <1>4, <1>6 DEF LinkInv, QueueInOrder
    <2> QED
        BY <1>3, <1>4, <2>1, <2>2 DEF LinkInv, QueueInOrder
<1>8. LinkTyped'
    BY <1>2 DEF LinkInv, LinkTyped
<1>9. ResponseFits'
    BY <1>1, <1>2, <1>6 DEF ResponseFits, Asks, Reads
<1>10. NoneInVain'
    BY <1>1 DEF NoneInVain
<1>11. /\ PacketOf(response') = {p} /\ PacketOf(response) = {}
       /\ response'.frames = 0 /\ response.frames = 0
       /\ NoticeOf(response) = FALSE
    BY <1>2, <1>5, Answers DEF PacketOf, NoticeOf
<1>12. PacketsInOrder'
    BY <1>6, <1>11 DEF LinkInv, PacketsInOrder
<1>13. BuffersGivenBack'
    <2>1. Owed = {} /\ Owed' = {p}
        BY <1>1, <1>2, OwedOnce, OneCall DEF Owed
    <2>2. p \notin Taken
        BY <1>5, <1>6
    <2> QED
        BY <1>6, <2>1, <2>2 DEF LinkInv, BuffersGivenBack
<1>14. CountersTyped' /\ Accounted'
    BY <1>2, <1>11 DEF LinkInv, CountersTyped, Accounted
<1>15. Noticed'
    BY <1>2 DEF Noticed
<1> QED
    BY <1>7, <1>8, <1>9, <1>10, <1>12, <1>13, <1>14, <1>15 DEF LinkInv

\* PostRead gives its buffer back.
LEMMA PostReadLinkInv ==
    ASSUME LinkInv, IInv', response = Silent, UNCHANGED <<asked, risks>>,
           Asks(ReadPacket), Len(calls) = 1, NEW call, calls' = calls \o <<call>>,
           call \in Calls, ReadPacketPostRead, UNCHANGED <<radioVars, knownVars>>
    PROVE  LinkInv'
<1> USE DEF radioVars, knownVars, ReadPacketPostRead
<1>1. calls \in Seq(Calls) /\ Len(calls') = 2 /\ calls' # <<>>
    <2>1. calls \in Seq(Calls) /\ <<call>> \in Seq(Calls)
        BY DEF LinkInv, IInv, TypeOK
    <2>2. Len(calls \o <<call>>) = Len(calls) + Len(<<call>>)
        BY <2>1, ConcatProperties
    <2>3. Len(calls') = 2
        BY <2>2, OneCall
    <2> QED
        BY <2>1, <2>3, EmptySeq
<1>2. Taken' = Taken /\ QueueInOrder' /\ LinkTyped'
    BY DEF Taken, LinkInv, QueueInOrder, LinkTyped, queueVars
<1>3. PacketsInOrder' /\ Noticed' /\ ResponseFits'
    BY <1>2 DEF LinkInv, PacketsInOrder, Noticed, ResponseFits, queueVars
<1>4. NoneInVain'
    BY <1>1 DEF LinkInv, NoneInVain, Asks, Reads, queueVars
<1>5. BuffersGivenBack'
    <2>1. Owed = {gPbuf} /\ Owed' = {}
        BY <1>1 DEF Owed
    <2>2. gPbuf \in Taken /\ gPbuf \in Nat
        BY <2>1, MaxPacketsAssumption DEF LinkInv, BuffersGivenBack, Taken, QueueInOrder
    <2>3. /\ freed' \in Seq(Nat) /\ Ascending(freed')
          /\ Elements(freed') = Elements(freed) \cup {gPbuf}
        <3>1. /\ freed \in Seq(Nat) /\ Ascending(freed)
              /\ \A q \in Elements(freed) : q < gPbuf
            BY <2>1 DEF LinkInv, BuffersGivenBack
        <3>2. freed' = Append(freed, gPbuf) /\ gPbuf \in Nat
            BY <2>2
        <3>3. /\ Append(freed, gPbuf) \in Seq(Nat) /\ Ascending(Append(freed, gPbuf))
              /\ Elements(Append(freed, gPbuf)) = Elements(freed) \cup {gPbuf}
            BY ONLY <3>1, <3>2, AscendingAppend, ElementsAppend
        <3> QED
            BY ONLY <3>2, <3>3
    <2> QED
        BY <1>2, <2>1, <2>2, <2>3 DEF LinkInv, BuffersGivenBack
<1>6. CountersTyped' /\ Accounted'
    BY DEF LinkInv, CountersTyped, Accounted
<1> QED
    BY <1>2, <1>3, <1>4, <1>5, <1>6 DEF LinkInv

LEMMA TaskStepsLinkInv ==
    ASSUME LinkInv, TaskSteps, IInv'
    PROVE  LinkInv'
<1>1. UNCHANGED <<radioVars, knownVars, asked, risks>> /\ IInv /\ Task
    BY TaskCalls DEF TaskSteps, LinkInv
<1>2. response = Silent
    BY <1>1, TaskCalls DEF LinkInv, ResponseFits
<1> DEFINE made == calls'[Len(calls')]
<1>3. calls' # calls => Effect(made)
    BY DEF TaskSteps
<1>4. CASE calls' = calls
    <2>1. UNCHANGED <<queueVars, gRxFrames, gPbuf, response, freed>>
        BY <1>4 DEF TaskSteps
    <2> QED
        BY <1>1, <1>2, <1>4, <2>1, NoEffectLinkInv
<1>5. CASE /\ calls = <<>> /\ ~(asked.read /\ asked.payloadLength > 0)
           /\ calls' = <<Call("write", asked.command, asked.payloadLength)>>
    <2>1. calls' # calls /\ made = Call("write", asked.command, asked.payloadLength)
        BY <1>5, OneCall
    <2>2. DoWrite(asked.command) /\ UNCHANGED freed
        BY <1>3, <2>1 DEF Effect, Call
    <2> QED
        BY <1>1, <1>2, <1>5, <2>2, DoWriteLinkInv
<1>6. CASE /\ calls = <<>> /\ Asks(asked.command) /\ asked.command \in SupportsRead
           /\ calls' = <<Call("read", asked.command, asked.payloadLength)>>
           /\ IF gErrorFlag' THEN asked.command = GetCounters ELSE spi' = "response"
    <2>1. calls' # calls /\ made = Call("read", asked.command, asked.payloadLength)
        BY <1>6, OneCall
    <2>2. \/ gErrorFlag' /\ UNCHANGED <<queueVars, gRxFrames, gPbuf, response, freed>>
          \/ ~gErrorFlag' /\ DoRead(asked.command) /\ UNCHANGED freed
        BY <1>3, <2>1 DEF Effect, Call
    <2>3. CASE gErrorFlag' /\ UNCHANGED <<queueVars, gRxFrames, gPbuf, response, freed>>
        <3>1. ~Asks(ReadPacket)
            BY <1>6, <2>3 DEF Asks, Reads, GetCounters, ReadPacket
        <3> QED
            BY <1>1, <1>2, <1>6, <2>3, <3>1, NoEffectLinkInv
    <2>4. CASE ~gErrorFlag' /\ DoRead(asked.command) /\ UNCHANGED freed
        <3>1. CASE asked.command = ReadPacket
            <4>1. ReadPacketRead
                BY <2>4, <3>1 DEF DoRead, GetStatus, GetPacketQueueStatus, ReadPacket, GetCounters,
                    IrqStatus, GetInfo, IrqConfig
            <4> QED
                BY <1>1, <1>2, <1>6, <2>4, <3>1, <4>1, ReadPacketLinkInv
        <3>2. CASE asked.command # ReadPacket
            BY <1>1, <1>2, <1>6, <2>4, <3>2, DoReadLinkInv DEF Asks
        <3> QED
            BY <3>1, <3>2
    <2> QED
        BY <2>2, <2>3, <2>4
<1>7. CASE /\ Asks(ReadPacket) /\ Len(calls) = 1
           /\ calls' = calls \o <<Call("post", ReadPacket, 0)>>
    <2> DEFINE post == Call("post", ReadPacket, 0)
    <2>1. post \in Calls
        <3>1. ReadPacket \in Cmds
            BY <1>1, <1>7, HeaderType DEF Asks, Reads, IInv, TypeOK
        <3> QED
            BY <3>1, CallType
    <2>2. post.op = "post"
        BY DEF Call
    <2> HIDE DEF post
    <2>3. calls \in Seq(Calls) /\ <<post>> \in Seq(Calls)
        BY <1>1, <2>1 DEF IInv, TypeOK
    <2>4. Len(calls') = 2 /\ calls'[2] = post
        BY <1>7, <2>3, OneCall, ConcatProperties DEF post
    <2>5. calls' # calls /\ made = post
        BY <1>7, <2>4
    <2>6. ReadPacketPostRead
        BY <1>3, <2>2, <2>5 DEF Effect
    <2> QED
        BY <1>1, <1>2, <1>7, <2>1, <2>6, PostReadLinkInv DEF post
<1> QED
    BY <1>1, <1>4, <1>5, <1>6, <1>7, TaskCalls

\* Every step of the link is one of HostIfTask, or leaves it alone.
LEMMA LinkIsHostIfTask == [LinkNext]_allVars => [Next]_vars
BY DEF LinkNext, HostSteps, HostAsks, HostWrites, HostHears, HostMishears, TaskSteps, Next, Host,
    allVars

LEMMA LinkInvStep ==
    ASSUME LinkInv, [LinkNext]_allVars
    PROVE  LinkInv'
<1>1. IInv'
    BY LinkIsHostIfTask, IInvStep DEF LinkInv
<1>2. CASE HostSteps
    BY <1>1, <1>2, HostAsksLinkInv, HostWritesLinkInv, HostHearsLinkInv, HostMishearsLinkInv
       DEF HostSteps
<1>3. CASE TaskSteps
    BY <1>1, <1>3, TaskStepsLinkInv
<1>4. CASE RadioTask /\ UNCHANGED vars
    BY <1>1, <1>4, HandleRxPacketLinkInv, CountsLinkInv DEF RadioTask
<1>5. CASE UNCHANGED allVars
    <2>1. UNCHANGED <<asked, calls, spi, risks>> /\ UNCHANGED linkVars
        BY <1>5 DEF allVars, vars
    <2>2. /\ UNCHANGED <<arrived, refused, queueVars, gPbuf, knows, offered, missed, told, lost,
                         freed>>
          /\ UNCHANGED <<response, counted, radioPc, radioLoaded, gRxFrames>>
        BY <2>1 DEF linkVars, radioVars, knownVars
    <2>3. /\ LinkTyped' /\ QueueInOrder' /\ PacketsInOrder' /\ Noticed' /\ NoneInVain'
          /\ BuffersGivenBack' /\ ResponseFits'
        BY <2>1, <2>2, SameLinkInv
    <2>4. CountersTyped' /\ Accounted'
        BY <2>1, <2>2 DEF LinkInv, CountersTyped, Accounted
    <2> QED
        BY <1>1, <2>3, <2>4 DEF LinkInv
<1> QED
    BY <1>2, <1>3, <1>4, <1>5 DEF LinkNext

LEMMA LinkKeepsPackets == LinkInv => PacketsKept
<1> SUFFICES ASSUME LinkInv
             PROVE  PacketsKept
    OBVIOUS
<1>1. Running /\ spi = "header" => Listening
    BY DEF LinkInv, IInv, Phase, HeaderIn, Unanswered, Responding, Receiving, Received
<1>2. Running /\ spi = "header" => Elements(freed) = Taken
    BY <1>1, OwedOnce DEF LinkInv, BuffersGivenBack
<1>3. \A p \in Taken \ Elements(freed), q \in Elements(freed) : q < p
    BY DEF LinkInv, BuffersGivenBack
<1> QED
    BY <1>2, <1>3 DEF LinkInv, PacketsInOrder, BuffersGivenBack, PacketsKept

-----------------------------------------------------------------------------
(* The theorems. *)

LEMMA LinkInvariance == LinkSpec => []LinkInv
    BY LinkInvInit, LinkInvStep, PTL DEF LinkSpec

\* The link implements the task it is built on: its steps are those of
\* HostIf/Task.cpp and CommandHandlers.cpp, whatever the handlers do.
THEOREM LinkImplementsTask == LinkSpec => Spec
<1>1. LinkInit => Init
    BY DEF LinkInit
<1> QED
    BY <1>1, LinkIsHostIfTask, PTL DEF LinkSpec, Spec

\* With the radio task and the handlers beside it the task does what it does
\* alone: it keeps in step with the host, runs each command once as it was asked
\* for, and stops only at the named risks.
THEOREM LinkKeepsTheTask == LinkSpec => [](InStep /\ CallsAsAsked /\ StopsAtRisk)
<1>1. LinkInv => InStep /\ CallsAsAsked /\ StopsAtRisk
    BY QuietInStep, ListeningIsDone DEF LinkInv, IInv
<1> QED
    BY <1>1, LinkInvariance, PTL

\* No packet that was let in is lost on its way to the host but with a response
\* whose transfer fails; they come in order, once, and each buffer is given back
\* once (PopRxQueue, ReadPacket::DoRead and PostRead).
THEOREM PacketsReachTheHost == LinkSpec => []PacketsKept
    BY LinkKeepsPackets, LinkInvariance, PTL

\* The counters that the host reads add up to the frames read, and never to less,
\* however the increments and GetCounters::DoRead interleave.
THEOREM CountersAddUp == LinkSpec => []Accounted
<1>1. LinkInv => Accounted
    BY DEF LinkInv
<1> QED
    BY <1>1, LinkInvariance, PTL

\* No packet waits in the queue without a sign of it that the host has, gets, or
\* has missed (UpdateRxQueueState, IrqStatus::DoRead, GetStatus::DoRead).
THEOREM NoPacketUnnoticed == LinkSpec => []Noticed
<1>1. LinkInv => Noticed
    BY DEF LinkInv
<1> QED
    BY <1>1, LinkInvariance, PTL
=============================================================================
