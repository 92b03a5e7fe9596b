------------------------------- MODULE Logger -------------------------------
(***************************************************************************)
(* Log::Logger once the scheduler runs.  A task formats its message into a *)
(* buffer of its own, and hands it to the UART's driver, whose DMA reads   *)
(* it later; gUartCompletion, a binary semaphore, is given back by the     *)
(* interrupt at the end of that transfer.  The first task to log takes the *)
(* static buffer of the messages of boot and of panics, the others ask     *)
(* malloc for theirs.                                                      *)
(*                                                                         *)
(* Abstracted: the text of a message, which is its task and its number     *)
(* here, its time and level, and the trace output (kEnableTraceSwo is      *)
(* false).                                                                 *)
(***************************************************************************)
EXTENDS Integers, Sequences

CONSTANTS
    Loggers,        \* the tasks that log
    MaxMessages,    \* bound: the messages of each task
    TxBuffers       \* SL_UARTDRV_EUSART_TTY_TX_BUFFER_SIZE

ASSUME LoggersAssumption == Loggers \cap {"gLogBuffer", "none", "\r\n"} = {}
ASSUME MaxMessagesAssumption == MaxMessages \in Nat
ASSUME TxBuffersAssumption == TxBuffers \in Nat

VARIABLES
    logPc,              \* where each task is in Log
    logged,             \* the messages each task has begun
    tlsLogBuffer,       \* the task's buffer (TLSLogBuffer), or NoBuffer
    gLogBufferAssigned,
    content,            \* the message in each buffer
    gUartCompletion,    \* the semaphore's count
    txQueue,            \* the UART driver's transfers, the first of them at work
    wire,               \* history: what has been sent
    panicked            \* a task has reached Logger::Panic

logVars == <<logPc, logged, tlsLogBuffer, gLogBufferAssigned, content, gUartCompletion, txQueue,
             wire, panicked>>

-----------------------------------------------------------------------------
\* gLogBuffer, and what malloc gives to a task.
Static == "gLogBuffer"
Buffers == {Static} \cup Loggers
NoBuffer == "none"

Message(task, number) == <<task, number>>
Nothing == <<Static, 0>>
LineEnd == <<"\r\n", 0>>

\* A transfer: a buffer, or the constant "\r\n", and whether the callback that
\* gives the semaphore comes with it.
Transfer(from, callback) == [from |-> from, callback |-> callback]

LoggerTypeOK ==
    /\ logPc \in [Loggers -> {"idle", "take", "format", "send"}]
    /\ logged \in [Loggers -> 0 .. MaxMessages]
    /\ tlsLogBuffer \in [Loggers -> Buffers \cup {NoBuffer}]
    /\ gLogBufferAssigned \in BOOLEAN
    /\ DOMAIN content = Buffers
    /\ gUartCompletion \in 0 .. 1
    /\ Len(txQueue) <= TxBuffers
    /\ panicked \in BOOLEAN

\* Logger::Init, and the buffer as the messages of boot have left it.
LoggerInitial ==
    /\ logPc = [t \in Loggers |-> "idle"]
    /\ logged = [t \in Loggers |-> 0]
    /\ tlsLogBuffer = [t \in Loggers |-> NoBuffer]
    /\ gLogBufferAssigned = FALSE
    /\ content = [b \in Buffers |-> Nothing]
    /\ gUartCompletion = 1
    /\ txQueue = <<>>
    /\ wire = <<>>
    /\ panicked = FALSE

\* The processor starts again, with its memory as it was linked.
LoggerRestarts ==
    /\ logPc' = [t \in Loggers |-> "idle"]
    /\ logged' = [t \in Loggers |-> 0]
    /\ tlsLogBuffer' = [t \in Loggers |-> NoBuffer]
    /\ gLogBufferAssigned' = FALSE
    /\ content' = [b \in Buffers |-> Nothing]
    /\ gUartCompletion' = 1
    /\ txQueue' = <<>>
    /\ wire' = <<>>
    /\ panicked' = FALSE

-----------------------------------------------------------------------------
(* Logger::Log, for a task that logs a message below Error. *)

\* Its buffer; the test and set lets one task only have the static one.
GetBuffer(task) ==
    \/ /\ tlsLogBuffer[task] # NoBuffer
       /\ UNCHANGED <<tlsLogBuffer, gLogBufferAssigned>>
    \/ /\ tlsLogBuffer[task] = NoBuffer /\ ~gLogBufferAssigned
       /\ tlsLogBuffer' = [tlsLogBuffer EXCEPT ![task] = Static]
       /\ gLogBufferAssigned' = TRUE
    \/ /\ tlsLogBuffer[task] = NoBuffer /\ gLogBufferAssigned
       /\ tlsLogBuffer' = [tlsLogBuffer EXCEPT ![task] = task]
       /\ UNCHANGED gLogBufferAssigned

BeginLog(task) ==
    /\ ~panicked
    /\ logPc[task] = "idle" /\ logged[task] < MaxMessages
    /\ logged' = [logged EXCEPT ![task] = @ + 1]
    /\ GetBuffer(task)
    /\ logPc' = [logPc EXCEPT ![task] = "take"]
    /\ UNCHANGED <<content, gUartCompletion, txQueue, wire, panicked>>

\* Fault: "could be skipped if we're outputting a different buffer right now".
TakeUartOfSameBuffer(task) ==
    /\ ~panicked
    /\ logPc[task] = "take"
    /\ gUartCompletion = 1 \/ \A i \in DOMAIN txQueue : txQueue[i].from # tlsLogBuffer[task]
    /\ gUartCompletion' = 0
    /\ logPc' = [logPc EXCEPT ![task] = "format"]
    /\ UNCHANGED <<logged, tlsLogBuffer, gLogBufferAssigned, content, txQueue, wire, panicked>>

TakeUart(task) ==
    /\ ~panicked
    /\ logPc[task] = "take"
    /\ gUartCompletion = 1
    /\ gUartCompletion' = 0
    /\ logPc' = [logPc EXCEPT ![task] = "format"]
    /\ UNCHANGED <<logged, tlsLogBuffer, gLogBufferAssigned, content, txQueue, wire, panicked>>

FormatMessage(task) ==
    /\ ~panicked
    /\ logPc[task] = "format"
    /\ content' = [content EXCEPT ![tlsLogBuffer[task]] = Message(task, logged[task])]
    /\ logPc' = [logPc EXCEPT ![task] = "send"]
    /\ UNCHANGED <<logged, tlsLogBuffer, gLogBufferAssigned, gUartCompletion, txQueue, wire,
                   panicked>>

\* UARTDRV_Transmit; its error, when the queue is full, is not looked at.
Queued(queue, transfer) ==
    IF Len(queue) < TxBuffers THEN Append(queue, transfer) ELSE queue

\* Fault: the semaphore comes back with the end of the line, which has no
\* callback in the code.
SendCallbackLast(task) ==
    /\ ~panicked
    /\ logPc[task] = "send"
    /\ txQueue' = Queued(Queued(txQueue, Transfer(tlsLogBuffer[task], FALSE)),
                         Transfer("\r\n", FALSE))
    /\ logPc' = [logPc EXCEPT ![task] = "idle"]
    /\ UNCHANGED <<logged, tlsLogBuffer, gLogBufferAssigned, content, gUartCompletion, wire,
                   panicked>>

\* Both transfers, in a critical section.
SendMessage(task) ==
    /\ ~panicked
    /\ logPc[task] = "send"
    /\ txQueue' = Queued(Queued(txQueue, Transfer(tlsLogBuffer[task], TRUE)),
                         Transfer("\r\n", FALSE))
    /\ logPc' = [logPc EXCEPT ![task] = "idle"]
    /\ UNCHANGED <<logged, tlsLogBuffer, gLogBufferAssigned, content, gUartCompletion, wire,
                   panicked>>

\* The DMA has sent the first transfer: what its buffer holds by then.
TransferEnds ==
    /\ ~panicked
    /\ txQueue # <<>>
    /\ LET done == Head(txQueue)
       IN  /\ wire' = Append(wire, IF done.from \in Buffers THEN content[done.from] ELSE LineEnd)
           /\ gUartCompletion' = IF done.callback THEN 1 ELSE gUartCompletion
    /\ txQueue' = Tail(txQueue)
    /\ UNCHANGED <<logPc, logged, tlsLogBuffer, gLogBufferAssigned, content, panicked>>

\* A message that is not buffered: Error, and the one of a REQUIRE.
SentAtOnce == <<Nothing, LineEnd>>

\* A REQUIRE: its messages overwrite the static buffer and are sent without the
\* semaphore, and then nothing goes on.
LogPanics ==
    /\ ~panicked
    /\ panicked' = TRUE
    /\ content' = [content EXCEPT ![Static] = Nothing]
    /\ wire' = wire \o SentAtOnce
    /\ UNCHANGED <<logPc, logged, tlsLogBuffer, gLogBufferAssigned, gUartCompletion, txQueue>>

LogStep(task) == TakeUart(task) \/ FormatMessage(task) \/ SendMessage(task)

-----------------------------------------------------------------------------
(* Properties. *)

\* The messages of a task that the wire has carried before its i-th line.
SentBefore(task, i) ==
    {n \in 1 .. MaxMessages : \E j \in DOMAIN wire : j < i /\ wire[j] = Message(task, n)}

\* What a task has logged is sent whole and in order, each message once and on
\* a line of its own: no other task writes to a buffer the DMA still reads, and
\* the driver's queue never refuses a transfer, which Log would not notice.
LinesWhole ==
    ~panicked =>
        \A i \in DOMAIN wire :
            IF i % 2 = 0 THEN wire[i] = LineEnd
            ELSE \E t \in Loggers, n \in 1 .. MaxMessages :
                    wire[i] = Message(t, n) /\ SentBefore(t, i) = 1 .. n - 1

\* A task that logs gets on with its work: the UART comes back after each
\* message.
LogReturns ==
    \A t \in Loggers : logPc[t] # "idle" ~> (logPc[t] = "idle" \/ panicked)
=============================================================================
