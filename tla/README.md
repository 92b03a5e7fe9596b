# Verification of the BlazeNet coordinator firmware

`host-radio` is the firmware of the radio coprocessor in a BlazeNet coordinator. A host talks to it
over SPI and an interrupt line; it transmits, receives, acknowledges and beacons over a sub-GHz
radio. This directory holds TLA+ modules that model it, TLC configurations that check them on small
instances, and proofs, checked by TLAPS, of their invariants and action properties for every value
of the constants.

Paths below are relative to `src/host-radio/Sources/` unless they start with `libs/`.

## 1. The system

### Contexts

The firmware is one C++ program under FreeRTOS, everything in statically declared modules with
static state. What runs concurrently:

| context | runs | preempted by |
| --- | --- | --- |
| interrupts | RAIL's event callback (`Radio/Task.cpp:468-511`), SPIDRV's completion callbacks (`HostIf/Task.cpp:199, 245, 277`) | - |
| HostIf task (AppHigh) | `HostIf::Task::Main` and every command handler | interrupts |
| radio task (Middleware) | `Radio::Task::Main`: receive, transmit completion, retries | interrupts, HostIf task |
| timer task (priority 2, queue of 5 commands, 250 Hz tick) | watchdog, beacon and indicator timers' callbacks | all of the above |
| idle | `IrqManager::TickCallback`, if built with recovery | all |
| before the scheduler | `Main.cpp:31-85`: flash, file system, set-up of all modules | - |

### Components, their state, operations and correctness

| component | state | operations | correct when |
| --- | --- | --- | --- |
| Packet handler, TX (`Packet/Handler.*`) | four priority queues, `gTxPacketsPending`, `gTxAllocBytes`, overflow flag, heap buffers | `QueueTxPacket` (copying and sticky), `AllocTxPacket`, `QueueTxPacketFinal`, `DiscardTxPacket`, `PopTxQueue`, `UpdateTxQueueState` | the count is the number of packets held; buffers are freed once, and none leaks; priority, then order of arrival, decides; the drained queue is reported |
| Packet handler, RX | `gRxQueue`, `gRxAllocBytes`, overflow flag | `HandleRxPacket`, `PopRxQueue`, `PeekRxQueue`, `DiscardRxPacket`, `UpdateRxQueueState` | packets get to the host in order and once, are announced, and their buffers have one owner |
| Radio task (`Radio/Task.*`) | `gLastTx`, `gTxChannel`, notification bits, calibration flag | `Main`, `TxPacketImmediate`, `HandleTxComplete`, `ReadPacket`, `QueueAck`, `SetChannel`, `SetTxPower`, `SetAddress` | one transmission at a time; each ends in exactly one completion; at most `kMaxCsmaFails` tries |
| RAIL callback | RAIL's FIFOs, the radio | events to notification bits, counters | no event is lost or invented |
| Beacon (`BlazeNet/Beacon.*`) | `gPacket`, `gEnabled`, timer | `SetPayload`, `SetEnabled`, `SetInterval`, `CommsLost`, `CommsRegained`, `EmitBeacon` | beacons go out exactly while enabled and the host is there; the one sticky packet is never freed in use |
| HostIf task (`HostIf/Task.*`) | command buffer, handler, payload count, error flag, notification bits | `Main`, `ReadCommand`, `ProcessCommand`, `ReadPayload`, three dispatch functions, three callbacks | the transfer armed is the one the host clocks next; each handler runs once per request |
| Command table and handlers (`HostIf/CommandHandlers.cpp`, `HostIf/Handlers/`) | `ReadPacket::gPbuf` | ten commands | what the header asks is what is called |
| Interrupt manager (`HostIf/IrqManager.*`) | active and mask bits, line, recovery stage | `Assert`, `Acknowledge`, `SetMask`, `Update`, `TickCallback` | the line is low while an unmasked interrupt is active |
| Watchdog (`HostIf/Watchdog.*`) | `gCheckinsMissed`, `gCommsLostFlag`, timer | `Init`, `Kick`, timer callback, `HandleCommsLost`, `HandleCommsRegained` | a silent host, and only a silent host, is declared lost |
| Indicators (`Hw/Indicators.*`) | script and next update of each LED, timer | `SetChannelScript`, `TimerFired`, `UpdateTimerPeriod` | LEDs follow their scripts and never hold anybody up |
| Flash driver (`Fs/Flash.*`) | chip geometry; the chip's latches | `write`, `erase`, `eraseChip`, `reset`, `read` | exactly the bytes named are changed, and success means done |
| File system start-up (`Fs/Init.cpp`, `Fs/NorFs.cpp`) | superblock, SPIFFS volume | `Init`, `Format`, `Mount` | an empty chip is formatted once, one in use never |
| Counters | packet and FIFO counters | `etl::exchange` in `ReadCounters`, `GetCounters` | each event is reported once |
| Start-up (`Main.cpp`, `Radio/Init.cpp`, `Radio/sl_rail_util_init.c`, `Rtos/`) | which parts are set up, which tasks run | `EarlyInit`, `HwInit`, `SwInit`, RAIL's call-backs, `StartScheduler`, the hooks | nothing is used before it is set up; boot ends |
| Logger (`Log/Logger.*`) | a buffer for each task and a static one, the UART's semaphore | `Log`, `Panic`, `log_panic` | messages are sent whole and in order, and a task that logs gets on |
| Crypto, drivers, identity, fault handlers, RAIL configuration, `libs/blazenet-types` | none of their own that matters here | | |

### How they interact

* Host → HostIf task: SPI transfers, one armed at a time, no handshake. HostIf task → host: the
  response of a read, and the interrupt line, which `PacketReceived`, `TxQueueEmpty`, `CommandError`
  raise and reading `IrqStatus` clears.
* Command handlers call the packet handler, the beacon, the radio task's setters and the interrupt
  manager directly, in the HostIf task.
* RAIL's interrupt sets notification bits of the radio task, which calls the packet handler; that
  calls back into `TxPacketImmediate` when it was idle.
* The beacon's timer and the watchdog's call into the packet handler, the beacon and the indicators
  from the timer task; every component talks to its timers through the timer task's one queue.

### What is hard

Tasks of three priorities and two interrupts share plain variables; "Calls into the handler are not
thread safe" (`Packet/Handler.h:25`) and all three tasks make them. The SPI protocol has no
handshake, so an error path that does not arm the next transfer ends the conversation. Timer
commands wait in a queue of five, and the timer task may wait for itself. One timer serves three
LEDs. A response that fails on the wire has already taken its packet, its interrupts and its counts
with it. Some thirty calls have to set things up in the right order while RAIL already calls back. CSMA failures are counted
in buffers that beacons reuse. Power can fail while the flash is being formatted. Each hazard is
listed with its line in `PROJECT.json`.

## 2. The modules

| module | models | notes |
| --- | --- | --- |
| `PriorityTx` | abstract: one transmitter, highest priority first, FIFO in each | implemented by `TxPath` |
| `TxPath` | transmit path: handler, radio task, RAIL's TX events, beacon packet | |
| `TxTries` | `TxPath` with a history variable that counts busy reports | |
| `TxPathProofs` | theorems about `TxPath` and `TxTries` | |
| `TxRace` | `HandleTxComplete` access by access, preempted by `QueueTxPacketFinal` | inside the calls that are single steps in `TxPath` |
| `MCTxPath`, `MCTxTries` | TLC instances of `TxPath` and `TxTries` | |
| `LossyFifo` | abstract: packets come out in order, at most once | implemented by `RxPath` |
| `RxPath`, `MCRxPath` | receive path, radio task and HostIf task | |
| `RxPathProofs` | theorems about `RxPath` | |
| `HostIfTask` | HostIf task, SPI, command table, and the host's side of the protocol | |
| `HostLink` | `HostIfTask` with the handlers that are read, the receive queue, one interrupt, one counter, and responses that fail | extends `HostIfTask` |
| `HostLinkProofs` | theorems about `HostIfTask` and `HostLink` | |
| `IrqManager` | interrupt bits, mask, line, recovery | |
| `Supervision`, `MCSupervision` | watchdog, beacon timer, indicators' timer, timer queue | history variables `silence` and `met` |
| `SupervisionProofs` | theorems about `MCSupervision`, that is `Supervision` with its history | |
| `Indicators` | scripts, next updates, the one timer, wrapping ticks | |
| `SignalProofs` | theorems about `IrqManager` and `Indicators`, the two parts that signal to the outside | |
| `NorFlash` | flash driver and chip | |
| `NorFlashProofs` | theorems about `NorFlash` | |
| `FsBoot` | start-up of the file system over power failures | uses no operation of `NorFlash` but its outcome |
| `StartUp` | the calls of `main()`, RAIL's call-backs, the tasks' start, what stops them | extends `FsBoot` |
| `Logger` | `Logger::Log` in several tasks, the UART's DMA, panics | |
| `MCBoot` | composes `StartUp` and `Logger`: tasks log once they run, a failure panics through the logger, a reset empties it | |
| `BootProofs` | theorems about `MCBoot`, and so about `FsBoot`, `StartUp` and `Logger` | |
| `Sums` | lemmas about sums over finite sets | used by three proof modules |

### TxPath

State carries the names of the code (`gTxPacketsPending`, `gLastTx`, `gPacket`, ...). `heap` is what
`malloc` gave out: for a buffer its size (0 when free), its sticky bit and its CSMA count. `air`
says that RAIL is transmitting; `notes` and `work` are the notification bits pending and fetched by
the radio task; `sys` is `"run"` or how the firmware stopped (a failed `REQUIRE`, or an early return
from a critical section).

One call into the handler is one step, and so is a whole command handler: nothing that touches this
state preempts one but an interrupt, which only sets a bit. A host action is `HostTransmit`,
`BeaconConfigPayload`, `BeaconConfig`, `SetChannel` or `HostAcknowledge`; a timer action is
`EmitBeacon`; interrupts are `TxPacketSent` and `TxChannelBusy`; the radio task's steps are
`RadioWake`, `RadioTransmitted`, `RadioBusy`, `QueueAck` and the five of `HandleTxComplete`:
`DiscardLast`, `ForgetLast` (`gLastTx = nullptr`), `TestEmpty`, `PopNext`, `StartNext`. The HostIf
task runs its commands between any two of these; the timer task, whose priority is lower, does not.
`QueueTxPacketFinal` has the code's three outcomes: started, queued, refused by RAIL.

The line "XXX: is this potentially racy?" (`Radio/Task.cpp:272`) is right, and `TxPath` has the race:
once the last pending packet is discarded, the count is 0 and a submission starts the radio at once,
while the radio task has yet to forget the old packet or to test for a next one (`Races`). What
follows, a failed `REQUIRE` or a packet nobody remembers, is part of the model. `raced` records that
it has happened, and `Orderly` is that it has not: properties that the race breaks are claimed until
then, so that each says that this window is the only way to break it.

`Risks` names what the host may do that the code does not cope with; section 5 says what happens
then. Without them the model assumes a host that does not; a run or a theorem says which it allows.

### RxPath

`Radio::Task::ReadPacket` and `Handler::HandleRxPacket` are taken apart at each access to shared
state, because the HostIf task preempts them; a command handler is one step, because nothing that
touches this state preempts it. `gRxAllocBytes +=` is a load and a store, and `lost`
records what `PostRead` subtracts in between. RAIL's
FIFO, with packets held, reset or dropped by an overflow, is part of the model; what the host does
on an interrupt (`IrqStatus`, `GetPacketQueueStatus`, `ReadPacket`, the callback after it) is a
sequence of separate steps between which packets arrive.

### HostIfTask

`spi` is the transfer armed; `host` is the transfer the host will clock next according to
`HostIf/Commands.h`; `calls` are the handler calls made for the header `asked`. The task runs Main's
loop, with every early return and the callback's notification bits. `risks` says what may happen in
a behaviour that the code does not cope with: `"eager"` lets the SPI interrupt come between the
lines of `ProcessCommand`, `"failedResponse"` lets the transfer of a response fail, and so on.

### HostLink

Each step of `HostIfTask` that calls a handler also does what that handler does (`Effect`): a
packet's buffer is `gPbuf` from `DoRead` to `PostRead`, the answer is `response` until the host has
clocked it or the transfer has failed. The radio task adds packets and counts frames between any
two steps; with `"torn"` its `gRxFrames++` is a load and a store. `PostRead` is told of success
whatever the transfer's status was, as in the code (`HostIf/Task.cpp:92, 201`), so that a failed
response loses its packet, which is then acknowledged to its sender; `lost`, `missed` and `counted`
record what went that way. The host asks for a packet only after it was told of one and reads no
more bytes than it has; a `ReadPacket` of an empty queue, whose `front()` is no packet, is outside
of the model.

### IrqManager

The words of bits are sets. `Assert` and `Acknowledge` are the critical sections they are in the
code; `TickCallback`, which the idle hook calls if the firmware is built with recovery, decides
outside of its own and is two steps. `kRecoveryEnabled` is a variable that never changes, so that
one run covers both builds. `known` is what the host learned or named in its last use of `IrqStatus`.

### Supervision

`timerQueue` is FreeRTOS's timer command queue with its limit: posts without a wait are dropped
when it is full, posts with `portMAX_DELAY` wait. `BootPosts` is what `main()` has posted by the time
the scheduler runs, cut to the limit. The HostIf task runs between any two steps of the timer task,
and the timer task where the HostIf task waits, which may be in the middle of a command. Time is
abstracted: a running timer may expire at any moment. `met` records that a command came while the
watchdog's callback ran, or that the callback began while a command waited: nothing in the code keeps
the two apart, and what follows, beacons that stay off or a timer task that waits for itself, is part
of the model. The properties are claimed until then.

### Indicators

A channel is its script, the offset in it, the next update and whether it waits for the timer.
`TimerFired` is three steps: it reads the time, takes the lock and processes the channels that are
due, and posts the next period, all of which the radio and the HostIf task preempt with scripts of
their own. A channel that ends its script leaves `next` as it was on the stack
(`Hw/Indicators.cpp:92-96`): any value. `began` records when a step of a script began.

### NorFlash and FsBoot

`NorFlash` runs the operations that change the chip (`write`, `erase`, and the ones they are made
of: `writePage`, `eraseSector`, `eraseBlock`, `eraseChip`) as the driver does: a piece at a time,
each a check, a write enable, a command and a wait, any of which can fail; the chip ignores commands while it is busy or
not enabled, clears the latch, and wraps within a page. A cell is an address; the model keeps which
cells the call has changed. `FsBoot` runs `Fs::Init` from power-on, through formatting or mounting;
power may fail at any step and leave what was being changed torn.

### StartUp, Logger and MCBoot

`Calls` is the order of the calls of `main()`, taken apart where RAIL calls back. Each names the
parts it uses and those it sets up; `misused` collects what is used too early. RAIL's events come as
soon as `sl_rail_util_init_inst0` has enabled them, a panic may come from any call that can fail and
writes to the UART, and an `APP_ASSERT` or the stack guard spins without a word. A processor fault may
come at any instruction from reset on, before the UART is set up too, and its handler logs all the
same (`FaultHandlers.cpp`). `Logger` models
`Log` after the scheduler has started: each task's buffer, the semaphore, the two transfers of a
message, of which only the first gives the semaphore back, and the DMA that reads a buffer when it
gets to it.

## 3. The runs

All bounds are CONSTANTs of the cfg. States are distinct states.

| run | asks | bounds, and why they are enough |
| --- | --- | --- |
| `tx_all` (289 k states) | Do bytes and reports of the transmit path stay right whatever races? Until a submission races with `HandleTxComplete`, do counters, pointers, buffers and events stay right, is `PriorityTx` implemented, does no `REQUIRE` fail, is a packet given up only after its own `kMaxCsmaFails` tries? | 3 buffers, sizes 1 and 2 with 4 bytes in all, queues of 2, 2 tries, acknowledgements, `untuned` and `noPayload` allowed: memory runs out before the queues are full and after, one packet is on the air while two priorities wait, and the beacon's packet is in use or idle. Buffers are symmetric. |
| `tx_live` | Is what was submitted sent or given up, and does a NetworkControl packet get its turn? | 3 buffers, queues of 2, no symmetry (liveness) |
| `rx_path` (177 k states) | Bytes, buffers, interrupt, order, delivery of the receive path | FIFO of 2, queue of 2, 3 bytes, 3 packets: overflow of the FIFO, of the queue and of memory all occur, with one packet in the radio task's hands |
| `host_link` (520 k states) | Does the task listen for what the host clocks next, run each command once, and return to the header? Does all the host is told add up over failing transfers, and what makes the firmware stop? | a command of each kind of handler (read, read and write, write only, read with callback, beyond the table by one and more), lengths 0 and 2; 2 packets and a queue of 1: a packet is refused, one waits while another is in a response. A behaviour has the risks of one of the `RiskSets`. |
| `irq_line` (66 k states) | Does the line follow the bits, is no interrupt dropped, is each reported? | all four interrupts, every mask and acknowledgement, threshold 1 and a counter that wraps at 3: the recovery starts, is overtaken by acknowledgements, and gets to its last stage |
| `supervision` (764 k states) | Until a command meets the watchdog's callback: do beacons and indicator follow the host, is the timer task never stuck, is a silent host found, and no other? | threshold 2, the code's queue length 5: boot fills it, and commands that preempt the callback fill it again |
| `nor_flash` | Is each write or erase cut correctly, whatever fails; does success mean done? | pages of 2, sectors of 4, blocks of 8, chip of 16; calls start at, before and after each boundary and cross one or two |
| `indicators` | Is each step of a script shown as long as it says, while others set scripts? | delays of 2 to 4 ticks, 17 ticks in all: each LED goes through its script more than once while the others are set at any point of it |
| `boot` (76 k states) | Is anything used before it is set up, but the UART by a fault, are files kept over power failures, is a panic explained, does boot end, and are the tasks' messages sent whole? | 3 blocks, 3 power failures: a failure while formatting, one in the next boot, one in use; 2 tasks with 2 messages each: both buffers are reused while the other's transfer is waiting |
| `tx_replace`, `tx_race`, `supervision_late` | the three disagreements of section 5 that TLC shows by itself | the smallest instance that shows them |

Deadlock is checked where the system should never stop (`irq_line`, `supervision`, `nor_flash`); in
`supervision` the host can always fall silent or come back, so that `TimerTaskFree` and `SilenceNoticed`
say what a deadlock check cannot. It
is not checked where the firmware may stop (`TxPath`, `HostLink`, where `StopsAtRisk` says when, and
`MCBoot`), where packets, ticks or power failures are bounded (`RxPath`, `Indicators`), or where a
run looks for a violation.

### The properties

Each module that theorems are about has a `TypeOK` (or one of its name's kind), which is proved
(section 4); no run spends time on it. All invariants and action properties of the passing runs are
proved as well; of the liveness properties the runs are the only evidence.

* `PendingCounts`: `gTxPacketsPending` is the number of packets the radio side holds and of those in
  the queues. Every decision to start the radio rests on it.
* `NoDangling`, `NoLeak`, `BytesAccounted`: buffers are neither used nor freed after they were
  freed, none is forgotten, and the byte count is their total.
* `EventOwed`: while the radio holds a packet exactly one event about it is outstanding.
  `OnlyRacePanics`: the task finds itself in a state its `REQUIRE`s rule out only by the race of
  `Radio/Task.cpp:272`.
* `DrainReported`: the host is told each time the last packet is gone, and never before.
* `ServesByPriority` (refinement), `TriesEnough`, `Drains`, `NetworkControlServed`.

  Of these `BytesAccounted`, `DrainReported`, `Drains` and `NetworkControlServed` hold whatever races
  (the last two count a stop of the firmware as an end); the others until a submission has.
* `BytesCounted`: `gRxAllocBytes` is the allocated bytes and what additions torn by `PostRead` have
  lost, so that it is never too low and the limit is kept, and too high only by that.
* `BuffersOwned`, `InterruptOwed`, `DeliversInOrder` (refinement), `QueuedIsRead`: the same as above for
  the receive path, wherever the HostIf task preempts; `InterruptOwed` says that a packet in the queue is
  never left without an interrupt that is up, about to come, or being answered.
* `InStep`, `Listens`: the transfer that is armed is the one the host is about to clock, and it comes
  to be a header again. `CallsAsAsked`: no handler is called that was not asked for, whatever fails,
  and each once. What breaks them is named in the property (`Deafened`): three errors after which
  the host waits for a transfer that never comes. `StopsAtRisk`: the firmware stops only for the reasons in `Causes`.
* `PacketsKept`: each packet that was let in comes to the host once and in order, or was in a
  response that failed; its buffer is given back once. `Accounted`: no counted frame is forgotten,
  and, unless the increment is torn, none is told twice. `Noticed`: no packet waits without an
  interrupt, an answer on its way, or the host's knowledge of it.
* `OnTime`, `FullLength`: a step of an LED's script lasts its delay, neither longer nor shorter.
* `NextIsThere` (`tx_race`): the count that says a packet waits, and the queue it waits in, agree
  where `HandleTxComplete` relies on it.
* `LineFollows`, `NothingDropped`, `Reported`.
* `FollowsHost`, `TimerTaskFree`, `LostMeansSilent`, `SilenceNoticed`: beacons and indicator follow the
  host, the timer task does not wait for room that only it makes, only a silent host is lost, and a
  silent one is; each of them until a command has met the watchdog's callback.
* `ResultHonest`: success means that all is done, and no piece is refused that the driver itself cut.
  `ChangesPrefix`: what is changed is a prefix of what was named.
* `FilesKept`, `PanicMeansCut`: boot never touches a file system that was in use; and if it gives up,
  a format was cut short. `SetUpFirst`, `TasksRun`: nothing is used too early, but the
  UART and what else logging needs by the message of a fault before `Main.cpp:54`, and boot ends.
  `LinesWhole`, `LogReturns`: messages are whole, in order, one to a line, and the UART comes back.

Each property of a passing run has a mutant in `PROJECT.json`: a definition with a plausible bug,
kept in the module before the right one and marked "Fault", which violates it.

### Fairness

* `TxPath`: RAIL ends each transmission with an event, and the radio task handles its bits: the
  HostIf task blocks between commands, so lower tasks run.
* `RxPath`: the radio task runs for the same reason; the host answers interrupts and finishes
  reading what it began. `QueuedIsRead` depends on that host.
* `HostLink`: the task runs when notified; the host clocks the rest of a command it has begun.
  It never has to start another, and the radio task owes nothing.
* `IrqManager`: a host that finds the line asserted again and again reads the status some time,
  whatever it sends in between, which is strong fairness; the idle task runs.
* `Supervision`: tasks that can run do. Strong fairness of the watchdog's expiry stands for the
  timer list, which is sorted by expiry: the indicators' timer cannot keep it from its turn.
* `MCBoot`: boot goes on until it ends, the scheduler starts each task, a task that is in `Log` goes on
  and the DMA ends its transfers; between failures, power stays on.
* `Indicators` needs none: its properties are about what happens by when. Without `"late"` a tick
  comes only when the timer task has nothing left to do.

## 4. What is proved

TLAPS proves every invariant and every action property that a passing run checks, the two
refinements of abstract specifications, and that `HostLink` implements `HostIfTask`. The theorems
hold for every value of the constants that the modules' named assumptions allow: any buffers, sizes,
queue lengths, thresholds, delays, geometries, commands, tasks. Where the code does not cope with
something (section 5), a theorem about a property it breaks has the hypothesis that it does not
happen; a theorem without one includes every risk. Where the property itself says "until", the code's
own race is in the model and the theorem is that nothing else breaks the property.

The assumptions beyond types and ranges: a `NoBuffer` that is no buffer, a `NoHeader` that is no
header, and finitely many buffers (`BuffersAssumption`, `NoHeaderAssumption`); tasks whose names are
not the logger's words (`LoggersAssumption`); queues and byte counts that fit in a `size_t`
(`LimitsAssumption`); delays shorter than the tick count (`TicksAssumption`); and room in the timer
queue for what start-up posts from the indicators (`QueueAssumption`, `Indicators.tla`). TLC evaluates
each of them on the instances it checks.

| module | theorem | states | hypothesis |
| --- | --- | --- | --- |
| `TxPathProofs` | `TypeCorrect` | `Spec => []TypeOK` | none |
| | `PendingCorrect`, `PointersCorrect`, `EventsCorrect`, `PanicOnlyByRace`, `NothingLeaked` | `PendingCounts`, `NoDangling`, `EventOwed`, `OnlyRacePanics`, `NoLeak` always | `Cautious` |
| | `Refinement` | `Spec => ServesByPriority` | `Cautious` |
| | `TriesCorrect` | `TriesSpec => TriesEnough` | `Cautious` |
| | `BytesCorrect`, `DrainsAreReported` | `BytesAccounted` always, `DrainReported` | none |
| `RxPathProofs` | `RxTypeCorrect`, `BuffersCorrect`, `InterruptCorrect` | `TypeOK`, `BuffersOwned`, `InterruptOwed` always | none |
| | `RxPathIsFifo` | `Spec => DeliversInOrder` | none |
| | `RxBytesCorrect` | `BytesCounted` always | none |
| `HostLinkProofs` | `TypeCorrect`, `KeepsInStep`, `RunsWhatWasAsked`, `StopsOnlyAtRisk` | `TypeOK`, `InStep`, `CallsAsAsked`, `StopsAtRisk` always in `HostIfTask` | none |
| | `LinkImplementsTask`, `LinkKeepsTheTask` | `LinkSpec => Spec`; the same three always in `HostLink` | none |
| | `PacketsReachTheHost`, `CountersAddUp`, `NoPacketUnnoticed` | `PacketsKept`, `Accounted`, `Noticed` always | none |
| `SupervisionProofs` | `SupervisionTypeCorrect` | `TypeOK` always | none |
| | `BeaconsFollowHost`, `OnlySilentHostsAreLost` | `FollowsHost` always, `LostMeansSilent` | none |
| | `TimerTaskWaitsOnlyIfMet` | `TimerTaskFree` always | `Threshold >= 1`, `QueueLength >= 4` |
| `SignalProofs` | `LineTypeCorrect`, `LineCorrect`, `KeptUntilKnown` | `TypeOK`, `LineFollows` always, `NothingDropped` | none |
| | `LightsTypeCorrect` | `LightsTypeOK` always | none |
| | `StepsLastLong` | `FullLength` | `Steady`: no `"late"`, no `"wrap"` |
| | `StepsAreOnTime` | `OnTime` always | `Punctual`: `Steady`, no `"overdue"` |
| `NorFlashProofs` | `FlashTypeCorrect` | `TypeOK` always | none |
| | `ResultsAreTrue`, `ChangesAreAPrefix` | `ResultHonest`, `ChangesPrefix` always | `MaskFits` |
| `BootProofs` | `BootKeepsFiles`, `BootStopsOnlyIfCut` | `FilesKept`, `PanicMeansCut` always | no `"settling"` |
| | `SetsUpInOrder` | `SetUpFirst`, `StartTypeOK` always | none |
| | `MessagesAreWhole` | `LinesWhole`, `LoggerTypeOK` always | `TxBuffers >= 3` |
| | `BootTypeCorrect` | `BootTypeOK` always | both |

`Cautious` is that `"retune"` and `"replace"` are not in `Risks`; hosts that transmit before they
configure the radio, or that enable an empty beacon, are allowed. `MaskFits` is that pages are as long
as the `0xFF` that addresses are wrapped with, as those of the board's chip are. The code's
configuration satisfies the others: a queue of five timer commands, more than three UART transfers,
a threshold above 1. Each hypothesis excludes a case in which the code does break the property:
section 5 says how to see it, except for a threshold of 0, queues shorter than the code's, and pages
of another length, which only another configuration would have.

### Transmit path

The inductive invariant is `IInv == TypeOK /\ OnlyRacePanics /\ (Orderly => Core)`: none of the
properties is inductive by itself, and all of `Core` may be lost when a submission races. That
`StartNext`'s `REQUIRE` finds a packet needs the count to equal what is queued, also between the test
and the pop; that the count stays right when a packet completes needs to know that the completion is
of the packet counted as in flight, that is `OneEvent`; that `OneEvent` survives a new packet needs an
idle radio to have nothing queued; and that a discarded buffer is nobody else's needs `Sound`, which
has pointers to ordinary buffers occur once, while the beacon's sticky buffer may be queued any number
of times. `Core` is the conjunction of these. It speaks of two packets of the radio side, which are
one while the radio task waits: `Serving` is the one it holds, in the middle of `HandleTxComplete` too,
where that is the one popped and not yet started; `Tried` is the one an event is owed for. The queue bound of
`LimitsAssumption` (the four queues and the packet in flight fit in a `size_t`) keeps `Inc` from
wrapping. `Held` is the second invariant, for leaks; `Refinement` uses `IInv` to show that each action
but one that races maps to a step of `PriorityTx` or to a stutter, with `queues` as `waiting` and
`Serving` as `serving`: of the five steps that end a packet one ends it there, one takes the next.

`TriesCorrect` needs to know what a buffer's CSMA count means while buffers, the beacon's among them,
are reused: it is 0 for every ordinary buffer but the one on the air (`Retried`), and for that one
the busy reports are the count plus the one that is still on its way to the radio task.
`BytesCorrect` holds whatever the host does, since a transfer of ownership changes no size; the sum
over the buffers is changed in one place by each step.

### Receive path

`RadioInv` adds to the types that the packet the radio task holds is the oldest of RAIL's FIFO, the
one it was told of. The refinement maps to the packets `LossyFifo` holds those in the queue, in the radio
task's hands, and in the FIFO behind it, in that order (`Held`). Every step of `LossyFifo` keeps
them in the order of their numbers, so that is known of the receive path too (`InOrder`), and
`BuffersOwned` needs it: the buffer that is freed belongs to no packet still in the queue. `BytesInv` has to speak of the bytes
while they are between the check of the limit, the allocation and the addition, in which
`DiscardRxPacket` may preempt the task: what `gRxAllocBytes` will be once the addition is done
(`Counted`) is the bytes of the heap and `lost`, and both sides of that change by the same size when
the task is preempted before the addition, and neither when it is in the middle of one.

### HostIf task and link

The invariant is `Phase`: an exchange is in one of the phases between header and header, and in each
of them the transfer armed, the notification, the handler and the calls made so far are those that
the header asked for. `Phase` is what the code leaves implicit in the order of its statements;
`InStep`, `CallsAsAsked` and `StopsAtRisk` follow from it. It holds with every risk, because a risk
leads into a phase of its own (`Unanswered`, for instance) that the properties name.

Every step of `HostLink` is one of `HostIfTask` or leaves its variables alone (`LinkIsHostIfTask`),
so that `IInv` holds of it, and with it is known in which phase a handler runs. `LinkInv` adds the
order of the packets over queue, response and host, what a response may say in its phase, and that a
host asks for a packet only after it was told of one, without which `Noticed` could not be kept by
the step that acknowledges the interrupt.

### Watchdog, beacon, timer queue

Every invariant has the form `~met => Inv`. `HostInv` says that a command and the watchdog's callback,
where they have not met, keep out of each other's way: while the command's calls are being made comms are not lost, the silence is forgotten before the payload is
waited for, and the payload is the last call. `FollowInv` says of the middle of a command what
`FollowsHost` says of its end: the beacon's timer will run, once the timer queue has been worked off
and the calls that are left are made, exactly if the beacon is enabled and comms are not lost; and
the attention indicator likewise. `RoomLeft` counts what the callback of the watchdog finds in the
queue: nothing but the pulses of the radio's indicators, of which there are two.

### Indicators and interrupt line

`StepsAreOnTime` rests on `Coverage`: after the commands in the timer queue have been executed the
one timer ends before any channel that waits is a tick overdue. Each command replaces the timer's
period, so that only the last one counts. It is kept because no post is lost (`Room`): of those who
post, each can do so once before the timer task is back. `StepsLastLong` needs `Timely`, that the next
update is the step's beginning plus its delay, which the wrap of the tick count would break.
`LineFollows` needs to know that a stage other than the first means a recovery is under way
(`Staged`): a step of the idle task that was decided on before an acknowledgement otherwise asserts
the line for nothing.

### Flash driver

The pieces a call is cut into are computed from remainders, so the proof starts with lemmas about
`\div` and `%` for a divisor that is not known. `UnderWay` says that the piece under way starts where
the last ended and stays within its page, sector or block; `Changed` says what the chip has done and
is doing at each point of the driver, given that it was idle when the call began.

### Start-up and logger

`FilesKept` and `PanicMeansCut` need each other's reason: that only a device that has never run is
formatted (`FormatsOnlyNew`), and that a chip is blank or whole unless a format was cut
(`WholeUnlessCut`). `SetUpFirst` is an argument about a list of calls: every part that a call, a
call-back of RAIL or a panic of theirs uses is set up by an earlier call (`SetBefore`, `LeansOn`); a
fault may come before any of them, but what its message uses is used in the step that stops the
device, after which nothing uses anything (`FaultStep`, `StaysInPlace`). `LinesWhole`
follows from who may have the semaphore, the DMA and a buffer (`OwnBuffer`, `OneAtATime`, `Turns`):
a message's line feed may still be on its way when the next task is let in.

### Sums

`BytesAccounted` and `BytesCounted` are sums over sets, which the community modules define as folds,
recursive functions over elements in an order that CHOOSE picks. Induction over data
is beyond the provers here, which cannot instantiate a theorem that takes an operator. `Sums` does it
without one: the sizes of the sets for which a statement fails are a set of natural numbers,
which has a least element, and the least counterexample is refuted by what is true of smaller sets.
It gives what a sum is, that one element can be split off it, and that functions which agree have
the same sum.

### Only model-checked

The liveness properties: `Drains`, `NetworkControlServed`, `Reported`, `Listens`, `QueuedIsRead`,
`TasksRun`, `LogReturns`, `SilenceNoticed`. They rest on fairness and so on ENABLED, which
the prover does not expand. The runs that expect a violation have nothing to prove.

## 5. Where the code and what it says of itself differ

Three have a run that finds the violation, with details in `PROJECT.json`:

* `tx_replace`: `Beacon::SetPayload` discards the idle beacon packet with a function that counts down
  what was never counted up (`BlazeNet/Beacon.cpp:113`, `Packet/Handler.cpp:344`).
* `tx_race`: a packet submitted while `HandleTxComplete` is between its count and its queue makes its
  `REQUIRE` fail (`Radio/Task.cpp:272, 275`). `TxPath` has the same window, one call at a time:
  `sys \notin TxPanics` as an invariant of `MCTxTries.cfg` fails.
* `supervision_late`: a command that preempts `HandleCommsLost` leaves the beacons stopped
  (`HostIf/Watchdog.cpp:40`). Every other property of `supervision` fails too if `met` is dropped from
  it: the timer task can wait for ever for room in the queue it alone empties.

The others can be seen by changing a line or two of a cfg:

| what | how to see it |
| --- | --- |
| `QueueAck`'s `REQUIRE(!tx)` is inverted: it panics when the acknowledgement was queued (`Radio/Task.cpp:436`) | `INVARIANT AckIsQueued` in `MCTxTries.cfg` |
| `SetChannel` during a transmission leaves `gLastTx` set for ever (`Radio/Task.cpp:306`) | `Risks = {"retune"}` in `MCTxPathLive.cfg` |
| `TxPacketImmediate` returns inside its critical section when RAIL refuses the packet (`Radio/Task.cpp:230, 240`) | `sys # "locked"` as an invariant of `MCTxTries.cfg` |
| a beacon enabled without a payload panics (`BlazeNet/Beacon.cpp:141`) | `sys # "beaconPanic"`, likewise |
| a failing read handler arms no transfer (`HostIf/Task.cpp:195`) | drop the third case of `Deafened` in `HostIfTask`: `InStep` |
| a host that reads a write-only command, or sends a payload after an unknown command, falls out of step (`HostIf/Task.cpp:180, 112`) | drop the second or the first, likewise |
| the command number is compared with `>` where the table needs `>=` (`HostIf/Task.cpp:112`) | empty `Causes.outOfTable`: `StopsAtRisk` |
| a failed payload breaks out of Main's loop (`HostIf/Task.cpp:81`) | empty `Causes.returned`: `StopsAtRisk` |
| `ProcessCommand` clears the payload's byte count after the transfer was armed: a fast host's payload is taken for a failed one (`HostIf/Task.cpp:132`) | likewise, with `RiskSets = {{"eager"}}` |
| a response that fails takes its packet, interrupts and counts with it, and the packet is acknowledged (`HostIf/Task.cpp:92, 201`) | drop `lost` from `PacketsKept`, or `missed` from `Noticed` |
| `gRxFrames++` of the radio task undoes the reset of `GetCounters` that preempts it (`Radio/Task.cpp:196, 449`) | drop `"torn"` from `Accounted` |
| a timer task that is late computes a remaining time that wraps, and the LED stands still until another script is set (`Hw/Indicators.cpp:124`) | `Risks = {"late"}` or `{"overdue"}` in `Indicators.cfg`: `OnTime` |
| ticks are compared without regard to their wrap (`Hw/Indicators.cpp:82`; "TODO: handle wrap-around") | `Risks = {"wrap"}` in `Indicators.cfg`: `FullLength` |
| `gRxAllocBytes +=` in the radio task loses the `-=` of a handler that preempts it (`Packet/Handler.cpp:91`; "@TODO make this thread safe", line 46) | `INVARIANT NothingLost` in `MCRxPath.cfg` |
| a fault before `uartdrv` is set up logs through it all the same (`FaultHandlers.cpp:5-59`, `Main.cpp:54`) | drop the fault from `SetUpFirst`: `misused = {}` |
| `PacketReceived` is asserted for a queue already read empty (`Packet/Handler.cpp:151`; `HostIf/Commands.h:278`) | `INVARIANT ToldOfPacket` in `MCRxPath.cfg` |
| a chip read before its reset is over looks erased, and is (`Fs/Flash.cpp:340, 343`) | `Risks = {"settling"}` in `MCBoot.cfg`: `FilesKept` |
| a driver call that finds the chip busy after a timed-out one reports success and has done nothing | drop `idleChip` from `ResultHonest` |

Read in the code while modelling, without a run: several packets signalled by one notification are
read one at a time, the rest staying in the FIFO (`Radio/Task.cpp:124`, a TODO there); reading
fewer bytes than a packet has still discards it (`HostIf/Handlers/ReadPacket.h:56`); `GetStatus` does
not clear `CommandError` as `HostIf/Commands.h:135` has it; the superblock's version is not checked
although `Fs/Init.cpp:171` says so; an interrupted format is never retried (`Fs/Init.cpp:202, 215`);
the file system's start is not aligned to a block, so large erases go sector by sector
(`Fs/NorFs.cpp:151`, `Fs/Flash.cpp:209`); addresses are wrapped with `0xFF` whatever the page size
(`Fs/Flash.cpp:177`); the recovery state machine has no way out of its third stage but an acknowledgement, so that it
pulses the line once, where a host that loses interrupts (`HostIf/IrqManager.cpp:83`) may lose that
one too (`HostIf/IrqManager.cpp:101-103`); `PacketTransmitted` is defined and never asserted
(`HostIf/IrqManager.h:35`); a beacon interval below 4 ms becomes a timer period of zero
(`BlazeNet/Beacon.cpp:84`); the radio task resets both FIFOs when it first runs (`Radio/Task.cpp:111`),
by when the HostIf task, which runs before it, may have been told to transmit; `RadioConfig` reports
a failure of its second or third step after it has changed the channel
(`HostIf/Handlers/RadioConfig.h:42, 50`); commands that the table does not support leave `gErrorFlag`
as it was (`HostIf/Task.cpp:154, 180`), so that `GetStatus` may call them successful.

## 6. What is not modelled

Payloads, formatting and the text of messages; the values `GetInfo` and `GetStatus` report beyond the
state of the queue; the calibration itself, transmit power and address filters, which are RAIL
settings nothing reads back; the crypto contexts, which nothing calls; registers, pins and serial
numbers; generated radio tables and protocol types, which are data without behaviour. Library code
(RAIL, SPIDRV, UARTDRV, FreeRTOS's queues and notifications, SPIFFS) appears as this code uses it,
marked external in `PROJECT.json`. In `TxPath` a call into the packet handler is one step, and in
`RxPath` and `HostLink` `etl::queue`'s push and pop are: what two tasks inside them at once do is
`TxRace`'s subject, for the transmit path, and a `ReadPacket` of an empty queue is `RxPath`'s, which
has its `front()` of nothing as a stop. Where a step of formatting fails, `FsBoot` leaves the chip as it was: a
failed format and one cut by a power failure end boot alike, and the next boot meets both kinds of chip by
the power failures. One counter stands for all of them in `HostLink`; those an
interrupt increments differ in that they cannot be torn by the task, but tear its exchange.

## 7. Plan

Done: the modules above, in the order transmit path, HostIf task, receive path, supervision, flash
driver, file system, interrupt manager, indicators, the race on the transmit path, start-up and
logger, and the host's link; and the proofs of all their invariants and action properties.

Theorems worth proving next: for `TxRace`, that a count which is not torn and a submission outside
of the window between count and queue keep `NextIsThere`, which with `PanicOnlyByRace` says how much a
critical section would have to cover; for `TxPath`, which of the properties still hold with `"replace"` or
`"retune"`, and how a race heals; for `Supervision`, how long what a meeting of command and callback
leaves wrong stays so; for `Indicators`, by how much a step may be late when the timer task is; for
`HostLink`, an abstract specification of what the link promises a host, with the task's phases as its
refinement.
