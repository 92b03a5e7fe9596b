------------------------------ MODULE StartUp ------------------------------
(***************************************************************************)
(* From reset to the first run of the tasks: main() (Main.cpp) calls each  *)
(* part's Init in turn, Fs::Init (FsBoot) is one of them, RAIL calls back  *)
(* while it is set up, and the scheduler starts the tasks.  Every part is  *)
(* a static object that another may use too early: before the clock of its *)
(* peripheral runs, its driver, semaphore, timer, queue or task exists.    *)
(* A log message, a failed REQUIRE and a fault use the UART, and a fault   *)
(* may come at any point, before the UART is there as well.                *)
(*                                                                         *)
(* Abstracted: what is configured (pins, bit rates, channels), and the     *)
(* objects whose creation cannot fail because their memory is static.      *)
(* RAIL's APP_ASSERTs spin for ever, without a word.                       *)
(***************************************************************************)
EXTENDS FsBoot, Sequences

VARIABLES
    stage,      \* the call main() is in, or that the tasks run
    ready,      \* the parts that have been set up
    misused,    \* history: parts used before they were, since the reset
    started     \* the tasks that have begun

startVars == <<stage, ready, misused, started>>

-----------------------------------------------------------------------------
\* The calls of main(), in order.
EarlyInit == <<"clocks", "logger", "identity">>
HwInit == <<"indicators", "gpioint", "spidrv", "uartdrv">>
SwInit == <<"hello", "crypto", "fs", "handler", "radioIrqs", "railPlugins", "railInit", "rfReady",
            "railData", "railChannels", "railCalibration", "railEvents", "railTransitions",
            "beacon", "irqManager", "hostTask", "watchdog", "scheduler">>

Calls == EarlyInit \o HwInit \o SwInit \o <<"tasks">>

Following(call) == Calls[(CHOOSE i \in DOMAIN Calls : Calls[i] = call) + 1]

Parts ==
    {"LDMA", "GPIO", "EUSART0", "EUSART1", "EUSART2", "SEMAILBOX", "uartCompletion", "identity",
     "indicators", "gpioint", "flashSpi", "hostSpi", "uart", "crypto", "fs", "handler", "railDma",
     "rail", "radioTask", "channels", "events", "beacon", "irqLine", "hostTask", "watchdog",
     "scheduler"}

Tasks == {"HostIf", "Radio", "Timer", "Idle"}

StartTypeOK ==
    /\ stage \in {"off", "hung"} \cup {Calls[i] : i \in DOMAIN Calls}
    /\ ready \subseteq Parts
    /\ misused \subseteq Parts
    /\ started \subseteq Tasks

StartInit ==
    /\ Init
    /\ stage = "off"
    /\ ready = {}
    /\ misused = {}
    /\ started = {}

Uses(parts) == misused' = misused \cup (parts \ ready)

\* The log, a REQUIRE and a fault write to the UART.
LogParts == {"LDMA", "GPIO", "EUSART1", "uart"}

\* One call of main(): it uses some parts and sets some up.
Call(call, uses, sets) ==
    /\ stage = call
    /\ pc # "panic"
    /\ stage' = Following(call)
    /\ Uses(uses)
    /\ ready' = ready \cup sets
    /\ UNCHANGED <<vars, started>>

-----------------------------------------------------------------------------
(* EarlyInit *)

ClocksInit == Call("clocks", {}, {"LDMA", "GPIO", "EUSART0", "EUSART1", "EUSART2"})

\* Given at once: the first message need not wait.
LoggerInit == Call("logger", {}, {"uartCompletion"})

IdentityInit == Call("identity", {}, {"identity"})

(* HwInit *)

IndicatorsInit == Call("indicators", {"GPIO"}, {"indicators"})

GpioInt == Call("gpioint", {"GPIO"}, {"gpioint"})

SpidrvInit == Call("spidrv", {"LDMA", "GPIO", "EUSART0", "EUSART2"}, {"flashSpi", "hostSpi"})

UartdrvInit == Call("uartdrv", {"LDMA", "GPIO", "EUSART1"}, {"uart"})

(* SwInit *)

Hello == Call("hello", LogParts, {})

CryptoInit == Call("crypto", LogParts, {"SEMAILBOX", "crypto"})

\* Fs::Init, up to its return.
FsInit ==
    /\ stage = "fs"
    /\ \/ Identifies \/ ReadsSuperblock \/ ErasesChip \/ WritesSuperblock \/ Probes
       \/ \E b \in Blocks : FormatsBlock(b)
       \/ FormatEnds \/ Validates \/ Mounts
    /\ Uses(LogParts \cup {"EUSART0", "flashSpi"})
    /\ IF pc' = "running"
       THEN stage' = Following("fs") /\ ready' = ready \cup {"fs"}
       ELSE UNCHANGED <<stage, ready>>
    /\ UNCHANGED started

HandlerInit == Call("handler", {}, {"handler"})

(* Radio::Init and sl_rail_util_init *)

RadioIrqs == Call("radioIrqs", {}, {})

RailPlugins == Call("railPlugins", {"LDMA"}, {"railDma"})

RailInit == Call("railInit", {"railDma"}, {"rail"})

\* Fault: the radio task is not created in this callback.
RfReadyEmpty == Call("rfReady", {"rail"}, {})

\* Radio::Task::Init: gRail and gTask.
RadioTaskInit == {"radioTask"}

\* sl_rail_util_on_rf_ready, which RAIL_Init calls.
RfReady == Call("rfReady", {"rail"}, RadioTaskInit)

RailData == Call("railData", {"rail"}, {})
RailChannels == Call("railChannels", {"rail"}, {"channels"})
RailCalibration == Call("railCalibration", {"rail"}, {})
RailEvents == Call("railEvents", {"rail"}, {"events"})
RailTransitions == Call("railTransitions", {"rail"}, {})

(* BlazeNet::Init and HostIf::Init *)

BeaconInit == Call("beacon", {}, {"beacon"})
IrqManagerInit == Call("irqManager", {"GPIO"}, {"irqLine"})
HostTaskInit == Call("hostTask", {}, {"hostTask"})

\* Its start is posted, and comms count as lost: beacon and indicator follow.
WatchdogInit == Call("watchdog", {"beacon", "indicators"}, {"watchdog"})

StartScheduler == Call("scheduler", LogParts, {"scheduler"})

Initialises ==
    \/ ClocksInit \/ LoggerInit \/ IdentityInit
    \/ IndicatorsInit \/ GpioInt \/ SpidrvInit \/ UartdrvInit
    \/ Hello \/ CryptoInit \/ FsInit \/ HandlerInit
    \/ RadioIrqs \/ RailPlugins \/ RailInit \/ RfReady
    \/ RailData \/ RailChannels \/ RailCalibration \/ RailEvents \/ RailTransitions
    \/ BeaconInit \/ IrqManagerInit \/ HostTaskInit \/ WatchdogInit \/ StartScheduler

-----------------------------------------------------------------------------
(* The tasks begin, and use all that their loops do from now on. *)

\* HostIf::Task::Main: its messages, its commands, and what their handlers call.
HostIfUses ==
    LogParts \cup {"uartCompletion", "hostSpi", "EUSART2", "irqLine", "handler", "beacon",
                   "watchdog", "identity", "rail"}

\* Radio::Task::Main.
RadioUses == LogParts \cup {"uartCompletion", "rail", "channels", "handler", "indicators"}

\* The callbacks of the indicators', the beacon's and the watchdog's timer.
TimerUses == LogParts \cup {"uartCompletion", "indicators", "beacon", "watchdog", "handler"}

\* vApplicationIdleHook only sleeps: kRecoveryEnabled is false (IrqManager).
IdleUses == {}

FirstUses == [HostIf |-> HostIfUses, Radio |-> RadioUses, Timer |-> TimerUses, Idle |-> IdleUses]

TaskStarts(task) ==
    /\ stage = "tasks" /\ pc # "panic"
    /\ task \notin started
    /\ started' = started \cup {task}
    /\ Uses(FirstUses[task])
    /\ UNCHANGED <<vars, stage, ready>>

Alive == stage \notin {"off", "hung"} /\ pc # "panic"

\* The events that RAIL_ConfigEvents asks for, ...
EnabledEvents ==
    {"RxPacketReceived", "RxFrameError", "RxPacketAborted", "RxTimeout", "TxPacketSent",
     "TxAborted", "RssiAverageDone", "RxFifoFull", "RxFifoOverflow", "TxChannelBusy",
     "RxAckTimeout", "TxackPacketSent", "CalNeeded"}

\* ... what RAIL is asked in return, and those the radio task is notified of.
CallsRail == {"RxPacketReceived", "RxFifoOverflow"}
NotifiesTask == {"RxPacketReceived", "TxPacketSent", "TxChannelBusy", "CalNeeded"}

\* sl_rail_util_on_event, in an interrupt.
RailEvent(event) ==
    /\ Alive
    /\ "events" \in ready
    /\ Uses({"rail" : e \in CallsRail \cap {event}} \cup {"radioTask" : e \in NotifiesTask \cap {event}})
    /\ UNCHANGED <<vars, stage, ready, started>>

\* Panics, with its message.
Dies(reason) ==
    /\ Panics(reason)
    /\ Uses(LogParts)
    /\ UNCHANGED <<stage, ready, started>>

\* The REQUIREs outside Fs::Init that can fail: on the security engine and on
\* the packet queues' memory, ...
CryptoFails == stage = "crypto" /\ Alive /\ Dies("io")
QueuesFail == stage = "handler" /\ Alive /\ Dies("memory")

\* ... in the tasks, as InitCalibration's; RAIL's assertion; and the hook for a
\* full stack, which the kernel calls when it switches tasks.
CalibrationFails == "Radio" \in started /\ Alive /\ Dies("io")
RailAsserts == "rail" \in ready /\ Alive /\ Dies("io")
StackOverflows == started # {} /\ Alive /\ Dies("memory")

\* The handler of a fault, from reset on.
HardFaults == Alive /\ Dies("fault")

InitFails ==
    \/ CryptoFails \/ QueuesFail
    \/ CalibrationFails \/ RailAsserts \/ StackOverflows \/ HardFaults

\* __stack_chk_fail, at the end of any function: it has no message and spins.
StackGuardFails ==
    /\ Alive
    /\ stage' = "hung"
    /\ UNCHANGED <<vars, ready, misused, started>>

FsFails ==
    /\ stage = "fs"
    /\ Fails
    /\ Uses(LogParts)
    /\ UNCHANGED <<stage, ready, started>>

\* An APP_ASSERT: while(1).
RailRefuses ==
    /\ stage \in {"railInit", "railData", "railChannels", "railCalibration", "railEvents",
                  "railTransitions"}
    /\ pc # "panic"
    /\ stage' = "hung"
    /\ UNCHANGED <<vars, ready, misused, started>>

PowersUp ==
    /\ PowerOn
    /\ stage' = Calls[1]
    /\ UNCHANGED <<ready, misused, started>>

\* The memory of the processor is lost.
Forgets == ready' = {} /\ started' = {} /\ misused' = {}

SystemReset ==
    /\ stage = "fs"
    /\ Resets
    /\ stage' = Calls[1]
    /\ Forgets

PowerLost ==
    /\ PowerFails
    /\ stage' = "off"
    /\ Forgets

StartWorks ==
    \/ PowersUp \/ Initialises \/ SystemReset
    \/ \E task \in Tasks : TaskStarts(task)

Events == \E event \in EnabledEvents : RailEvent(event)

StartNext ==
    \/ StartWorks \/ Events \/ InitFails \/ FsFails \/ RailRefuses \/ StackGuardFails \/ PowerLost

-----------------------------------------------------------------------------
(* Properties. *)

\* Nothing is used before it has been set up, whichever call fails, and
\* whatever RAIL reports while it is: the message of a failed REQUIRE finds its
\* UART, an event of the radio its task, and each task all it needs.  The one
\* exception is a fault before main() has come to the UART: its panic writes to
\* a driver that is not there.
SetUpFirst ==
    misused # {} => pc = "panic" /\ why = "fault" /\ "uart" \notin ready /\ misused \subseteq LogParts

\* Boot ends: the tasks run, or the device has stopped.
TasksRun == <>[](started = Tasks \/ pc = "panic" \/ stage = "hung")
=============================================================================
