---------------------------- MODULE Supervision ----------------------------
(***************************************************************************)
(* The supervision of the host: HostIf::Watchdog declares the host lost    *)
(* after kWdogThreshold silent intervals, and back with its next command;  *)
(* the beacon timer (BlazeNet/Beacon.cpp) and the attention indicator      *)
(* follow it.  All of them speak to their timers through the one command   *)
(* queue of the RTOS's timer task.                                         *)
(*                                                                         *)
(* The timer task has the lowest priority of the tasks modelled: the radio *)
(* task runs between any two of its steps, and so does the HostIf task,    *)
(* which nobody preempts.  Others run only where the HostIf task waits.    *)
(*                                                                         *)
(* Abstracted: time (a running timer may expire at any moment), what a     *)
(* beacon sends (TxPath), and the animation of the indicators, but for the *)
(* commands it puts in the queue.                                          *)
(***************************************************************************)
EXTENDS Integers, Sequences

CONSTANTS
    Threshold,      \* kWdogThreshold
    QueueLength     \* configTIMER_QUEUE_LENGTH

ASSUME ThresholdAssumption == Threshold \in Nat
ASSUME QueueLengthAssumption == QueueLength \in Nat \ {0}

VARIABLES
    gCommsLostFlag,
    gCheckinsMissed,
    gEnabled,           \* Beacon::gEnabled
    attention,          \* the script of the attention indicator
    pulsing,            \* the other indicators that are not idle
    timerQueue,         \* commands to the timer task
    active,             \* timers that run
    timerTask,          \* where the timer task is
    missed,             \* the register gCheckinsMissed is incremented in
    hostCalls,          \* what the HostIf task has yet to do for a command
    hostUp              \* the host sends commands

watchdogVars == <<gCommsLostFlag, gCheckinsMissed>>
timerVars == <<timerQueue, active, timerTask, missed>>
vars == <<gCommsLostFlag, gCheckinsMissed, gEnabled, attention, pulsing, timerQueue, active,
          timerTask, missed, hostCalls, hostUp>>

-----------------------------------------------------------------------------
Timers == {"wdog", "beacon", "leds"}
BeaconCommands == {"reset", "period", "stop"}
Commands == BeaconCommands \cup {"startWdog", "leds"}
Calls == BeaconCommands \cup {"attentionOff", "log", "checkIn", "payload"}

\* The callback of the watchdog's timer, step by step.
WatchdogSteps == {"count", "warn", "flag", "blink", "stop"}

\* Bound: gCheckinsMissed goes on while comms are lost, and means nothing then.
MaxMissed == Threshold + 2

TypeOK ==
    /\ gCommsLostFlag \in BOOLEAN
    /\ gCheckinsMissed \in 0 .. MaxMissed
    /\ gEnabled \in BOOLEAN
    /\ attention \in {"blinkFast", "off"}
    /\ pulsing \subseteq {"tx", "rx"}
    /\ timerQueue \in Seq(Commands) /\ Len(timerQueue) <= QueueLength
    /\ active \subseteq Timers
    /\ timerTask \in {"drain", "check"} \cup WatchdogSteps
    /\ missed \in 0 .. MaxMissed
    /\ hostCalls \in Seq(Calls)
    /\ hostUp \in BOOLEAN

\* xTimerStart and the like without a wait: dropped if the queue is full.
Offer(queue, command) ==
    IF Len(queue) < QueueLength THEN Append(queue, command) ELSE queue

\* Fault: one more indicator is tested, and one more blinks.
BootPostsMore == <<"leds", "leds", "leds", "leds", "leds", "startWdog", "leds", "stop">>

\* What main() puts in the queue before the scheduler runs, when no post waits:
\* a self test for each indicator, the watchdog's start, its blink, its stop.
BootPosts == <<"leds", "leds", "leds", "startWdog", "leds", "stop">>

Kept(posts) == SubSeq(posts, 1, IF Len(posts) < QueueLength THEN Len(posts) ELSE QueueLength)

Init ==
    /\ gCommsLostFlag = TRUE
    /\ gCheckinsMissed = 0
    /\ gEnabled = FALSE
    /\ attention = "blinkFast"
    /\ pulsing = {"tx", "rx"}
    /\ timerQueue = Kept(BootPosts)
    /\ active = {}
    /\ timerTask = "drain"
    /\ missed = 0
    /\ hostCalls = <<>>
    /\ hostUp = TRUE

-----------------------------------------------------------------------------
(* The HostIf task.  It waits for a command, for a payload, for the UART in  *)
(* Logger::Log, and in a post with portMAX_DELAY for room in the queue.      *)

Doing == IF hostCalls = <<>> THEN "nothing" ELSE Head(hostCalls)

HostWaits ==
    \/ Doing \in {"nothing", "payload", "log"}
    \/ Doing \in BeaconCommands /\ Len(timerQueue) = QueueLength

StartOrStop(enabled) == IF enabled THEN <<"reset">> ELSE <<"stop">>

\* Watchdog::Kick: HandleCommsRegained and Beacon::CommsRegained if comms were
\* lost, and then the count is cleared.
Kick ==
    (IF gCommsLostFlag
     THEN <<"attentionOff">> \o (IF gEnabled THEN <<"reset">> ELSE <<>>) \o <<"log">>
     ELSE <<>>) \o <<"checkIn">>

\* A header has been received.  If the command is a BeaconConfig, its payload
\* is received once the watchdog has been kicked.
Command(withPayload) ==
    /\ hostUp
    /\ hostCalls = <<>>
    /\ hostCalls' = Kick \o (IF withPayload THEN <<"payload">> ELSE <<>>)
    /\ gCommsLostFlag' = FALSE
    /\ UNCHANGED <<gCheckinsMissed, gEnabled, attention, pulsing, timerVars, hostUp>>

\* Fault: the timer that a new period starts is not stopped.
SetIntervalStarts(enabled) == <<"period">>

\* Beacon::SetInterval: a new period starts the timer.
SetInterval(enabled) == <<"period">> \o StartOrStop(enabled)

\* Beacon::SetEnabled
SetEnabled(enabled) == IF enabled = gEnabled THEN <<>> ELSE StartOrStop(enabled)

\* BeaconConfig::DoWrite with updateConfig set.
BeaconConfig(enabled) ==
    /\ hostUp
    /\ Doing = "payload"
    /\ hostCalls' = SetEnabled(enabled) \o SetInterval(enabled) \o <<"log">>
    /\ gEnabled' = enabled
    /\ UNCHANGED <<watchdogVars, attention, pulsing, timerVars, hostUp>>

Does(call) == Doing = call /\ hostCalls' = Tail(hostCalls)

\* xTimerReset, xTimerChangePeriod, xTimerStop of the beacon timer.
HostPosts ==
    /\ \E command \in BeaconCommands :
          /\ Does(command)
          /\ Len(timerQueue) < QueueLength
          /\ timerQueue' = Append(timerQueue, command)
    /\ UNCHANGED <<watchdogVars, gEnabled, attention, pulsing, active, timerTask, missed, hostUp>>

\* Indicators::TurnOffAttention.  The timer is set anew if another one pulses.
HostTurnsOff ==
    /\ Does("attentionOff")
    /\ attention' = "off"
    /\ timerQueue' = IF pulsing # {} THEN Offer(timerQueue, "leds") ELSE timerQueue
    /\ UNCHANGED <<watchdogVars, gEnabled, pulsing, active, timerTask, missed, hostUp>>

HostLogs ==
    /\ Does("log")
    /\ UNCHANGED <<watchdogVars, gEnabled, attention, pulsing, timerVars, hostUp>>

\* gCheckinsMissed = 0
HostChecksIn ==
    /\ Does("checkIn")
    /\ gCheckinsMissed' = 0
    /\ UNCHANGED <<gCommsLostFlag, gEnabled, attention, pulsing, timerVars, hostUp>>

\* The host falls silent, and comes back.
HostTurns ==
    /\ hostUp' = ~hostUp
    /\ UNCHANGED <<watchdogVars, gEnabled, attention, pulsing, timerVars, hostCalls>>

-----------------------------------------------------------------------------
(* The radio task: Indicators::PulseTx and PulseRx.                         *)

\* Fault: an animation that goes on is interrupted.
MayPulseAgain(led) == TRUE

\* SetChannelScript without immediate: a no-op unless the channel is idle.
MayPulse(led) == led \notin pulsing

RadioPulses(led) ==
    /\ HostWaits
    /\ MayPulse(led)
    /\ pulsing' = pulsing \cup {led}
    /\ timerQueue' = Offer(timerQueue, "leds")
    /\ UNCHANGED <<watchdogVars, gEnabled, attention, active, timerTask, missed, hostCalls, hostUp>>

-----------------------------------------------------------------------------
(* The timer task of FreeRTOS: it runs the callback of a timer that has      *)
(* expired, or waits for a command, and then obeys all commands there are.   *)

TimerTaskAt(step) == HostWaits /\ timerTask = step

Obeyed(command) ==
    CASE command = "stop"               -> active \ {"beacon"}
      [] command \in {"reset", "period"} -> active \cup {"beacon"}
      [] command = "startWdog"          -> active \cup {"wdog"}
      [] command = "leds"               -> active \cup {"leds"}

TimerObeys ==
    /\ TimerTaskAt("drain")
    /\ timerQueue # <<>>
    /\ active' = Obeyed(Head(timerQueue))
    /\ timerQueue' = Tail(timerQueue)
    /\ UNCHANGED <<watchdogVars, gEnabled, attention, pulsing, timerTask, missed, hostCalls, hostUp>>

TimerDrained ==
    /\ TimerTaskAt("drain")
    /\ timerQueue = <<>>
    /\ timerTask' = "check"
    /\ UNCHANGED <<watchdogVars, gEnabled, attention, pulsing, timerQueue, active, missed,
                   hostCalls, hostUp>>

TimerWakes ==
    /\ TimerTaskAt("check")
    /\ timerQueue # <<>>
    /\ timerTask' = "drain"
    /\ UNCHANGED <<watchdogVars, gEnabled, attention, pulsing, timerQueue, active, missed,
                   hostCalls, hostUp>>

\* Indicators::TimerFired: scripts go on or end, and the timer is armed for
\* those that go on.
LedsExpire ==
    /\ TimerTaskAt("check")
    /\ "leds" \in active
    /\ active' = active \ {"leds"}
    /\ \E going \in SUBSET pulsing :
          /\ pulsing' = going
          /\ timerQueue' = IF going # {} \/ attention = "blinkFast"
                           THEN Offer(timerQueue, "leds") ELSE timerQueue
    /\ timerTask' = "drain"
    /\ UNCHANGED <<watchdogVars, gEnabled, attention, missed, hostCalls, hostUp>>

\* The watchdog's callback.  ++gCheckinsMissed: a load and an addition, ...
WatchdogExpires ==
    /\ TimerTaskAt("check")
    /\ "wdog" \in active
    /\ gCheckinsMissed < MaxMissed
    /\ missed' = gCheckinsMissed + 1
    /\ timerTask' = "count"
    /\ UNCHANGED <<watchdogVars, gEnabled, attention, pulsing, timerQueue, active, hostCalls, hostUp>>

\* Fault: off by one.
TooManyByOne == missed >= Threshold /\ ~gCommsLostFlag

TooMany == missed > Threshold /\ ~gCommsLostFlag

\* ... a store, and the test of what was stored.
WatchdogCounts ==
    /\ TimerTaskAt("count")
    /\ gCheckinsMissed' = missed
    /\ missed' = 0
    /\ timerTask' = IF TooMany THEN "warn" ELSE "drain"
    /\ UNCHANGED <<gCommsLostFlag, gEnabled, attention, pulsing, timerQueue, active, hostCalls, hostUp>>

\* Logger::Warning, which waits for the UART.
WatchdogWarns ==
    /\ TimerTaskAt("warn")
    /\ timerTask' = "flag"
    /\ UNCHANGED <<watchdogVars, gEnabled, attention, pulsing, timerQueue, active, missed,
                   hostCalls, hostUp>>

\* HandleCommsLost: the flag, ...
WatchdogFlags ==
    /\ TimerTaskAt("flag")
    /\ gCommsLostFlag' = TRUE
    /\ timerTask' = "blink"
    /\ UNCHANGED <<gCheckinsMissed, gEnabled, attention, pulsing, timerQueue, active, missed,
                   hostCalls, hostUp>>

\* ... Indicators::BlinkAttentionFast, ...
WatchdogBlinks ==
    /\ TimerTaskAt("blink")
    /\ attention' = "blinkFast"
    /\ timerQueue' = Offer(timerQueue, "leds")
    /\ timerTask' = "stop"
    /\ UNCHANGED <<watchdogVars, gEnabled, pulsing, active, missed, hostCalls, hostUp>>

\* ... and Beacon::CommsLost, a post to its own queue with portMAX_DELAY.
CommsLost == Len(timerQueue) < QueueLength /\ timerQueue' = Append(timerQueue, "stop")

WatchdogStops ==
    /\ TimerTaskAt("stop")
    /\ CommsLost
    /\ timerTask' = "drain"
    /\ UNCHANGED <<watchdogVars, gEnabled, attention, pulsing, active, missed, hostCalls, hostUp>>

-----------------------------------------------------------------------------
HostTask ==
    \/ HostPosts
    \/ HostTurnsOff
    \/ HostLogs
    \/ HostChecksIn

Host ==
    \/ \E withPayload \in BOOLEAN : Command(withPayload)
    \/ \E enabled \in BOOLEAN : BeaconConfig(enabled)
    \/ HostTurns

Radio == \E led \in {"tx", "rx"} : RadioPulses(led)

WatchdogCallback ==
    \/ WatchdogCounts
    \/ WatchdogWarns
    \/ WatchdogFlags
    \/ WatchdogBlinks
    \/ WatchdogStops

TimerQueue ==
    \/ TimerObeys
    \/ TimerDrained
    \/ TimerWakes

Next == HostTask \/ Host \/ Radio \/ TimerQueue \/ LedsExpire \/ WatchdogExpires \/ WatchdogCallback

Spec == Init /\ [][Next]_vars

\* Tasks that can run do.  The timer task looks at the timer that expires first,
\* so that the indicators' timer cannot keep the watchdog's from its turn.
Fairness ==
    /\ WF_vars(HostTask)
    /\ WF_vars(TimerQueue)
    /\ WF_vars(WatchdogCallback)
    /\ SF_vars(WatchdogExpires)

FairSpec == Spec /\ Fairness

-----------------------------------------------------------------------------
\* The beacon timer runs, once the commands in the queue are obeyed.
BeaconWillRun ==
    \/ "beacon" \in active /\ \A i \in 1 .. Len(timerQueue) : timerQueue[i] # "stop"
    \/ \E i \in 1 .. Len(timerQueue) :
          /\ timerQueue[i] \in {"reset", "period"}
          /\ \A j \in i + 1 .. Len(timerQueue) : timerQueue[j] # "stop"
============================================================================
