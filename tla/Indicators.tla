----------------------------- MODULE Indicators -----------------------------
(***************************************************************************)
(* Hw::Indicators: three LEDs, each run by a small animation script, share *)
(* one one-shot timer of the RTOS.  The radio task starts pulses, the      *)
(* HostIf task and the timer task set the attention indicator, and the     *)
(* timer task continues the scripts that are due (TimerFired).  A mutex    *)
(* guards the channels; the timer is moved by a command in the queue of    *)
(* the timer task, so it counts from when that task gets to it.            *)
(*                                                                         *)
(* The timer task has a low priority: TimerFired reads the time before it  *)
(* takes the lock, and the others may set scripts in between.              *)
(*                                                                         *)
(* Abstracted: the durations (constants, in ticks) and the commands of     *)
(* other timers in the queue (Supervision).  SetChannelScript is one step: *)
(* it holds the lock throughout.                                           *)
(***************************************************************************)
EXTENDS Integers, Sequences, FiniteSets

CONSTANTS
    LongBlink, ShortBlink, FastBlink,   \* pdMS_TO_TICKS(500), (30) and (500)
    TickModulus,    \* 2^32: TickType_t is unsigned and wraps
    QueueLength,    \* configTIMER_QUEUE_LENGTH
    Risks

\* "late": ticks pass while the timer task has work to do.
\* "overdue": a script is set while another indicator is overdue.
\* "wrap": the tick count runs over; otherwise a run ends before it does.
AllRisks == {"late", "overdue", "wrap"}

ASSUME DelaysAssumption == {LongBlink, ShortBlink, FastBlink} \subseteq 1 .. 255
ASSUME TicksAssumption ==
    TickModulus \in Nat /\ \A d \in {LongBlink, ShortBlink, FastBlink} : d < TickModulus
\* What is posted before the scheduler runs fits.
ASSUME QueueAssumption == QueueLength \in Nat /\ QueueLength >= 5
ASSUME RisksAssumption == Risks \subseteq AllRisks

VARIABLES
    tick,           \* what xTaskGetTickCount returns
    gState,         \* the channels
    gLock,          \* who holds the mutex
    timerQueue,     \* the periods xTimerChangePeriod has posted
    gTimer,         \* the ticks until the timer fires, or Never
    timerTask,      \* where the timer task is
    now,            \* TimerFired's first reading of the time
    began           \* history: the tick at which a channel's current step began

lightVars == <<tick, gState, gLock, timerQueue, gTimer, timerTask, now, began>>

-----------------------------------------------------------------------------
Indicator == {"attention", "tx", "rx"}

TurnOn == [cmd |-> "on", ticks |-> 0]
TurnOff == [cmd |-> "off", ticks |-> 0]
Delay(ticks) == [cmd |-> "delay", ticks |-> ticks]
Restart == [cmd |-> "restart", ticks |-> 0]
End == [cmd |-> "end", ticks |-> 0]

gAnimTurnOff == <<TurnOff, End>>
gAnimLongBlink == <<TurnOn, Delay(LongBlink), TurnOff, End>>
gAnimShortBlink == <<TurnOn, Delay(ShortBlink), TurnOff, Delay(ShortBlink), End>>
gAnimAttentionBlinkFast ==
    <<TurnOn, Delay(FastBlink), TurnOff, Delay(FastBlink), Restart>>

Never == -1

\* A command to the timer of the watchdog, in the queue that all timers share.
Other == 0

MaxDelay == CHOOSE d \in {LongBlink, ShortBlink, FastBlink} :
                \A e \in {LongBlink, ShortBlink, FastBlink} : e <= d

Later(from, ticks) == (from + ticks) % TickModulus

State == [isIdle : BOOLEAN, wantsTimerUpdate : BOOLEAN, isOn : BOOLEAN,
          animOffset : 0 .. 5,
          currentAnim : {gAnimTurnOff, gAnimLongBlink, gAnimShortBlink,
                         gAnimAttentionBlinkFast},
          nextUpdate : 0 .. TickModulus - 1]

LightsTypeOK ==
    /\ tick \in 0 .. TickModulus - 1
    /\ gState \in [Indicator -> State]
    /\ gLock \in {"free", "timer"}
    /\ timerQueue \in Seq(0 .. TickModulus - 1) /\ Len(timerQueue) <= QueueLength
    /\ gTimer \in {Never} \cup (0 .. TickModulus - 1)
    /\ timerTask \in {"drain", "check", "blocked", "fired", "locked"}
    /\ now \in 0 .. TickModulus - 1
    /\ began \in [Indicator -> 0 .. TickModulus - 1]

Waits(channel) == ~channel.isIdle /\ channel.wantsTimerUpdate

-----------------------------------------------------------------------------
(* UpdateChannel: the script is run from animOffset to its next delay, or to *)
(* its end.  A restart continues with the first command.                     *)

\* The commands from animOffset on; no script runs through its restart twice.
Ahead(channel) ==
    LET rest == SubSeq(channel.currentAnim, channel.animOffset + 1, Len(channel.currentAnim))
    IN  rest \o channel.currentAnim

\* How many of them run: up to the first delay or end.
Stop(channel) ==
    CHOOSE i \in DOMAIN Ahead(channel) :
        /\ Ahead(channel)[i].cmd \in {"delay", "end"}
        /\ \A j \in 1 .. i - 1 : Ahead(channel)[j].cmd \notin {"delay", "end"}

\* outNextUpdate; 0 stands for a script that is over, and leaves it alone.
NextDelay(channel) == Ahead(channel)[Stop(channel)].ticks

\* The last of them that turns the LED on or off decides.
Lit(channel) ==
    LET Switches == {i \in 1 .. Stop(channel) : Ahead(channel)[i].cmd \in {"on", "off"}}
    IN  IF Switches = {}
        THEN channel.isOn
        ELSE Ahead(channel)[CHOOSE i \in Switches : \A j \in Switches : j <= i].cmd = "on"

\* Past the end of a script with a restart, the offset counts from its start.
UpdateChannel(channel) ==
    LET over == NextDelay(channel) = 0
        offset == channel.animOffset + Stop(channel)
        length == Len(channel.currentAnim)
    IN  [channel EXCEPT
            !.isOn = Lit(channel),
            !.isIdle = IF over THEN TRUE ELSE @,
            !.wantsTimerUpdate = ~over,
            !.nextUpdate = IF over THEN 0 ELSE @,
            !.animOffset = IF over THEN @ ELSE IF offset > length THEN offset - length ELSE offset]

\* SetChannelScript, up to UpdateTimerPeriod.
Started(channel, script) ==
    LET fresh == [channel EXCEPT !.isIdle = FALSE, !.wantsTimerUpdate = FALSE,
                                 !.animOffset = 0, !.currentAnim = script, !.nextUpdate = 0]
    IN  [UpdateChannel(fresh) EXCEPT
            !.nextUpdate = IF NextDelay(fresh) = 0 THEN @ ELSE Later(tick, NextDelay(fresh))]

-----------------------------------------------------------------------------
(* The timer's next expiry. *)

Remaining(channels) ==
    {(channels[i].nextUpdate - tick) % TickModulus : i \in {j \in Indicator : Waits(channels[j])}}

Least(numbers) == CHOOSE n \in numbers : \A m \in numbers : n <= m

Greater(m, n) == IF m > n THEN m ELSE n

\* Fault: the last channel that waits sets the period.
PostLast(channels) ==
    timerQueue' =
        IF Remaining(channels) = {} \/ Len(timerQueue) >= QueueLength
        THEN timerQueue
        ELSE Append(timerQueue, Greater(CHOOSE n \in Remaining(channels) :
                                            \A m \in Remaining(channels) : n >= m, 1))

\* xTimerChangePeriod does not wait for room in the queue.
UpdateTimerPeriod(channels) ==
    timerQueue' =
        IF Remaining(channels) = {} \/ Len(timerQueue) >= QueueLength
        THEN timerQueue
        ELSE Append(timerQueue, Greater(Least(Remaining(channels)), 1))

\* Init, with the blink of Watchdog::Init, before the scheduler runs: the queue
\* has a period for each script set, and the start of the watchdog's timer.
SelfTest ==
    [isIdle |-> FALSE, wantsTimerUpdate |-> TRUE, isOn |-> TRUE, animOffset |-> 2,
     currentAnim |-> gAnimLongBlink, nextUpdate |-> LongBlink]

LightsInit ==
    /\ tick = 0
    /\ gState = [i \in Indicator |->
                    IF i = "attention"
                    THEN [SelfTest EXCEPT !.currentAnim = gAnimAttentionBlinkFast,
                                          !.nextUpdate = FastBlink]
                    ELSE SelfTest]
    /\ gLock = "free"
    /\ timerQueue = <<LongBlink, LongBlink, LongBlink, Other,
                      Least({LongBlink, FastBlink})>>
    /\ gTimer = Never
    /\ timerTask = "drain"
    /\ now = 0
    /\ began = [i \in Indicator |-> 0]

-----------------------------------------------------------------------------
(* The tasks that set scripts. *)

Overdue(i) == Waits(gState[i]) /\ gState[i].nextUpdate < tick

MaySet(i) == "overdue" \in Risks \/ \A j \in Indicator \ {i} : ~Overdue(j)

SetChannelScript(i, script, immediate) ==
    /\ gLock = "free"
    /\ IF immediate \/ gState[i].isIdle
       THEN LET channels == [gState EXCEPT ![i] = Started(@, script)]
            IN  /\ gState' = channels
                /\ began' = [began EXCEPT ![i] = tick]
                /\ UpdateTimerPeriod(channels)
       ELSE UNCHANGED <<gState, began, timerQueue>>
    /\ UNCHANGED <<gLock, now>>

\* Radio::Task has sent or received a packet.
PulseTx ==
    /\ MaySet("tx")
    /\ SetChannelScript("tx", gAnimShortBlink, FALSE)
    /\ UNCHANGED <<tick, gTimer, timerTask>>

PulseRx ==
    /\ MaySet("rx")
    /\ SetChannelScript("rx", gAnimShortBlink, FALSE)
    /\ UNCHANGED <<tick, gTimer, timerTask>>

\* Watchdog::HandleCommsRegained, in the HostIf task: only once comms were lost.
TurnOffAttention ==
    /\ gState["attention"].currentAnim = gAnimAttentionBlinkFast
    /\ MaySet("attention")
    /\ SetChannelScript("attention", gAnimTurnOff, TRUE)
    /\ UNCHANGED <<tick, gTimer, timerTask>>

\* Watchdog::HandleCommsLost, in the callback of another timer.
BlinkAttentionFast ==
    /\ timerTask = "check"
    /\ gState["attention"].currentAnim = gAnimTurnOff
    /\ MaySet("attention")
    /\ SetChannelScript("attention", gAnimAttentionBlinkFast, TRUE)
    /\ timerTask' = "drain"
    /\ UNCHANGED <<tick, gTimer>>

-----------------------------------------------------------------------------
(* The timer task. *)

\* A new period counts from when the command is processed.
DrainCommand ==
    /\ timerTask = "drain" /\ timerQueue # <<>>
    /\ gTimer' = IF Head(timerQueue) = Other THEN gTimer ELSE Head(timerQueue)
    /\ timerQueue' = Tail(timerQueue)
    /\ UNCHANGED <<tick, gState, gLock, timerTask, now, began>>

Drained ==
    /\ timerTask = "drain" /\ timerQueue = <<>>
    /\ timerTask' = "check"
    /\ UNCHANGED <<tick, gState, gLock, timerQueue, gTimer, now, began>>

Block ==
    /\ timerTask = "check" /\ gTimer # 0
    /\ timerTask' = "blocked"
    /\ UNCHANGED <<tick, gState, gLock, timerQueue, gTimer, now, began>>

Wake ==
    /\ timerTask = "blocked"
    /\ gTimer = 0 \/ timerQueue # <<>>
    /\ timerTask' = "drain"
    /\ UNCHANGED <<tick, gState, gLock, timerQueue, gTimer, now, began>>

\* TimerFired up to the lock.
TimerFired ==
    /\ timerTask = "check" /\ gTimer = 0
    /\ gTimer' = Never
    /\ now' = tick
    /\ timerTask' = "fired"
    /\ UNCHANGED <<tick, gState, gLock, timerQueue, began>>

\* Fault: a channel is updated without a look at its time.
AnyDue(i) == Waits(gState[i])

Due(i) == Waits(gState[i]) /\ gState[i].nextUpdate <= now

\* With the lock: the channels that are due.  When a script is over, "next" was
\* never written, and the idle channel may get any time.
ProcessChannels ==
    /\ timerTask = "fired" /\ gLock = "free"
    /\ gLock' = "timer"
    /\ \E junk \in {0, FastBlink} :
        gState' = [i \in Indicator |->
            IF ~Due(i) THEN gState[i]
            ELSE [UpdateChannel(gState[i]) EXCEPT
                    !.nextUpdate = IF NextDelay(gState[i]) # 0
                                   THEN Later(now, NextDelay(gState[i]))
                                   ELSE IF junk = 0 THEN @ ELSE Later(now, junk)]]
    /\ began' = [i \in Indicator |-> IF Due(i) THEN tick ELSE began[i]]
    /\ timerTask' = "locked"
    /\ UNCHANGED <<tick, timerQueue, gTimer, now>>

Rearm ==
    /\ timerTask = "locked"
    /\ UpdateTimerPeriod(gState)
    /\ gLock' = "free"
    /\ timerTask' = "drain"
    /\ UNCHANGED <<tick, gState, gTimer, now, began>>

-----------------------------------------------------------------------------
TimerTaskRests == timerTask = "blocked" /\ timerQueue = <<>> /\ gTimer # 0

\* Bound: without "wrap", time ends before a nextUpdate could run over.
Tick ==
    /\ "late" \in Risks \/ TimerTaskRests
    /\ "wrap" \in Risks \/ tick + MaxDelay + 1 < TickModulus
    /\ tick' = Later(tick, 1)
    /\ gTimer' = IF gTimer > 0 THEN gTimer - 1 ELSE gTimer
    /\ UNCHANGED <<gState, gLock, timerQueue, timerTask, now, began>>

LightsNext ==
    \/ PulseTx \/ PulseRx \/ TurnOffAttention \/ BlinkAttentionFast
    \/ DrainCommand \/ Drained \/ Block \/ Wake
    \/ TimerFired \/ ProcessChannels \/ Rearm
    \/ Tick

LightsSpec == LightsInit /\ [][LightsNext]_lightVars

-----------------------------------------------------------------------------
(* The delay a channel is in, which its offset is just past. *)
CurrentDelay(channel) == channel.currentAnim[channel.animOffset].ticks

\* No step of a script outlasts its delay by more than a tick, whatever scripts
\* the others set meanwhile: the one timer always fires for the first channel
\* that needs it, and a channel that waits is never left without it
\* (UpdateTimerPeriod, Indicators.cpp:107-151).
OnTime ==
    \A i \in Indicator :
        Waits(gState[i]) => tick <= began[i] + CurrentDelay(gState[i]) + 1

\* No step of a script is cut short by another channel's expiry or a second
\* pulse: a waiting channel moves on when its delay is over, or is replaced by
\* a script set at once (TimerFired and SetChannelScript).  A tick may be
\* missing where the step before it was late.
FullLength ==
    [][\A i \in Indicator :
        (Waits(gState[i]) /\ gState'[i] # gState[i]) =>
            \/ i = "attention" /\ gState'[i].currentAnim # gState[i].currentAnim
            \/ tick >= began[i] + CurrentDelay(gState[i])]_lightVars
=============================================================================
