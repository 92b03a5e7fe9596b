--------------------------- MODULE MCSupervision ---------------------------
(* Supervision with history variables, which no action of it reads. *)
EXTENDS Supervision

VARIABLES
    silence,    \* expiries of the watchdog's timer since the last command was handled
    met         \* a command and the watchdog's callback have met

Count ==
    silence' = IF timerTask = "check" /\ timerTask' = "count" /\ silence < MaxMissed THEN silence + 1
               ELSE IF Doing = "checkIn" /\ hostCalls' # hostCalls THEN 0
               ELSE silence

\* A command comes while the callback runs, or the callback while the HostIf
\* task waits in the middle of a command.  Nothing in the code keeps them apart.
Meets ==
    \/ hostCalls = <<>> /\ hostCalls' # <<>> /\ timerTask \in WatchdogSteps
    \/ timerTask = "check" /\ timerTask' = "count" /\ hostCalls # <<>>

MCInit == Init /\ silence = 0 /\ met = FALSE
MCNext == Next /\ Count /\ met' = (met \/ Meets)
mcVars == <<vars, silence, met>>
MCSpec == MCInit /\ [][MCNext]_mcVars /\ Fairness

-----------------------------------------------------------------------------
(* Properties.  They hold until a command meets the watchdog's callback.    *)

Quiet == hostCalls = <<>> /\ timerTask \notin WatchdogSteps

\* Between commands, the network is beaconed exactly if the host wants it and
\* is there, and the attention indicator tells if it is not, in whatever order
\* commands, losses and posts to the queue came.
FollowsHost ==
    Quiet /\ ~met =>
        /\ BeaconWillRun <=> gEnabled /\ ~gCommsLostFlag
        /\ attention = "blinkFast" <=> gCommsLostFlag

\* The timer task waits for room in the queue that only it empties, and so for
\* ever, only if a command came in the way of a loss: pulses of the radio task
\* and the posts of the commands before do not take the room.
TimerTaskFree == timerTask = "stop" /\ Len(timerQueue) = QueueLength => met

\* Comms are declared lost only after more than kWdogThreshold intervals went
\* by without a command (HostIf/Watchdog.cpp:23).
LostMeansSilent ==
    [][~met /\ ~gCommsLostFlag /\ gCommsLostFlag' => silence > Threshold]_mcVars

\* A host that has fallen silent for good is noticed, and its beacons stop.
SilenceNoticed ==
    <>[](~hostUp) => <>met \/ <>[](gCommsLostFlag /\ "beacon" \notin active)

-----------------------------------------------------------------------------
(* What the source says of itself, and does not keep. *)

\* The first command after a loss "re-enables periodic stuff that was disabled"
\* (HostIf/Watchdog.h:25-26).
BeaconsReenabled == Quiet /\ gEnabled /\ ~gCommsLostFlag => BeaconWillRun
============================================================================
