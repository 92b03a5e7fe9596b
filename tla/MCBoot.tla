------------------------------- MODULE MCBoot -------------------------------
(* StartUp and Logger together: the tasks log once main() has started them, *)
(* a panic of either stops both, and a reset begins with an empty UART.     *)
EXTENDS StartUp, Logger

BootInit == StartInit /\ LoggerInitial

TasksLog ==
    /\ \/ \E t \in Loggers : t \in started /\ (BeginLog(t) \/ LogStep(t))
       \/ TransferEnds
    /\ UNCHANGED <<vars, startVars>>

BootNext ==
    \/ TasksLog
    \/ StartWorks /\ ~SystemReset /\ UNCHANGED logVars
    \/ (Events \/ RailRefuses \/ StackGuardFails) /\ UNCHANGED logVars
    \/ (InitFails \/ FsFails) /\ LogPanics
    \/ (SystemReset \/ PowerLost) /\ LoggerRestarts

BootVars == <<vars, startVars, logVars>>

LogFair ==
    /\ \A t \in Loggers : WF_BootVars(LogStep(t) /\ UNCHANGED <<vars, startVars>>)
    /\ WF_BootVars(TransferEnds /\ UNCHANGED <<vars, startVars>>)

BootSpec ==
    /\ BootInit
    /\ [][BootNext]_BootVars
    /\ WF_BootVars(PowersUp /\ UNCHANGED logVars)
    /\ WF_BootVars(Initialises /\ UNCHANGED logVars)
    /\ WF_BootVars(SystemReset /\ LoggerRestarts)
    /\ \A task \in Tasks : WF_BootVars(TaskStarts(task) /\ UNCHANGED logVars)
    /\ LogFair

\* The components' type invariants.
BootTypeOK == TypeOK /\ StartTypeOK /\ LoggerTypeOK
=============================================================================
