---------------------------- MODULE IrqManager ----------------------------
(***************************************************************************)
(* The interrupt line to the host: HostIf/IrqManager.cpp and .h, with the  *)
(* commands that work on it (HostIf/Handlers/IrqStatus.h, IrqConfig.h) and *)
(* the idle hook that may be built to drive its recovery (Rtos/Idle.cpp).  *)
(*                                                                         *)
(* Assert and Acknowledge are critical sections, one step each.  SetMask   *)
(* stores the mask before it enters one, but it runs in the HostIf task,   *)
(* which none of the others that use this module preempts: one step too.   *)
(* TickCallback decides outside of its critical section, in the idle task, *)
(* which all of them preempt: two steps.                                   *)
(*                                                                         *)
(* kToggleIrqLine is false: the line is a level, low when asserted.        *)
(***************************************************************************)
EXTENDS Naturals

CONSTANTS
    Recovery,       \* the values of kRecoveryEnabled it is built with
    IrqThreshold,   \* kIrqThreshold
    TicksMax        \* the largest value of gTicksPending, a uint16_t

ASSUME RecoveryAssumption == Recovery \subseteq BOOLEAN
ASSUME ThresholdAssumption == IrqThreshold \in Nat /\ TicksMax \in Nat /\ IrqThreshold < TicksMax

VARIABLES
    gActive,            \* sets of interrupts for words of bits
    gMask,
    gMaskedActive,
    line,               \* nIRQ is asserted
    kRecoveryEnabled,   \* chosen once, when the firmware is built
    gLostIrqRecovery,
    gTicksPending,
    gPendingStage,
    ticking,            \* TickCallback has decided to enter its critical section
    known               \* the interrupts the host's last use of IrqStatus returned
                        \* or named

recoveryVars == <<gLostIrqRecovery, gTicksPending, gPendingStage>>
vars == <<gActive, gMask, gMaskedActive, line, kRecoveryEnabled, gLostIrqRecovery, gTicksPending,
          gPendingStage, ticking, known>>

-----------------------------------------------------------------------------
Interrupts == {"CommandError", "PacketReceived", "PacketTransmitted", "TxQueueEmpty"}

\* Those somebody asserts: a failed command, the radio task (with a packet for
\* the host), and whoever takes the last pending packet off the transmit path.
Sources == Interrupts \ {"PacketTransmitted"}

TypeOK ==
    /\ gActive \subseteq Sources
    /\ gMask \subseteq Interrupts
    /\ gMaskedActive \subseteq Sources
    /\ line \in BOOLEAN
    /\ kRecoveryEnabled \in Recovery
    /\ gLostIrqRecovery \in BOOLEAN
    /\ gTicksPending \in 0 .. TicksMax
    /\ gPendingStage \in 0 .. 3
    /\ ticking \in BOOLEAN
    /\ known \subseteq Interrupts

Init ==
    /\ gActive = {}
    /\ gMask = {}
    /\ gMaskedActive = {}
    /\ line = FALSE
    /\ kRecoveryEnabled \in Recovery
    /\ gLostIrqRecovery = FALSE
    /\ gTicksPending = 0
    /\ gPendingStage = 0
    /\ ticking = FALSE
    /\ known = {}

\* Fault: the line tells of interrupts that the mask holds back, too.
UpdateUnmasked ==
    /\ gMaskedActive' = gActive' \cap gMask'
    /\ line' = IF gLostIrqRecovery' THEN line ELSE gActive' # {}

\* After the bits and the recovery have been changed.
Update ==
    /\ gMaskedActive' = gActive' \cap gMask'
    /\ line' = IF gLostIrqRecovery' THEN line ELSE gMaskedActive' # {}

Assert(which) ==
    /\ gActive' = gActive \cup {which}
    /\ UNCHANGED <<gMask, recoveryVars>>
    /\ Update
    /\ UNCHANGED <<kRecoveryEnabled, ticking, known>>

Acknowledge(which) ==
    /\ gActive' = gActive \ which
    /\ gTicksPending' = 0 /\ gPendingStage' = 0 /\ gLostIrqRecovery' = FALSE
    /\ UNCHANGED gMask
    /\ Update

\* Fault: what is pending is looked at once it has been acknowledged.
PendingLate == gMaskedActive'
Pending == gMaskedActive

\* IrqStatus::DoRead, for a host that sees the line asserted, or polls.
HostReadsStatus ==
    /\ Acknowledge(gMaskedActive)
    /\ known' = Pending
    /\ UNCHANGED <<kRecoveryEnabled, ticking>>

\* IrqStatus::DoWrite: any bits, set or not.
HostWritesStatus(which) ==
    /\ Acknowledge(which)
    /\ known' = which
    /\ UNCHANGED <<kRecoveryEnabled, ticking>>

\* Fault: the new mask takes effect with the next interrupt.
SetMaskQuietly(newMask) ==
    /\ gMask' = newMask
    /\ UNCHANGED <<gActive, gMaskedActive, line, recoveryVars>>

SetMask(newMask) ==
    /\ gMask' = newMask
    /\ UNCHANGED <<gActive, recoveryVars>>
    /\ Update

\* IrqConfig::DoWrite
HostWritesConfig(newMask) ==
    /\ SetMask(newMask)
    /\ UNCHANGED <<kRecoveryEnabled, ticking, known>>

-----------------------------------------------------------------------------
(* TickCallback, from the idle hook. *)

Ticks == IF gMaskedActive = {} THEN gTicksPending
         ELSE IF gTicksPending = TicksMax THEN 0 ELSE gTicksPending + 1

TickDecides ==
    /\ kRecoveryEnabled
    /\ ~ticking
    /\ gTicksPending' = Ticks
    /\ ticking' = ((gMaskedActive # {} /\ Ticks > IrqThreshold) \/ gLostIrqRecovery)
    /\ UNCHANGED <<gActive, gMask, gMaskedActive, line, kRecoveryEnabled, gLostIrqRecovery,
                   gPendingStage, known>>

After == IF gPendingStage = 3 THEN 3 ELSE gPendingStage + 1

\* Stage 3 does not lead to stage 4, as it was meant to: the line stays asserted
\* until an acknowledgement ends the recovery.
TickPulses ==
    /\ ticking
    /\ ticking' = FALSE
    /\ gPendingStage' = After
    /\ gLostIrqRecovery' = (gLostIrqRecovery \/ gPendingStage = 0)
    /\ line' = CASE gPendingStage = 0 -> FALSE
                 [] gPendingStage = 3 -> TRUE
                 [] OTHER             -> line
    /\ UNCHANGED <<gActive, gMask, gMaskedActive, kRecoveryEnabled, gTicksPending, known>>

-----------------------------------------------------------------------------
Firmware == \E which \in Sources : Assert(which)

\* A host that sees the line asserted reads the status.
HostServes == line /\ HostReadsStatus

Host ==
    \/ HostReadsStatus
    \/ \E which \in SUBSET Interrupts : HostWritesStatus(which) \/ HostWritesConfig(which)

Idle == TickDecides \/ TickPulses

Next == Firmware \/ Host \/ Idle

Spec == Init /\ [][Next]_vars

\* A host that finds the line asserted time and again answers it, whatever else it
\* sends in between; the idle task runs when the others sleep.
FairSpec == Spec /\ SF_vars(HostServes) /\ WF_vars(Idle)

-----------------------------------------------------------------------------
(* Properties. *)

\* Unless a lost interrupt is being recovered from, the line is asserted exactly
\* while an interrupt that the mask lets through is active ("Perform a logical
\* AND between the active interrupts and the interrupt mask; if the result is
\* non-zero, assert the interrupt line", HostIf/IrqManager.cpp:45-46), and what
\* IrqStatus returns from gMaskedActive is up to date.
LineFollows ==
    /\ gMaskedActive = gActive \cap gMask
    /\ ~gLostIrqRecovery => (line <=> gMaskedActive # {})

\* An interrupt goes away only by being told to the host or acknowledged by it:
\* one that the mask holds back waits until it is let through.
NothingDropped ==
    [][gActive \ gActive' \subseteq known']_vars

\* Nothing that is active and let through stays so for ever: the line always
\* gets the host to read it, whether or not the recovery took hold of the line.
Reported ==
    \A irq \in Sources :
        (irq \in gActive /\ irq \in gMask) ~> (irq \notin gActive \/ irq \notin gMask)
=============================================================================
