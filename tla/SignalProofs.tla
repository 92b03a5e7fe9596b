---------------------------- MODULE SignalProofs ----------------------------
(***************************************************************************)
(* Theorems about the two components that signal to the outside: the       *)
(* interrupt line to the host (IrqManager), for every threshold, counter   *)
(* width and build, and the LEDs (Indicators), for every delay, width of   *)
(* the tick count and length of the timer's queue.                         *)
(***************************************************************************)
EXTENDS IrqManager, Indicators, SequenceTheorems, Sums, TLAPS

-----------------------------------------------------------------------------
(* The interrupt line. *)

\* The recovery is under way exactly while its stage is not the first.
Staged == gLostIrqRecovery <=> gPendingStage # 0

LineInv == TypeOK /\ LineFollows /\ Staged

LEMMA LineInit == Init => LineInv
<1>1. Init => TypeOK
    <2>1. 0 \in 0 .. TicksMax /\ 0 \in 0 .. 3
        BY ThresholdAssumption
    <2>2. {} \subseteq Sources /\ {} \subseteq Interrupts
        OBVIOUS
    <2> QED
        BY <2>1, <2>2, Zenon DEF Init, TypeOK
<1>2. Init => LineFollows
    BY Zenon DEF Init, LineFollows
<1>3. Init => Staged
    BY DEF Init, Staged
<1> QED
    BY <1>1, <1>2, <1>3 DEF LineInv

LEMMA AssertLineInv ==
    ASSUME LineInv, NEW which \in Sources, Assert(which)
    PROVE  LineInv'
<1>1. TypeOK'
    BY DEF Assert, Update, LineInv, TypeOK, recoveryVars, Sources
<1>2. LineFollows'
    BY DEF Assert, Update, LineInv, LineFollows, recoveryVars
<1>3. Staged'
    BY DEF Assert, LineInv, Staged, recoveryVars
<1> QED
    BY <1>1, <1>2, <1>3 DEF LineInv

\* Acknowledging any bits ends the recovery, which brings the line up to date.
LEMMA AcknowledgeLineInv ==
    ASSUME LineInv, NEW which, Acknowledge(which),
           known' \subseteq Interrupts, UNCHANGED <<kRecoveryEnabled, ticking>>
    PROVE  LineInv'
<1>1. TypeOK'
    <2>1. gTicksPending' \in 0 .. TicksMax /\ gPendingStage' \in 0 .. 3
        BY ThresholdAssumption DEF Acknowledge
    <2>2. line' \in BOOLEAN
        BY DEF Acknowledge, Update
    <2> QED
        BY <2>1, <2>2 DEF Acknowledge, Update, LineInv, TypeOK
<1>2. LineFollows'
    BY DEF Acknowledge, Update, LineFollows
<1>3. Staged'
    BY DEF Acknowledge, Staged
<1> QED
    BY <1>1, <1>2, <1>3 DEF LineInv

LEMMA HostLineInv ==
    ASSUME LineInv, Host
    PROVE  LineInv'
<1>1. CASE HostReadsStatus
    <2>1. known' \subseteq Interrupts
        BY <1>1 DEF HostReadsStatus, Pending, LineInv, TypeOK, Sources
    <2> QED
        BY <1>1, <2>1, AcknowledgeLineInv DEF HostReadsStatus
<1>2. ASSUME NEW which \in SUBSET Interrupts, HostWritesStatus(which)
      PROVE  LineInv'
    BY <1>2, AcknowledgeLineInv DEF HostWritesStatus
<1>3. ASSUME NEW mask \in SUBSET Interrupts, HostWritesConfig(mask)
      PROVE  LineInv'
    <2> USE <1>3 DEF HostWritesConfig, SetMask, Update, LineInv, recoveryVars
    <2>1. TypeOK'
        BY DEF TypeOK
    <2>2. LineFollows'
        BY DEF LineFollows
    <2>3. Staged'
        BY DEF Staged
    <2> QED
        BY <2>1, <2>2, <2>3
<1> QED
    BY <1>1, <1>2, <1>3 DEF Host

\* The idle task may act on a decision that an acknowledgement has overtaken.
LEMMA IdleLineInv ==
    ASSUME LineInv, Idle
    PROVE  LineInv'
<1>1. CASE TickDecides
    <2>1. Ticks \in 0 .. TicksMax
        BY ThresholdAssumption DEF Ticks, LineInv, TypeOK
    <2> QED
        BY <1>1, <2>1 DEF TickDecides, LineInv, TypeOK, LineFollows, Staged
<1>2. CASE TickPulses
    <2> USE <1>2 DEF TickPulses, After, LineInv
    <2>1. TypeOK'
        <3>1. gPendingStage' \in 0 .. 3
            BY DEF TypeOK
        <3>2. line' \in BOOLEAN
            BY DEF TypeOK
        <3>3. gLostIrqRecovery' \in BOOLEAN /\ ticking' \in BOOLEAN
            OBVIOUS
        <3> QED
            BY <3>1, <3>2, <3>3 DEF TypeOK
    <2>2. gLostIrqRecovery'
        BY DEF Staged
    <2>3. LineFollows'
        BY <2>2 DEF LineFollows
    <2>4. Staged'
        BY <2>2 DEF Staged, TypeOK
    <2> QED
        BY <2>1, <2>3, <2>4
<1> QED
    BY <1>1, <1>2 DEF Idle

LEMMA LineStep ==
    ASSUME LineInv, [Next]_vars
    PROVE  LineInv'
<1>1. CASE Firmware
    BY <1>1, AssertLineInv DEF Firmware
<1>2. CASE Host
    BY <1>2, HostLineInv
<1>3. CASE Idle
    BY <1>3, IdleLineInv
<1>4. CASE UNCHANGED vars
    BY <1>4 DEF vars, LineInv, TypeOK, LineFollows, Staged
<1> QED
    BY <1>1, <1>2, <1>3, <1>4 DEF Next

-----------------------------------------------------------------------------
(* The theorems about the interrupt line. *)

\* The variables keep their types, whatever is asserted, masked and acknowledged.
THEOREM LineTypeCorrect == Spec => []TypeOK
<1>1. LineInv => TypeOK
    BY DEF LineInv
<1> QED
    BY LineInit, LineStep, <1>1, PTL DEF Spec

\* The line, and the pending interrupts that IrqStatus reports, follow the active
\* ones that the mask lets through (IrqManager::Update), except in a recovery.
THEOREM LineCorrect == Spec => []LineFollows
<1>1. LineInv => LineFollows
    BY DEF LineInv
<1> QED
    BY LineInit, LineStep, <1>1, PTL DEF Spec

\* No interrupt goes away unless the host was told of it or acknowledged it: of
\* what IrqStatus::DoRead takes out of gActive nothing is missing in its answer.
THEOREM KeptUntilKnown == Spec => NothingDropped
<1> DEFINE Kept == gActive \ gActive' \subseteq known'
<1>1. ASSUME NEW which \in Sources, Assert(which)
      PROVE  Kept
    BY <1>1 DEF Assert
<1>2. ASSUME HostReadsStatus
      PROVE  Kept
    BY <1>2 DEF HostReadsStatus, Pending, Acknowledge
<1>3. ASSUME NEW which \in SUBSET Interrupts, HostWritesStatus(which)
      PROVE  Kept
    BY <1>3 DEF HostWritesStatus, Acknowledge
<1>4. ASSUME NEW mask \in SUBSET Interrupts, HostWritesConfig(mask)
      PROVE  Kept
    BY <1>4 DEF HostWritesConfig, SetMask
<1>5. ASSUME Idle
      PROVE  Kept
    BY <1>5 DEF Idle, TickDecides, TickPulses
<1>6. Next => Kept
    BY <1>1, <1>2, <1>3, <1>4, <1>5 DEF Next, Firmware, Host
<1> QED
    BY <1>6, PTL DEF Spec, NothingDropped


-----------------------------------------------------------------------------
(* The LEDs: the invariants. *)

\* Every channel is within its script; it is idle or waits, and then it is in
\* a delay of its script, which began when the last step did.
InScript(ch) ==
    /\ ch.animOffset <= Len(ch.currentAnim)
    /\ ch.isIdle # ch.wantsTimerUpdate
    /\ Waits(ch) => ch.animOffset # 0 /\ CurrentDelay(ch) \in 1 .. MaxDelay

Scripted == \A i \in Indicator : InScript(gState[i])
Timely == \A i \in Indicator :
    Waits(gState[i]) => gState[i].nextUpdate = began[i] + CurrentDelay(gState[i])

\* The tick count does not run over while a delay lasts, and time stands still
\* in the callback; the lock is held at its end.
Clock ==
    /\ tick + MaxDelay < TickModulus
    /\ timerTask \in {"fired", "locked"} => now = tick
    /\ timerTask = "locked" => gLock = "timer"

TypeInv == LightsTypeOK /\ Scripted
StepInv == TypeInv /\ Timely /\ Clock

\* A period p, if it starts now, ends in time for every channel that waits.
Covers(p) ==
    p # Never /\ \A i \in Indicator : Waits(gState[i]) => tick + p <= gState[i].nextUpdate + 1

\* So does the timer when all commands in the queue are done.
Covered ==
    \/ \A i \in Indicator : ~Waits(gState[i])
    \/ Covers(gTimer) /\ \A k \in 1 .. Len(timerQueue) : timerQueue[k] = Other
    \/ \E k \in 1 .. Len(timerQueue) :
          /\ timerQueue[k] # Other /\ Covers(timerQueue[k])
          /\ \A l \in k + 1 .. Len(timerQueue) : timerQueue[l] = Other

Coverage ==
    /\ timerTask \in {"drain", "check", "blocked"} => Covered
    /\ \A i \in Indicator : Waits(gState[i]) =>
          /\ tick <= gState[i].nextUpdate + 1
          /\ timerTask = "locked" => tick < gState[i].nextUpdate

\* A pulse may be about to be set, now or after this tick's expiry.
MayPulse(i) == IF gState[i].isIdle \/ gState[i].nextUpdate <= tick THEN 1 ELSE 0
MayTurnOff == IF gState["attention"].currentAnim = gAnimAttentionBlinkFast THEN 1 ELSE 0
Posts == MayPulse("tx") + MayPulse("rx") + MayTurnOff

\* There is room for all that may be posted before the timer task is back.
Room ==
    /\ timerTask # "drain" => Len(timerQueue) + Posts <= 3
    /\ timerTask = "drain" =>
          \/ MayPulse("tx") + MayPulse("rx") = 0
          \/ Len(timerQueue) + Posts <= 5

LightsInv == StepInv /\ Coverage /\ Room

-----------------------------------------------------------------------------
(* The scripts. *)

Scripts == {gAnimTurnOff, gAnimLongBlink, gAnimShortBlink, gAnimAttentionBlinkFast}
Commands == [cmd : {"on", "off", "delay", "restart", "end"}, ticks : 0 .. MaxDelay]
Stops(command) == command.cmd \in {"delay", "end"}

LEMMA MaxDelayIs ==
    /\ MaxDelay \in Nat \ {0}
    /\ LongBlink \in 1 .. MaxDelay /\ ShortBlink \in 1 .. MaxDelay /\ FastBlink \in 1 .. MaxDelay
    /\ MaxDelay < TickModulus
    /\ TickModulus \in Nat /\ QueueLength \in Nat /\ QueueLength >= 5
<1> DEFINE D == {LongBlink, ShortBlink, FastBlink}
<1>1. LongBlink \in Nat \ {0} /\ ShortBlink \in Nat \ {0} /\ FastBlink \in Nat \ {0}
    BY DelaysAssumption
<1>2. \E d \in D : \A e \in D : e <= d
  <2>1. CASE ShortBlink <= LongBlink /\ FastBlink <= LongBlink
    BY <1>1, <2>1
  <2>2. CASE LongBlink <= ShortBlink /\ FastBlink <= ShortBlink
    BY <1>1, <2>2
  <2>3. CASE LongBlink <= FastBlink /\ ShortBlink <= FastBlink
    BY <1>1, <2>3
  <2> QED
    BY <1>1, <2>1, <2>2, <2>3
<1>3. MaxDelay \in D /\ \A e \in D : e <= MaxDelay
    BY <1>2 DEF MaxDelay
<1> QED
    BY <1>1, <1>3, TicksAssumption, QueueAssumption

\* Each script is a sequence of commands with a delay or an end in it.
LEMMA ScriptsAre ==
    ASSUME NEW s \in Scripts
    PROVE  s \in Seq(Commands) /\ Len(s) \in 2 .. 5 /\ \E k \in 1 .. Len(s) : Stops(s[k])
<1> USE MaxDelayIs DEF Commands, Stops, TurnOn, TurnOff, Delay, Restart, End
<1>1. /\ TurnOn \in Commands /\ TurnOff \in Commands /\ Restart \in Commands /\ End \in Commands
      /\ Delay(LongBlink) \in Commands /\ Delay(ShortBlink) \in Commands
      /\ Delay(FastBlink) \in Commands
    OBVIOUS
<1>2. Stops(End) /\ Stops(Delay(LongBlink)) /\ Stops(Delay(ShortBlink)) /\ Stops(Delay(FastBlink))
    OBVIOUS
<1> HIDE DEF Commands, Stops, TurnOn, TurnOff, Delay, Restart, End
<1>3. CASE s = gAnimTurnOff
    BY <1>1, <1>2, <1>3 DEF gAnimTurnOff
<1>4. CASE s = gAnimLongBlink
    BY <1>1, <1>2, <1>4 DEF gAnimLongBlink
<1>5. CASE s = gAnimShortBlink
    BY <1>1, <1>2, <1>5 DEF gAnimShortBlink
<1>6. CASE s = gAnimAttentionBlinkFast
    BY <1>1, <1>2, <1>6 DEF gAnimAttentionBlinkFast
<1> QED
    BY <1>3, <1>4, <1>5, <1>6 DEF Scripts

\* They differ, by their lengths or by what they begin with.
LEMMA ScriptsDiffer == gAnimTurnOff # gAnimAttentionBlinkFast
<1>1. Len(gAnimTurnOff) = 2 /\ Len(gAnimAttentionBlinkFast) = 5
    BY DEF gAnimTurnOff, gAnimAttentionBlinkFast
<1> QED
    BY <1>1

\* A channel that a script can be run on.
Runs(ch) == ch.currentAnim \in Scripts /\ ch.animOffset \in 0 .. Len(ch.currentAnim)

\* One sequence after the other.
LEMMA JoinIs ==
    ASSUME NEW S, NEW a \in Seq(S), NEW b \in Seq(S)
    PROVE  /\ DOMAIN (a \o b) = 1 .. Len(a) + Len(b)
           /\ \A i \in 1 .. Len(a) + Len(b) :
                 (a \o b)[i] = IF i <= Len(a) THEN a[i] ELSE b[i - Len(a)]
<1>1. /\ a \o b \in Seq(S) /\ Len(a \o b) = Len(a) + Len(b)
      /\ \A i \in 1 .. Len(a) + Len(b) :
            (a \o b)[i] = IF i <= Len(a) THEN a[i] ELSE b[i - Len(a)]
    BY ConcatProperties
<1> QED
    BY <1>1

\* What is ahead is the rest of the script, and then the script.
LEMMA AheadIs ==
    ASSUME NEW ch, Runs(ch)
    PROVE  LET s == ch.currentAnim
               rest == Len(s) - ch.animOffset
           IN  /\ DOMAIN Ahead(ch) = 1 .. rest + Len(s)
               /\ \A i \in 1 .. rest + Len(s) :
                     Ahead(ch)[i] = IF i <= rest THEN s[ch.animOffset + i] ELSE s[i - rest]
<1> DEFINE s == ch.currentAnim
           o == ch.animOffset
           r == SubSeq(s, o + 1, Len(s))
<1>1. s \in Seq(Commands) /\ Len(s) \in 2 .. 5 /\ o \in 0 .. Len(s)
    BY ScriptsAre DEF Runs
<1>2. r \in Seq(Commands) /\ Len(r) = Len(s) - o /\ \A i \in 1 .. Len(r) : r[i] = s[o + i]
  <2>1. o + 1 \in 1 .. Len(s) + 1 /\ o + 1 \in Nat /\ Len(s) \in Nat /\ Len(s) <= Len(s)
    BY <1>1
  <2> HIDE DEF s, o
  <2>2. SubSeq(s, o + 1, Len(s)) \in Seq(Commands)
    BY <1>1, <2>1
  <2>3. Len(SubSeq(s, o + 1, Len(s))) = Len(s) - o
    BY <1>1, <2>1
  <2>4. \A i \in 1 .. Len(s) - o : SubSeq(s, o + 1, Len(s))[i] = s[o + i]
    BY <1>1, <2>1
  <2> QED
    BY <2>2, <2>3, <2>4
<1>3. Ahead(ch) = r \o s
    BY DEF Ahead
<1> HIDE DEF r, s, o
<1>4. /\ DOMAIN (r \o s) = 1 .. Len(r) + Len(s)
      /\ \A i \in 1 .. Len(r) + Len(s) :
            (r \o s)[i] = IF i <= Len(r) THEN r[i] ELSE s[i - Len(r)]
    BY <1>1, <1>2, JoinIs
<1>5. /\ DOMAIN Ahead(ch) = 1 .. (Len(s) - o) + Len(s)
      /\ \A i \in 1 .. (Len(s) - o) + Len(s) :
            Ahead(ch)[i] = IF i <= Len(s) - o THEN s[o + i] ELSE s[i - (Len(s) - o)]
    BY <1>1, <1>2, <1>3, <1>4
<1> QED
    BY <1>5 DEF s, o

\* The script is run to the first of its commands that stops it.
LEMMA StopIs ==
    ASSUME NEW ch, Runs(ch)
    PROVE  /\ Stop(ch) \in DOMAIN Ahead(ch) /\ Stop(ch) \in 1 .. 2 * Len(ch.currentAnim) - ch.animOffset
           /\ Stops(Ahead(ch)[Stop(ch)]) /\ Ahead(ch)[Stop(ch)] \in Commands
<1> DEFINE s == ch.currentAnim
           rest == Len(s) - ch.animOffset
           T == {i \in DOMAIN Ahead(ch) : Stops(Ahead(ch)[i])}
<1>1. /\ s \in Seq(Commands) /\ Len(s) \in 2 .. 5 /\ ch.animOffset \in 0 .. Len(s)
      /\ rest \in 0 .. Len(s)
    BY ScriptsAre DEF Runs
<1>2. /\ DOMAIN Ahead(ch) = 1 .. rest + Len(s)
      /\ \A i \in 1 .. rest + Len(s) :
            Ahead(ch)[i] = IF i <= rest THEN s[ch.animOffset + i] ELSE s[i - rest]
    BY AheadIs
<1>3. PICK k \in 1 .. Len(s) : Stops(s[k])
    BY ScriptsAre DEF Runs
<1>4. rest + k \in T
  <2> HIDE DEF s, rest
  <2>1. rest + k \in 1 .. rest + Len(s) /\ ~(rest + k <= rest) /\ (rest + k) - rest = k
    BY <1>1
  <2>2. Ahead(ch)[rest + k] = s[k] /\ rest + k \in DOMAIN Ahead(ch)
    BY <1>2, <2>1
  <2> QED
    BY <1>3, <2>2
<1>5. T \in SUBSET Nat /\ T # {}
    BY <1>1, <1>2, <1>4
<1> HIDE DEF T
<1>6. PICK n \in T : \A m \in T : n <= m
    BY <1>5, LeastNumber
<1>7. \E i \in DOMAIN Ahead(ch) :
         /\ Stops(Ahead(ch)[i])
         /\ \A j \in 1 .. i - 1 : ~Stops(Ahead(ch)[j])
  <2>1. n \in DOMAIN Ahead(ch) /\ Stops(Ahead(ch)[n])
    BY <1>6 DEF T
  <2>2. ASSUME NEW j \in 1 .. n - 1, Stops(Ahead(ch)[j]) PROVE FALSE
    <3>1. n \in 1 .. rest + Len(s)
      BY <1>2, <2>1
    <3>2. j \in DOMAIN Ahead(ch) /\ ~(n <= j)
      BY <1>1, <1>2, <3>1
    <3> QED
      BY <1>6, <2>2, <3>2 DEF T
  <2> QED
    BY <2>1, <2>2
<1>8. Stop(ch) \in DOMAIN Ahead(ch) /\ Stops(Ahead(ch)[Stop(ch)])
    BY <1>7 DEF Stop, Stops
<1>9. Ahead(ch)[Stop(ch)] \in Commands
  <2>1. \A i \in 1 .. Len(s) : s[i] \in Commands
    BY <1>1
  <2>2. ASSUME NEW i \in 1 .. rest + Len(s) PROVE Ahead(ch)[i] \in Commands
    <3> HIDE DEF s
    <3>1. CASE i <= rest
      <4>1. ch.animOffset + i \in 1 .. Len(s)
        BY <1>1, <3>1
      <4> QED
        BY <1>2, <2>1, <3>1, <4>1
    <3>2. CASE ~(i <= rest)
      <4>1. i - rest \in 1 .. Len(s)
        BY <1>1, <3>2
      <4> QED
        BY <1>2, <2>1, <3>2, <4>1
    <3> QED
      BY <3>1, <3>2
  <2> QED
    BY <1>2, <1>8, <2>2
<1> QED
    BY <1>1, <1>2, <1>8, <1>9

-----------------------------------------------------------------------------
(* Channels. *)

LEMMA ChannelRuns ==
    ASSUME NEW ch \in State, ch.animOffset <= Len(ch.currentAnim)
    PROVE  Runs(ch)
<1>1. ch.currentAnim \in Scripts /\ ch.animOffset \in 0 .. 5
    BY DEF State, Scripts
<1>2. Len(ch.currentAnim) \in 2 .. 5
    BY <1>1, ScriptsAre
<1> QED
    BY <1>1, <1>2 DEF Runs

LEMMA LitIs ==
    ASSUME NEW ch, ch.isOn \in BOOLEAN
    PROVE  Lit(ch) \in BOOLEAN
<1> DEFINE Switches == {i \in 1 .. Stop(ch) : Ahead(ch)[i].cmd \in {"on", "off"}}
<1>1. Lit(ch) = IF Switches = {} THEN ch.isOn
                ELSE Ahead(ch)[CHOOSE i \in Switches : \A j \in Switches : j <= i].cmd = "on"
    BY DEF Lit
<1> HIDE DEF Switches
<1> DEFINE last == Ahead(ch)[CHOOSE i \in Switches : \A j \in Switches : j <= i].cmd
<1>2. Lit(ch) = IF Switches = {} THEN ch.isOn ELSE last = "on"
    BY <1>1
<1> HIDE DEF last
<1> QED
    BY <1>2, Zenon

\* What UpdateChannel makes of a channel.
LEMMA UpdateIs ==
    ASSUME NEW ch \in State, ch.animOffset <= Len(ch.currentAnim)
    PROVE  /\ UpdateChannel(ch) \in State
           /\ UpdateChannel(ch).currentAnim = ch.currentAnim
           /\ UpdateChannel(ch).animOffset <= Len(ch.currentAnim)
           /\ NextDelay(ch) \in 0 .. MaxDelay
           /\ NextDelay(ch) = 0 =>
                 UpdateChannel(ch).isIdle = TRUE /\ UpdateChannel(ch).wantsTimerUpdate = FALSE
           /\ NextDelay(ch) # 0 =>
                 /\ UpdateChannel(ch).isIdle = ch.isIdle
                 /\ UpdateChannel(ch).wantsTimerUpdate = TRUE
                 /\ UpdateChannel(ch).animOffset # 0
                 /\ CurrentDelay(UpdateChannel(ch)) = NextDelay(ch)
<1> DEFINE s == ch.currentAnim
           o == ch.animOffset
           len == Len(s)
           n == Stop(ch)
           u == UpdateChannel(ch)
           next == IF o + n > len THEN (o + n) - len ELSE o + n
<1>1. Runs(ch)
    BY ChannelRuns
<1>2. s \in Scripts /\ len \in 2 .. 5 /\ o \in 0 .. len
    BY <1>1, ScriptsAre DEF Runs
<1>3. n \in 1 .. 2 * len - o /\ Ahead(ch)[n] \in Commands /\ n \in DOMAIN Ahead(ch)
    BY <1>1, StopIs
<1>4. NextDelay(ch) \in 0 .. MaxDelay
    BY <1>3 DEF NextDelay, Commands
<1>5. next \in 1 .. len
  <2> HIDE DEF len, o, n
  <2> QED
    BY <1>2, <1>3
<1>6. s[next] = Ahead(ch)[n]
  <2>1. /\ DOMAIN Ahead(ch) = 1 .. (len - o) + len
        /\ \A i \in 1 .. (len - o) + len :
              Ahead(ch)[i] = IF i <= len - o THEN s[o + i] ELSE s[i - (len - o)]
    BY <1>1, AheadIs
  <2> HIDE DEF len, o, n, s
  <2>2. Ahead(ch)[n] = IF n <= len - o THEN s[o + n] ELSE s[n - (len - o)]
    BY <1>3, <2>1
  <2>3. (n <= len - o <=> ~(o + n > len)) /\ n - (len - o) = (o + n) - len
    BY <1>2, <1>3
  <2> QED
    BY <2>2, <2>3
<1>7. u = [ch EXCEPT !.isOn = Lit(ch),
                     !.isIdle = IF NextDelay(ch) = 0 THEN TRUE ELSE @,
                     !.wantsTimerUpdate = ~(NextDelay(ch) = 0),
                     !.nextUpdate = IF NextDelay(ch) = 0 THEN 0 ELSE @,
                     !.animOffset = IF NextDelay(ch) = 0 THEN @ ELSE next]
    BY DEF UpdateChannel
<1>8. Lit(ch) \in BOOLEAN
    BY LitIs DEF State
<1> HIDE DEF s, o, len, n, u, next
<1>9. 0 \in 0 .. TickModulus - 1
    BY MaxDelayIs
<1>10. next \in 0 .. 5 /\ next <= len /\ next # 0
    BY <1>2, <1>5
<1>11. CASE NextDelay(ch) = 0
  <2>1. u = [ch EXCEPT !.isOn = Lit(ch), !.isIdle = TRUE, !.wantsTimerUpdate = FALSE,
                       !.nextUpdate = 0, !.animOffset = @]
    BY <1>7, <1>11
  <2>2. /\ u \in State /\ u.currentAnim = s /\ u.animOffset = o
        /\ u.isIdle = TRUE /\ u.wantsTimerUpdate = FALSE
    BY <1>8, <1>9, <2>1 DEF State, s, o
  <2>3. o <= len
    BY <1>2
  <2> QED
    BY <1>4, <1>11, <2>2, <2>3 DEF u, s, len
<1>12. CASE NextDelay(ch) # 0
  <2>1. u = [ch EXCEPT !.isOn = Lit(ch), !.isIdle = @, !.wantsTimerUpdate = TRUE,
                       !.nextUpdate = @, !.animOffset = next]
    BY <1>7, <1>12
  <2>2. /\ u \in State /\ u.currentAnim = s /\ u.animOffset = next
        /\ u.isIdle = ch.isIdle /\ u.wantsTimerUpdate = TRUE
    BY <1>8, <1>10, <2>1 DEF State, s
  <2>3. CurrentDelay(u) = NextDelay(ch)
    BY <1>6, <2>2 DEF CurrentDelay, NextDelay, n
  <2> QED
    BY <1>4, <1>10, <1>12, <2>2, <2>3 DEF u, s, len
<1> QED
    BY <1>11, <1>12

\* A time that is stored with it changes nothing else.
LEMMA TimeIs ==
    ASSUME NEW u \in State, NEW t \in 0 .. TickModulus - 1
    PROVE  LET v == [u EXCEPT !.nextUpdate = t]
           IN  /\ v \in State /\ v.nextUpdate = t
               /\ v.currentAnim = u.currentAnim /\ v.animOffset = u.animOffset
               /\ v.isIdle = u.isIdle /\ v.wantsTimerUpdate = u.wantsTimerUpdate
               /\ CurrentDelay(v) = CurrentDelay(u)
    BY DEF State, CurrentDelay

LEMMA LaterIs ==
    ASSUME NEW from \in Nat, NEW ticks \in Nat
    PROVE  /\ Later(from, ticks) \in 0 .. TickModulus - 1
           /\ from + ticks < TickModulus => Later(from, ticks) = from + ticks
<1>1. TickModulus \in Nat \ {0}
    BY MaxDelayIs
<1> QED
    BY <1>1 DEF Later

\* What SetChannelScript makes of one.
LEMMA StartedIs ==
    ASSUME NEW ch \in State, NEW script \in Scripts, tick \in 0 .. TickModulus - 1
    PROVE  LET s == Started(ch, script)
           IN  /\ s \in State /\ InScript(s) /\ s.currentAnim = script
               /\ Waits(s) => s.nextUpdate = Later(tick, CurrentDelay(s))
               /\ script = gAnimShortBlink => Waits(s)
               /\ script = gAnimTurnOff => ~Waits(s)
<1> DEFINE fresh == [ch EXCEPT !.isIdle = FALSE, !.wantsTimerUpdate = FALSE,
                               !.animOffset = 0, !.currentAnim = script, !.nextUpdate = 0]
           u == UpdateChannel(fresh)
           t == IF NextDelay(fresh) = 0 THEN u.nextUpdate ELSE Later(tick, NextDelay(fresh))
           s == Started(ch, script)
<1>1. 0 \in 0 .. TickModulus - 1 /\ tick \in Nat /\ MaxDelay \in Nat
    BY MaxDelayIs
<1>2. /\ fresh \in State /\ fresh.animOffset = 0 /\ fresh.currentAnim = script
      /\ fresh.isIdle = FALSE
  <2>1. /\ script \in {gAnimTurnOff, gAnimLongBlink, gAnimShortBlink, gAnimAttentionBlinkFast}
        /\ 0 \in 0 .. 5
    BY DEF Scripts
  <2>2. fresh \in State
    BY <1>1, <2>1 DEF State
  <2>3. fresh.animOffset = 0 /\ fresh.currentAnim = script /\ fresh.isIdle = FALSE
    BY DEF State
  <2> QED
    BY <2>2, <2>3
<1>3. Len(script) \in 2 .. 5
    BY ScriptsAre
<1>4. s = [u EXCEPT !.nextUpdate = t]
    BY DEF Started
<1> HIDE DEF fresh, s
<1>5. /\ u \in State /\ u.currentAnim = script /\ u.animOffset <= Len(script)
      /\ NextDelay(fresh) \in 0 .. MaxDelay
      /\ NextDelay(fresh) = 0 => u.isIdle = TRUE /\ u.wantsTimerUpdate = FALSE
      /\ NextDelay(fresh) # 0 =>
            /\ u.isIdle = FALSE /\ u.wantsTimerUpdate = TRUE /\ u.animOffset # 0
            /\ CurrentDelay(u) = NextDelay(fresh)
  <2>1. fresh.animOffset <= Len(fresh.currentAnim)
    BY <1>2, <1>3
  <2> QED
    BY <1>2, <2>1, UpdateIs
<1>6. t \in 0 .. TickModulus - 1
  <2>1. u.nextUpdate \in 0 .. TickModulus - 1
    BY <1>5 DEF State
  <2>2. NextDelay(fresh) \in Nat
    BY <1>1, <1>5
  <2>3. Later(tick, NextDelay(fresh)) \in 0 .. TickModulus - 1
    BY <1>1, <2>2, LaterIs
  <2> QED
    BY <2>1, <2>3
<1> HIDE DEF u, t
<1>7. /\ s \in State /\ s.nextUpdate = t /\ s.currentAnim = script
      /\ s.animOffset = u.animOffset /\ s.isIdle = u.isIdle
      /\ s.wantsTimerUpdate = u.wantsTimerUpdate /\ CurrentDelay(s) = CurrentDelay(u)
    BY <1>4, <1>5, <1>6, TimeIs
<1>8. Waits(s) <=> NextDelay(fresh) # 0
    BY <1>5, <1>7 DEF Waits
<1>9. InScript(s)
  <2>1. CASE NextDelay(fresh) = 0
    BY <1>5, <1>7, <1>8, <2>1 DEF InScript
  <2>2. CASE NextDelay(fresh) # 0
    <3>1. CurrentDelay(s) \in 1 .. MaxDelay
      BY <1>1, <1>5, <1>7, <2>2
    <3> QED
      BY <1>5, <1>7, <2>2, <3>1 DEF InScript
  <2> QED
    BY <2>1, <2>2
<1>10. Waits(s) => s.nextUpdate = Later(tick, CurrentDelay(s))
    BY <1>5, <1>7, <1>8 DEF t
<1>11. ASSUME ~Stops(script[1]), Stops(script[2])
       PROVE  NextDelay(fresh) = script[2].ticks
  <2>1. Runs(fresh)
    BY <1>2, <1>3 DEF Runs
  <2>2. Ahead(fresh)[1] = script[1] /\ Ahead(fresh)[2] = script[2]
    <3>1. \A i \in 1 .. (Len(script) - 0) + Len(script) :
             Ahead(fresh)[i] = IF i <= Len(script) - 0 THEN script[0 + i]
                               ELSE script[i - (Len(script) - 0)]
      BY <1>2, <2>1, AheadIs
    <3>2. 1 \in 1 .. (Len(script) - 0) + Len(script) /\ 2 \in 1 .. (Len(script) - 0) + Len(script)
          /\ 1 <= Len(script) - 0 /\ 2 <= Len(script) - 0 /\ 0 + 1 = 1 /\ 0 + 2 = 2
      BY <1>3, SMTT(30)
    <3> QED
      BY <3>1, <3>2
  <2>3. /\ Stop(fresh) \in DOMAIN Ahead(fresh) /\ Stop(fresh) \in Nat \ {0}
        /\ 2 \in DOMAIN Ahead(fresh)
    BY <1>2, <1>3, <2>1, StopIs, AheadIs
  <2>4. \E i \in DOMAIN Ahead(fresh) :
           /\ Stops(Ahead(fresh)[i])
           /\ \A j \in 1 .. i - 1 : ~Stops(Ahead(fresh)[j])
    BY <1>11, <2>2, <2>3
  <2>5. /\ Stops(Ahead(fresh)[Stop(fresh)])
        /\ \A j \in 1 .. Stop(fresh) - 1 : ~Stops(Ahead(fresh)[j])
    BY <2>4 DEF Stop, Stops
  <2>6. Stop(fresh) # 1
    BY <1>11, <2>2, <2>5
  <2>7. ~(Stop(fresh) > 2)
    BY <1>11, <2>2, <2>3, <2>5
  <2>8. Stop(fresh) = 2
    BY <2>3, <2>6, <2>7
  <2> QED
    BY <2>2, <2>8 DEF NextDelay
<1>12. script = gAnimShortBlink => Waits(s)
  <2> SUFFICES ASSUME script = gAnimShortBlink PROVE NextDelay(fresh) # 0
    BY <1>8
  <2>1. script[1] = TurnOn /\ script[2] = Delay(ShortBlink)
    BY DEF gAnimShortBlink
  <2>2. ~Stops(TurnOn) /\ Stops(Delay(ShortBlink)) /\ Delay(ShortBlink).ticks = ShortBlink
    BY DEF Stops, TurnOn, Delay
  <2> QED
    BY <1>11, <2>1, <2>2, MaxDelayIs
<1>13. script = gAnimTurnOff => ~Waits(s)
  <2> SUFFICES ASSUME script = gAnimTurnOff PROVE NextDelay(fresh) = 0
    BY <1>8
  <2>1. script[1] = TurnOff /\ script[2] = End
    BY DEF gAnimTurnOff
  <2>2. ~Stops(TurnOff) /\ Stops(End) /\ End.ticks = 0
    BY DEF Stops, TurnOff, End
  <2> QED
    BY <1>11, <2>1, <2>2
<1> QED
    BY <1>7, <1>9, <1>10, <1>12, <1>13 DEF s

-----------------------------------------------------------------------------
(* The steps, as far as the proofs need to know them. *)

\* A period that is posted is not longer than any channel waits, unless it is 1.
LEMMA PostIs ==
    ASSUME TypeInv, NEW channels \in [Indicator -> State], UpdateTimerPeriod(channels)
    PROVE  \/ /\ timerQueue' = timerQueue
              /\ \/ \A j \in Indicator : ~Waits(channels[j])
                 \/ Len(timerQueue) >= QueueLength
           \/ /\ Len(timerQueue) < QueueLength
              /\ \E p \in 1 .. TickModulus - 1 :
                    /\ timerQueue' = Append(timerQueue, p)
                    /\ \A j \in Indicator : Waits(channels[j]) =>
                          p = 1 \/ p <= (channels[j].nextUpdate - tick) % TickModulus
<1> DEFINE R == Remaining(channels)
<1>1. /\ tick \in 0 .. TickModulus - 1 /\ Len(timerQueue) \in Nat
      /\ TickModulus \in Nat /\ TickModulus > 1 /\ QueueLength \in Nat
    BY MaxDelayIs DEF TypeInv, LightsTypeOK
<1>2. \A j \in Indicator : (channels[j].nextUpdate - tick) % TickModulus \in 0 .. TickModulus - 1
  <2>1. \A j \in Indicator : channels[j].nextUpdate \in Int
    BY DEF State
  <2> QED
    BY <1>1, <2>1
<1>3. R \in SUBSET (0 .. TickModulus - 1)
    BY <1>2 DEF Remaining
<1>4. \A j \in Indicator : Waits(channels[j]) => (channels[j].nextUpdate - tick) % TickModulus \in R
    BY DEF Remaining
<1>5. CASE R = {} \/ Len(timerQueue) >= QueueLength
  <2>1. timerQueue' = timerQueue
    BY <1>5 DEF UpdateTimerPeriod
  <2>2. R = {} => \A j \in Indicator : ~Waits(channels[j])
    BY <1>4
  <2> QED
    BY <1>5, <2>1, <2>2
<1>6. CASE R # {} /\ ~(Len(timerQueue) >= QueueLength)
  <2> DEFINE p == Greater(Least(R), 1)
  <2>1. timerQueue' = Append(timerQueue, p)
    BY <1>6 DEF UpdateTimerPeriod
  <2>2. Least(R) \in R /\ \A m \in R : Least(R) <= m
    <3> HIDE DEF R
    <3>1. R \in SUBSET Nat
      BY <1>1, <1>3
    <3>2. \E n \in R : \A m \in R : n <= m
      BY <1>6, <3>1, LeastNumber
    <3> QED
      BY <3>2 DEF Least
  <2>3. p \in 1 .. TickModulus - 1 /\ (p = 1 \/ p = Least(R))
    BY <1>1, <1>3, <2>2 DEF Greater
  <2> HIDE DEF p, R
  <2>4. \A j \in Indicator : Waits(channels[j]) =>
           p = 1 \/ p <= (channels[j].nextUpdate - tick) % TickModulus
    BY <1>4, <2>2, <2>3
  <2> QED
    BY <1>1, <1>6, <2>1, <2>3, <2>4
<1> QED
    BY <1>5, <1>6

\* A script is set, or there is nothing to set.
LEMMA SetIs ==
    ASSUME TypeInv, NEW i \in Indicator, NEW script \in Scripts, NEW immediate \in BOOLEAN,
           SetChannelScript(i, script, immediate)
    PROVE  /\ gLock = "free" /\ UNCHANGED <<gLock, now>>
           /\ \/ ~immediate /\ ~gState[i].isIdle /\ UNCHANGED <<gState, began, timerQueue>>
              \/ /\ immediate \/ gState[i].isIdle
                 /\ gState' \in [Indicator -> State]
                 /\ gState'[i] = Started(gState[i], script)
                 /\ \A j \in Indicator : j # i => gState'[j] = gState[j] /\ began'[j] = began[j]
                 /\ began' \in [Indicator -> 0 .. TickModulus - 1] /\ began'[i] = tick
                 /\ UpdateTimerPeriod(gState')
<1>1. gLock = "free" /\ UNCHANGED <<gLock, now>>
    BY DEF SetChannelScript
<1>2. CASE ~(immediate \/ gState[i].isIdle)
    BY <1>1, <1>2 DEF SetChannelScript
<1>3. CASE immediate \/ gState[i].isIdle
  <2> DEFINE s == Started(gState[i], script)
             channels == [gState EXCEPT ![i] = s]
  <2>1. gState \in [Indicator -> State] /\ tick \in 0 .. TickModulus - 1
        /\ began \in [Indicator -> 0 .. TickModulus - 1]
    BY DEF TypeInv, LightsTypeOK
  <2>2. gState' = channels /\ began' = [began EXCEPT ![i] = tick] /\ UpdateTimerPeriod(channels)
    BY <1>3 DEF SetChannelScript
  <2>3. s \in State
    BY <2>1, StartedIs
  <2> HIDE DEF s
  <2>4. channels \in [Indicator -> State] /\ channels[i] = s
        /\ \A j \in Indicator : j # i => channels[j] = gState[j]
    BY <2>1, <2>3
  <2>5. began' \in [Indicator -> 0 .. TickModulus - 1] /\ began'[i] = tick
        /\ \A j \in Indicator : j # i => began'[j] = began[j]
    BY <2>1, <2>2
  <2> HIDE DEF channels
  <2> QED
    BY <1>1, <1>3, <2>2, <2>4, <2>5 DEF s
<1> QED
    BY <1>2, <1>3

\* The four calls that set a script; each says whose, and which.
Sets(i, script, immediate) ==
    /\ MaySet(i)
    /\ SetChannelScript(i, script, immediate)
    /\ UNCHANGED <<tick, gTimer>>

LEMMA CallsAre ==
    ASSUME PulseTx \/ PulseRx \/ TurnOffAttention \/ BlinkAttentionFast
    PROVE  \/ /\ timerTask' = timerTask
              /\ \/ Sets("tx", gAnimShortBlink, FALSE)
                 \/ Sets("rx", gAnimShortBlink, FALSE)
                 \/ /\ Sets("attention", gAnimTurnOff, TRUE)
                    /\ gState["attention"].currentAnim = gAnimAttentionBlinkFast
           \/ /\ timerTask = "check" /\ timerTask' = "drain"
              /\ Sets("attention", gAnimAttentionBlinkFast, TRUE)
              /\ gState["attention"].currentAnim = gAnimTurnOff
    BY DEF PulseTx, PulseRx, TurnOffAttention, BlinkAttentionFast, Sets

\* Of the channels that are due, those that still wait are in their next delay.
LEMMA ProcessIs ==
    ASSUME TypeInv, ProcessChannels
    PROVE  /\ gState' \in [Indicator -> State] /\ began' \in [Indicator -> 0 .. TickModulus - 1]
           /\ \A i \in Indicator :
                 /\ gState'[i].currentAnim = gState[i].currentAnim
                 /\ ~Due(i) => gState'[i] = gState[i] /\ began'[i] = began[i]
                 /\ Due(i) => /\ began'[i] = tick
                              /\ InScript(gState'[i])
                              /\ Waits(gState'[i]) =>
                                    gState'[i].nextUpdate = Later(now, CurrentDelay(gState'[i]))
<1>1. /\ gState \in [Indicator -> State] /\ began \in [Indicator -> 0 .. TickModulus - 1]
      /\ tick \in 0 .. TickModulus - 1 /\ now \in Nat
    BY MaxDelayIs DEF TypeInv, LightsTypeOK
<1>2. PICK junk \in {0, FastBlink} :
        gState' = [i \in Indicator |->
            IF ~Due(i) THEN gState[i]
            ELSE [UpdateChannel(gState[i]) EXCEPT
                    !.nextUpdate = IF NextDelay(gState[i]) # 0
                                   THEN Later(now, NextDelay(gState[i]))
                                   ELSE IF junk = 0 THEN @ ELSE Later(now, junk)]]
    BY DEF ProcessChannels
<1>3. began' = [i \in Indicator |-> IF Due(i) THEN tick ELSE began[i]]
    BY DEF ProcessChannels
<1>4. junk \in Nat /\ MaxDelay \in Nat
    BY MaxDelayIs
<1>5. ASSUME NEW i \in Indicator, Due(i)
      PROVE  /\ gState'[i] \in State /\ InScript(gState'[i])
             /\ gState'[i].currentAnim = gState[i].currentAnim
             /\ Waits(gState'[i]) => gState'[i].nextUpdate = Later(now, CurrentDelay(gState'[i]))
  <2> DEFINE ch == gState[i]
             u == UpdateChannel(ch)
             t == IF NextDelay(ch) # 0 THEN Later(now, NextDelay(ch))
                  ELSE IF junk = 0 THEN u.nextUpdate ELSE Later(now, junk)
             v == gState'[i]
  <2>1. ch \in State /\ InScript(ch) /\ Waits(ch)
    BY <1>1, <1>5 DEF TypeInv, Scripted, Due
  <2>2. v = [u EXCEPT !.nextUpdate = t]
    BY <1>2, <1>5
  <2> HIDE DEF ch, v
  <2>3. /\ u \in State /\ u.currentAnim = ch.currentAnim /\ u.animOffset <= Len(u.currentAnim)
        /\ NextDelay(ch) \in 0 .. MaxDelay
        /\ NextDelay(ch) = 0 => u.isIdle = TRUE /\ u.wantsTimerUpdate = FALSE
        /\ NextDelay(ch) # 0 =>
              /\ u.isIdle = ch.isIdle /\ u.wantsTimerUpdate = TRUE /\ u.animOffset # 0
              /\ CurrentDelay(u) = NextDelay(ch)
    <3>1. ch.animOffset <= Len(ch.currentAnim)
      BY <2>1 DEF InScript
    <3> QED
      BY <2>1, <3>1, UpdateIs
  <2>4. ch.isIdle = FALSE
    BY <2>1 DEF Waits, State
  <2>5. t \in 0 .. TickModulus - 1
    <3>1. u.nextUpdate \in 0 .. TickModulus - 1
      BY <2>3 DEF State
    <3>2. NextDelay(ch) \in Nat
      BY <1>4, <2>3
    <3>3. Later(now, NextDelay(ch)) \in 0 .. TickModulus - 1
          /\ Later(now, junk) \in 0 .. TickModulus - 1
      BY <1>1, <1>4, <3>2, LaterIs
    <3> QED
      BY <3>1, <3>3
  <2> HIDE DEF u, t
  <2>6. /\ v \in State /\ v.nextUpdate = t /\ v.currentAnim = u.currentAnim
        /\ v.animOffset = u.animOffset /\ v.isIdle = u.isIdle
        /\ v.wantsTimerUpdate = u.wantsTimerUpdate /\ CurrentDelay(v) = CurrentDelay(u)
    BY <2>2, <2>3, <2>5, TimeIs
  <2>7. CASE NextDelay(ch) = 0
    BY <2>3, <2>6, <2>7 DEF InScript, Waits, v, ch
  <2>8. CASE NextDelay(ch) # 0
    <3>1. CurrentDelay(v) \in 1 .. MaxDelay
      BY <1>4, <2>3, <2>6, <2>8
    <3>2. InScript(v)
      BY <2>3, <2>4, <2>6, <2>8, <3>1 DEF InScript
    <3>3. v.nextUpdate = Later(now, CurrentDelay(v))
      BY <2>3, <2>6, <2>8 DEF t
    <3> QED
      BY <2>3, <2>6, <3>2, <3>3 DEF v, ch
  <2> QED
    BY <2>7, <2>8
<1>6. ASSUME NEW i \in Indicator, ~Due(i) PROVE gState'[i] = gState[i] /\ gState'[i] \in State
    BY <1>1, <1>2, <1>6
<1>7. gState' \in [Indicator -> State]
  <2>1. \A i \in Indicator : gState'[i] \in State
    BY <1>5, <1>6
  <2>2. gState' = [i \in Indicator |-> gState'[i]]
    BY <1>2
  <2> QED
    BY <2>1, <2>2
<1>8. began' \in [Indicator -> 0 .. TickModulus - 1]
      /\ \A i \in Indicator : (Due(i) => began'[i] = tick) /\ (~Due(i) => began'[i] = began[i])
  <2>1. \A i \in Indicator : (IF Due(i) THEN tick ELSE began[i]) \in 0 .. TickModulus - 1
    BY <1>1
  <2> QED
    BY <1>3, <2>1
<1> QED
    BY <1>5, <1>6, <1>7, <1>8

-----------------------------------------------------------------------------
(* Types. *)

LEMMA InitIs ==
    ASSUME LightsInit
    PROVE  /\ TypeInv
           /\ \A i \in Indicator :
                 /\ Waits(gState[i]) /\ gState[i].isIdle = FALSE
                 /\ began[i] = 0 /\ gState[i].nextUpdate = CurrentDelay(gState[i])
                 /\ gState[i].nextUpdate \in {LongBlink, FastBlink}
           /\ Len(timerQueue) = 5 /\ timerQueue[5] \in 1 .. MaxDelay
           /\ timerQueue[5] <= LongBlink /\ timerQueue[5] <= FastBlink
<1> USE DEF LightsInit
<1>1. /\ LongBlink \in 1 .. MaxDelay /\ FastBlink \in 1 .. MaxDelay /\ MaxDelay \in Nat
      /\ MaxDelay < TickModulus /\ TickModulus \in Nat
      /\ QueueLength \in Nat /\ QueueLength >= 5
    BY MaxDelayIs
<1> DEFINE least == Least({LongBlink, FastBlink})
<1>2. least \in {LongBlink, FastBlink} /\ least <= LongBlink /\ least <= FastBlink
  <2>1. \E n \in {LongBlink, FastBlink} : \A m \in {LongBlink, FastBlink} : n <= m
    <3>1. CASE LongBlink <= FastBlink
      BY <1>1, <3>1
    <3>2. CASE FastBlink <= LongBlink
      BY <1>1, <3>2
    <3> QED
      BY <1>1, <3>1, <3>2
  <2> QED
    BY <2>1 DEF Least
<1> HIDE DEF least
<1> DEFINE attention == [SelfTest EXCEPT !.currentAnim = gAnimAttentionBlinkFast,
                                         !.nextUpdate = FastBlink]
<1>3. gState = [i \in Indicator |-> IF i = "attention" THEN attention ELSE SelfTest]
    OBVIOUS
<1>4. Len(gAnimAttentionBlinkFast) = 5 /\ gAnimAttentionBlinkFast[2] = Delay(FastBlink)
      /\ Len(gAnimLongBlink) = 4 /\ gAnimLongBlink[2] = Delay(LongBlink)
    BY DEF gAnimAttentionBlinkFast, gAnimLongBlink
<1> HIDE DEF LightsInit
<1>5. /\ SelfTest \in State /\ SelfTest.currentAnim = gAnimLongBlink
      /\ SelfTest.animOffset = 2 /\ SelfTest.nextUpdate = LongBlink
      /\ SelfTest.isIdle = FALSE /\ SelfTest.wantsTimerUpdate = TRUE
  <2>1. SelfTest \in State
    BY <1>1 DEF State, SelfTest
  <2> QED
    BY <2>1 DEF SelfTest
<1>6. /\ attention \in State /\ attention.currentAnim = gAnimAttentionBlinkFast
      /\ attention.animOffset = 2 /\ attention.nextUpdate = FastBlink
      /\ attention.isIdle = FALSE /\ attention.wantsTimerUpdate = TRUE
  <2>1. FastBlink \in 0 .. TickModulus - 1
    BY <1>1
  <2> QED
    BY <1>5, <2>1 DEF State
<1> HIDE DEF attention
<1>13. ASSUME NEW ch \in {SelfTest, attention}
       PROVE  /\ Waits(ch) /\ InScript(ch) /\ ch.isIdle = FALSE
              /\ ch.nextUpdate = CurrentDelay(ch) /\ ch.nextUpdate \in {LongBlink, FastBlink}
  <2>1. /\ Waits(ch) /\ ch.isIdle = FALSE /\ ch.isIdle # ch.wantsTimerUpdate
        /\ ch.animOffset = 2
    BY <1>5, <1>6 DEF Waits
  <2>2. /\ CurrentDelay(ch) = ch.nextUpdate
        /\ ch.nextUpdate \in {LongBlink, FastBlink} /\ Len(ch.currentAnim) \in {4, 5}
    BY <1>4, <1>5, <1>6 DEF CurrentDelay, Delay
  <2>3. CurrentDelay(ch) \in 1 .. MaxDelay
    <3>1. CurrentDelay(ch) = LongBlink \/ CurrentDelay(ch) = FastBlink
      BY <2>2
    <3> QED
      BY <1>1, <3>1
  <2>4. ch.animOffset <= Len(ch.currentAnim) /\ ch.animOffset # 0
    <3> DEFINE len == Len(ch.currentAnim)
    <3>1. len \in Nat /\ len >= 2
      BY <2>2, SMTT(30)
    <3>2. ch.animOffset = 2
      BY <2>1
    <3> HIDE DEF len
    <3>3. 2 <= len
      BY ONLY <3>1
    <3>4. ch.animOffset <= len /\ ch.animOffset # 0
      BY ONLY <3>2, <3>3
    <3> QED
      BY <3>4 DEF len
  <2> QED
    BY <2>1, <2>2, <2>3, <2>4 DEF InScript
<1>7. gState \in [Indicator -> State] /\ Scripted
    BY <1>3, <1>5, <1>6, <1>13 DEF Scripted
<1>8. timerQueue = <<LongBlink, LongBlink, LongBlink, Other, least>>
    BY DEF least, LightsInit
<1>9. timerQueue \in Seq(0 .. TickModulus - 1) /\ Len(timerQueue) = 5 /\ timerQueue[5] = least
  <2>1. LongBlink \in 0 .. TickModulus - 1 /\ least \in 0 .. TickModulus - 1
        /\ Other \in 0 .. TickModulus - 1
    BY <1>1, <1>2 DEF Other
  <2> QED
    BY <1>8, <2>1
<1>10. LightsTypeOK
    BY <1>1, <1>7, <1>9 DEF LightsTypeOK, LightsInit
<1>11. \A i \in Indicator :
         /\ Waits(gState[i]) /\ gState[i].isIdle = FALSE
         /\ began[i] = 0 /\ gState[i].nextUpdate = CurrentDelay(gState[i])
         /\ gState[i].nextUpdate \in {LongBlink, FastBlink}
    BY <1>3, <1>13 DEF LightsInit
<1> QED
    BY <1>1, <1>2, <1>7, <1>9, <1>10, <1>11 DEF TypeInv

\* A post fits into the queue, or is dropped.
LEMMA PostTypes ==
    ASSUME TypeInv, NEW channels \in [Indicator -> State], UpdateTimerPeriod(channels)
    PROVE  timerQueue' \in Seq(0 .. TickModulus - 1) /\ Len(timerQueue') <= QueueLength
<1>1. timerQueue \in Seq(0 .. TickModulus - 1) /\ Len(timerQueue) <= QueueLength
      /\ QueueLength \in Nat /\ TickModulus \in Nat
    BY MaxDelayIs DEF TypeInv, LightsTypeOK
<1>2. CASE timerQueue' = timerQueue
    BY <1>1, <1>2
<1>3. CASE Len(timerQueue) < QueueLength
           /\ \E p \in 1 .. TickModulus - 1 : timerQueue' = Append(timerQueue, p)
  <2>1. PICK p \in 1 .. TickModulus - 1 : timerQueue' = Append(timerQueue, p)
    BY <1>3
  <2>2. p \in 0 .. TickModulus - 1
    BY <1>1
  <2> QED
    BY <1>1, <1>3, <2>1, <2>2
<1> QED
    BY <1>2, <1>3, PostIs

LEMMA SetKeepsTypes ==
    ASSUME TypeInv, NEW i \in Indicator, NEW script \in Scripts, NEW immediate \in BOOLEAN,
           Sets(i, script, immediate), timerTask' \in {timerTask, "drain"}
    PROVE  TypeInv'
<1>1. SetChannelScript(i, script, immediate) /\ UNCHANGED <<tick, gTimer>>
    BY DEF Sets
<1>2. UNCHANGED <<gLock, now>>
    BY <1>1, SetIs
<1>3. CASE UNCHANGED <<gState, began, timerQueue>>
    BY <1>1, <1>2, <1>3 DEF TypeInv, LightsTypeOK, Scripted
<1>4. CASE /\ gState' \in [Indicator -> State]
           /\ gState'[i] = Started(gState[i], script)
           /\ \A j \in Indicator : j # i => gState'[j] = gState[j] /\ began'[j] = began[j]
           /\ began' \in [Indicator -> 0 .. TickModulus - 1] /\ began'[i] = tick
           /\ UpdateTimerPeriod(gState')
  <2>1. timerQueue' \in Seq(0 .. TickModulus - 1) /\ Len(timerQueue') <= QueueLength
    BY <1>4, PostTypes
  <2>2. InScript(gState'[i])
    <3>1. gState[i] \in State /\ tick \in 0 .. TickModulus - 1
      BY DEF TypeInv, LightsTypeOK
    <3> QED
      BY <1>4, <3>1, StartedIs
  <2>3. Scripted'
    BY <1>4, <2>2 DEF Scripted, TypeInv
  <2>4. LightsTypeOK'
    BY <1>1, <1>2, <1>4, <2>1 DEF TypeInv, LightsTypeOK
  <2> QED
    BY <2>3, <2>4 DEF TypeInv
<1> QED
    BY <1>1, <1>3, <1>4, SetIs

LEMMA ScriptsIn ==
    /\ gAnimTurnOff \in Scripts /\ gAnimShortBlink \in Scripts
    /\ gAnimAttentionBlinkFast \in Scripts
    /\ "tx" \in Indicator /\ "rx" \in Indicator /\ "attention" \in Indicator
    BY DEF Scripts, Indicator

LEMMA StepKeepsTypes ==
    ASSUME TypeInv, [LightsNext]_lightVars
    PROVE  TypeInv'
<1>1. CASE PulseTx \/ PulseRx \/ TurnOffAttention \/ BlinkAttentionFast
    BY <1>1, CallsAre, SetKeepsTypes, ScriptsIn
<1>2. CASE DrainCommand
  <2>1. Head(timerQueue) \in 0 .. TickModulus - 1 /\ Tail(timerQueue) \in Seq(0 .. TickModulus - 1)
        /\ Len(Tail(timerQueue)) <= QueueLength
    BY <1>2, MaxDelayIs DEF DrainCommand, TypeInv, LightsTypeOK
  <2> QED
    BY <1>2, <2>1 DEF DrainCommand, TypeInv, LightsTypeOK, Scripted
<1>3. CASE Drained \/ Block \/ Wake \/ TimerFired
    BY <1>3 DEF Drained, Block, Wake, TimerFired, TypeInv, LightsTypeOK, Scripted
<1>4. CASE ProcessChannels
  <2>1. gState' \in [Indicator -> State] /\ began' \in [Indicator -> 0 .. TickModulus - 1]
    BY <1>4, ProcessIs
  <2>2. Scripted'
    <3> SUFFICES ASSUME NEW i \in Indicator PROVE InScript(gState'[i])
      BY DEF Scripted
    <3>1. CASE Due(i)
      BY <1>4, <3>1, ProcessIs
    <3>2. CASE ~Due(i)
      BY <1>4, <3>2, ProcessIs DEF TypeInv, Scripted
    <3> QED
      BY <3>1, <3>2
  <2> QED
    BY <1>4, <2>1, <2>2 DEF ProcessChannels, TypeInv, LightsTypeOK
<1>5. CASE Rearm
  <2>1. UpdateTimerPeriod(gState) /\ gState \in [Indicator -> State]
    BY <1>5 DEF Rearm, TypeInv, LightsTypeOK
  <2>2. timerQueue' \in Seq(0 .. TickModulus - 1) /\ Len(timerQueue') <= QueueLength
    BY <2>1, PostTypes
  <2> QED
    BY <1>5, <2>2 DEF Rearm, TypeInv, LightsTypeOK, Scripted
<1>6. CASE Tick
  <2>1. tick' \in 0 .. TickModulus - 1
    <3>1. tick \in Nat
      BY MaxDelayIs DEF TypeInv, LightsTypeOK
    <3> QED
      BY <1>6, <3>1, LaterIs DEF Tick
  <2>2. gTimer' \in {Never} \cup (0 .. TickModulus - 1)
    <3>1. gTimer \in {Never} \cup (0 .. TickModulus - 1) /\ TickModulus \in Nat
      BY MaxDelayIs DEF TypeInv, LightsTypeOK
    <3>2. CASE gTimer > 0
      <4>1. gTimer' = gTimer - 1 /\ gTimer \in 1 .. TickModulus - 1
        BY <1>6, <3>1, <3>2 DEF Tick, Never
      <4> QED
        BY <3>1, <4>1
    <3>3. CASE ~(gTimer > 0)
      BY <1>6, <3>1, <3>3 DEF Tick
    <3> QED
      BY <3>2, <3>3
  <2> QED
    BY <1>6, <2>1, <2>2 DEF Tick, TypeInv, LightsTypeOK, Scripted
<1>7. CASE UNCHANGED lightVars
    BY <1>7 DEF lightVars, TypeInv, LightsTypeOK, Scripted
<1> QED
    BY <1>1, <1>2, <1>3, <1>4, <1>5, <1>6, <1>7 DEF LightsNext

-----------------------------------------------------------------------------
(* Steps of a script that last. *)

\* Without the two risks, time moves on only while the timer task rests, and
\* ends before it runs over.
Steady == "late" \notin Risks /\ "wrap" \notin Risks

LEMMA NoWrap ==
    ASSUME StepInv, NEW d \in 0 .. MaxDelay
    PROVE  Later(tick, d) = tick + d
<1>1. tick \in Nat /\ d \in Nat /\ MaxDelay \in Nat /\ TickModulus \in Nat
      /\ tick + MaxDelay < TickModulus
    BY MaxDelayIs DEF StepInv, TypeInv, LightsTypeOK, Clock
<1>2. tick + d < TickModulus
    BY <1>1
<1> QED
    BY <1>1, <1>2, LaterIs

LEMMA SetKeepsSteps ==
    ASSUME StepInv, NEW i \in Indicator, NEW script \in Scripts, NEW immediate \in BOOLEAN,
           Sets(i, script, immediate),
           timerTask' = timerTask \/ timerTask' = "drain"
    PROVE  StepInv'
<1>1. TypeInv'
    BY SetKeepsTypes DEF StepInv
<1>2. UNCHANGED <<gLock, now, tick>> /\ SetChannelScript(i, script, immediate)
    BY SetIs DEF Sets, StepInv
<1>3. Clock'
    BY <1>2 DEF StepInv, Clock
<1>4. CASE UNCHANGED <<gState, began, timerQueue>>
    BY <1>1, <1>3, <1>4 DEF StepInv, Timely
<1>5. CASE /\ gState' \in [Indicator -> State]
           /\ gState'[i] = Started(gState[i], script)
           /\ \A j \in Indicator : j # i => gState'[j] = gState[j] /\ began'[j] = began[j]
           /\ began'[i] = tick
  <2>1. ASSUME Waits(gState'[i]) PROVE gState'[i].nextUpdate = began'[i] + CurrentDelay(gState'[i])
    <3>1. gState[i] \in State /\ tick \in 0 .. TickModulus - 1
      BY DEF StepInv, TypeInv, LightsTypeOK
    <3>2. gState'[i].nextUpdate = Later(tick, CurrentDelay(gState'[i]))
          /\ CurrentDelay(gState'[i]) \in 1 .. MaxDelay
      BY <1>5, <2>1, <3>1, StartedIs DEF InScript
    <3>3. CurrentDelay(gState'[i]) \in 0 .. MaxDelay
      BY <3>2, MaxDelayIs
    <3> QED
      BY <1>5, <3>2, <3>3, NoWrap
  <2>2. Timely'
    BY <1>5, <2>1 DEF StepInv, Timely
  <2> QED
    BY <1>1, <1>3, <2>2 DEF StepInv
<1> QED
    BY <1>2, <1>4, <1>5, SetIs DEF StepInv

LEMMA StepKeepsSteps ==
    ASSUME Steady, StepInv, [LightsNext]_lightVars
    PROVE  StepInv'
<1>0. TypeInv'
    BY StepKeepsTypes DEF StepInv
<1>1. CASE PulseTx \/ PulseRx \/ TurnOffAttention \/ BlinkAttentionFast
    BY <1>1, CallsAre, SetKeepsSteps, ScriptsIn
<1>2. CASE DrainCommand \/ Drained \/ Block \/ Wake \/ TimerFired \/ Rearm
  <2>1. UNCHANGED <<gState, began, tick>>
    BY <1>2 DEF DrainCommand, Drained, Block, Wake, TimerFired, Rearm
  <2>2. Timely'
    BY <2>1 DEF StepInv, Timely
  <2>3. Clock'
    BY <1>2 DEF DrainCommand, Drained, Block, Wake, TimerFired, Rearm, StepInv, Clock
  <2> QED
    BY <1>0, <2>2, <2>3 DEF StepInv
<1>3. CASE ProcessChannels
  <2>1. now = tick /\ tick' = tick /\ now' = now /\ gLock' = "timer" /\ timerTask' = "locked"
    BY <1>3 DEF ProcessChannels, StepInv, Clock
  <2>2. Clock'
    BY <2>1 DEF StepInv, Clock
  <2>3. Timely'
    <3> SUFFICES ASSUME NEW i \in Indicator, Waits(gState'[i])
                 PROVE  gState'[i].nextUpdate = began'[i] + CurrentDelay(gState'[i])
      BY DEF Timely
    <3>1. CASE Due(i)
      <4>1. /\ began'[i] = tick /\ InScript(gState'[i])
            /\ gState'[i].nextUpdate = Later(tick, CurrentDelay(gState'[i]))
        BY <1>3, <2>1, <3>1, ProcessIs DEF StepInv
      <4>2. CurrentDelay(gState'[i]) \in 0 .. MaxDelay
        BY <4>1, MaxDelayIs DEF InScript
      <4> QED
        BY <4>1, <4>2, NoWrap
    <3>2. CASE ~Due(i)
      BY <1>3, <3>2, ProcessIs DEF StepInv, Timely
    <3> QED
      BY <3>1, <3>2
  <2> QED
    BY <1>0, <2>2, <2>3 DEF StepInv
<1>4. CASE Tick
  <2>1. /\ timerTask = "blocked" /\ timerTask' = timerTask /\ UNCHANGED <<gState, began>>
        /\ tick + MaxDelay + 1 < TickModulus
    BY <1>4 DEF Tick, TimerTaskRests, Steady
  <2>2. tick' = tick + 1
    <3>1. tick \in Nat /\ 1 \in 0 .. MaxDelay
      BY MaxDelayIs DEF StepInv, TypeInv, LightsTypeOK
    <3> QED
      BY <1>4, <3>1, NoWrap DEF Tick
  <2>3. Clock'
    <3>1. tick \in Int /\ MaxDelay \in Int /\ TickModulus \in Int
      BY MaxDelayIs DEF StepInv, TypeInv, LightsTypeOK
    <3>2. tick' + MaxDelay < TickModulus
      BY <2>1, <2>2, <3>1
    <3> QED
      BY <2>1, <3>2 DEF Clock
  <2>4. Timely'
    BY <2>1 DEF StepInv, Timely
  <2> QED
    BY <1>0, <2>3, <2>4 DEF StepInv
<1>5. CASE UNCHANGED lightVars
    BY <1>0, <1>5 DEF lightVars, StepInv, Timely, Clock
<1> QED
    BY <1>1, <1>2, <1>3, <1>4, <1>5 DEF LightsNext

\* A channel that waits is touched when its delay is over, or when the attention
\* indicator is given another script.
LEMMA StepsLast ==
    ASSUME Steady, StepInv, [LightsNext]_lightVars, NEW i \in Indicator,
           Waits(gState[i]), gState'[i] # gState[i]
    PROVE  \/ i = "attention" /\ gState'[i].currentAnim # gState[i].currentAnim
           \/ tick >= began[i] + CurrentDelay(gState[i])
<1>1. ASSUME NEW j \in Indicator, NEW script \in Scripts, NEW immediate \in BOOLEAN,
             Sets(j, script, immediate)
      PROVE  j = i /\ immediate /\ gState'[i].currentAnim = script
  <2>1. TypeInv /\ SetChannelScript(j, script, immediate)
    BY <1>1 DEF StepInv, Sets
  <2>2. /\ immediate \/ gState[j].isIdle
        /\ gState'[j] = Started(gState[j], script)
        /\ \A k \in Indicator : k # j => gState'[k] = gState[k]
    BY <2>1, SetIs
  <2>3. j = i
    BY <2>2
  <2>4. gState[j] \in State /\ tick \in 0 .. TickModulus - 1
    BY DEF StepInv, TypeInv, LightsTypeOK
  <2>5. Started(gState[j], script).currentAnim = script
    BY <2>4, StartedIs
  <2> QED
    BY <2>2, <2>3, <2>5 DEF Waits
<1>2. CASE PulseTx \/ PulseRx \/ TurnOffAttention \/ BlinkAttentionFast
    BY <1>1, <1>2, CallsAre, ScriptsIn, ScriptsDiffer
<1>3. CASE ProcessChannels
  <2>1. Due(i)
    BY <1>3, ProcessIs DEF StepInv
  <2>2. gState[i].nextUpdate <= now /\ now = tick
    BY <1>3, <2>1 DEF Due, ProcessChannels, StepInv, Clock
  <2>3. gState[i].nextUpdate = began[i] + CurrentDelay(gState[i])
    BY DEF StepInv, Timely
  <2>4. tick \in Int /\ gState[i].nextUpdate \in Int
    BY DEF StepInv, TypeInv, LightsTypeOK, State
  <2> QED
    BY <2>2, <2>3, <2>4
<1> QED
    BY <1>2, <1>3 DEF LightsNext, lightVars, DrainCommand, Drained, Block, Wake, TimerFired,
        Rearm, Tick

LEMMA StepsAreTimely == LightsInit => StepInv
<1> SUFFICES ASSUME LightsInit PROVE StepInv
    OBVIOUS
<1>1. TypeInv
    BY InitIs
<1>4. Timely
  <2> SUFFICES ASSUME NEW i \in Indicator
               PROVE  gState[i].nextUpdate = began[i] + CurrentDelay(gState[i])
    BY DEF Timely
  <2>1. /\ began[i] = 0 /\ gState[i].nextUpdate = CurrentDelay(gState[i])
        /\ gState[i].nextUpdate \in {LongBlink, FastBlink}
    BY InitIs
  <2>2. gState[i].nextUpdate \in Nat
    BY <2>1, MaxDelayIs
  <2> QED
    BY <2>1, <2>2
<1>2. tick = 0 /\ timerTask = "drain"
    BY DEF LightsInit
<1>3. Clock
    BY <1>2, MaxDelayIs DEF Clock
<1> QED
    BY <1>1, <1>3, <1>4 DEF StepInv

-----------------------------------------------------------------------------
(* The timer. *)

\* Nor is a script set while another indicator is overdue.
Punctual == Steady /\ "overdue" \notin Risks

LEMMA Numbers ==
    ASSUME TypeInv
    PROVE  /\ tick \in Nat /\ Len(timerQueue) \in Nat /\ gTimer \in Nat \cup {Never}
           /\ \A i \in Indicator : gState[i].nextUpdate \in 0 .. TickModulus - 1
           /\ \A i \in Indicator : MayPulse(i) \in {0, 1}
           /\ MayTurnOff \in {0, 1}
<1>1. tick \in Nat /\ Len(timerQueue) \in Nat /\ gTimer \in Nat \cup {Never}
    BY MaxDelayIs DEF TypeInv, LightsTypeOK
<1>2. \A i \in Indicator : gState[i].nextUpdate \in 0 .. TickModulus - 1
    BY DEF TypeInv, LightsTypeOK, State
<1>3. (\A i \in Indicator : MayPulse(i) \in {0, 1}) /\ MayTurnOff \in {0, 1}
    BY DEF MayPulse, MayTurnOff
<1> QED
    BY <1>1, <1>2, <1>3

LEMMA SmallRemainder ==
    ASSUME NEW m \in Nat \ {0}, NEW n \in 0 .. m - 1
    PROVE  n % m = n
    OBVIOUS

\* A period that is posted covers the channels, if none of them is overdue.
LEMMA PostCovers ==
    ASSUME TypeInv, NEW channels \in [Indicator -> State], UpdateTimerPeriod(channels),
           \A j \in Indicator : Waits(channels[j]) => tick <= channels[j].nextUpdate
    PROVE  \/ timerQueue' = timerQueue /\ \A j \in Indicator : ~Waits(channels[j])
           \/ timerQueue' = timerQueue /\ Len(timerQueue) >= QueueLength
           \/ \E p \in Nat \ {0} :
                 /\ timerQueue' = Append(timerQueue, p)
                 /\ \A j \in Indicator : Waits(channels[j]) => tick + p <= channels[j].nextUpdate + 1
<1> SUFFICES ASSUME NEW p \in 1 .. TickModulus - 1,
                    timerQueue' = Append(timerQueue, p),
                    \A j \in Indicator : Waits(channels[j]) =>
                          p = 1 \/ p <= (channels[j].nextUpdate - tick) % TickModulus,
                    NEW j \in Indicator, Waits(channels[j])
             PROVE  tick + p <= channels[j].nextUpdate + 1
  <2>1. 1 .. TickModulus - 1 \subseteq Nat \ {0}
    BY MaxDelayIs
  <2> QED
    BY <2>1, PostIs
<1> DEFINE u == channels[j].nextUpdate
<1>1. u \in 0 .. TickModulus - 1 /\ tick <= u /\ (p = 1 \/ p <= (u - tick) % TickModulus)
    BY DEF State
<1> HIDE DEF u
<1>2. tick \in Nat /\ p \in Nat /\ TickModulus \in Nat \ {0}
    BY MaxDelayIs, Numbers
<1>3. u - tick \in 0 .. TickModulus - 1
    BY <1>1, <1>2
<1>4. (u - tick) % TickModulus = u - tick
    BY <1>2, <1>3, SmallRemainder
<1>5. tick + p <= u + 1
    BY <1>1, <1>2, <1>3, <1>4
<1> QED
    BY <1>5 DEF u

LEMMA AppendCovers ==
    ASSUME TypeInv, NEW p \in Nat \ {0}, timerQueue' = Append(timerQueue, p), tick' = tick,
           \A j \in Indicator : Waits(gState'[j]) => tick + p <= gState'[j].nextUpdate + 1
    PROVE  Covered' /\ Len(timerQueue') = Len(timerQueue) + 1
<1>1. timerQueue \in Seq(0 .. TickModulus - 1) /\ Len(timerQueue) \in Nat
    BY Numbers DEF TypeInv, LightsTypeOK
<1>2. PICK n \in Nat : n = Len(timerQueue) + 1
    BY <1>1
<1>3. Len(timerQueue') = n /\ timerQueue'[n] = p /\ n \in 1 .. n
    BY <1>1, <1>2
<1>4. Covers(p)'
    BY DEF Covers, Never
<1>5. Covers(timerQueue[n])' /\ timerQueue'[n] # Other
    BY <1>3, <1>4 DEF Covers, Other
<1>6. \A l \in n + 1 .. n : timerQueue'[l] = Other
    BY <1>2
<1>7. Covered'
    BY <1>3, <1>5, <1>6 DEF Covered
<1> QED
    BY <1>2, <1>3, <1>7

\* What covers the channels covers them when fewer of them wait.
LEMMA FewerCovered ==
    ASSUME Covered, UNCHANGED <<tick, gTimer, timerQueue>>,
           \A j \in Indicator : Waits(gState'[j]) =>
               Waits(gState[j]) /\ gState'[j].nextUpdate = gState[j].nextUpdate
    PROVE  Covered'
<1>1. \A p : Covers(p) => Covers(p)'
    BY DEF Covers
<1>2. CASE \A i \in Indicator : ~Waits(gState[i])
    BY <1>2 DEF Covered
<1>3. CASE Covers(gTimer) /\ \A k \in 1 .. Len(timerQueue) : timerQueue[k] = Other
    BY <1>1, <1>3 DEF Covered
<1>4. ASSUME NEW k \in 1 .. Len(timerQueue),
             timerQueue[k] # Other, Covers(timerQueue[k]),
             \A l \in k + 1 .. Len(timerQueue) : timerQueue[l] = Other
      PROVE  Covered'
  <2>1. Covers(timerQueue[k])'
    BY <1>1, <1>4 DEF Covers
  <2> QED
    BY <1>4, <2>1 DEF Covered
<1> QED
    BY <1>2, <1>3, <1>4 DEF Covered

\* No channel is more than a tick late; at the end of the callback, none is due.
Near == \A i \in Indicator : Waits(gState[i]) =>
           /\ tick <= gState[i].nextUpdate + 1
           /\ timerTask = "locked" => tick < gState[i].nextUpdate
Armed == timerTask \in {"drain", "check", "blocked"} => Covered

\* A script that is set is covered, and gives up the room kept for its period.
LEMMA SetKeepsTimer ==
    ASSUME "overdue" \notin Risks, LightsInv,
           NEW i \in Indicator, NEW script \in Scripts, NEW immediate \in BOOLEAN,
           Sets(i, script, immediate),
           \/ /\ timerTask' = timerTask
              /\ \/ i \in {"tx", "rx"} /\ script = gAnimShortBlink /\ ~immediate
                 \/ /\ i = "attention" /\ script = gAnimTurnOff
                    /\ gState["attention"].currentAnim = gAnimAttentionBlinkFast
           \/ /\ i = "attention" /\ script = gAnimAttentionBlinkFast /\ immediate
              /\ timerTask = "check" /\ timerTask' = "drain"
              /\ gState["attention"].currentAnim = gAnimTurnOff
    PROVE  (Coverage /\ Room)'
<1>1. /\ TypeInv /\ SetChannelScript(i, script, immediate) /\ UNCHANGED <<tick, gTimer>>
      /\ gLock = "free"
    BY SetIs DEF LightsInv, StepInv, Sets
<1>2. timerTask # "locked" /\ timerTask' # "locked"
    BY <1>1 DEF LightsInv, StepInv, Clock
<1>3. CASE ~immediate /\ ~gState[i].isIdle /\ UNCHANGED <<gState, began, timerQueue>>
  <2>1. timerTask' = timerTask
    BY <1>3
  <2> QED
    BY <1>1, <1>3, <2>1 DEF LightsInv, Coverage, Room, Covered, Covers, Posts, MayPulse, MayTurnOff
<1>4. CASE /\ immediate \/ gState[i].isIdle
           /\ gState' \in [Indicator -> State]
           /\ gState'[i] = Started(gState[i], script)
           /\ \A j \in Indicator : j # i => gState'[j] = gState[j]
           /\ UpdateTimerPeriod(gState')
  <2>1. /\ InScript(gState'[i]) /\ gState'[i].currentAnim = script
        /\ Waits(gState'[i]) => gState'[i].nextUpdate > tick
        /\ script = gAnimShortBlink => Waits(gState'[i])
        /\ script = gAnimTurnOff => ~Waits(gState'[i])
    <3>1. gState[i] \in State /\ tick \in 0 .. TickModulus - 1
      BY <1>1 DEF TypeInv, LightsTypeOK
    <3>2. /\ InScript(gState'[i]) /\ gState'[i].currentAnim = script
          /\ Waits(gState'[i]) => gState'[i].nextUpdate = Later(tick, CurrentDelay(gState'[i]))
          /\ script = gAnimShortBlink => Waits(gState'[i])
          /\ script = gAnimTurnOff => ~Waits(gState'[i])
      BY <1>4, <3>1, StartedIs
    <3>3. ASSUME Waits(gState'[i]) PROVE gState'[i].nextUpdate > tick
      <4>1. PICK d \in 1 .. MaxDelay : d = CurrentDelay(gState'[i])
        BY <3>2, <3>3 DEF InScript
      <4>2. d \in 0 .. MaxDelay /\ d >= 1 /\ d \in Nat /\ tick \in Nat
        BY <1>1, MaxDelayIs, Numbers
      <4>3. gState'[i].nextUpdate = tick + d
        BY <3>2, <3>3, <4>1, <4>2, NoWrap DEF LightsInv
      <4> QED
        BY <4>2, <4>3
    <3> QED
      BY <3>2, <3>3
  <2>2. /\ tick \in Nat /\ Len(timerQueue) \in Nat
        /\ \A j \in Indicator : gState[j].nextUpdate \in Int /\ gState'[j].nextUpdate \in Int
    BY <1>1, <1>4, Numbers DEF State
  <2>3. \A j \in Indicator : Waits(gState'[j]) => tick <= gState'[j].nextUpdate
    <3>1. \A j \in Indicator : j # i => ~Overdue(j)
      BY DEF Sets, MaySet
    <3> QED
      BY <1>4, <2>1, <2>2, <3>1 DEF Overdue
  <2>4. Near'
    BY <1>1, <1>2, <2>2, <2>3 DEF Near
  <2>5. \A j \in Indicator : j # i => MayPulse(j)' = MayPulse(j)
    BY <1>1, <1>4 DEF MayPulse
  <2>6. i # "attention" => MayTurnOff' = MayTurnOff
    BY <1>4 DEF MayTurnOff, Indicator
  <2>7. script = gAnimShortBlink => MayPulse(i)' = 0
    <3>1. Waits(gState'[i]) => ~gState'[i].isIdle /\ ~(gState'[i].nextUpdate <= tick)
      BY <2>1, <2>2 DEF Waits
    <3> QED
      BY <1>1, <2>1, <3>1 DEF MayPulse
  <2>8. \/ /\ timerTask' = timerTask /\ Posts >= 1 /\ Posts' = Posts - 1
           /\ MayPulse("tx")' + MayPulse("rx")' <= MayPulse("tx") + MayPulse("rx")
           /\ \/ MayPulse("tx") + MayPulse("rx") >= 1
              \/ script = gAnimTurnOff /\ i = "attention"
        \/ timerTask = "check" /\ timerTask' = "drain" /\ Posts' = Posts + 1
    <3>1. /\ MayPulse("tx") \in {0, 1} /\ MayPulse("rx") \in {0, 1} /\ MayTurnOff \in {0, 1}
          /\ "tx" \in Indicator /\ "rx" \in Indicator
      BY <1>1, Numbers, ScriptsIn
    <3>2. CASE i \in {"tx", "rx"} /\ script = gAnimShortBlink /\ ~immediate
               /\ timerTask' = timerTask
      <4>1. MayPulse(i) = 1 /\ MayPulse(i)' = 0 /\ MayTurnOff' = MayTurnOff
        BY <1>4, <2>6, <2>7, <3>2 DEF MayPulse
      <4>2. CASE i = "tx"
        BY <2>5, <3>1, <3>2, <4>1, <4>2 DEF Posts
      <4>3. CASE i = "rx"
        BY <2>5, <3>1, <3>2, <4>1, <4>3 DEF Posts
      <4> QED
        BY <3>2, <4>2, <4>3
    <3>3. CASE /\ i = "attention" /\ script = gAnimTurnOff /\ timerTask' = timerTask
               /\ gState["attention"].currentAnim = gAnimAttentionBlinkFast
      <4>1. MayTurnOff = 1 /\ MayTurnOff' = 0
        BY <2>1, <3>3, ScriptsDiffer DEF MayTurnOff
      <4>2. MayPulse("tx")' = MayPulse("tx") /\ MayPulse("rx")' = MayPulse("rx")
        BY <2>5, <3>1, <3>3
      <4> QED
        BY <3>1, <3>3, <4>1, <4>2 DEF Posts
    <3>4. CASE /\ i = "attention" /\ script = gAnimAttentionBlinkFast
               /\ timerTask = "check" /\ timerTask' = "drain"
               /\ gState["attention"].currentAnim = gAnimTurnOff
      <4>1. MayTurnOff = 0 /\ MayTurnOff' = 1
        BY <2>1, <3>4, ScriptsDiffer DEF MayTurnOff
      <4>2. MayPulse("tx")' = MayPulse("tx") /\ MayPulse("rx")' = MayPulse("rx")
        BY <2>5, <3>1, <3>4
      <4> QED
        BY <3>1, <3>4, <4>1, <4>2 DEF Posts
    <3> QED
      BY <3>2, <3>3, <3>4
  <2>9. Posts \in Nat /\ MayPulse("tx") + MayPulse("rx") \in Nat
    BY <1>1, Numbers, ScriptsIn DEF Posts
  <2>10. Len(timerQueue) < QueueLength \/ (script = gAnimTurnOff /\ i = "attention")
    <3>1. timerTask # "drain" => Len(timerQueue) + Posts <= 3
      BY DEF LightsInv, Room
    <3>2. timerTask = "drain" => \/ MayPulse("tx") + MayPulse("rx") = 0
                                 \/ Len(timerQueue) + Posts <= 5
      BY DEF LightsInv, Room
    <3> QED
      BY <2>2, <2>8, <2>9, <3>1, <3>2, MaxDelayIs
  <2>11. \/ timerQueue' = timerQueue
         \/ \E p \in Nat \ {0} : timerQueue' = Append(timerQueue, p)
    BY <1>1, <1>4, <2>3, PostCovers
  <2>12. Armed'
    <3>1. CASE \A j \in Indicator : ~Waits(gState'[j])
      BY <3>1 DEF Armed, Covered
    <3>2. CASE timerQueue' = timerQueue /\ Len(timerQueue) >= QueueLength
      <4>1. script = gAnimTurnOff /\ i = "attention"
        BY <2>2, <2>10, <3>2, MaxDelayIs
      <4>2. \A j \in Indicator : Waits(gState'[j]) =>
               Waits(gState[j]) /\ gState'[j].nextUpdate = gState[j].nextUpdate
        BY <1>4, <2>1, <4>1
      <4>3. timerTask' = timerTask
        BY <4>1, ScriptsDiffer
      <4> QED
        BY <1>1, <3>2, <4>2, <4>3, FewerCovered DEF Armed, LightsInv, Coverage
    <3>3. ASSUME NEW p \in Nat \ {0}, timerQueue' = Append(timerQueue, p),
                 \A j \in Indicator : Waits(gState'[j]) => tick + p <= gState'[j].nextUpdate + 1
          PROVE  Armed'
      BY <1>1, <3>3, AppendCovers DEF Armed
    <3> QED
      BY <1>1, <1>4, <2>3, <3>1, <3>2, <3>3, PostCovers
  <2>13. Len(timerQueue') \in Nat /\ Len(timerQueue') <= Len(timerQueue) + 1
    <3>1. timerQueue \in Seq(0 .. TickModulus - 1)
      BY <1>1 DEF TypeInv, LightsTypeOK
    <3> QED
      BY <2>2, <2>11, <3>1
  <2>14. Room'
    <3> DEFINE pulses == MayPulse("tx") + MayPulse("rx")
    <3>1. /\ timerTask # "drain" => Len(timerQueue) + Posts <= 3
          /\ timerTask = "drain" => pulses = 0 \/ Len(timerQueue) + Posts <= 5
      BY DEF LightsInv, Room
    <3>2. pulses' \in Nat
      <4>1. MayPulse("tx")' \in {0, 1} /\ MayPulse("rx")' \in {0, 1}
        BY DEF MayPulse
      <4> QED
        BY <4>1
    <3> QED
      BY <2>2, <2>8, <2>9, <2>13, <3>1, <3>2 DEF Room
  <2> QED
    BY <2>4, <2>12, <2>14 DEF Near, Armed, Coverage
<1> QED
    BY <1>1, <1>3, <1>4, SetIs

LEMMA PostsIs ==
    ASSUME TypeInv
    PROVE  /\ MayPulse("tx") + MayPulse("rx") \in 0 .. 2 /\ Posts \in 0 .. 3
           /\ Len(timerQueue) \in Nat
<1>1. /\ MayPulse("tx") \in {0, 1} /\ MayPulse("rx") \in {0, 1} /\ MayTurnOff \in {0, 1}
    BY Numbers, ScriptsIn
<1> QED
    BY <1>1, Numbers DEF Posts

LEMMA DrainKeepsTimer ==
    ASSUME LightsInv, DrainCommand
    PROVE  (Coverage /\ Room)'
<1>1. /\ timerTask = "drain" /\ timerTask' = "drain" /\ timerQueue' = Tail(timerQueue)
      /\ gTimer' = IF timerQueue[1] = Other THEN gTimer ELSE timerQueue[1]
      /\ UNCHANGED <<tick, gState>>
    BY DEF DrainCommand
<1>2. /\ timerQueue \in Seq(0 .. TickModulus - 1) /\ Len(timerQueue) \in Nat \ {0}
      /\ \A k \in 1 .. Len(timerQueue) : timerQueue[k] \in Nat
  <2>1. timerQueue \in Seq(0 .. TickModulus - 1) /\ timerQueue # <<>> /\ TickModulus \in Nat
    BY MaxDelayIs DEF DrainCommand, LightsInv, StepInv, TypeInv, LightsTypeOK
  <2> QED
    BY <2>1
<1>3. /\ Len(timerQueue') = Len(timerQueue) - 1
      /\ \A k \in 1 .. Len(timerQueue) - 1 : timerQueue'[k] = timerQueue[k + 1]
    BY <1>1, <1>2
<1>4. Near'
    BY <1>1 DEF LightsInv, Coverage, Near
<1>5. \A p : Covers(p) => Covers(p)'
    BY <1>1 DEF Covers
<1>6. Covered'
  <2>1. Covered
    BY <1>1 DEF LightsInv, Coverage
  <2>2. CASE \A i \in Indicator : ~Waits(gState[i])
    BY <1>1, <2>2 DEF Covered
  <2>3. CASE Covers(gTimer) /\ \A k \in 1 .. Len(timerQueue) : timerQueue[k] = Other
    <3>1. gTimer' = gTimer
      BY <1>1, <1>2, <2>3
    <3>2. \A k \in 1 .. Len(timerQueue') : timerQueue'[k] = Other
      BY <1>2, <1>3, <2>3
    <3>3. Covers(gTimer)'
      BY <1>5, <2>3, <3>1 DEF Covers
    <3> QED
      BY <3>2, <3>3 DEF Covered
  <2>4. ASSUME NEW k \in 1 .. Len(timerQueue),
               timerQueue[k] # Other, Covers(timerQueue[k]),
               \A l \in k + 1 .. Len(timerQueue) : timerQueue[l] = Other
        PROVE  Covered'
    <3>1. CASE k = 1
      <4>1. gTimer' = timerQueue[1]
        BY <1>1, <2>4, <3>1
      <4>2. Covers(gTimer)'
        BY <1>5, <2>4, <3>1, <4>1 DEF Covers
      <4>3. \A l \in 1 .. Len(timerQueue') : timerQueue'[l] = Other
        BY <1>2, <1>3, <2>4, <3>1
      <4> QED
        BY <4>2, <4>3 DEF Covered
    <3>2. CASE k # 1
      <4>1. PICK m \in Nat : m = k - 1
        BY <1>2, <3>2
      <4>2. m \in 1 .. Len(timerQueue') /\ timerQueue'[m] = timerQueue[k]
        BY <1>2, <1>3, <3>2, <4>1
      <4>3. Covers(timerQueue[m])' /\ timerQueue'[m] # Other
        BY <1>5, <2>4, <4>2 DEF Covers
      <4>4. \A l \in m + 1 .. Len(timerQueue') : timerQueue'[l] = Other
        <5> SUFFICES ASSUME NEW l \in m + 1 .. Len(timerQueue') PROVE timerQueue'[l] = Other
          OBVIOUS
        <5>1. l \in 1 .. Len(timerQueue) - 1 /\ l + 1 \in k + 1 .. Len(timerQueue)
          BY <1>2, <1>3, <4>1, <4>2
        <5> QED
          BY <1>3, <2>4, <5>1
      <4> QED
        BY <4>2, <4>3, <4>4 DEF Covered
    <3> QED
      BY <3>1, <3>2
  <2> QED
    BY <2>1, <2>2, <2>3, <2>4 DEF Covered
<1>7. Room'
  <2>1. Posts' = Posts /\ MayPulse("tx")' = MayPulse("tx") /\ MayPulse("rx")' = MayPulse("rx")
    BY <1>1 DEF Posts, MayPulse, MayTurnOff
  <2>2. Posts \in Nat
    BY PostsIs DEF LightsInv, StepInv
  <2> QED
    BY <1>1, <1>2, <1>3, <2>1, <2>2 DEF Room, LightsInv
<1> QED
    BY <1>1, <1>4, <1>6, <1>7 DEF Near, Coverage

LEMMA CallbackKeepsTimer ==
    ASSUME LightsInv, ProcessChannels
    PROVE  (Coverage /\ Room)'
<1>1. /\ timerTask = "fired" /\ timerTask' = "locked" /\ now = tick /\ tick' = tick
      /\ timerQueue' = timerQueue /\ TypeInv
    BY DEF LightsInv, StepInv, Clock, ProcessChannels
<1>2. tick \in Nat /\ \A i \in Indicator : gState[i].nextUpdate \in Int
    BY <1>1, Numbers
<1>3. ASSUME NEW i \in Indicator, Waits(gState'[i]) PROVE gState'[i].nextUpdate > tick
  <2>1. CASE Due(i)
    <3>1. /\ InScript(gState'[i])
          /\ gState'[i].nextUpdate = Later(tick, CurrentDelay(gState'[i]))
      BY <1>1, <1>3, <2>1, ProcessIs
    <3>2. PICK d \in 1 .. MaxDelay : d = CurrentDelay(gState'[i])
      BY <1>3, <3>1 DEF InScript
    <3>3. d \in 0 .. MaxDelay /\ d \in Nat /\ d >= 1
      BY MaxDelayIs
    <3>4. gState'[i].nextUpdate = tick + d
      BY <3>1, <3>2, <3>3, NoWrap DEF LightsInv
    <3> QED
      BY <1>2, <3>3, <3>4
  <2>2. CASE ~Due(i)
    <3>1. gState'[i] = gState[i]
      BY <1>1, <2>2, ProcessIs
    <3> QED
      BY <1>1, <1>2, <1>3, <2>2, <3>1 DEF Due
  <2> QED
    BY <2>1, <2>2
<1>4. ASSUME NEW i \in Indicator
      PROVE  MayPulse(i) \in {0, 1} /\ MayPulse(i)' \in {0, 1} /\ MayPulse(i)' <= MayPulse(i)
  <2>1. CASE Due(i)
    <3>1. MayPulse(i) = 1
      BY <1>1, <2>1 DEF Due, MayPulse
    <3> QED
      BY <3>1 DEF MayPulse
  <2>2. CASE ~Due(i)
    <3>1. gState'[i] = gState[i]
      BY <1>1, <2>2, ProcessIs
    <3> QED
      BY <1>1, <3>1 DEF MayPulse
  <2> QED
    BY <2>1, <2>2
<1>5. MayTurnOff' = MayTurnOff /\ MayTurnOff \in {0, 1}
    BY <1>1, ProcessIs, ScriptsIn DEF MayTurnOff
<1>6. Posts' <= Posts /\ Posts \in Nat /\ Posts' \in Nat
    BY <1>4, <1>5, ScriptsIn DEF Posts
<1>7. Len(timerQueue) \in Nat /\ Len(timerQueue) + Posts <= 3
    BY <1>1, Numbers DEF LightsInv, Room
<1>8. Room'
    BY <1>1, <1>6, <1>7 DEF Room
<1>9. \A i \in Indicator : gState'[i].nextUpdate \in Int
    BY <1>1, ProcessIs DEF State
<1>10. Near'
    BY <1>1, <1>2, <1>3, <1>9 DEF Near
<1> QED
    BY <1>1, <1>8, <1>10 DEF Near, Coverage

LEMMA RearmKeepsTimer ==
    ASSUME LightsInv, Rearm
    PROVE  (Coverage /\ Room)'
<1>1. /\ timerTask = "locked" /\ timerTask' = "drain" /\ UpdateTimerPeriod(gState)
      /\ UNCHANGED <<tick, gState, gTimer>> /\ TypeInv
    BY DEF LightsInv, StepInv, Rearm
<1>2. tick \in Nat /\ Len(timerQueue) \in Nat
      /\ \A i \in Indicator : gState[i].nextUpdate \in Int
    BY <1>1, Numbers
<1>3. Near'
    BY <1>1 DEF LightsInv, Coverage, Near
<1>4. Len(timerQueue) + Posts <= 3 /\ Posts \in Nat
    BY <1>1, PostsIs DEF LightsInv, Room
<1>5. \A i \in Indicator : Waits(gState[i]) => tick <= gState[i].nextUpdate
    BY <1>1, <1>2 DEF LightsInv, Coverage
<1>6. gState \in [Indicator -> State]
    BY <1>1 DEF TypeInv, LightsTypeOK
<1>7. \/ timerQueue' = timerQueue /\ \A i \in Indicator : ~Waits(gState[i])
      \/ timerQueue' = timerQueue /\ Len(timerQueue) >= QueueLength
      \/ \E p \in Nat \ {0} :
            /\ timerQueue' = Append(timerQueue, p)
            /\ \A i \in Indicator : Waits(gState[i]) => tick + p <= gState[i].nextUpdate + 1
    BY <1>1, <1>5, <1>6, PostCovers
<1>8. Covered' /\ Len(timerQueue') \in Nat /\ Len(timerQueue') <= Len(timerQueue) + 1
  <2>1. CASE timerQueue' = timerQueue /\ \A i \in Indicator : ~Waits(gState[i])
    BY <1>1, <1>2, <2>1 DEF Covered
  <2>2. ~(Len(timerQueue) >= QueueLength)
    BY <1>2, <1>4, MaxDelayIs
  <2>3. ASSUME NEW p \in Nat \ {0}, timerQueue' = Append(timerQueue, p),
               \A i \in Indicator : Waits(gState[i]) => tick + p <= gState[i].nextUpdate + 1
        PROVE  Covered' /\ Len(timerQueue') = Len(timerQueue) + 1
    BY <1>1, <2>3, AppendCovers
  <2> QED
    BY <1>2, <1>7, <2>1, <2>2, <2>3
<1>9. Posts' = Posts
    BY <1>1 DEF Posts, MayPulse, MayTurnOff
<1>10. Room'
    BY <1>1, <1>2, <1>4, <1>8, <1>9 DEF Room
<1> QED
    BY <1>1, <1>3, <1>8, <1>10 DEF Near, Coverage

\* A tick passes while the timer is running, and is one tick nearer to its end.
LEMMA TickKeepsTimer ==
    ASSUME Steady, LightsInv, Tick
    PROVE  (Coverage /\ Room)'
<1>1. /\ timerTask = "blocked" /\ timerTask' = "blocked" /\ timerQueue = <<>> /\ gTimer # 0
      /\ UNCHANGED <<gState, timerQueue>> /\ TypeInv
    BY DEF LightsInv, StepInv, Steady, Tick, TimerTaskRests
<1>2. /\ tick \in Nat /\ Len(timerQueue) = 0 /\ gTimer \in Nat \cup {Never}
      /\ \A i \in Indicator : gState[i].nextUpdate \in Int
    BY <1>1, Numbers
<1>3. tick' = tick + 1
  <2>1. 1 \in 0 .. MaxDelay
    BY MaxDelayIs
  <2> QED
    BY <2>1, NoWrap DEF Tick, LightsInv
<1>6. Room'
  <2>1. MayPulse("tx")' \in {0, 1} /\ MayPulse("rx")' \in {0, 1} /\ MayTurnOff' \in {0, 1}
    BY DEF MayPulse, MayTurnOff
  <2>2. Posts' \in 0 .. 3
    BY <2>1 DEF Posts
  <2>3. Len(timerQueue') = Len(timerQueue)
    BY <1>1
  <2>4. Len(timerQueue') = 0
    BY <1>2, <2>3
  <2>5. \A n \in 0 .. 3 : 0 + n <= 3
    OBVIOUS
  <2>6. Len(timerQueue') + Posts' <= 3
    BY ONLY <2>2, <2>4, <2>5, Zenon
  <2> QED
    BY <1>1, <2>6 DEF Room
<1>4. CASE \A i \in Indicator : ~Waits(gState[i])
  <2>1. Covered' /\ Near'
    BY <1>1, <1>4 DEF Covered, Near
  <2> QED
    BY <1>1, <1>6, <2>1 DEF Coverage, Near
<1>5. CASE Covers(gTimer)
  <2>1. gTimer \in Nat \ {0}
    BY <1>1, <1>2, <1>5 DEF Covers
  <2>2. gTimer' = gTimer - 1
    BY <2>1 DEF Tick
  <2>3. Covers(gTimer)'
    <3>1. gTimer' # Never
      BY <2>1, <2>2 DEF Never
    <3>2. tick' + gTimer' = tick + gTimer
      BY <1>2, <1>3, <2>1, <2>2
    <3> QED
      BY <1>1, <1>5, <3>1, <3>2 DEF Covers
  <2>4. Covered'
    BY <1>1, <1>2, <2>3 DEF Covered
  <2>5. Near'
    BY <1>1, <1>2, <1>3, <1>5, <2>1 DEF Near, Covers
  <2> QED
    BY <1>1, <1>6, <2>4, <2>5 DEF Coverage, Near
<1> QED
    BY <1>1, <1>2, <1>4, <1>5 DEF LightsInv, Coverage, Covered

LEMMA StepKeepsTimer ==
    ASSUME Punctual, LightsInv, [LightsNext]_lightVars
    PROVE  LightsInv'
<1> SUFFICES (Coverage /\ Room)'
  <2>1. StepInv'
    BY StepKeepsSteps DEF LightsInv, Punctual
  <2> QED
    BY <2>1 DEF LightsInv
<1>2. CASE PulseTx \/ PulseRx \/ TurnOffAttention \/ BlinkAttentionFast
    BY <1>2, CallsAre, SetKeepsTimer, ScriptsIn DEF Punctual
<1>3. CASE DrainCommand
    BY <1>3, DrainKeepsTimer
<1>4. CASE Drained \/ Block \/ Wake \/ TimerFired \/ UNCHANGED lightVars
  <2>1. TypeInv /\ Posts \in Nat /\ Len(timerQueue) \in Nat
    BY PostsIs DEF LightsInv, StepInv
  <2>2. /\ UNCHANGED <<tick, gState, timerQueue>>
        /\ UNCHANGED gTimer \/ timerTask' = "fired"
    BY <1>4 DEF Drained, Block, Wake, TimerFired, lightVars
  <2>3. Posts' = Posts /\ MayPulse("tx")' = MayPulse("tx") /\ MayPulse("rx")' = MayPulse("rx")
    BY <2>2 DEF Posts, MayPulse, MayTurnOff
  <2>4. timerTask' = "locked" => timerTask = "locked"
    BY <1>4 DEF Drained, Block, Wake, TimerFired, lightVars
  <2>5. Near'
    BY <2>2, <2>4 DEF LightsInv, Coverage, Near
  <2>6. Armed'
    <3>1. timerTask' \in {"drain", "check", "blocked"} =>
             timerTask \in {"drain", "check", "blocked"}
      BY <1>4 DEF Drained, Block, Wake, TimerFired, lightVars
    <3>2. timerTask' # "fired" => (Covered => Covered')
      BY <2>2 DEF Covered, Covers
    <3> QED
      BY <3>1, <3>2 DEF Armed, LightsInv, Coverage
  <2>7. Room'
    <3>1. CASE Drained
      <4>1. timerTask = "drain" /\ timerTask' = "check" /\ Len(timerQueue) = 0
        BY <3>1 DEF Drained
      <4> QED
        BY <2>1, <2>2, <2>3, <4>1, PostsIs DEF Room
    <3>2. CASE Block \/ Wake \/ TimerFired \/ UNCHANGED lightVars
      <4>1. timerTask # "drain" \/ timerTask' = timerTask
        BY <3>2 DEF Block, Wake, TimerFired, lightVars
      <4> QED
        BY <2>1, <2>2, <2>3, <4>1 DEF Room, LightsInv
    <3> QED
      BY <1>4, <3>1, <3>2
  <2> QED
    BY <2>5, <2>6, <2>7 DEF Coverage, Near, Armed
<1>5. CASE ProcessChannels
    BY <1>5, CallbackKeepsTimer
<1>6. CASE Rearm
    BY <1>6, RearmKeepsTimer
<1>7. CASE Tick
    BY <1>7, TickKeepsTimer DEF Punctual
<1> QED
    BY <1>2, <1>3, <1>4, <1>5, <1>6, <1>7 DEF LightsNext

LEMMA TimerInit == LightsInit => LightsInv
<1> SUFFICES ASSUME LightsInit PROVE Coverage /\ Room
    BY StepsAreTimely DEF LightsInv
<1>1. tick = 0 /\ timerTask = "drain"
    BY DEF LightsInit
<1>2. /\ \A i \in Indicator :
            /\ Waits(gState[i]) /\ gState[i].isIdle = FALSE
            /\ gState[i].nextUpdate \in {LongBlink, FastBlink}
      /\ Len(timerQueue) = 5 /\ timerQueue[5] \in 1 .. MaxDelay
      /\ timerQueue[5] <= LongBlink /\ timerQueue[5] <= FastBlink
    BY InitIs
<1>3. LongBlink \in Nat \ {0} /\ FastBlink \in Nat \ {0} /\ MaxDelay \in Nat
    BY MaxDelayIs
<1>4. \A i \in Indicator : gState[i].nextUpdate \in Nat \ {0} /\ timerQueue[5] <= gState[i].nextUpdate
    BY <1>2, <1>3
<1>5. Covers(timerQueue[5]) /\ timerQueue[5] # Other
    BY <1>1, <1>2, <1>3, <1>4 DEF Covers, Never, Other
<1>6. Covered
    BY <1>2, <1>5 DEF Covered
<1>7. Coverage
    BY <1>1, <1>4, <1>6 DEF Coverage
<1>8. MayPulse("tx") = 0 /\ MayPulse("rx") = 0
    BY <1>1, <1>2, <1>4, ScriptsIn DEF MayPulse
<1>9. Room
    BY <1>1, <1>8 DEF Room
<1> QED
    BY <1>7, <1>9

-----------------------------------------------------------------------------
(* The theorems about the LEDs. *)

\* No channel leaves its script and every state is within its type, whatever
\* the risks and however late the timer task is (Hw::Indicators).
THEOREM LightsTypeCorrect == LightsSpec => []LightsTypeOK
<1>1. LightsInit => TypeInv
    BY InitIs
<1>2. TypeInv /\ [LightsNext]_lightVars => TypeInv'
    BY StepKeepsTypes
<1>3. TypeInv => LightsTypeOK
    BY DEF TypeInv
<1> QED
    BY <1>1, <1>2, <1>3, PTL DEF LightsSpec

\* A step of a script lasts its delay, whatever is set on the other indicators,
\* if time stands still while the timer task works and does not run over
\* (TimerFired and SetChannelScript, Indicators.cpp).
THEOREM StepsLastLong == ASSUME Steady PROVE LightsSpec => FullLength
<1>1. LightsInit => StepInv
    BY StepsAreTimely
<1>2. StepInv /\ [LightsNext]_lightVars => StepInv'
    BY StepKeepsSteps
<1> DEFINE Whole ==
        \A i \in Indicator :
            (Waits(gState[i]) /\ gState'[i] # gState[i]) =>
                \/ i = "attention" /\ gState'[i].currentAnim # gState[i].currentAnim
                \/ tick >= began[i] + CurrentDelay(gState[i])
<1>3. StepInv /\ [LightsNext]_lightVars => Whole
    BY StepsLast
<1> HIDE DEF Whole
<1>4. LightsSpec => [][Whole]_lightVars
    BY <1>1, <1>2, <1>3, PTL DEF LightsSpec
<1> QED
    BY <1>4, PTL DEF FullLength, Whole

\* No step of a script is a tick late, if no script is set while another
\* indicator is overdue: the one timer is always armed for the channel that
\* needs it first, and the queue has room for every period that matters
\* (UpdateTimerPeriod, Indicators.cpp).
THEOREM StepsAreOnTime == ASSUME Punctual PROVE LightsSpec => []OnTime
<1>1. LightsInit => LightsInv
    BY TimerInit
<1>2. LightsInv /\ [LightsNext]_lightVars => LightsInv'
    BY StepKeepsTimer
<1>3. LightsInv => OnTime
  <2> SUFFICES ASSUME LightsInv, NEW i \in Indicator, Waits(gState[i])
               PROVE  tick <= began[i] + CurrentDelay(gState[i]) + 1
    BY DEF OnTime
  <2>1. /\ tick <= gState[i].nextUpdate + 1
        /\ gState[i].nextUpdate = began[i] + CurrentDelay(gState[i])
    BY DEF LightsInv, StepInv, Coverage, Timely
  <2> QED
    BY <2>1
<1> QED
    BY <1>1, <1>2, <1>3, PTL DEF LightsSpec
=============================================================================
