------------------------------ MODULE BootProofs ------------------------------
(***************************************************************************)
(* Proofs about the start of the device (MCBoot), in three parts that do   *)
(* not need each other: what Fs::Init leaves on the chip (FsBoot), in what *)
(* order main() sets the parts up (StartUp), and what of a task's messages *)
(* reaches the UART (Logger).                                              *)
(***************************************************************************)
EXTENDS MCBoot, SequenceTheorems, FiniteSetTheorems, TLAPS

-----------------------------------------------------------------------------
(* The chip.                                                               *)
(*                                                                         *)
(* Files are kept because a format begins only at a superblock that reads  *)
(* erased, and the first thing a format writes is the superblock.  What is *)
(* known of the chip at each step of Fs::Init says so.                     *)

ChipAt ==
    /\ pc = "eraseChip" => superblock = "erased"
    /\ pc = "writeSuperblock" => superblock = "erased" /\ fs = AllErased
    /\ pc = "probe" => superblock = "valid" /\ fs = AllErased
    /\ pc \in {"formatBlocks", "mount"} => superblock = "valid"
    /\ pc = "reset" => superblock = "valid" /\ Formatted = Blocks
    /\ pc = "validate" => superblock # "erased"

\* A device that formats has never run.
FormatsOnlyNew == pc \in FormatSteps => ~used

\* A chip that is neither new nor formatted has had its format cut short.
WholeUnlessCut ==
    /\ superblock = "torn" => cut
    /\ superblock = "valid" /\ ~cut /\ pc \notin FormatSteps => Formatted = Blocks

ChipInv ==
    /\ TypeOK
    /\ FilesKept
    /\ PanicMeansCut
    /\ ChipAt
    /\ FormatsOnlyNew
    /\ WholeUnlessCut

\* The steps of the chip's variables: those of FsBoot, and a panic of another
\* part.
ChipNext == Next \/ Panics("io") \/ Panics("memory") \/ Panics("fault")

\* Every step of the device is one of them, or leaves the chip alone.
LEMMA BootChipSteps ==
    [BootNext]_BootVars => [ChipNext]_vars
<1>1. BootNext => [ChipNext]_vars
  <2>1. ASSUME TasksLog \/ Events \/ RailRefuses \/ StackGuardFails
        PROVE  UNCHANGED vars
    BY <2>1 DEF TasksLog, Events, RailEvent, RailRefuses, StackGuardFails
  <2>2. ASSUME StartWorks
        PROVE  Next \/ UNCHANGED vars
    <3>1. ASSUME Initialises
          PROVE  Boot \/ UNCHANGED vars
      <4>1. CASE FsInit
        BY <4>1 DEF FsInit, Boot
      <4>2. CASE ~FsInit
        BY <3>1, <4>2, Zenon
        DEF Initialises, Call, ClocksInit, LoggerInit, IdentityInit, IndicatorsInit, GpioInt,
            SpidrvInit, UartdrvInit, Hello, CryptoInit, HandlerInit, RadioIrqs, RailPlugins,
            RailInit, RfReady, RailData, RailChannels, RailCalibration, RailEvents,
            RailTransitions, BeaconInit, IrqManagerInit, HostTaskInit, WatchdogInit,
            StartScheduler
      <4> QED BY <4>1, <4>2
    <3> QED BY <2>2, <3>1 DEF StartWorks, PowersUp, SystemReset, TaskStarts, Next, Boot
  <2>3. ASSUME InitFails \/ FsFails \/ PowerLost
        PROVE  ChipNext
    BY <2>3
    DEF InitFails, CryptoFails, QueuesFail, CalibrationFails, RailAsserts, StackOverflows,
        HardFaults, Dies, FsFails, PowerLost, ChipNext, Next
  <2>4. SystemReset => StartWorks
    BY DEF StartWorks
  <2> QED BY <2>1, <2>2, <2>3, <2>4 DEF BootNext, ChipNext
<1> QED BY <1>1 DEF BootVars

LEMMA ChipInit == BootInit => ChipInv
<1> SUFFICES ASSUME Init PROVE ChipInv
  BY DEF BootInit, StartInit
<1>1. TypeOK
  <2>1. used \in BOOLEAN /\ cut \in BOOLEAN
    BY Zenon DEF Init
  <2> QED BY <2>1, MaxFailuresAssumption DEF Init, TypeOK, Contents, Steps
<1> QED
  BY <1>1, Zenon
  DEF Init, ChipInv, FilesKept, PanicMeansCut, ChipAt, FormatsOnlyNew, WholeUnlessCut, FormatSteps

\* One step keeps the chip's invariant, if the chip is read once its reset is
\* over.
LEMMA ChipStep ==
    ASSUME "settling" \notin Risks
    PROVE  ChipInv /\ [ChipNext]_vars => ChipInv'
<1> SUFFICES ASSUME ChipInv, [ChipNext]_vars PROVE ChipInv'
  OBVIOUS
<1> USE DEF ChipInv, TypeOK, FilesKept, PanicMeansCut, ChipAt, FormatsOnlyNew, WholeUnlessCut,
            Contents, Steps, FormatSteps, Formatted, chipVars
<1>1. ASSUME NEW reason \in {"io", "memory", "fault"}, Panics(reason)
      PROVE  ChipInv'
  BY <1>1 DEF Panics
<1>2. CASE PowerOn \/ Identifies \/ Resets
  BY <1>2 DEF PowerOn, Identifies, Resets, Goes
<1>3. CASE ReadsSuperblock
  BY <1>3 DEF ReadsSuperblock, ReadsAs, LooksEmpty
<1>4. CASE ErasesChip
  BY <1>4 DEF ErasesChip, Goes, AllErased
<1>5. CASE WritesSuperblock
  BY <1>5 DEF WritesSuperblock, Goes, AllErased
<1>6. CASE Probes
  <2>1. Formatted = {} /\ Formatted # Blocks /\ Cardinality(Blocks \ Formatted) # 1
    BY <1>6, BlocksAssumption, FS_EmptySet DEF Probes, AllErased
  <2>2. "ok" \notin MountOutcomes
    BY <2>1 DEF MountOutcomes
  <2> QED BY <1>6, <2>2 DEF Probes
<1>7. ASSUME NEW b \in Blocks, FormatsBlock(b)
      PROVE  ChipInv'
  BY <1>7 DEF FormatsBlock
<1>8. CASE FormatEnds
  BY <1>8 DEF FormatEnds, FormatOver, Goes
<1>9. CASE Validates
  BY <1>9 DEF Validates, SuperblockValid, Panics
<1>10. CASE Mounts
  <2>1. CASE used' = TRUE /\ pc' = "running" /\ fs' = [b \in Blocks |-> "valid"]
             /\ UNCHANGED <<superblock, why, cut, failures>>
    BY <1>10, <2>1 DEF Mounts
  <2>2. CASE "notAFs" \in MountOutcomes /\ Panics("mount")
    <3>1. SUFFICES ASSUME Formatted = Blocks PROVE FALSE
      BY <1>10, <2>2 DEF Mounts, Panics
    <3>2. Cardinality(Blocks \ Formatted) = 0
      BY <3>1, FS_EmptySet
    <3> HIDE DEF Formatted
    <3>3. MountOutcomes = {"ok"}
      BY <3>1, <3>2 DEF MountOutcomes
    <3> QED BY <2>2, <3>3
  <2> QED BY <1>10, <2>1, <2>2, Zenon DEF Mounts, OnError
<1>11. CASE PowerFails
  <2>1. /\ failures' \in 0 .. MaxFailures
        /\ pc' = "off" /\ why' = "none" /\ used' = used
        /\ cut' = (cut \/ pc \in FormatSteps \ {"reset"})
    BY <1>11, MaxFailuresAssumption DEF PowerFails
  <2>2. cut' \in BOOLEAN
    BY <2>1
  <2>3. CASE pc = "eraseChip"
    <3>1. superblock' \in Contents /\ fs' \in [Blocks -> Contents] /\ ~used
      BY <1>11, <2>3, Zenon DEF PowerFails, Torn
    <3> QED BY <2>1, <2>2, <2>3, <3>1
  <2>4. CASE pc = "writeSuperblock"
    <3>1. superblock' \in Contents /\ fs' = fs /\ ~used
      BY <1>11, <2>4 DEF PowerFails, Torn
    <3> QED BY <2>1, <2>2, <2>4, <3>1
  <2>5. CASE pc = "formatBlocks"
    <3>1. superblock' = superblock /\ fs' \in [Blocks -> Contents] /\ ~used
      BY <1>11, <2>5 DEF PowerFails
    <3> QED BY <2>1, <2>2, <2>5, <3>1
  <2>6. CASE pc \notin {"eraseChip", "writeSuperblock", "formatBlocks"}
    <3>1. superblock' = superblock /\ fs' = fs
      BY <1>11, <2>6, Zenon DEF PowerFails
    <3> QED BY <2>1, <2>2, <2>6, <3>1
  <2> QED BY <2>3, <2>4, <2>5, <2>6
<1>12. CASE UNCHANGED vars
  BY <1>12 DEF vars
<1> QED
  BY <1>1, <1>2, <1>3, <1>4, <1>5, <1>6, <1>7, <1>8, <1>9, <1>10, <1>11, <1>12
  DEF ChipNext, Next, Boot, Fails, OnError

\* Whatever power does, and whichever part panics.
LEMMA ChipInvariant ==
    ASSUME "settling" \notin Risks
    PROVE  BootSpec => []ChipInv
BY ChipInit, ChipStep, BootChipSteps, PTL DEF BootSpec

\* Once a device has run, nothing that boot does, in whatever order its parts
\* fail and however often power does, touches its superblock and its files.
THEOREM BootKeepsFiles ==
    ASSUME "settling" \notin Risks
    PROVE  BootSpec => []FilesKept
<1>1. ChipInv => FilesKept
  BY DEF ChipInv
<1> QED BY ChipInvariant, <1>1, PTL

\* A device whose processor, driver and heap work stops at boot only because the power
\* failed, or a part panicked, while its chip was being formatted.
THEOREM BootStopsOnlyIfCut ==
    ASSUME "settling" \notin Risks
    PROVE  BootSpec => []PanicMeansCut
<1>1. ChipInv => PanicMeansCut
  BY DEF ChipInv
<1> QED BY ChipInvariant, <1>1, PTL

-----------------------------------------------------------------------------
(* The order of main().                                                    *)
(*                                                                         *)
(* A call finds what it uses because a call before it has set that up; an  *)
(* event of the radio, a failed REQUIRE and a task, because what lets them *)
(* happen comes after all they use.  A fault may come at any time, and     *)
(* nothing uses anything after it.                                         *)

CallNames == {Calls[i] : i \in DOMAIN Calls}

Position(call) == CHOOSE i \in DOMAIN Calls : Calls[i] = call

\* The number of the call that sets each part up.
SetAt ==
    [LDMA |-> 1, GPIO |-> 1, EUSART0 |-> 1, EUSART1 |-> 1, EUSART2 |-> 1, uartCompletion |-> 2,
     identity |-> 3, indicators |-> 4, gpioint |-> 5, flashSpi |-> 6, hostSpi |-> 6, uart |-> 7,
     SEMAILBOX |-> 9, crypto |-> 9, fs |-> 10, handler |-> 11, railDma |-> 13, rail |-> 14,
     radioTask |-> 15, channels |-> 17, events |-> 19, beacon |-> 21, irqLine |-> 22,
     hostTask |-> 23, watchdog |-> 24, scheduler |-> 25]

\* The parts that calls before the present one have set up.
SetBefore ==
    stage \in CallNames => \A p \in Parts : SetAt[p] < Position(stage) => p \in ready

\* What the radio's events, the REQUIREs and the tasks lean on.
LeansOn ==
    /\ "uart" \in ready \/ "rail" \in ready => LogParts \subseteq ready
    /\ "events" \in ready => {"rail", "radioTask"} \subseteq ready
    /\ started # {} => Parts \subseteq ready

StartInv ==
    /\ StartTypeOK
    /\ SetBefore
    /\ LeansOn
    /\ SetUpFirst

\* One list after another.
LEMMA Joined ==
    ASSUME NEW S, NEW s \in Seq(S), NEW t \in Seq(S)
    PROVE  /\ s \o t \in Seq(S) /\ Len(s \o t) = Len(s) + Len(t)
           /\ \A i \in 1 .. Len(s) : (s \o t)[i] = s[i]
           /\ \A i \in Len(s) + 1 .. Len(s) + Len(t) : (s \o t)[i] = t[i - Len(s)]
<1>1. /\ s \o t \in Seq(S)
      /\ Len(s \o t) = Len(s) + Len(t)
      /\ \A i \in 1 .. Len(s) + Len(t) : (s \o t)[i] = IF i <= Len(s) THEN s[i] ELSE t[i - Len(s)]
  BY ConcatProperties, Zenon
<1>2. Len(s) \in Nat /\ Len(t) \in Nat
  OBVIOUS
<1> QED BY <1>1, <1>2

\* The calls one by one, each in its place.
LEMMA CallsAre ==
    /\ DOMAIN Calls = 1 .. 26
    /\ Calls[1] = "clocks" /\ Calls[2] = "logger" /\ Calls[3] = "identity"
    /\ Calls[4] = "indicators" /\ Calls[5] = "gpioint" /\ Calls[6] = "spidrv"
    /\ Calls[7] = "uartdrv"
    /\ Calls[8] = "hello" /\ Calls[9] = "crypto" /\ Calls[10] = "fs" /\ Calls[11] = "handler"
    /\ Calls[12] = "radioIrqs" /\ Calls[13] = "railPlugins" /\ Calls[14] = "railInit"
    /\ Calls[15] = "rfReady" /\ Calls[16] = "railData" /\ Calls[17] = "railChannels"
    /\ Calls[18] = "railCalibration" /\ Calls[19] = "railEvents"
    /\ Calls[20] = "railTransitions" /\ Calls[21] = "beacon" /\ Calls[22] = "irqManager"
    /\ Calls[23] = "hostTask" /\ Calls[24] = "watchdog" /\ Calls[25] = "scheduler"
    /\ Calls[26] = "tasks"
<1> DEFINE Names ==
               {"clocks", "logger", "identity", "indicators", "gpioint", "spidrv", "uartdrv",
                "hello", "crypto", "fs", "handler", "radioIrqs", "railPlugins", "railInit",
                "rfReady", "railData", "railChannels", "railCalibration", "railEvents",
                "railTransitions", "beacon", "irqManager", "hostTask", "watchdog", "scheduler",
                "tasks"}
           Two == EarlyInit \o HwInit
           Three == Two \o SwInit
           Last == <<"tasks">>
<1>1. EarlyInit \in Seq(Names) /\ Len(EarlyInit) = 3
  BY DEF EarlyInit
<1>2. HwInit \in Seq(Names) /\ Len(HwInit) = 4
  BY DEF HwInit
<1>3. SwInit \in Seq(Names) /\ Len(SwInit) = 18
  BY DEF SwInit
<1>4. Last \in Seq(Names) /\ Len(Last) = 1 /\ Last[1] = "tasks"
  OBVIOUS
<1> HIDE DEF Names, Last
<1>5. /\ Two \in Seq(Names) /\ Len(Two) = 7
      /\ \A i \in 1 .. 3 : Two[i] = EarlyInit[i]
      /\ \A i \in 4 .. 7 : Two[i] = HwInit[i - 3]
  <2>1. Two = EarlyInit \o HwInit
    OBVIOUS
  <2> HIDE DEF Two, Three
  <2>2. /\ Two \in Seq(Names) /\ Len(Two) = Len(EarlyInit) + Len(HwInit)
        /\ \A i \in 1 .. Len(EarlyInit) : Two[i] = EarlyInit[i]
        /\ \A i \in Len(EarlyInit) + 1 .. Len(EarlyInit) + Len(HwInit) : Two[i] = HwInit[i - Len(EarlyInit)]
    BY <1>1, <1>2, <2>1, Joined, ZenonT(30)
  <2> QED BY <1>1, <1>2, <2>2
<1>6. /\ Three \in Seq(Names) /\ Len(Three) = 25
      /\ \A i \in 1 .. 7 : Three[i] = Two[i]
      /\ \A i \in 8 .. 25 : Three[i] = SwInit[i - 7]
  <2>1. Three = Two \o SwInit
    OBVIOUS
  <2> HIDE DEF Two, Three
  <2>2. Two \in Seq(Names) /\ SwInit \in Seq(Names)
    BY <1>3, <1>5
  <2>3. /\ Three \in Seq(Names) /\ Len(Three) = Len(Two) + Len(SwInit)
        /\ \A i \in 1 .. Len(Two) : Three[i] = Two[i]
        /\ \A i \in Len(Two) + 1 .. Len(Two) + Len(SwInit) : Three[i] = SwInit[i - Len(Two)]
    BY <2>1, <2>2, Joined
  <2> QED BY <1>3, <1>5, <2>3
<1>7. /\ Calls \in Seq(Names) /\ Len(Calls) = 26
      /\ \A i \in 1 .. 25 : Calls[i] = Three[i]
      /\ Calls[26] = "tasks"
  <2>1. Calls = Three \o Last
    BY DEF Last, Calls
  <2> HIDE DEF Two, Three
  <2>2. Three \in Seq(Names) /\ Last \in Seq(Names)
    BY <1>4, <1>6
  <2>3. /\ Calls \in Seq(Names) /\ Len(Calls) = Len(Three) + Len(Last)
        /\ \A i \in 1 .. Len(Three) : Calls[i] = Three[i]
        /\ \A i \in Len(Three) + 1 .. Len(Three) + Len(Last) : Calls[i] = Last[i - Len(Three)]
    BY <2>1, <2>2, Joined
  <2> QED BY <1>4, <1>6, <2>3
<1> HIDE DEF Two, Three
<1>8. DOMAIN Calls = 1 .. 26 /\ Calls[26] = "tasks"
  BY <1>7
<1>9. /\ \A i \in 1 .. 3 : Calls[i] = EarlyInit[i]
      /\ \A i \in 4 .. 7 : Calls[i] = HwInit[i - 3]
      /\ \A i \in 8 .. 25 : Calls[i] = SwInit[i - 7]
  BY <1>5, <1>6, <1>7
<1>10. Calls[1] = "clocks" /\ Calls[2] = "logger" /\ Calls[3] = "identity"
  BY <1>9 DEF EarlyInit
<1>11. /\ Calls[4] = "indicators" /\ Calls[5] = "gpioint" /\ Calls[6] = "spidrv"
       /\ Calls[7] = "uartdrv"
  BY <1>9 DEF HwInit
<1>12. \A i \in 1 .. 18 : Calls[i + 7] = SwInit[i]
  BY <1>9
<1>13. /\ Calls[8] = SwInit[1] /\ Calls[9] = SwInit[2] /\ Calls[10] = SwInit[3]
       /\ Calls[11] = SwInit[4] /\ Calls[12] = SwInit[5] /\ Calls[13] = SwInit[6]
       /\ Calls[14] = SwInit[7] /\ Calls[15] = SwInit[8] /\ Calls[16] = SwInit[9]
       /\ Calls[17] = SwInit[10] /\ Calls[18] = SwInit[11] /\ Calls[19] = SwInit[12]
       /\ Calls[20] = SwInit[13] /\ Calls[21] = SwInit[14] /\ Calls[22] = SwInit[15]
       /\ Calls[23] = SwInit[16] /\ Calls[24] = SwInit[17] /\ Calls[25] = SwInit[18]
  BY <1>12
<1> QED BY <1>8, <1>10, <1>11, <1>13 DEF SwInit

\* Each call has one place only.
LEMMA Positions ==
    \A i \in DOMAIN Calls : Position(Calls[i]) = i
<1> SUFFICES ASSUME NEW i \in DOMAIN Calls PROVE Position(Calls[i]) = i
  OBVIOUS
<1>1. ASSUME NEW j \in DOMAIN Calls, NEW k \in DOMAIN Calls, Calls[j] = Calls[k]
      PROVE  j = k
  BY <1>1, CallsAre
<1>2. Position(Calls[i]) \in DOMAIN Calls /\ Calls[Position(Calls[i])] = Calls[i]
  BY Zenon DEF Position
<1> QED BY <1>1, <1>2

\* The one before it in main() comes right before it.
LEMMA Successor ==
    ASSUME NEW i \in 1 .. 25
    PROVE  /\ Following(Calls[i]) = Calls[i + 1]
           /\ Position(Calls[i + 1]) = Position(Calls[i]) + 1
<1>1. i \in DOMAIN Calls /\ i + 1 \in DOMAIN Calls
  BY CallsAre
<1>2. Following(Calls[i]) = Calls[Position(Calls[i]) + 1]
  BY Zenon DEF Following, Position
<1> QED BY <1>1, <1>2, Positions
\* The places by name.
LEMMA PositionsAre ==
    /\ Position("clocks") = 1 /\ Position("logger") = 2 /\ Position("identity") = 3
    /\ Position("indicators") = 4 /\ Position("gpioint") = 5 /\ Position("spidrv") = 6
    /\ Position("uartdrv") = 7
    /\ Position("hello") = 8 /\ Position("crypto") = 9 /\ Position("fs") = 10
    /\ Position("handler") = 11
    /\ Position("radioIrqs") = 12 /\ Position("railPlugins") = 13 /\ Position("railInit") = 14
    /\ Position("rfReady") = 15 /\ Position("railData") = 16 /\ Position("railChannels") = 17
    /\ Position("railCalibration") = 18 /\ Position("railEvents") = 19
    /\ Position("railTransitions") = 20 /\ Position("beacon") = 21
    /\ Position("irqManager") = 22 /\ Position("hostTask") = 23 /\ Position("watchdog") = 24
    /\ Position("scheduler") = 25 /\ Position("tasks") = 26
<1>1. \A i \in 1 .. 26 : Position(Calls[i]) = i
  BY CallsAre, Positions
<1> QED BY <1>1, CallsAre

\* A call knows its place.
LEMMA PlaceOf ==
    ASSUME NEW call \in CallNames
    PROVE  Position(call) \in 1 .. 26 /\ Calls[Position(call)] = call
<1>1. PICK i \in DOMAIN Calls : Calls[i] = call
  BY DEF CallNames
<1>2. Position(call) = i
  BY <1>1, Positions
<1> QED BY <1>1, <1>2, CallsAre

LEMMA TasksLast ==
    ASSUME NEW call \in CallNames, call # "tasks"
    PROVE  /\ Following(call) \in CallNames
           /\ Position(Following(call)) = Position(call) + 1
<1>1. Position(call) \in 1 .. 26 /\ Calls[Position(call)] = call
  BY PlaceOf
<1>2. Position(call) \in 1 .. 25
  BY <1>1, CallsAre
<1>3. /\ Following(call) = Calls[Position(call) + 1]
      /\ Position(Calls[Position(call) + 1]) = Position(call) + 1
  BY <1>1, <1>2, Successor
<1>4. Position(call) + 1 \in DOMAIN Calls
  BY <1>2, CallsAre
<1> QED BY <1>3, <1>4 DEF CallNames

LEMMA SetAtIs ==
    /\ SetAt["LDMA"] = 1 /\ SetAt["GPIO"] = 1 /\ SetAt["EUSART0"] = 1 /\ SetAt["EUSART1"] = 1
    /\ SetAt["EUSART2"] = 1 /\ SetAt["uartCompletion"] = 2 /\ SetAt["identity"] = 3
    /\ SetAt["indicators"] = 4 /\ SetAt["gpioint"] = 5 /\ SetAt["flashSpi"] = 6
    /\ SetAt["hostSpi"] = 6 /\ SetAt["uart"] = 7 /\ SetAt["SEMAILBOX"] = 9
    /\ SetAt["crypto"] = 9 /\ SetAt["fs"] = 10 /\ SetAt["handler"] = 11
    /\ SetAt["railDma"] = 13 /\ SetAt["rail"] = 14 /\ SetAt["radioTask"] = 15
    /\ SetAt["channels"] = 17 /\ SetAt["events"] = 19 /\ SetAt["beacon"] = 21
    /\ SetAt["irqLine"] = 22 /\ SetAt["hostTask"] = 23 /\ SetAt["watchdog"] = 24
    /\ SetAt["scheduler"] = 25
BY DEF SetAt

LEMMA SetAtTyped == \A p \in Parts : SetAt[p] \in 1 .. 25
BY SetAtIs DEF Parts

\* A call that sets up what falls to it, and uses what comes before.
LEMMA CallStep ==
    ASSUME NEW call \in CallNames, call # "tasks",
           NEW uses \in SUBSET Parts, NEW sets \in SUBSET Parts,
           StartInv, pc # "panic",
           stage = call, stage' = Following(call),
           misused' = misused \cup (uses \ ready),
           ready' = ready \cup sets, started' = started,
           \A p \in uses : SetAt[p] < Position(call),
           \A p \in Parts : SetAt[p] = Position(call) => p \in sets,
           "uart" \in sets => Position(call) > 2,
           "rail" \in sets => Position(call) > 7,
           "events" \in sets => Position(call) > 15
    PROVE  StartInv'
<1>1. /\ Position(call) \in 1 .. 26
      /\ stage' \in CallNames /\ Position(stage)' = Position(call) + 1
  <2>1. Position(stage)' = Position(stage')
    BY Zenon DEF Position, Calls, EarlyInit, HwInit, SwInit
  <2> QED BY <2>1, PlaceOf, TasksLast
<1>2. CallNames' = CallNames
  BY DEF CallNames, Calls
<1>3. \A p \in Parts : SetAt[p] < Position(call) => p \in ready
  BY DEF StartInv, SetBefore
<1>4. uses \subseteq ready
  BY <1>3
<1>5. misused = {} /\ misused' = {}
  BY <1>4 DEF StartInv, SetUpFirst
<1>6. SetBefore'
  <2> SUFFICES ASSUME NEW p \in Parts, SetAt[p] < Position(call) + 1 PROVE p \in ready'
    BY <1>1, <1>2 DEF SetBefore, Parts, SetAt
  <2>1. SetAt[p] < Position(call) \/ SetAt[p] = Position(call)
    BY <1>1, SetAtTyped
  <2> QED BY <2>1, <1>3
<1>7. LeansOn'
  <2>1. "uart" \in ready' \/ "rail" \in ready' => LogParts \subseteq ready'
    <3>1. CASE "uart" \in ready \/ "rail" \in ready
      BY <3>1 DEF StartInv, LeansOn
    <3>2. CASE "uart" \in sets
      BY <1>1, <1>3, <3>2, SetAtIs DEF LogParts, Parts
    <3>3. CASE "rail" \in sets
      BY <1>1, <1>3, <3>3, SetAtIs DEF LogParts, Parts
    <3> QED BY <3>1, <3>2, <3>3
  <2>2. "events" \in ready' => {"rail", "radioTask"} \subseteq ready
    <3>1. CASE "events" \in ready
      BY <3>1 DEF StartInv, LeansOn
    <3>2. CASE "events" \in sets
      BY <1>1, <1>3, <3>2, SetAtIs DEF Parts
    <3> QED BY <3>1, <3>2
  <2>3. started' # {} => Parts \subseteq ready
    BY DEF StartInv, LeansOn
  <2> QED BY <2>1, <2>2, <2>3 DEF LeansOn, LogParts, Parts
<1>8. StartTypeOK'
  <2>1. stage' \in {Calls[i] : i \in DOMAIN Calls}
    BY <1>1 DEF CallNames
  <2> QED BY <1>5, <2>1 DEF StartInv, StartTypeOK
<1> QED BY <1>5, <1>6, <1>7, <1>8 DEF StartInv, SetUpFirst
\* Every call of main() is such a call.
LEMMA CallsStep ==
    ASSUME StartInv, Initialises, ~FsInit
    PROVE  StartInv'
<1> DEFINE Fits(call, uses, sets) ==
        /\ call \in CallNames /\ call # "tasks"
        /\ uses \subseteq Parts /\ sets \subseteq Parts
        /\ \A p \in uses : SetAt[p] < Position(call)
        /\ \A p \in Parts : SetAt[p] = Position(call) => p \in sets
        /\ "uart" \in sets => Position(call) > 2
        /\ "rail" \in sets => Position(call) > 7
        /\ "events" \in sets => Position(call) > 15
<1>1. ASSUME NEW call, NEW uses, NEW sets, Call(call, uses, sets), Fits(call, uses, sets)
      PROVE  StartInv'
  BY <1>1, CallStep DEF Call, Uses
<1>2. \A i \in 1 .. 26 : Calls[i] \in CallNames
  BY CallsAre DEF CallNames
<1> USE DEF LogParts, RadioTaskInit, Parts
<1>3. CASE ClocksInit
  <2>1. Fits("clocks", {}, {"LDMA", "GPIO", "EUSART0", "EUSART1", "EUSART2"})
    BY <1>2, CallsAre, PositionsAre, SetAtIs
  <2> QED BY <1>1, <1>3, <2>1 DEF ClocksInit
<1>4. CASE LoggerInit
  <2>1. Fits("logger", {}, {"uartCompletion"})
    BY <1>2, CallsAre, PositionsAre, SetAtIs
  <2> QED BY <1>1, <1>4, <2>1 DEF LoggerInit
<1>5. CASE IdentityInit
  <2>1. Fits("identity", {}, {"identity"})
    BY <1>2, CallsAre, PositionsAre, SetAtIs
  <2> QED BY <1>1, <1>5, <2>1 DEF IdentityInit
<1>6. CASE IndicatorsInit
  <2>1. Fits("indicators", {"GPIO"}, {"indicators"})
    BY <1>2, CallsAre, PositionsAre, SetAtIs
  <2> QED BY <1>1, <1>6, <2>1 DEF IndicatorsInit
<1>7. CASE GpioInt
  <2>1. Fits("gpioint", {"GPIO"}, {"gpioint"})
    BY <1>2, CallsAre, PositionsAre, SetAtIs
  <2> QED BY <1>1, <1>7, <2>1 DEF GpioInt
<1>8. CASE SpidrvInit
  <2>1. Fits("spidrv", {"LDMA", "GPIO", "EUSART0", "EUSART2"}, {"flashSpi", "hostSpi"})
    BY <1>2, CallsAre, PositionsAre, SetAtIs
  <2> QED BY <1>1, <1>8, <2>1 DEF SpidrvInit
<1>9. CASE UartdrvInit
  <2>1. Fits("uartdrv", {"LDMA", "GPIO", "EUSART1"}, {"uart"})
    BY <1>2, CallsAre, PositionsAre, SetAtIs
  <2> QED BY <1>1, <1>9, <2>1 DEF UartdrvInit
<1>10. CASE Hello
  <2>1. Fits("hello", LogParts, {})
    BY <1>2, CallsAre, PositionsAre, SetAtIs
  <2> QED BY <1>1, <1>10, <2>1 DEF Hello
<1>11. CASE CryptoInit
  <2>1. Fits("crypto", LogParts, {"SEMAILBOX", "crypto"})
    BY <1>2, CallsAre, PositionsAre, SetAtIs
  <2> QED BY <1>1, <1>11, <2>1 DEF CryptoInit
<1>12. CASE HandlerInit
  <2>1. Fits("handler", {}, {"handler"})
    BY <1>2, CallsAre, PositionsAre, SetAtIs
  <2> QED BY <1>1, <1>12, <2>1 DEF HandlerInit
<1>13. CASE RadioIrqs
  <2>1. Fits("radioIrqs", {}, {})
    BY <1>2, CallsAre, PositionsAre, SetAtIs
  <2> QED BY <1>1, <1>13, <2>1 DEF RadioIrqs
<1>14. CASE RailPlugins
  <2>1. Fits("railPlugins", {"LDMA"}, {"railDma"})
    BY <1>2, CallsAre, PositionsAre, SetAtIs
  <2> QED BY <1>1, <1>14, <2>1 DEF RailPlugins
<1>15. CASE RailInit
  <2>1. Fits("railInit", {"railDma"}, {"rail"})
    BY <1>2, CallsAre, PositionsAre, SetAtIs
  <2> QED BY <1>1, <1>15, <2>1 DEF RailInit
<1>16. CASE RfReady
  <2>1. Fits("rfReady", {"rail"}, RadioTaskInit)
    BY <1>2, CallsAre, PositionsAre, SetAtIs
  <2> QED BY <1>1, <1>16, <2>1 DEF RfReady
<1>17. CASE RailData
  <2>1. Fits("railData", {"rail"}, {})
    BY <1>2, CallsAre, PositionsAre, SetAtIs
  <2> QED BY <1>1, <1>17, <2>1 DEF RailData
<1>18. CASE RailChannels
  <2>1. Fits("railChannels", {"rail"}, {"channels"})
    BY <1>2, CallsAre, PositionsAre, SetAtIs
  <2> QED BY <1>1, <1>18, <2>1 DEF RailChannels
<1>19. CASE RailCalibration
  <2>1. Fits("railCalibration", {"rail"}, {})
    BY <1>2, CallsAre, PositionsAre, SetAtIs
  <2> QED BY <1>1, <1>19, <2>1 DEF RailCalibration
<1>20. CASE RailEvents
  <2>1. Fits("railEvents", {"rail"}, {"events"})
    BY <1>2, CallsAre, PositionsAre, SetAtIs
  <2> QED BY <1>1, <1>20, <2>1 DEF RailEvents
<1>21. CASE RailTransitions
  <2>1. Fits("railTransitions", {"rail"}, {})
    BY <1>2, CallsAre, PositionsAre, SetAtIs
  <2> QED BY <1>1, <1>21, <2>1 DEF RailTransitions
<1>22. CASE BeaconInit
  <2>1. Fits("beacon", {}, {"beacon"})
    BY <1>2, CallsAre, PositionsAre, SetAtIs
  <2> QED BY <1>1, <1>22, <2>1 DEF BeaconInit
<1>23. CASE IrqManagerInit
  <2>1. Fits("irqManager", {"GPIO"}, {"irqLine"})
    BY <1>2, CallsAre, PositionsAre, SetAtIs
  <2> QED BY <1>1, <1>23, <2>1 DEF IrqManagerInit
<1>24. CASE HostTaskInit
  <2>1. Fits("hostTask", {}, {"hostTask"})
    BY <1>2, CallsAre, PositionsAre, SetAtIs
  <2> QED BY <1>1, <1>24, <2>1 DEF HostTaskInit
<1>25. CASE WatchdogInit
  <2>1. Fits("watchdog", {"beacon", "indicators"}, {"watchdog"})
    BY <1>2, CallsAre, PositionsAre, SetAtIs
  <2> QED BY <1>1, <1>25, <2>1 DEF WatchdogInit
<1>26. CASE StartScheduler
  <2>1. Fits("scheduler", LogParts, {"scheduler"})
    BY <1>2, CallsAre, PositionsAre, SetAtIs
  <2> QED BY <1>1, <1>26, <2>1 DEF StartScheduler
<1> QED
  BY <1>3, <1>4, <1>5, <1>6, <1>7, <1>8, <1>9, <1>10, <1>11, <1>12, <1>13, <1>14, <1>15, <1>16, <1>17, <1>18, <1>19, <1>20, <1>21, <1>22, <1>23, <1>24, <1>25, <1>26 DEF Initialises
\* The stages stay, and with them the parts that are set up by now.
LEMMA StaysInPlace ==
    ASSUME StartInv, stage' = stage, ready' = ready, started' = started,
           misused' \subseteq Parts
    PROVE  StartTypeOK' /\ SetBefore' /\ LeansOn'
BY ZenonT(30) DEF StartInv, StartTypeOK, SetBefore, LeansOn, CallNames, Position, Calls,
             EarlyInit, HwInit, SwInit, Parts, SetAt, LogParts, Tasks

\* Between calls, a use of what is ready changes nothing.
LEMMA UseStep ==
    ASSUME StartInv, pc # "panic", NEW uses, uses \subseteq ready, Uses(uses),
           stage' = stage, ready' = ready, started' = started
    PROVE  StartInv'
<1>1. misused = {} /\ misused' = {}
  BY DEF StartInv, SetUpFirst, Uses
<1> QED BY <1>1, StaysInPlace DEF StartInv, SetUpFirst

\* A fault: its message uses the UART, set up or not.
LEMMA FaultStep ==
    ASSUME StartInv, HardFaults
    PROVE  StartInv'
<1>1. /\ pc' = "panic" /\ why' = "fault" /\ misused' = misused \cup (LogParts \ ready)
      /\ stage' = stage /\ ready' = ready /\ started' = started
  BY DEF HardFaults, Dies, Panics, Uses
<1>2. misused = {}
  BY DEF StartInv, SetUpFirst, HardFaults, Alive
<1>3. misused' \subseteq Parts
  BY <1>1, <1>2 DEF LogParts, Parts
<1>4. "uart" \in ready => LogParts \subseteq ready
  BY DEF StartInv, LeansOn
<1>5. SetUpFirst'
  BY <1>1, <1>2, <1>4 DEF SetUpFirst, LogParts
<1> QED BY <1>1, <1>3, <1>5, StaysInPlace DEF StartInv

\* The processor begins again, or stops.
LEMMA StopStep ==
    ASSUME StartInv, stage' \in {"off", "hung", "clocks"}, misused' = {},
           \/ ready' = ready /\ started' = started
           \/ ready' = {} /\ started' = {}
    PROVE  StartInv'
<1>1. stage' \in CallNames => Position(stage)' = 1 \/ stage' = "hung" \/ stage' = "off"
  <2>1. Position(stage)' = Position(stage')
    BY Zenon DEF Position, Calls, EarlyInit, HwInit, SwInit
  <2> QED BY <2>1, PositionsAre
<1>2. "off" \notin CallNames /\ "hung" \notin CallNames /\ "clocks" \in CallNames
  BY CallsAre DEF CallNames
<1>3. CallNames' = CallNames
  BY DEF CallNames, Calls
<1>4. SetBefore'
  <2> SUFFICES ASSUME stage' = "clocks" , NEW p \in Parts, SetAt[p] < 1 PROVE FALSE
    BY <1>1, <1>2, <1>3 DEF SetBefore, Parts, SetAt
  <2> QED BY SetAtTyped
<1>5. LeansOn'
  BY DEF StartInv, LeansOn, LogParts, Parts
<1>6. StartTypeOK'
  <2>1. stage' \in {"off", "hung"} \cup {Calls[i] : i \in DOMAIN Calls}
    BY <1>2 DEF CallNames
  <2> QED BY <2>1 DEF StartInv, StartTypeOK
<1> QED BY <1>4, <1>5, <1>6 DEF StartInv, SetUpFirst

\* All parts are ready once the tasks run.
LEMMA AllSetUp ==
    ASSUME StartInv, stage = "tasks"
    PROVE  Parts \subseteq ready
<1>1. "tasks" \in CallNames
  BY CallsAre DEF CallNames
<1> QED BY <1>1, PositionsAre, SetAtTyped DEF StartInv, SetBefore

\* The log's parts are ready where Fs::Init, its neighbours and a task call it.
LEMMA LogReady ==
    ASSUME StartInv, stage \in {"crypto", "fs", "handler"} \/ "rail" \in ready \/ started # {}
    PROVE  LogParts \subseteq ready
<1>1. CASE stage \in {"crypto", "fs", "handler"}
  <2>1. stage \in CallNames /\ Position(stage) > 7
    BY <1>1, CallsAre, PositionsAre DEF CallNames
  <2> QED BY <2>1, PlaceOf, SetAtIs DEF StartInv, SetBefore, LogParts, Parts
<1>2. CASE "rail" \in ready \/ started # {}
  BY <1>2 DEF StartInv, LeansOn, LogParts, Parts
<1> QED BY <1>1, <1>2

LEMMA StartStep == StartInv /\ [BootNext]_BootVars => StartInv'
<1> SUFFICES ASSUME StartInv, [BootNext]_BootVars PROVE StartInv'
  OBVIOUS
<1>1. CASE UNCHANGED <<vars, startVars>>
  <2>1. StartTypeOK' /\ SetBefore' /\ LeansOn'
    BY <1>1, StaysInPlace DEF startVars, StartInv, StartTypeOK
  <2>2. SetUpFirst'
    BY <1>1 DEF vars, startVars, StartInv, SetUpFirst, LogParts
  <2> QED BY <2>1, <2>2 DEF StartInv
<1> DEFINE NoneYet == pc # "panic" => misused = {}
<1>0. NoneYet
  BY DEF StartInv, SetUpFirst
<1> HIDE DEF NoneYet
<1>2. CASE PowersUp
  <2>1. stage' = "clocks" /\ misused' = {} /\ ready' = ready /\ started' = started
    BY <1>0, <1>2, CallsAre DEF PowersUp, PowerOn, Goes, NoneYet
  <2> QED BY <2>1, StopStep
<1>3. CASE Initialises /\ ~FsInit
  BY <1>3, CallsStep
<1>4. CASE FsInit
  <2> DEFINE uses == LogParts \cup {"EUSART0", "flashSpi"}
  <2>1. stage = "fs" /\ Uses(uses) /\ started' = started
    BY <1>4, Zenon DEF FsInit
  <2>2. "fs" \in CallNames /\ pc # "panic"
    <3>1. pc # "panic"
      BY <1>4
      DEF FsInit, Identifies, ReadsSuperblock, ErasesChip, WritesSuperblock, Probes, FormatsBlock,
          FormatEnds, Validates, Mounts, Goes
    <3> QED BY <3>1, CallsAre DEF CallNames
  <2>3. uses \subseteq ready
    BY <2>1, <2>2, PositionsAre, SetAtIs DEF StartInv, SetBefore, LogParts, Parts
  <2>4. CASE pc' = "running"
    <3>1. stage' = Following("fs") /\ ready' = ready \cup {"fs"}
      BY <1>4, <2>4, Zenon DEF FsInit
    <3>2. uses \subseteq Parts /\ {"fs"} \subseteq Parts
      BY DEF LogParts, Parts
    <3>3. \A p \in uses : SetAt[p] < Position("fs")
      BY PositionsAre, SetAtIs DEF LogParts
    <3>4. \A p \in Parts : SetAt[p] = Position("fs") => p \in {"fs"}
      BY PositionsAre, SetAtIs DEF Parts
    <3> QED BY <2>1, <2>2, <3>1, <3>2, <3>3, <3>4, CallStep DEF Uses
  <2>5. CASE pc' # "running"
    <3>1. stage' = stage /\ ready' = ready
      BY <1>4, <2>5, Zenon DEF FsInit
    <3> QED BY <2>1, <2>2, <2>3, <3>1, UseStep
  <2> QED BY <2>4, <2>5
<1>5. CASE SystemReset
  BY <1>5, StopStep, CallsAre DEF SystemReset, Forgets
<1>6. ASSUME NEW task \in Tasks, TaskStarts(task)
      PROVE  StartInv'
  <2>1. Parts \subseteq ready /\ ready \subseteq Parts
    BY <1>6, AllSetUp DEF TaskStarts, StartInv, StartTypeOK
  <2>2. FirstUses[task] \subseteq Parts
    BY DEF Tasks, FirstUses, HostIfUses, RadioUses, TimerUses, IdleUses, LogParts, Parts
  <2>3. /\ stage' = stage /\ ready' = ready /\ misused' = misused
        /\ started' = started \cup {task} /\ misused = {}
    BY <1>0, <1>6, <2>1, <2>2 DEF TaskStarts, Uses, NoneYet
  <2>4. SetBefore' /\ SetUpFirst'
    BY <2>1, <2>3, Zenon
    DEF StartInv, SetBefore, SetUpFirst, CallNames, Position, Calls, EarlyInit, HwInit, SwInit,
        Parts, SetAt
  <2>5. LeansOn'
    BY <2>1, <2>3 DEF LeansOn, LogParts, Parts
  <2>6. StartTypeOK'
    BY <2>3 DEF StartInv, StartTypeOK, Calls, EarlyInit, HwInit, SwInit, Tasks, Parts
  <2> QED BY <2>4, <2>5, <2>6 DEF StartInv
<1>7. ASSUME NEW event \in EnabledEvents, RailEvent(event)
      PROVE  StartInv'
  <2> DEFINE uses == {"rail" : e \in CallsRail \cap {event}}
                       \cup {"radioTask" : e \in NotifiesTask \cap {event}}
  <2>1. uses \subseteq ready /\ pc # "panic"
    BY <1>7 DEF RailEvent, StartInv, LeansOn, Alive
  <2> QED BY <1>7, <2>1, UseStep DEF RailEvent
<1>8. CASE (InitFails /\ ~HardFaults) \/ FsFails
  <2>1. stage \in {"crypto", "fs", "handler"} \/ "rail" \in ready \/ started # {}
    BY <1>8
    DEF InitFails, CryptoFails, QueuesFail, CalibrationFails, RailAsserts, StackOverflows, FsFails
  <2>2. Uses(LogParts) /\ stage' = stage /\ ready' = ready /\ started' = started
    BY <1>8, Zenon
    DEF InitFails, CryptoFails, QueuesFail, CalibrationFails, RailAsserts, StackOverflows, Dies,
        FsFails
  <2>3. LogParts \subseteq ready
    BY <2>1, LogReady
  <2>4. pc # "panic"
    BY <1>0, <1>8
    DEF InitFails, CryptoFails, QueuesFail, CalibrationFails, RailAsserts, StackOverflows, FsFails,
        Fails, FormatSteps, Alive
  <2> QED BY <2>2, <2>3, <2>4, UseStep
<1>9. CASE RailRefuses \/ StackGuardFails
  <2>1. misused' = {} /\ stage' = "hung" /\ ready' = ready /\ started' = started
    BY <1>0, <1>9 DEF RailRefuses, StackGuardFails, Alive, NoneYet
  <2> QED BY <2>1, StopStep
<1>10. CASE PowerLost
  BY <1>10, StopStep DEF PowerLost, Forgets
<1>11. UNCHANGED BootVars => UNCHANGED <<vars, startVars>>
  BY DEF BootVars
<1>12. TasksLog => UNCHANGED <<vars, startVars>>
  BY DEF TasksLog
<1>13. CASE HardFaults
  BY <1>13, FaultStep
<1> QED
  BY <1>1, <1>2, <1>3, <1>4, <1>5, <1>6, <1>7, <1>8, <1>9, <1>10, <1>11, <1>12, <1>13
  DEF BootNext, StartWorks, Events

\* Nothing is used before it has been set up: not by a call of main(), not by
\* what RAIL reports while it is set up, nor by a task or the message of a
\* failed REQUIRE; but a fault before the UART is there has a message that does
\* use it.
THEOREM SetsUpInOrder == BootSpec => [](SetUpFirst /\ StartTypeOK)
<1>1. BootInit => StartInv
  <2> SUFFICES ASSUME StartInit PROVE StartInv
    BY DEF BootInit
  <2>1. "off" \notin CallNames
    BY CallsAre DEF CallNames
  <2>2. StartTypeOK
    BY DEF StartInit, StartTypeOK
  <2> QED BY <2>1, <2>2 DEF StartInit, StartInv, SetBefore, LeansOn, SetUpFirst
<1>2. StartInv => SetUpFirst /\ StartTypeOK
  BY DEF StartInv
<1> QED BY <1>1, <1>2, StartStep, PTL DEF BootSpec
-----------------------------------------------------------------------------
(* The log.                                                                *)
(*                                                                         *)
(* The semaphore goes round: the UART is free, one task writes its message,*)
(* or one message is being sent.  The line end of the one before may still *)
(* be in the driver's queue meanwhile.                                     *)

\* The messages a task has handed to the driver.
HandedOver(task) == logged[task] - (IF logPc[task] = "idle" THEN 0 ELSE 1)

\* Those the wire has carried, and that it has carried them all.
Carried(task) == SentBefore(task, Len(wire) + 1)
SentAll(task) == Carried(task) = 1 .. HandedOver(task)

\* What the driver has to send: a line end, and a task's message.
EndOfLine == Transfer("\r\n", FALSE)
MessageOf(task) == Transfer(tlsLogBuffer[task], TRUE)

Lines == {LineEnd, Nothing} \cup {Message(t, n) : t \in Loggers, n \in 0 .. MaxMessages}

\* One task has the static buffer, the others their own.
OwnBuffer ==
    \A t \in Loggers :
        /\ tlsLogBuffer[t] \in {NoBuffer, Static, t}
        /\ logPc[t] # "idle" => logged[t] > 0
        /\ logged[t] > 0 => tlsLogBuffer[t] # NoBuffer
        /\ tlsLogBuffer[t] = Static =>
             gLogBufferAssigned /\ \A u \in Loggers \ {t} : tlsLogBuffer[u] # Static

\* A task that neither formats nor sends, and a driver with no message left.
Quiet(task) == logPc[task] \in {"idle", "take"}
Drained == txQueue \in {<<>>, <<EndOfLine>>}

UartFree ==
    /\ gUartCompletion = 1 /\ Drained
    /\ \A t \in Loggers : Quiet(t) /\ SentAll(t)

Writing(task) ==
    /\ gUartCompletion = 0 /\ Drained
    /\ logPc[task] \in {"format", "send"}
    /\ logPc[task] = "send" => content[tlsLogBuffer[task]] = Message(task, logged[task])
    /\ \A u \in Loggers : SentAll(u) /\ (u # task => Quiet(u))

Sending(task) ==
    /\ gUartCompletion = 0
    /\ txQueue \in {<<MessageOf(task), EndOfLine>>, <<EndOfLine, MessageOf(task), EndOfLine>>}
    /\ HandedOver(task) > 0
    /\ content[tlsLogBuffer[task]] = Message(task, HandedOver(task))
    /\ Carried(task) = 1 .. HandedOver(task) - 1
    /\ \A u \in Loggers : Quiet(u) /\ (u # task => SentAll(u))

OneAtATime == UartFree \/ \E t \in Loggers : Writing(t) \/ Sending(t)

\* Messages and line ends take turns.
Turns == Len(wire) % 2 = Len(txQueue) % 2

LogInv ==
    /\ LoggerTypeOK
    /\ wire \in Seq(Lines)
    /\ ~panicked => OwnBuffer /\ OneAtATime /\ Turns
    /\ LinesWhole

\* What one more line on the wire adds to what it has carried.
LEMMA OneMoreLine ==
    ASSUME wire \in Seq(Lines), NEW line, wire' = Append(wire, line)
    PROVE  /\ Len(wire') = Len(wire) + 1 /\ DOMAIN wire' = 1 .. Len(wire) + 1
           /\ wire'[Len(wire) + 1] = line
           /\ \A i \in DOMAIN wire : wire'[i] = wire[i]
           /\ \A t : \A i \in 1 .. Len(wire) + 1 : SentBefore(t, i)' = SentBefore(t, i)
           /\ \A t : Carried(t)' =
                        Carried(t)
                          \cup {n \in 1 .. MaxMessages : line = Message(t, n)}
<1>1. /\ Len(wire') = Len(wire) + 1 /\ DOMAIN wire' = 1 .. Len(wire) + 1
      /\ wire'[Len(wire) + 1] = line
      /\ \A i \in DOMAIN wire : wire'[i] = wire[i]
      /\ DOMAIN wire = 1 .. Len(wire) /\ Len(wire) \in Nat
  BY AppendProperties
<1>2. ASSUME NEW t, NEW i \in 1 .. Len(wire) + 1
      PROVE  SentBefore(t, i)' = SentBefore(t, i)
  <2>1. \A j : j \in DOMAIN wire' /\ j < i <=> j \in DOMAIN wire /\ j < i
    BY <1>1
  <2> QED BY <1>1, <2>1 DEF SentBefore, Message
<1>3. ASSUME NEW t
      PROVE  Carried(t)' =
               Carried(t)
                 \cup {n \in 1 .. MaxMessages : line = Message(t, n)}
  <2>1. \A j \in DOMAIN wire' : j < Len(wire) + 2
    BY <1>1
  <2>2. \A j \in DOMAIN wire : j < Len(wire) + 1
    BY <1>1
  <2>3. \A j : j \in DOMAIN wire' <=> j \in DOMAIN wire \/ j = Len(wire) + 1
    BY <1>1
  <2>4. \A m : (\E j \in DOMAIN wire' : j < Len(wire) + 2 /\ wire'[j] = m)
               <=> (\E j \in DOMAIN wire : j < Len(wire) + 1 /\ wire[j] = m) \/ line = m
    BY <1>1, <2>1, <2>2, <2>3, Zenon
  <2>5. \A m : (\E j \in DOMAIN wire' : j < Len(wire') + 1 /\ wire'[j] = m)
               <=> (\E j \in DOMAIN wire : j < Len(wire) + 1 /\ wire[j] = m) \/ line = m
    BY <1>1, <2>4
  <2> QED BY <2>5 DEF Carried, SentBefore, Message
<1> QED BY <1>1, <1>2, <1>3

LEMMA LogInitial == LoggerInitial => LogInv
<1> SUFFICES ASSUME LoggerInitial PROVE LogInv
  OBVIOUS
<1>1. Len(txQueue) = 0 /\ Len(wire) = 0 /\ DOMAIN wire = {} /\ wire \in Seq(Lines)
  BY DEF LoggerInitial
<1>2. LoggerTypeOK
  <2>1. gLogBufferAssigned \in BOOLEAN /\ panicked \in BOOLEAN
    BY Zenon DEF LoggerInitial
  <2> QED BY <1>1, <2>1, MaxMessagesAssumption, TxBuffersAssumption DEF LoggerInitial, LoggerTypeOK
<1>3. OwnBuffer
  BY LoggersAssumption DEF LoggerInitial, OwnBuffer, NoBuffer, Static
<1>4. UartFree
  BY <1>1 DEF LoggerInitial, UartFree, Drained, Quiet, SentAll, Carried, SentBefore, HandedOver
<1> QED BY <1>1, <1>2, <1>3, <1>4 DEF LogInv, OneAtATime, Turns, LinesWhole
\* Steps that send nothing keep what was said of the wire.
LEMMA WireKept ==
    ASSUME wire' = wire
    PROVE  /\ \A t, i : SentBefore(t, i)' = SentBefore(t, i)
           /\ \A t : Carried(t)' = Carried(t)
           /\ \A t : HandedOver(t)' = HandedOver(t) => (SentAll(t)' <=> SentAll(t))
           /\ panicked' = panicked => (LinesWhole' <=> LinesWhole)
<1>1. \A t, i : SentBefore(t, i)' = SentBefore(t, i)
  BY DEF SentBefore, Message
<1>2. ASSUME NEW t, HandedOver(t)' = HandedOver(t)
      PROVE  SentAll(t)' <=> SentAll(t)
  BY <1>1, <1>2 DEF SentAll, Carried
<1>3. ASSUME panicked' = panicked
      PROVE  LinesWhole' <=> LinesWhole
  BY <1>1, <1>3 DEF LinesWhole, Message, LineEnd
<1>4. \A t : Carried(t)' = Carried(t)
  BY <1>1 DEF Carried
<1> QED BY <1>1, <1>2, <1>3, <1>4

LEMMA BeginLogStep ==
    ASSUME LogInv, NEW task \in Loggers, BeginLog(task)
    PROVE  LogInv'
<1> USE DEF LogInv, LoggerTypeOK
<1>1. /\ ~panicked /\ panicked' = panicked /\ wire' = wire /\ txQueue' = txQueue
      /\ content' = content /\ gUartCompletion' = gUartCompletion
      /\ logPc[task] = "idle" /\ logPc' = [logPc EXCEPT ![task] = "take"]
      /\ logged[task] < MaxMessages /\ logged' = [logged EXCEPT ![task] = @ + 1]
  BY DEF BeginLog
<1>2. /\ tlsLogBuffer' \in [Loggers -> Buffers \cup {NoBuffer}]
      /\ gLogBufferAssigned' \in BOOLEAN
  BY DEF BeginLog, GetBuffer, Buffers
<1>3. LoggerTypeOK'
  <2>1. logged' \in [Loggers -> 0 .. MaxMessages]
    BY <1>1, MaxMessagesAssumption
  <2> QED BY <1>1, <1>2, <2>1 DEF Buffers
<1>4. OwnBuffer'
  <2>1. \A t \in Loggers : logPc'[t] # "idle" => logged'[t] > 0
    BY <1>1, MaxMessagesAssumption DEF OwnBuffer
  <2>2. \A t \in Loggers : logged'[t] > 0 => tlsLogBuffer'[t] # NoBuffer
    BY <1>1, MaxMessagesAssumption, LoggersAssumption
    DEF BeginLog, GetBuffer, OwnBuffer, NoBuffer, Static
  <2>3. \A t \in Loggers :
           /\ tlsLogBuffer'[t] \in {NoBuffer, Static, t}
           /\ tlsLogBuffer'[t] = Static =>
                gLogBufferAssigned' /\ \A u \in Loggers \ {t} : tlsLogBuffer'[u] # Static
    BY LoggersAssumption, SMTT(30) DEF BeginLog, GetBuffer, OwnBuffer, NoBuffer, Static
  <2> QED BY <2>1, <2>2, <2>3 DEF OwnBuffer, NoBuffer, Static
<1>5. \A t \in Loggers : HandedOver(t)' = HandedOver(t)
  BY <1>1, MaxMessagesAssumption DEF HandedOver
<1>6. \A t \in Loggers : tlsLogBuffer[t] # NoBuffer => tlsLogBuffer'[t] = tlsLogBuffer[t]
  BY DEF BeginLog, GetBuffer
<1>7. \A t \in Loggers : /\ SentAll(t)' <=> SentAll(t)
                         /\ Quiet(t) => Quiet(t)'
                         /\ Carried(t)' = Carried(t)
  BY <1>1, <1>5, WireKept DEF Quiet
<1>8. Drained => Drained'
  BY <1>1 DEF Drained, EndOfLine, Transfer
<1>9. ASSUME UartFree
      PROVE  UartFree'
  BY <1>1, <1>7, <1>8, <1>9 DEF UartFree, OneAtATime
<1>10. ASSUME NEW t \in Loggers, Writing(t)
       PROVE  Writing(t)'
  <2>1. t # task /\ tlsLogBuffer[t] # NoBuffer
    BY <1>1, <1>10 DEF Writing, OwnBuffer
  <2>2. tlsLogBuffer'[t] = tlsLogBuffer[t] /\ logPc'[t] = logPc[t] /\ logged'[t] = logged[t]
    BY <1>1, <1>6, <2>1
  <2> QED BY <1>1, <1>7, <1>8, <1>10, <2>2 DEF Writing, Message
<1>11. ASSUME NEW t \in Loggers, Sending(t)
       PROVE  Sending(t)'
  <2>1. tlsLogBuffer[t] # NoBuffer
    BY <1>1, <1>11, MaxMessagesAssumption DEF Sending, HandedOver, OwnBuffer
  <2>2. tlsLogBuffer'[t] = tlsLogBuffer[t] /\ MessageOf(t)' = MessageOf(t)
    BY <1>6, <2>1 DEF MessageOf, Transfer
  <2> QED BY <1>1, <1>5, <1>7, <1>11, <2>2 DEF Sending, Message, EndOfLine, Transfer
<1>12. OneAtATime'
  BY <1>1, <1>9, <1>10, <1>11 DEF OneAtATime
<1>13. wire' \in Seq(Lines)' /\ Turns' /\ LinesWhole'
  BY <1>1, WireKept DEF Lines, Turns, Message, LineEnd, Nothing, Static
<1> QED BY <1>1, <1>3, <1>4, <1>12, <1>13
LEMMA TakeUartStep ==
    ASSUME LogInv, NEW task \in Loggers, TakeUart(task)
    PROVE  LogInv'
<1> USE DEF LogInv, LoggerTypeOK
<1>1. /\ ~panicked /\ panicked' = panicked /\ wire' = wire /\ txQueue' = txQueue
      /\ content' = content /\ gUartCompletion = 1 /\ gUartCompletion' = 0
      /\ logged' = logged /\ tlsLogBuffer' = tlsLogBuffer
      /\ gLogBufferAssigned' = gLogBufferAssigned
      /\ logPc[task] = "take" /\ logPc' = [logPc EXCEPT ![task] = "format"]
  BY DEF TakeUart
<1>2. LoggerTypeOK'
  BY <1>1 DEF Buffers
<1>3. OwnBuffer'
  BY <1>1 DEF OwnBuffer, NoBuffer, Static
<1>4. UartFree
  BY <1>1 DEF OneAtATime, Writing, Sending
<1>5. \A t \in Loggers : HandedOver(t)' = HandedOver(t)
  BY <1>1 DEF HandedOver
<1>6. \A t \in Loggers : SentAll(t)' /\ (t # task => Quiet(t)')
  BY <1>1, <1>4, <1>5, WireKept DEF UartFree, Quiet
<1>7. Writing(task)'
  BY <1>1, <1>4, <1>6 DEF UartFree, Writing, Drained, EndOfLine, Transfer
<1>8. wire' \in Seq(Lines)' /\ Turns' /\ LinesWhole'
  BY <1>1, WireKept DEF Lines, Turns, Message, LineEnd, Nothing, Static
<1> QED BY <1>1, <1>2, <1>3, <1>7, <1>8 DEF OneAtATime

LEMMA FormatMessageStep ==
    ASSUME LogInv, NEW task \in Loggers, FormatMessage(task)
    PROVE  LogInv'
<1> USE DEF LogInv, LoggerTypeOK
<1>1. /\ ~panicked /\ panicked' = panicked /\ wire' = wire /\ txQueue' = txQueue
      /\ content' = [content EXCEPT ![tlsLogBuffer[task]] = Message(task, logged[task])]
      /\ gUartCompletion' = gUartCompletion
      /\ logged' = logged /\ tlsLogBuffer' = tlsLogBuffer
      /\ gLogBufferAssigned' = gLogBufferAssigned
      /\ logPc[task] = "format" /\ logPc' = [logPc EXCEPT ![task] = "send"]
  BY DEF FormatMessage
<1>2. LoggerTypeOK'
  BY <1>1 DEF Buffers
<1>3. OwnBuffer'
  BY <1>1 DEF OwnBuffer, NoBuffer, Static
<1>4. Writing(task)
  BY <1>1 DEF OneAtATime, UartFree, Writing, Sending, Quiet
<1>5. \A t \in Loggers : HandedOver(t)' = HandedOver(t)
  BY <1>1 DEF HandedOver
<1>6. \A t \in Loggers : SentAll(t)' /\ (t # task => Quiet(t)')
  BY <1>1, <1>4, <1>5, WireKept DEF Writing, Quiet
<1>7. content'[tlsLogBuffer[task]] = Message(task, logged[task])
  <2>1. tlsLogBuffer[task] \in Buffers
    BY <1>1 DEF OwnBuffer
  <2> QED BY <1>1, <2>1
<1>8. Writing(task)'
  BY <1>1, <1>4, <1>6, <1>7 DEF Writing, Drained, EndOfLine, Transfer, Message
<1>9. wire' \in Seq(Lines)' /\ Turns' /\ LinesWhole'
  BY <1>1, WireKept DEF Lines, Turns, Message, LineEnd, Nothing, Static
<1> QED BY <1>1, <1>2, <1>3, <1>8, <1>9 DEF OneAtATime

\* A list and one more.
LEMMA Extended ==
    ASSUME NEW S, NEW s \in Seq(S), NEW e \in S, NEW t \in Seq(S),
           Len(t) = Len(s) + 1, \A i \in 1 .. Len(s) : t[i] = s[i], t[Len(s) + 1] = e
    PROVE  Append(s, e) = t
<1>1. /\ Append(s, e) \in Seq(S) /\ Len(Append(s, e)) = Len(s) + 1
      /\ \A i \in 1 .. Len(s) : Append(s, e)[i] = s[i]
      /\ Append(s, e)[Len(s) + 1] = e
  BY AppendProperties
<1>2. \A i \in 1 .. Len(t) : Append(s, e)[i] = t[i]
  BY <1>1
<1> QED BY <1>1, <1>2, SeqEqual

\* The short queues the driver has.
LEMMA OneQueued ==
    ASSUME NEW a
    PROVE  /\ Append(<<>>, a) = <<a>> /\ Len(<<a>>) = 1
           /\ Head(<<a>>) = a /\ Tail(<<a>>) = <<>>
OBVIOUS

LEMMA TwoQueued ==
    ASSUME NEW a, NEW b
    PROVE  /\ Append(<<a>>, b) = <<a, b>> /\ Len(<<a, b>>) = 2
           /\ Head(<<a, b>>) = a /\ Tail(<<a, b>>) = <<b>>
<1>1. <<a>> \in Seq({a, b}) /\ Len(<<a>>) = 1 /\ <<a>>[1] = a /\ b \in {a, b}
  OBVIOUS
<1>2. <<a, b>> \in Seq({a, b}) /\ Len(<<a, b>>) = 2 /\ <<a, b>>[1] = a /\ <<a, b>>[2] = b
  OBVIOUS
<1>3. ASSUME NEW S, NEW e \in S, NEW s \in Seq(S), NEW t \in Seq(S),
             Len(s) = 1, Len(t) = 2, s[1] = t[1], t[2] = e
      PROVE  Append(s, e) = t
  <2>1. Len(t) = Len(s) + 1 /\ (\A i \in 1 .. Len(s) : t[i] = s[i]) /\ t[Len(s) + 1] = e
    BY <1>3
  <2> QED BY <2>1, Extended
<1>4. Append(<<a>>, b) = <<a, b>>
  BY <1>1, <1>2, <1>3, Zenon
<1> QED BY <1>4

LEMMA ThreeQueued ==
    ASSUME NEW a, NEW b, NEW c
    PROVE  /\ Append(<<a, b>>, c) = <<a, b, c>> /\ Len(<<a, b, c>>) = 3
           /\ Head(<<a, b, c>>) = a /\ Tail(<<a, b, c>>) = <<b, c>>
<1>1. /\ <<a, b>> \in Seq({a, b, c}) /\ Len(<<a, b>>) = 2
      /\ <<a, b>>[1] = a /\ <<a, b>>[2] = b /\ c \in {a, b, c}
  OBVIOUS
<1>2. /\ <<a, b, c>> \in Seq({a, b, c}) /\ Len(<<a, b, c>>) = 3
      /\ <<a, b, c>>[1] = a /\ <<a, b, c>>[2] = b /\ <<a, b, c>>[3] = c
  OBVIOUS
<1>3. ASSUME NEW S, NEW e \in S, NEW s \in Seq(S), NEW t \in Seq(S),
             Len(s) = 2, Len(t) = 3, s[1] = t[1], s[2] = t[2], t[3] = e
      PROVE  Append(s, e) = t
  <2>1. Len(t) = Len(s) + 1 /\ (\A i \in 1 .. Len(s) : t[i] = s[i]) /\ t[Len(s) + 1] = e
    BY <1>3
  <2> QED BY <2>1, Extended
<1>4. Append(<<a, b>>, c) = <<a, b, c>>
  BY <1>1, <1>2, <1>3, Zenon
<1> QED BY <1>4

\* The driver takes both transfers: at most a line end waits before them.
LEMMA QueuedBoth ==
    ASSUME TxBuffers >= 3, Drained, NEW m, NEW e
    PROVE  \/ txQueue = <<>> /\ Queued(Queued(txQueue, m), e) = <<m, e>>
           \/ txQueue = <<EndOfLine>> /\ Queued(Queued(txQueue, m), e) = <<EndOfLine, m, e>>
<1>1. ASSUME NEW q, NEW t, Len(q) < 3 PROVE Queued(q, t) = Append(q, t)
  <2>1. Len(q) < TxBuffers
    BY <1>1, TxBuffersAssumption, Z3
  <2> QED BY <2>1 DEF Queued
<1>2. \A a, b : Len(<<>>) < 3 /\ Len(<<a>>) < 3 /\ Len(<<a, b>>) < 3
  OBVIOUS
<1>3. \A a, b, c : /\ Queued(<<>>, a) = <<a>>
                   /\ Queued(<<a>>, b) = <<a, b>>
                   /\ Queued(<<a, b>>, c) = <<a, b, c>>
  <2> SUFFICES ASSUME NEW a, NEW b, NEW c
               PROVE  /\ Queued(<<>>, a) = <<a>>
                      /\ Queued(<<a>>, b) = <<a, b>>
                      /\ Queued(<<a, b>>, c) = <<a, b, c>>
    OBVIOUS
  <2>1. Queued(<<>>, a) = Append(<<>>, a) /\ Append(<<>>, a) = <<a>>
    BY <1>1, <1>2, OneQueued, Zenon
  <2>2. Queued(<<a>>, b) = Append(<<a>>, b) /\ Append(<<a>>, b) = <<a, b>>
    BY <1>1, <1>2, TwoQueued, Zenon
  <2>3. Queued(<<a, b>>, c) = Append(<<a, b>>, c) /\ Append(<<a, b>>, c) = <<a, b, c>>
    BY <1>1, <1>2, ThreeQueued, ZenonT(30)
  <2> QED BY <2>1, <2>2, <2>3, Zenon
<1> QED BY <1>3 DEF Drained

LEMMA SendMessageStep ==
    ASSUME TxBuffers >= 3, LogInv, NEW task \in Loggers, SendMessage(task)
    PROVE  LogInv'
<1> USE DEF LogInv, LoggerTypeOK
<1>1. /\ ~panicked /\ panicked' = panicked /\ wire' = wire
      /\ txQueue' = Queued(Queued(txQueue, MessageOf(task)), EndOfLine)
      /\ content' = content /\ gUartCompletion' = gUartCompletion
      /\ logged' = logged /\ tlsLogBuffer' = tlsLogBuffer
      /\ gLogBufferAssigned' = gLogBufferAssigned
      /\ logPc[task] = "send" /\ logPc' = [logPc EXCEPT ![task] = "idle"]
  BY DEF SendMessage, MessageOf, EndOfLine
<1>2. Writing(task)
  BY <1>1 DEF OneAtATime, UartFree, Writing, Sending, Quiet
<1>3. \/ txQueue = <<>> /\ txQueue' = <<MessageOf(task), EndOfLine>>
      \/ txQueue = <<EndOfLine>> /\ txQueue' = <<EndOfLine, MessageOf(task), EndOfLine>>
  BY <1>1, <1>2, QueuedBoth DEF Writing
<1>4. LoggerTypeOK' /\ Turns'
  <2>1. Len(txQueue') <= TxBuffers /\ Len(txQueue') % 2 = Len(txQueue) % 2
    <3>1. \/ Len(txQueue) = 0 /\ Len(txQueue') = 2
          \/ Len(txQueue) = 1 /\ Len(txQueue') = 3
      BY <1>3, OneQueued, TwoQueued, ThreeQueued
    <3>2. \A n : (n = 2 => n <= TxBuffers /\ n % 2 = 0) /\ (n = 3 => n <= TxBuffers /\ n % 2 = 1)
      BY TxBuffersAssumption
    <3>3. \A n : (n = 0 => n % 2 = 0) /\ (n = 1 => n % 2 = 1)
      OBVIOUS
    <3> QED BY <3>1, <3>2, <3>3, Zenon
  <2> QED BY <1>1, <2>1 DEF Buffers, Turns
<1>5. OwnBuffer'
  BY <1>1, <1>2 DEF OwnBuffer, NoBuffer, Static
<1>6. /\ \A t \in Loggers \ {task} : HandedOver(t)' = HandedOver(t)
      /\ HandedOver(task)' = logged[task] /\ HandedOver(task) = logged[task] - 1
  BY <1>1 DEF HandedOver
<1>7. \A t \in Loggers : Quiet(t)' /\ (t # task => SentAll(t)')
  BY <1>1, <1>2, <1>6, WireKept DEF Writing, Quiet
<1>8. Carried(task)' = 1 .. HandedOver(task)' - 1
  <2>1. Carried(task)' = Carried(task)
    BY <1>1, WireKept
  <2>2. Carried(task) = 1 .. HandedOver(task)
    BY <1>2 DEF Writing, SentAll
  <2> QED BY <1>6, <2>1, <2>2
<1>9. HandedOver(task)' > 0
  BY <1>1, <1>6, MaxMessagesAssumption DEF OwnBuffer
<1>10. Sending(task)'
  <2>1. txQueue' \in {<<MessageOf(task), EndOfLine>>, <<EndOfLine, MessageOf(task), EndOfLine>>}'
    BY <1>1, <1>3 DEF MessageOf, EndOfLine, Transfer
  <2>2. content'[tlsLogBuffer'[task]] = Message(task, HandedOver(task)')
    BY <1>1, <1>2, <1>6 DEF Writing
  <2> QED BY <1>1, <1>2, <1>7, <1>8, <1>9, <2>1, <2>2 DEF Sending, Writing, Message
<1>11. wire' \in Seq(Lines)' /\ LinesWhole'
  BY <1>1, WireKept DEF Lines, Message, LineEnd, Nothing, Static
<1> QED BY <1>1, <1>4, <1>5, <1>10, <1>11 DEF OneAtATime

\* A line on the wire leaves the tasks as they were.
LEMMA TransferEndsStep ==
    ASSUME LogInv, TransferEnds
    PROVE  LogInv'
<1> USE DEF LogInv, LoggerTypeOK
<1>1. /\ ~panicked /\ panicked' = panicked /\ content' = content
      /\ logged' = logged /\ logPc' = logPc /\ tlsLogBuffer' = tlsLogBuffer
      /\ gLogBufferAssigned' = gLogBufferAssigned
      /\ txQueue # <<>> /\ txQueue' = Tail(txQueue)
      /\ wire' = Append(wire, IF Head(txQueue).from \in Buffers
                              THEN content[Head(txQueue).from] ELSE LineEnd)
      /\ gUartCompletion' = IF Head(txQueue).callback THEN 1 ELSE gUartCompletion
  BY DEF TransferEnds
<1>2. OwnBuffer'
  BY <1>1 DEF OwnBuffer, NoBuffer, Static
<1>3. \A t \in Loggers : /\ HandedOver(t)' = HandedOver(t) /\ HandedOver(t) \in Nat
                         /\ HandedOver(t) <= MaxMessages
                         /\ Quiet(t)' = Quiet(t) /\ MessageOf(t)' = MessageOf(t)
  BY <1>1, MaxMessagesAssumption DEF HandedOver, Quiet, MessageOf, Transfer, OwnBuffer
<1>4. Len(wire) \in Nat /\ DOMAIN wire = 1 .. Len(wire)
  OBVIOUS
\* The end of a line.
<1>5. ASSUME Head(txQueue) = EndOfLine
      PROVE  /\ gUartCompletion' = gUartCompletion
             /\ wire' = Append(wire, LineEnd)
             /\ \A t \in Loggers : Carried(t)' = Carried(t)
             /\ Len(wire) % 2 = 1 => LinesWhole'
             /\ wire' \in Seq(Lines)
  <2>1. EndOfLine.from = "\r\n" /\ EndOfLine.callback = FALSE /\ "\r\n" \notin Buffers
    BY LoggersAssumption DEF EndOfLine, Transfer, Buffers, Static
  <2>2. gUartCompletion' = gUartCompletion /\ wire' = Append(wire, LineEnd)
    BY <1>1, <1>5, <2>1
  <2>3. \A t \in Loggers, n \in 1 .. MaxMessages : LineEnd # Message(t, n)
    BY LoggersAssumption DEF LineEnd, Message
  <2>4. \A t \in Loggers : Carried(t)' = Carried(t)
    <3>1. \A t \in Loggers : {n \in 1 .. MaxMessages : LineEnd = Message(t, n)} = {}
      BY <2>3
    <3>2. \A t : Carried(t)' =
                   Carried(t) \cup {n \in 1 .. MaxMessages : LineEnd = Message(t, n)}
      BY <2>2, OneMoreLine, ZenonT(30)
    <3> QED BY <3>1, <3>2
  <2>5. LineEnd \in Lines
    BY DEF Lines
  <2>6. wire' \in Seq(Lines)
    BY <2>2, <2>5, AppendProperties
  <2>7. ASSUME Len(wire) % 2 = 1 PROVE LinesWhole'
    <3> SUFFICES ASSUME NEW i \in 1 .. Len(wire) + 1
                 PROVE  IF i % 2 = 0 THEN wire'[i] = LineEnd
                        ELSE \E t \in Loggers, n \in 1 .. MaxMessages :
                                wire'[i] = Message(t, n) /\ SentBefore(t, i)' = 1 .. n - 1
      BY <2>2, OneMoreLine DEF LinesWhole, Message, LineEnd
    <3>1. CASE i = Len(wire) + 1
      <4>1. i % 2 = 0
        BY <1>4, <2>7, <3>1, SMTT(30)
      <4> QED BY <2>2, <3>1, <4>1, OneMoreLine
    <3>2. CASE i \in 1 .. Len(wire)
      <4>1. /\ wire'[i] = wire[i] /\ i \in 1 .. Len(wire) + 1
            /\ \A t : SentBefore(t, i)' = SentBefore(t, i)
        BY <1>4, <2>2, <3>2, OneMoreLine
      <4>2. IF i % 2 = 0 THEN wire[i] = LineEnd
            ELSE \E t \in Loggers, n \in 1 .. MaxMessages :
                    wire[i] = Message(t, n) /\ SentBefore(t, i) = 1 .. n - 1
        BY <1>1, <1>4, <3>2 DEF LinesWhole
      <4> QED BY <4>1, <4>2, Zenon
    <3> QED BY <1>4, <3>1, <3>2
  <2> QED BY <2>2, <2>4, <2>6, <2>7
<1>6. CASE txQueue = <<EndOfLine>>
  <2>1. /\ Head(txQueue) = EndOfLine /\ Len(txQueue) = 1
        /\ txQueue' = <<>> /\ Len(txQueue') = 0
    BY <1>1, <1>6, OneQueued
  <2>2. Len(wire) % 2 = 1
    BY <1>1, <2>1 DEF Turns
  <2>3. LoggerTypeOK' /\ Drained'
    <3>1. Len(txQueue') <= TxBuffers
      BY <2>1, TxBuffersAssumption
    <3>2. Drained'
      BY <2>1 DEF Drained
    <3> QED BY <1>1, <1>5, <3>1, <3>2 DEF Buffers
  <2>4. Turns'
    <3>1. Len(wire') = Len(wire) + 1
      BY <1>5, <2>1, OneMoreLine
    <3>2. Len(wire') % 2 = 0
      BY <1>4, <2>2, <3>1, SMTT(30)
    <3>3. 0 % 2 = 0
      OBVIOUS
    <3> QED BY <2>1, <3>2, <3>3, Zenon DEF Turns
  <2>5. \A t \in Loggers : SentAll(t)' <=> SentAll(t)
    BY <1>3, <1>5, <2>1 DEF SentAll
  <2>6. UartFree \/ \E t \in Loggers : Writing(t)
    <3>1. ASSUME NEW t \in Loggers PROVE ~Sending(t)
      <4>1. /\ Len(<<MessageOf(t), EndOfLine>>) = 2
            /\ Len(<<EndOfLine, MessageOf(t), EndOfLine>>) = 3
        BY TwoQueued, ThreeQueued, Zenon
      <4>2. 1 # 2 /\ 1 # 3
        OBVIOUS
      <4>3. /\ txQueue # <<MessageOf(t), EndOfLine>>
            /\ txQueue # <<EndOfLine, MessageOf(t), EndOfLine>>
        BY <2>1, <4>1, <4>2, Zenon
      <4> QED BY <4>3, Zenon DEF Sending
    <3> QED BY <1>1, <3>1 DEF OneAtATime
  <2>7. UartFree => UartFree'
    BY <1>3, <1>5, <2>1, <2>3, <2>5 DEF UartFree
  <2>8. ASSUME NEW t \in Loggers, Writing(t)
        PROVE  Writing(t)'
    BY <1>1, <1>3, <1>5, <2>1, <2>3, <2>5, <2>8 DEF Writing, Message
  <2> QED BY <1>1, <1>2, <1>5, <2>1, <2>2, <2>3, <2>4, <2>6, <2>7, <2>8
          DEF OneAtATime, Lines, Message, LineEnd, Nothing, Static
<1>7. ASSUME NEW t \in Loggers, Sending(t), txQueue = <<EndOfLine, MessageOf(t), EndOfLine>>
      PROVE  LogInv'
  <2>1. /\ Head(txQueue) = EndOfLine /\ Len(txQueue) = 3
        /\ txQueue' = <<MessageOf(t), EndOfLine>> /\ Len(txQueue') = 2
    BY <1>1, <1>7, TwoQueued, ThreeQueued
  <2>2. Len(wire) % 2 = 1
    BY <1>1, <2>1 DEF Turns
  <2>3. LoggerTypeOK'
    <3>1. Len(txQueue') <= TxBuffers
      <4>1. \A n \in Nat : 3 <= n => 2 <= n
        OBVIOUS
      <4> QED BY <2>1, <4>1, TxBuffersAssumption, Zenon
    <3> QED BY <1>1, <1>5, <3>1 DEF Buffers
  <2>4. Turns'
    <3>1. Len(wire') = Len(wire) + 1
      BY <1>5, <2>1, OneMoreLine
    <3>2. Len(wire') % 2 = 0
      BY <1>4, <2>2, <3>1, SMTT(30)
    <3>3. 2 % 2 = 0
      OBVIOUS
    <3> QED BY <2>1, <3>2, <3>3, Zenon DEF Turns
  <2>5. \A u \in Loggers : SentAll(u)' <=> SentAll(u)
    BY <1>3, <1>5, <2>1 DEF SentAll
  <2>6. txQueue' = <<MessageOf(t)', EndOfLine'>>
    BY <1>3, <2>1 DEF EndOfLine, Transfer
  <2>7. Sending(t)'
    BY <1>1, <1>3, <1>5, <1>7, <2>1, <2>5, <2>6 DEF Sending, Message
  <2> QED BY <1>1, <1>2, <1>5, <2>1, <2>2, <2>3, <2>4, <2>7
          DEF OneAtATime, Lines, Message, LineEnd, Nothing, Static
\* The message itself.
<1>8. ASSUME NEW t \in Loggers, Sending(t), txQueue = <<MessageOf(t), EndOfLine>>
      PROVE  LogInv'
  <2> DEFINE k == HandedOver(t)
  <2>1. /\ Head(txQueue) = MessageOf(t) /\ Len(txQueue) = 2
        /\ txQueue' = <<EndOfLine>> /\ Len(txQueue') = 1
    BY <1>1, <1>8, OneQueued, TwoQueued
  <2>2. k \in 1 .. MaxMessages /\ content[tlsLogBuffer[t]] = Message(t, k)
    BY <1>3, <1>8, MaxMessagesAssumption DEF Sending
  <2>3. tlsLogBuffer[t] \in Buffers
    <3>1. tlsLogBuffer[t] # NoBuffer
      BY <1>1, <1>8, MaxMessagesAssumption DEF Sending, HandedOver, OwnBuffer
    <3> QED BY <3>1
  <2>4. wire' = Append(wire, Message(t, k)) /\ gUartCompletion' = 1
    <3>1. MessageOf(t).from = tlsLogBuffer[t] /\ MessageOf(t).callback = TRUE
      BY DEF MessageOf, Transfer
    <3> QED BY <1>1, <2>1, <2>2, <2>3, <3>1
  <2>5. Len(wire) % 2 = 0
    BY <1>1, <1>4, <2>1 DEF Turns
  <2>6. Message(t, k) \in Lines
    BY <2>2, MaxMessagesAssumption DEF Lines
  <2>7. wire' \in Seq(Lines)
    BY <2>4, <2>6, AppendProperties
  <2>8. LoggerTypeOK' /\ Drained'
    <3>1. Len(txQueue') <= TxBuffers
      <4>1. \A n \in Nat : 2 <= n => 1 <= n
        OBVIOUS
      <4> QED BY <2>1, <4>1, TxBuffersAssumption, Zenon
    <3>2. Drained'
      BY <2>1 DEF Drained, EndOfLine, Transfer
    <3> QED BY <1>1, <2>4, <3>1, <3>2 DEF Buffers
  <2>9. Turns'
    <3>1. Len(wire') = Len(wire) + 1
      BY <2>4, <2>1, OneMoreLine
    <3>2. Len(wire') % 2 = 1
      <4>1. \A n \in Nat : n % 2 = 0 => (n + 1) % 2 = 1
        OBVIOUS
      <4> QED BY <1>4, <2>5, <3>1, <4>1, Zenon
    <3>3. 1 % 2 = 1
      OBVIOUS
    <3> QED BY <2>1, <3>2, <3>3, Zenon DEF Turns
  <2>10. Carried(t) = 1 .. k - 1
    BY <1>8 DEF Sending
  <2> HIDE DEF k
  <2>11. \A u \in Loggers :
            Carried(u)' =
              Carried(u) \cup {n \in 1 .. MaxMessages : Message(t, k) = Message(u, n)}
    BY <2>4, OneMoreLine
  <2>12. \A u \in Loggers : u # t => SentAll(u)'
    <3> SUFFICES ASSUME NEW u \in Loggers, u # t PROVE SentAll(u)'
      OBVIOUS
    <3>1. {n \in 1 .. MaxMessages : Message(t, k) = Message(u, n)} = {}
      BY DEF Message
    <3>2. Carried(u)' = Carried(u)
      BY <2>11, <3>1
    <3> QED BY <1>3, <1>8, <3>2 DEF Sending, SentAll
  <2>13. SentAll(t)'
    <3>1. {n \in 1 .. MaxMessages : Message(t, k) = Message(t, n)} = {k}
      BY <2>2 DEF Message
    <3>2. Carried(t)' = 1 .. k
      <4>1. 1 .. k = (1 .. k - 1) \cup {k}
        BY <2>2, MaxMessagesAssumption
      <4> QED BY <2>10, <2>11, <3>1, <4>1, Zenon
    <3> QED BY <1>3, <3>2 DEF SentAll, k
  <2>14. UartFree'
    BY <1>3, <1>8, <2>4, <2>8, <2>12, <2>13 DEF UartFree, Sending
  <2>15. LinesWhole'
    <3> SUFFICES ASSUME NEW i \in 1 .. Len(wire) + 1
                 PROVE  IF i % 2 = 0 THEN wire'[i] = LineEnd
                        ELSE \E u \in Loggers, n \in 1 .. MaxMessages :
                                wire'[i] = Message(u, n) /\ SentBefore(u, i)' = 1 .. n - 1
      BY <2>4, OneMoreLine DEF LinesWhole, Message, LineEnd
    <3>1. CASE i = Len(wire) + 1
      <4>1. i % 2 = 1
        BY <1>4, <2>5, <3>1
      <4>2. wire'[i] = Message(t, k) /\ SentBefore(t, i)' = 1 .. k - 1
        <5>1. SentBefore(t, i) = 1 .. k - 1
          BY <2>10, <3>1 DEF Carried
        <5>2. i \in 1 .. Len(wire) + 1
          OBVIOUS
        <5>3. wire'[Len(wire) + 1] = Message(t, k) /\ SentBefore(t, i)' = SentBefore(t, i)
          BY <2>4, <5>2, OneMoreLine, Zenon
        <5> QED BY <3>1, <5>1, <5>3
      <4> QED BY <2>2, <4>1, <4>2
    <3>2. CASE i \in 1 .. Len(wire)
      <4>1. /\ wire'[i] = wire[i] /\ i \in 1 .. Len(wire) + 1
            /\ \A u : SentBefore(u, i)' = SentBefore(u, i)
        BY <1>4, <2>4, <3>2, OneMoreLine
      <4>2. IF i % 2 = 0 THEN wire[i] = LineEnd
            ELSE \E u \in Loggers, n \in 1 .. MaxMessages :
                    wire[i] = Message(u, n) /\ SentBefore(u, i) = 1 .. n - 1
        BY <1>1, <1>4, <3>2 DEF LinesWhole
      <4> QED BY <4>1, <4>2, Zenon
    <3> QED BY <1>4, <3>1, <3>2
  <2> QED BY <1>2, <2>7, <2>8, <2>9, <2>14, <2>15
          DEF OneAtATime, Lines, Message, LineEnd, Nothing, Static
<1>9. UartFree \/ (\E t \in Loggers : Writing(t)) => txQueue = <<EndOfLine>>
  BY <1>1 DEF UartFree, Writing, Drained
<1> QED BY <1>1, <1>6, <1>7, <1>8, <1>9 DEF OneAtATime, Sending

LEMMA LogPanicsStep ==
    ASSUME LogInv, LogPanics
    PROVE  LogInv'
<1> USE DEF LogInv, LoggerTypeOK
<1>1. panicked' = TRUE /\ wire' = wire \o SentAtOnce
  BY DEF LogPanics
<1>2. SentAtOnce \in Seq(Lines)
  BY DEF SentAtOnce, Lines
<1>3. wire' \in Seq(Lines)'
  BY <1>1, <1>2, ConcatProperties DEF Lines, Message, LineEnd, Nothing, Static
<1>4. panicked' \in BOOLEAN
  BY <1>1, Zenon
<1>5. LoggerTypeOK'
  BY <1>4 DEF LogPanics, Buffers
<1> QED BY <1>1, <1>3, <1>5 DEF LinesWhole

LEMMA LogRestartsStep == LoggerRestarts => LogInv'
<1>1. LoggerRestarts => LoggerInitial'
  BY DEF LoggerRestarts, LoggerInitial, Buffers, Static, NoBuffer, Nothing
<1> QED BY <1>1, LogInitial, PTL

LEMMA LogStepKeeps ==
    ASSUME TxBuffers >= 3
    PROVE  LogInv /\ [BootNext]_BootVars => LogInv'
<1> SUFFICES ASSUME LogInv, [BootNext]_BootVars PROVE LogInv'
  OBVIOUS
<1>1. CASE UNCHANGED logVars
  <2> USE DEF logVars, LogInv, LoggerTypeOK
  <2>1. LoggerTypeOK' /\ wire' \in Seq(Lines)'
    BY <1>1 DEF Buffers, Lines, Message, LineEnd, Nothing, Static
  <2>2. LinesWhole'
    BY <1>1, WireKept
  <2>3. \A t \in Loggers : /\ SentAll(t)' <=> SentAll(t)
                           /\ HandedOver(t)' = HandedOver(t) /\ MessageOf(t)' = MessageOf(t)
                           /\ Carried(t)' = Carried(t)
                           /\ Quiet(t)' <=> Quiet(t)
    BY <1>1, WireKept DEF HandedOver, MessageOf, Transfer, Quiet
  <2>4. OwnBuffer => OwnBuffer'
    BY <1>1 DEF OwnBuffer, NoBuffer, Static
  <2>5. UartFree => UartFree'
    BY <1>1, <2>3 DEF UartFree, Drained, EndOfLine, Transfer
  <2>6. \A t \in Loggers : Writing(t) => Writing(t)'
    BY <1>1, <2>3 DEF Writing, Drained, EndOfLine, Transfer, Message
  <2>7. \A t \in Loggers : Sending(t) => Sending(t)'
    BY <1>1, <2>3 DEF Sending, EndOfLine, Transfer, Message
  <2> QED BY <1>1, <2>1, <2>2, <2>4, <2>5, <2>6, <2>7 DEF OneAtATime, Turns
<1>2. CASE TasksLog
  BY <1>2, BeginLogStep, TakeUartStep, FormatMessageStep, SendMessageStep, TransferEndsStep
  DEF TasksLog, LogStep
<1>3. CASE LogPanics
  BY <1>3, LogPanicsStep
<1>4. CASE LoggerRestarts
  BY <1>4, LogRestartsStep
<1> QED BY <1>1, <1>2, <1>3, <1>4 DEF BootNext, BootVars

\* Whatever the tasks log, and however their steps and the UART's interrupt
\* interleave: each message is sent whole, once, in the order of its task and on
\* a line of its own, if the driver's queue has room for three transfers.
THEOREM MessagesAreWhole ==
    ASSUME TxBuffers >= 3
    PROVE  BootSpec => [](LinesWhole /\ LoggerTypeOK)
<1>1. BootInit => LogInv
  BY LogInitial DEF BootInit
<1>2. LogInv => LinesWhole /\ LoggerTypeOK
  BY DEF LogInv
<1> QED BY <1>1, <1>2, LogStepKeeps, PTL DEF BootSpec

\* The three parts' variables hold what they may.
THEOREM BootTypeCorrect ==
    ASSUME "settling" \notin Risks, TxBuffers >= 3
    PROVE  BootSpec => []BootTypeOK
<1>1. ChipInv => TypeOK
  BY DEF ChipInv
<1>2. TypeOK /\ StartTypeOK /\ LoggerTypeOK => BootTypeOK
  BY DEF BootTypeOK
<1> QED BY ChipInvariant, SetsUpInOrder, MessagesAreWhole, <1>1, <1>2, PTL
=============================================================================
