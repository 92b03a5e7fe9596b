------------------------------- MODULE FsBoot -------------------------------
(***************************************************************************)
(* Fs::Init (Fs/Init.cpp, NorFs.cpp): at boot the superblock is read; an   *)
(* erased chip is formatted, once in the life of a device, and the system  *)
(* reset; otherwise the superblock is validated and SPIFFS is mounted.     *)
(*                                                                         *)
(* Power may fail in any step, and a step that changes the chip may then   *)
(* have been done in part.  A failed REQUIRE ends in Logger::Panic, which  *)
(* does nothing until the power is cycled.                                 *)
(*                                                                         *)
(* Abstracted: the operations of the driver, which are steps with a        *)
(* beginning and an end here (NorFlash), and SPIFFS, which is not part of  *)
(* the repository: what its mount says of a chip is told from the magic    *)
(* that SPIFFS_format writes into each block.                              *)
(***************************************************************************)
EXTENDS Integers, FiniteSets

CONSTANTS
    Blocks,         \* erase blocks of the file system
    MaxFailures,    \* bound: power failures in a behaviour
    Risks           \* "settling": the chip is read before its reset is over

ASSUME BlocksAssumption == IsFiniteSet(Blocks) /\ Cardinality(Blocks) > 1
ASSUME MaxFailuresAssumption == MaxFailures \in Nat
ASSUME RisksAssumption == Risks \subseteq {"settling"}

VARIABLES
    superblock,     \* contents of the chip's first sector
    fs,             \* contents of each block of the file system
    pc,             \* what Fs::Init is doing
    why,            \* which REQUIRE failed, or "fault": the processor's
    used,           \* the device has been running: files may have been written
    cut,            \* a format was begun and did not end
    failures        \* power failures so far

chipVars == <<superblock, fs>>
vars == <<superblock, fs, pc, why, used, cut, failures>>

-----------------------------------------------------------------------------
\* "torn": an erase or a program operation was interrupted.
Contents == {"erased", "torn", "valid"}

\* Steps of FormatNor in which the chip is at work, and those between them.
FormatSteps == {"eraseChip", "writeSuperblock", "probe", "formatBlocks", "reset"}
Steps == {"off", "identify", "readSuperblock", "validate", "mount", "running", "panic"}
           \cup FormatSteps

TypeOK ==
    /\ superblock \in Contents
    /\ fs \in [Blocks -> Contents]
    /\ pc \in Steps
    /\ why \in {"none", "io", "memory", "superblock", "mount", "alreadyFormatted", "fault"}
    /\ used \in BOOLEAN
    /\ cut \in BOOLEAN
    /\ failures \in 0 .. MaxFailures

\* A device as it is made.
Init ==
    /\ superblock = "erased"
    /\ fs = [b \in Blocks |-> "erased"]
    /\ pc = "off"
    /\ why = "none"
    /\ used = FALSE
    /\ cut = FALSE
    /\ failures = 0

AllErased == [b \in Blocks |-> "erased"]
Formatted == {b \in Blocks : fs[b] = "valid"}

-----------------------------------------------------------------------------
Goes(from, to) == pc = from /\ pc' = to

Panics(reason) ==
    /\ pc' = "panic"
    /\ why' = reason
    /\ cut' = (cut \/ pc \in FormatSteps)
    /\ UNCHANGED <<chipVars, used, failures>>

\* Fault: a file system that does not mount is formatted.
OnErrorFormats(reason) ==
    IF pc = "mount" THEN pc' = "eraseChip" /\ UNCHANGED <<chipVars, why, used, cut, failures>>
    ELSE Panics(reason)

\* REQUIRE(!err, ...)
OnError(reason) == Panics(reason)

PowerOn ==
    /\ Goes("off", "identify")
    /\ UNCHANGED <<chipVars, why, used, cut, failures>>

\* Identify, IdentifyFlash and reset.
Identifies ==
    /\ Goes("identify", "readSuperblock")
    /\ UNCHANGED <<chipVars, why, used, cut, failures>>

\* Fault: what was read is not looked at.
LooksEmptyAlways(contents) == TRUE

LooksEmpty(contents) == contents = "erased"

\* reset is not given the time it needs: what is read then may be all ones.
ReadsAs(contents) ==
    {contents} \cup (IF "settling" \in Risks THEN {"erased"} ELSE {})

ReadsSuperblock ==
    /\ pc = "readSuperblock"
    /\ \E read \in ReadsAs(superblock) :
          pc' = IF LooksEmpty(read) THEN "eraseChip" ELSE "validate"
    /\ UNCHANGED <<chipVars, why, used, cut, failures>>

-----------------------------------------------------------------------------
(* FormatNor. *)

ErasesChip ==
    /\ Goes("eraseChip", "writeSuperblock")
    /\ superblock' = "erased"
    /\ fs' = AllErased
    /\ UNCHANGED <<why, used, cut, failures>>

WritesSuperblock ==
    /\ Goes("writeSuperblock", "probe")
    /\ superblock' = "valid"
    /\ UNCHANGED <<fs, why, used, cut, failures>>

\* SPIFFS_mount.  One block that is not in order is passed over, or erased.
MountOutcomes ==
    CASE Formatted = Blocks                     -> {"ok"}
      [] Cardinality(Blocks \ Formatted) = 1    -> {"ok", "notAFs"}
      [] OTHER                                  -> {"notAFs"}

\* NorFs::Format mounts first, to fail with SPIFFS_ERR_NOT_A_FS.
Probes ==
    /\ pc = "probe"
    /\ \/ /\ "notAFs" \in MountOutcomes
          /\ pc' = "formatBlocks"
          /\ UNCHANGED <<chipVars, why, used, cut, failures>>
       \/ "ok" \in MountOutcomes /\ Panics("alreadyFormatted")

\* SPIFFS_format: each block is erased and given its magic.
FormatsBlock(b) ==
    /\ pc = "formatBlocks"
    /\ fs[b] # "valid"
    /\ fs' = [fs EXCEPT ![b] = "valid"]
    /\ UNCHANGED <<superblock, pc, why, used, cut, failures>>

\* Fault: formatting is thought to be over before it is.
FormatOverEarly == Cardinality(Blocks \ Formatted) <= 2

FormatOver == Formatted = Blocks

FormatEnds ==
    /\ Goes("formatBlocks", "reset")
    /\ FormatOver
    /\ UNCHANGED <<chipVars, why, used, cut, failures>>

\* NVIC_SystemReset, which the chip does not notice.
Resets ==
    /\ Goes("reset", "identify")
    /\ UNCHANGED <<chipVars, why, used, cut, failures>>

-----------------------------------------------------------------------------
\* Size, magic, CRC; the version is printed.
SuperblockValid == superblock = "valid"

Validates ==
    /\ pc = "validate"
    /\ \/ /\ SuperblockValid
          /\ pc' = "mount"
          /\ UNCHANGED <<chipVars, why, used, cut, failures>>
       \/ ~SuperblockValid /\ Panics("superblock")

\* NorFs::Mount, and CheckSpiffsConsistency.
Mounts ==
    /\ pc = "mount"
    /\ \/ /\ "ok" \in MountOutcomes
          /\ pc' = "running"
          /\ used' = TRUE
          /\ fs' = [b \in Blocks |-> "valid"]
          /\ UNCHANGED <<superblock, why, cut, failures>>
       \/ "notAFs" \in MountOutcomes /\ OnError("mount")

\* The REQUIREs on what the driver returns, and on malloc.
Fails ==
    \/ /\ pc \in {"identify", "readSuperblock", "mount"} \cup (FormatSteps \ {"reset"})
       /\ OnError("io")
    \/ /\ pc \in {"readSuperblock", "mount", "probe"}
       /\ OnError("memory")

\* What a step that is interrupted leaves of the contents it works on.
Torn(contents, to) == {contents, "torn", to}

PowerFails ==
    /\ pc # "off"
    /\ failures < MaxFailures
    /\ failures' = failures + 1
    /\ pc' = "off"
    /\ why' = "none"
    /\ cut' = (cut \/ pc \in FormatSteps \ {"reset"})
    /\ CASE pc = "eraseChip" ->
              /\ superblock' \in Torn(superblock, "erased")
              /\ fs' \in [Blocks -> Contents]
              /\ \A b \in Blocks : fs'[b] \in Torn(fs[b], "erased")
         [] pc = "writeSuperblock" ->
              superblock' \in Torn(superblock, "valid") /\ UNCHANGED fs
         [] pc = "formatBlocks" ->
              /\ UNCHANGED superblock
              /\ \E b \in Blocks \ Formatted, contents \in Contents :
                    fs' = [fs EXCEPT ![b] = contents]
         [] OTHER -> UNCHANGED chipVars
    /\ UNCHANGED used

-----------------------------------------------------------------------------
Boot ==
    \/ PowerOn
    \/ Identifies
    \/ ReadsSuperblock
    \/ ErasesChip
    \/ WritesSuperblock
    \/ Probes
    \/ \E b \in Blocks : FormatsBlock(b)
    \/ FormatEnds
    \/ Resets
    \/ Validates
    \/ Mounts

Next == Boot \/ Fails \/ PowerFails

Spec == Init /\ [][Next]_vars

-----------------------------------------------------------------------------
(* Properties. *)

\* Once a device has run, nothing that boot does ever touches its superblock
\* and file system again, however often power fails.
FilesKept == used => superblock = "valid" /\ Formatted = Blocks

\* A device whose processor, chip and heap do their work stops at boot only
\* because its format was cut short.  Then it stops at every boot: nothing formats a chip
\* again that is not erased.
PanicMeansCut == pc = "panic" /\ why \notin {"io", "memory", "fault"} => cut
=============================================================================
