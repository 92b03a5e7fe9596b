------------------------------ MODULE NorFlash ------------------------------
(***************************************************************************)
(* The driver of the SPI NOR flash, Fs/Flash.cpp and Flash.h, and as much  *)
(* of the chip as the driver relies on.  One caller runs one operation at  *)
(* a time.  write and erase are cut into pieces the chip can do; a piece,  *)
(* which can be asked for by itself, is a check, a write enable, a command *)
(* and a wait.                                                             *)
(*                                                                         *)
(* The chip ignores commands while it is busy, forgets the write enable    *)
(* with every command, and wraps around at the end of a page.  A memory    *)
(* cell is an address; what is kept of its contents is whether the call    *)
(* that is in progress, or was last, has changed it.                       *)
(***************************************************************************)
EXTENDS Integers

CONSTANTS
    PageSize,       \* pageSizeBytes()
    SectorSize,     \* sectorSizeBytes()
    BlockSize,      \* blockSizeBytes()
    Capacity,       \* capacityBytes()
    WrapMask,       \* 0x100: addresses & 0xFF are checked against the page size
    Addresses,      \* addresses operations are called with, ...
    Lengths         \* ... and numbers of bytes

ASSUME GeometryAssumption ==
    /\ PageSize \in Nat \ {0}
    /\ SectorSize \in Nat \ {0} /\ SectorSize % PageSize = 0
    /\ BlockSize \in Nat \ {0}  /\ BlockSize % SectorSize = 0
    /\ Capacity \in Nat \ {0}   /\ Capacity % BlockSize = 0
ASSUME CallsAssumption == Addresses \subseteq 0 .. Capacity - 1 /\ Lengths \subseteq 0 .. Capacity
ASSUME WrapMaskAssumption == WrapMask \in Nat \ {0}

VARIABLES
    call,       \* the operation that was called
    offset,     \* bytes of it that are finished
    pc,         \* where the driver is in it
    result,     \* what it returned
    busy,       \* bit of the chip's status register
    writable,   \* the chip's write enable latch
    doing,      \* cells the chip is programming or erasing
    done,       \* cells changed since the call
    idleChip    \* the chip was idle when the operation was called

chipVars == <<busy, writable, doing, done>>
vars == <<call, offset, pc, result, busy, writable, doing, done, idleChip>>

-----------------------------------------------------------------------------
Cells == 0 .. Capacity - 1
Region(address, length) == address .. address + length - 1

\* The operations that are one piece whatever they are asked for, and the others.
Single == {"writePage", "eraseSector", "eraseBlock", "eraseChip"}
Writes == {"write", "writePage"}
Kinds == Single \cup {"write", "erase"}
Call == [kind : Kinds, address : Addresses, length : Lengths]
\* "misaligned" is the UnalignedAddress of eraseSector and eraseBlock, to tell
\* it from that of erase.
Errors == {"invalid", "unaligned", "tooBig", "misaligned", "io", "timeout"}

TypeOK ==
    /\ call \in [kind : Kinds, address : Cells, length : 0 .. Capacity]
    /\ offset \in 0 .. Capacity
    /\ pc \in {"idle", "enable", "command", "wait"}
    /\ result \in {"none", "ok"} \cup Errors
    /\ busy \in BOOLEAN
    /\ writable \in BOOLEAN
    /\ doing \subseteq Cells
    /\ done \subseteq Cells
    /\ idleChip \in BOOLEAN

Init ==
    /\ call = [kind |-> "write", address |-> 0, length |-> 0]
    /\ offset = 0
    /\ pc = "idle"
    /\ result = "none"
    /\ busy = FALSE
    /\ writable = FALSE
    /\ doing = {}
    /\ done = {}
    /\ idleChip = TRUE

-----------------------------------------------------------------------------
(* The pieces of an operation. *)

Least(a, b) == IF a < b THEN a ELSE b

Start == call.address + offset
Left == call.length - offset

\* Fault: a page is a page, wherever the write starts.
ChunkFull == Least(PageSize, Left)
Chunk == Least(PageSize - (Start % PageSize), Left)

\* Fault: whatever is left, an aligned block is erased.
BlockFitsAligned == Start % BlockSize = 0
BlockFits == Start % BlockSize = 0 /\ Left >= BlockSize

Piece ==
    CASE call.kind \in Single  -> call.length
      [] call.kind = "write"    -> Chunk
      [] call.kind = "erase"    -> IF BlockFits THEN BlockSize ELSE SectorSize

\* The checks of writePage, eraseSector and eraseBlock, the first with 0xFF for
\* the page size.
Refused ==
    IF call.kind \in Writes
    THEN IF Piece + (Start % WrapMask) > PageSize THEN {"tooBig"} ELSE {}
    ELSE IF call.kind # "eraseChip" /\ Start % Piece # 0 THEN {"misaligned"} ELSE {}

\* Cells that the chip changes for a command, of whose payload it got n bytes.
PageBase == Start - (Start % PageSize)
Affected(n) ==
    IF call.kind \in Writes
    THEN {PageBase + ((Start + i) % PageSize) : i \in 0 .. n - 1}
    ELSE Region(Start - (Start % Piece), Piece)

-----------------------------------------------------------------------------
Return(what) ==
    /\ pc' = "idle"
    /\ result' = what
    /\ UNCHANGED <<call, offset, idleChip>>

\* The checks on entry to write and erase; there is nothing to do for an erase
\* of no bytes.
Answer(c) ==
    CASE c.kind \in Writes /\ c.length = 0               -> "invalid"
      [] c.kind = "erase" /\ c.address % SectorSize # 0  -> "unaligned"
      [] c.kind = "erase" /\ c.length % SectorSize # 0   -> "unaligned"
      [] c.kind = "erase" /\ c.length = 0                -> "ok"
      [] OTHER                                           -> "none"

Legal(c) ==
    /\ c.address + c.length <= Capacity
    /\ c.kind = "eraseSector" => c.length = SectorSize
    /\ c.kind = "eraseBlock" => c.length = BlockSize
    /\ c.kind = "eraseChip" => c.length = Capacity

Calls(c) ==
    /\ pc = "idle"
    /\ Legal(c)
    /\ call' = c
    /\ offset' = 0
    /\ result' = Answer(c)
    /\ pc' = IF Answer(c) = "none" THEN "enable" ELSE "idle"
    /\ done' = {}
    /\ idleChip' = ~busy
    /\ UNCHANGED <<busy, writable, doing>>

\* A piece that does not fit is refused before anything is sent.
Refuses ==
    /\ pc = "enable"
    /\ \E error \in Refused : Return(error)
    /\ UNCHANGED chipVars

\* Fault: once is enough.
NeedsEnableOnce == offset = 0
NeedsEnable == TRUE

\* writeEnable
Enables ==
    /\ pc = "enable"
    /\ Refused = {}
    /\ \/ /\ writable' = (writable \/ (NeedsEnable /\ ~busy))
          /\ pc' = "command"
          /\ UNCHANGED <<call, offset, result, idleChip, busy, doing, done>>
       \/ Return("io") /\ UNCHANGED chipVars

ChipObeys(n) ==
    IF writable /\ ~busy
    THEN busy' = TRUE /\ writable' = FALSE /\ doing' = Affected(n)
    ELSE UNCHANGED <<busy, writable, doing>>

\* ExecCmd, ExecCmdWrite.  An error in the payload comes after the chip got the
\* command and n bytes, which it programs once it is deselected.
Commands ==
    /\ pc = "command"
    /\ \/ /\ ChipObeys(Piece)
          /\ pc' = "wait"
          /\ UNCHANGED <<call, offset, result, idleChip>>
       \/ Return("io") /\ UNCHANGED <<busy, writable, doing>>
       \/ /\ call.kind \in Writes
          /\ \E n \in 1 .. Piece - 1 : ChipObeys(n)
          /\ Return("io")
    /\ UNCHANGED done

Advanced == offset + Piece

\* waitForCompletion: the chip is no longer busy.
Proceeds ==
    /\ pc = "wait"
    /\ ~busy
    /\ offset' = Advanced
    /\ \/ /\ Advanced = call.length
          /\ pc' = "idle"
          /\ result' = "ok"
       \/ /\ Advanced # call.length
          /\ pc' = "enable"
          /\ UNCHANGED result
    /\ UNCHANGED <<call, idleChip, chipVars>>

\* waitForCompletion: the status cannot be read, or the chip is busy for too
\* long, which is noticed only while the scheduler runs.
Abandons ==
    /\ pc = "wait"
    /\ \/ Return("io")
       \/ busy /\ Return("timeout")
    /\ UNCHANGED chipVars

ChipFinishes ==
    /\ busy
    /\ busy' = FALSE
    /\ doing' = {}
    /\ done' = done \cup doing
    /\ UNCHANGED <<call, offset, pc, result, idleChip, writable>>

Driver == Refuses \/ Enables \/ Commands \/ Proceeds \/ Abandons

Next == (\E c \in Call : Calls(c)) \/ Driver \/ ChipFinishes

Spec == Init /\ [][Next]_vars

-----------------------------------------------------------------------------
(* Properties.  Of a call that found the chip busy nothing is claimed: the   *)
(* chip ignores its commands and it may return success all the same.         *)

\* What the driver returns is true: after success all that was asked for is
\* programmed or erased, and a piece that write or erase cut is never refused
\* for its size or its place.
ResultHonest ==
    /\ idleChip /\ pc = "idle" /\ result = "ok" => done = Region(call.address, call.length)
    /\ result \in {"tooBig", "misaligned"} => call.kind \in Single

\* Whatever fails on the way, the cells that were changed are the first ones of
\* those the caller named: none beyond, none skipped, none wrapped around.
ChangesPrefix ==
    idleChip => \E n \in 0 .. call.length : done \cup doing = Region(call.address, n)
=============================================================================
