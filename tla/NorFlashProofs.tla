--------------------------- MODULE NorFlashProofs ---------------------------
(***************************************************************************)
(* Theorems about NorFlash, for every chip whose pages, sectors and blocks *)
(* fit into each other, and any calls: what the driver returns is true,    *)
(* and whatever fails, what was changed is a prefix of what was named.     *)
(*                                                                         *)
(* The arithmetic comes first.  It rests on one fact about a piece: it is  *)
(* not empty, not more than what is left, and, unless it is refused, the   *)
(* chip changes its bytes and no others.                                   *)
(***************************************************************************)
EXTENDS NorFlash, TLAPS

\* The check of writePage is against the chip's page, as for pages of 256 bytes.
MaskFits == WrapMask = PageSize

\* An operation in progress passed the checks on entry and is not finished, and
\* what the chip is sent was not refused.
UnderWay ==
    pc # "idle" =>
        /\ Answer(call) = "none" /\ Legal(call)
        /\ result = "none"
        /\ offset < call.length
        /\ call.kind \in Single => offset = 0
        /\ call.kind = "erase" => offset % SectorSize = 0
        /\ pc # "enable" => Refused = {}

\* How far the chip is, if the operation found it idle.
Changed ==
    /\ ~busy => doing = {}
    /\ idleChip /\ pc \in {"enable", "command"} =>
          ~busy /\ done = Region(call.address, offset)
    /\ idleChip /\ pc = "command" => writable
    /\ idleChip /\ result = "ok" => ~busy
    /\ idleChip /\ pc = "wait" =>
          IF busy THEN done = Region(call.address, offset) /\ doing = Region(Start, Piece)
                  ELSE done = Region(call.address, Advanced)

FlashInv == TypeOK /\ UnderWay
IInv == FlashInv /\ Changed /\ ChangesPrefix /\ ResultHonest

-----------------------------------------------------------------------------
(* Multiples and remainders. *)

\* What division and remainder are to each other.
LEMMA Remainder ==
    ASSUME NEW n \in Nat \ {0}, NEW a \in Int
    PROVE  a = n * (a \div n) + (a % n) /\ a % n \in 0 .. n - 1 /\ a \div n \in Int
    OBVIOUS

\* How large a remainder is.
LEMMA RemainderIsLess ==
    ASSUME NEW n \in Nat \ {0}, NEW a \in Nat
    PROVE  a % n \in 0 .. n - 1 /\ a % n <= a
    OBVIOUS

\* A product has no remainder.
LEMMA Multiple ==
    ASSUME NEW n \in Nat \ {0}, NEW q \in Int
    PROVE  (n * q) % n = 0
    OBVIOUS

\* Within n of a multiple, the remainder counts along.
LEMMA CountsAlong ==
    ASSUME NEW n \in Nat \ {0}, NEW a \in Int, NEW i \in Nat, (a % n) + i < n
    PROVE  (a + i) % n = (a % n) + i
    OBVIOUS

\* A multiple that is more than 0 is at least n.
LEMMA AtLeastOnce ==
    ASSUME NEW n \in Nat \ {0}, NEW a \in Nat \ {0}, a % n = 0
    PROVE  a >= n
    OBVIOUS

\* Sums and differences of multiples are multiples.
LEMMA SumsOfMultiples ==
    ASSUME NEW n \in Nat \ {0}, NEW a \in Int, NEW b \in Int, a % n = 0, b % n = 0
    PROVE  (a + b) % n = 0 /\ (a - b) % n = 0
<1> DEFINE p == a \div n
           q == b \div n
<1>1. p \in Int /\ q \in Int /\ a = n * p /\ b = n * q
    BY Remainder
<1> HIDE DEF p, q
<1>2. a + b = n * (p + q) /\ a - b = n * (p - q) /\ p + q \in Int /\ p - q \in Int
    BY <1>1
<1> QED
    BY <1>2, Multiple

\* A multiple of a multiple is one.
LEMMA MultiplesOfMultiples ==
    ASSUME NEW n \in Nat \ {0}, NEW m \in Nat \ {0}, NEW a \in Int, a % n = 0, n % m = 0
    PROVE  a % m = 0
<1> DEFINE p == a \div n
           q == n \div m
<1>1. p \in Int /\ q \in Int /\ a = n * p /\ n = m * q
    BY Remainder
<1> HIDE DEF p, q
<1>2. a = m * (q * p) /\ q * p \in Int
    BY <1>1
<1> QED
    BY <1>2, Multiple

\* What is left below the start of a page is a multiple of it.
LEMMA PageStart ==
    ASSUME NEW n \in Nat \ {0}, NEW a \in Int
    PROVE  (a - (a % n)) % n = 0
<1>1. a - (a % n) = n * (a \div n) /\ a \div n \in Int
    BY Remainder
<1> QED
    BY <1>1, Multiple

\* Whole pages and sectors make up the chip and its blocks.
LEMMA Geometry ==
    /\ PageSize \in Nat \ {0} /\ SectorSize \in Nat \ {0}
    /\ BlockSize \in Nat \ {0} /\ Capacity \in Nat \ {0} /\ WrapMask \in Nat \ {0}
    /\ BlockSize % SectorSize = 0
    /\ Capacity % PageSize = 0
<1>1. SectorSize % PageSize = 0 /\ BlockSize % SectorSize = 0 /\ Capacity % BlockSize = 0
    BY GeometryAssumption
<1>2. /\ PageSize \in Nat \ {0} /\ SectorSize \in Nat \ {0} /\ BlockSize \in Nat \ {0}
      /\ Capacity \in Nat \ {0} /\ WrapMask \in Nat \ {0}
    BY GeometryAssumption, WrapMaskAssumption
<1>3. BlockSize \in Int /\ Capacity \in Int
    BY <1>2
<1>4. BlockSize % PageSize = 0
    BY ONLY <1>1, <1>2, <1>3, MultiplesOfMultiples
<1>5. Capacity % PageSize = 0
    BY ONLY <1>1, <1>2, <1>3, <1>4, MultiplesOfMultiples
<1> QED
    BY ONLY <1>1, <1>2, <1>5

\* A sector's size divides itself.
LEMMA Itself == ASSUME NEW n \in Nat \ {0} PROVE n % n = 0
    OBVIOUS

-----------------------------------------------------------------------------
(* The pieces of an operation. *)

\* What a call is made of.
LEMMA CallsAre ==
    ASSUME NEW c \in Call
    PROVE  /\ c \in [kind : Kinds, address : Cells, length : 0 .. Capacity]
           /\ c.kind \in Kinds /\ c.address \in Nat /\ c.length \in Nat
<1>1. c.kind \in Kinds /\ c.address \in Addresses /\ c.length \in Lengths
    BY DEF Call
<1>2. c.address \in Cells /\ c.length \in 0 .. Capacity
    BY <1>1, CallsAssumption DEF Cells
<1>3. c = [kind |-> c.kind, address |-> c.address, length |-> c.length]
    BY DEF Call
<1> QED
    BY <1>1, <1>2, <1>3, Geometry DEF Cells

\* And the numbers of the one in progress.
LEMMA Numbers ==
    ASSUME TypeOK
    PROVE  call.kind \in Kinds /\ call.address \in Nat /\ call.length \in Nat /\ offset \in Nat
    BY Geometry DEF TypeOK, Cells

\* A piece is not empty, and no more than what is left; an operation that is
\* one piece is finished with it, and an erase is cut at sectors.
LEMMA PieceFits ==
    ASSUME FlashInv, pc # "idle"
    PROVE  /\ Start \in Cells
           /\ Left \in 1 .. Capacity
           /\ Piece \in 1 .. Left
           /\ Start + Left <= Capacity
           /\ call.kind \in Single => Piece = Left
           /\ call.kind = "erase" => Advanced % SectorSize = 0
<1> USE DEF FlashInv
<1>1. /\ call.kind \in Kinds /\ call.address \in Cells /\ call.length \in 0 .. Capacity
      /\ offset \in 0 .. Capacity /\ offset < call.length
      /\ call.address + call.length <= Capacity
    BY DEF TypeOK, UnderWay, Legal
<1>2. Start \in Cells /\ Left \in 1 .. Capacity /\ Start + Left <= Capacity
    BY <1>1, Geometry DEF Start, Left, Cells
<1>3. CASE call.kind \in Single
  <2>1. offset = 0
    BY <1>3 DEF UnderWay
  <2>2. Piece = Left
    BY <1>1, <1>3, <2>1 DEF Piece, Left, Single
  <2> QED
    BY <1>2, <1>3, <2>2 DEF Single
<1>4. CASE call.kind = "write"
  <2>1. Piece = Chunk
    BY <1>4 DEF Piece, Single
  <2>2. Start % PageSize \in 0 .. PageSize - 1
    BY <1>2, Geometry, RemainderIsLess DEF Cells
  <2>3. Chunk \in 1 .. Left
    BY <1>2, <2>2, Geometry DEF Chunk, Least
  <2> QED
    BY <1>2, <1>4, <2>1, <2>3 DEF Single
<1>5. CASE call.kind = "erase"
  <2>1. Piece = IF BlockFits THEN BlockSize ELSE SectorSize
    BY <1>5 DEF Piece, Single
  <2>2. call.length % SectorSize = 0 /\ offset % SectorSize = 0
    BY <1>5 DEF UnderWay, Answer, Writes
  <2>3. Left % SectorSize = 0
    BY <1>1, <2>2, Geometry, SumsOfMultiples DEF Left
  <2>4. Left >= SectorSize
    BY <1>2, <2>3, Geometry, AtLeastOnce
  <2>5. Piece \in 1 .. Left
    BY <1>2, <2>1, <2>4, Geometry DEF BlockFits
  <2>6. Piece % SectorSize = 0
    BY <2>1, Geometry, Itself
  <2>7. Advanced % SectorSize = 0
    BY <1>1, <2>2, <2>5, <2>6, Geometry, SumsOfMultiples, SMTT(30) DEF Advanced
  <2> QED
    BY <1>2, <1>5, <2>5, <2>7 DEF Single
<1> QED
    BY <1>1, <1>3, <1>4, <1>5 DEF Kinds

\* Of what write and erase cut, nothing is refused.
LEMMA NeverRefused ==
    ASSUME MaskFits, FlashInv, pc # "idle", call.kind \notin Single
    PROVE  Refused = {}
<1>1. Start \in Cells /\ Left \in 1 .. Capacity
    BY PieceFits
<1>2. CASE call.kind = "write"
  <2>1. Piece = Chunk
    BY <1>2 DEF Piece, Single
  <2>2. Start % PageSize \in 0 .. PageSize - 1
    BY <1>1, Geometry, RemainderIsLess DEF Cells
  <2>3. Chunk \in Int /\ Chunk + (Start % PageSize) <= PageSize
    BY <1>1, <2>2, Geometry DEF Chunk, Least
  <2> QED
    BY <1>2, <2>1, <2>2, <2>3, Geometry DEF Refused, Writes, MaskFits
<1>3. CASE call.kind = "erase"
  <2>1. Piece = IF BlockFits THEN BlockSize ELSE SectorSize
    BY <1>3 DEF Piece, Single
  <2>2. call.address \in Int /\ offset \in Int
    BY DEF FlashInv, TypeOK, Cells
  <2>3. call.address % SectorSize = 0 /\ offset % SectorSize = 0
    BY <1>3 DEF FlashInv, UnderWay, Answer, Writes
  <2>4. Start % SectorSize = 0
    BY <2>2, <2>3, Geometry, SumsOfMultiples DEF Start
  <2>5. Start % Piece = 0
    BY <2>1, <2>4 DEF BlockFits
  <2> QED
    BY <1>3, <2>5 DEF Refused, Writes
<1> QED
    BY <1>2, <1>3 DEF FlashInv, TypeOK, Kinds

\* Whatever part of a piece it gets, the chip changes cells it has: at most
\* the page that it wraps around in.
LEMMA ChangesCells ==
    ASSUME FlashInv, pc = "command", NEW n \in 1 .. Piece, n = Piece \/ call.kind \in Writes
    PROVE  Affected(n) \subseteq Cells
<1>1. /\ Start \in Cells /\ Left \in 1 .. Capacity /\ Piece \in 1 .. Left
      /\ Start + Left <= Capacity
    BY PieceFits
<1>2. CASE call.kind \in Writes
  <2>1. Start % PageSize \in 0 .. PageSize - 1 /\ Start % PageSize <= Start
    <3>1. Start \in Nat
      BY <1>1 DEF Cells
    <3> QED
      BY ONLY <3>1, Geometry, RemainderIsLess
  <2>2. PageBase \in 0 .. Capacity - 1 /\ PageBase % PageSize = 0
    <3>1. PageBase \in 0 .. Capacity - 1 /\ Start \in Int
      BY <1>1, <2>1, Geometry DEF PageBase, Cells
    <3>2. (Start - (Start % PageSize)) % PageSize = 0
      BY ONLY <3>1, Geometry, PageStart
    <3> QED
      BY <3>1, <3>2 DEF PageBase
  <2>3. (Capacity - PageBase) % PageSize = 0
    <3>1. PageBase \in Int /\ Capacity \in Int
      BY <2>2, Geometry
    <3> QED
      BY ONLY <2>2, <3>1, Geometry, SumsOfMultiples
  <2>4. Capacity - PageBase \in Nat \ {0}
    BY <2>2, Geometry
  <2>5. Capacity - PageBase >= PageSize
    BY <2>3, <2>4, Geometry, AtLeastOnce
  <2>6. ASSUME NEW i \in 0 .. n - 1
        PROVE  PageBase + ((Start + i) % PageSize) \in Cells
    <3>1. (Start + i) % PageSize \in 0 .. PageSize - 1
      BY <1>1, Geometry, RemainderIsLess DEF Cells
    <3> QED
      BY <2>2, <2>5, <3>1, Geometry DEF Cells
  <2> QED
    BY <1>2, <2>6 DEF Affected
<1>3. CASE call.kind \notin Writes
  <2>1. Start - (Start % Piece) \in 0 .. Capacity /\ Start - (Start % Piece) + Piece <= Capacity
    <3>1. Start \in Nat /\ Piece \in Nat \ {0} /\ Start + Piece <= Capacity
      BY <1>1, Geometry DEF Cells
    <3>2. Start % Piece \in 0 .. Piece - 1 /\ Start % Piece <= Start
      BY <3>1, RemainderIsLess
    <3> QED
      BY <3>1, <3>2, Geometry
  <2> QED
    BY <1>1, <1>3, <2>1, Geometry DEF Affected, Region, Cells
<1> QED
    BY <1>2, <1>3

\* And if the piece was not refused, these are the next ones.
LEMMA ChangesNext ==
    ASSUME MaskFits, FlashInv, pc = "command",
           NEW n \in 1 .. Piece, n = Piece \/ call.kind \in Writes
    PROVE  Affected(n) = Region(Start, n)
<1>1. /\ Start \in Cells /\ Left \in 1 .. Capacity /\ Piece \in 1 .. Left
      /\ Start + Left <= Capacity
      /\ call.kind \in Single => Piece = Left
    BY PieceFits
<1>2. Refused = {}
    BY DEF FlashInv, UnderWay
<1>3. CASE call.kind \in Writes
  <2>1. Piece + (Start % PageSize) <= PageSize
    BY <1>2, <1>3, <1>1, Geometry DEF Refused, MaskFits, Cells
  <2>2. Start % PageSize \in 0 .. PageSize - 1
    BY <1>1, Geometry, RemainderIsLess DEF Cells
  <2>3. ASSUME NEW i \in 0 .. n - 1
        PROVE  PageBase + ((Start + i) % PageSize) = Start + i
    <3>1. (Start % PageSize) + i < PageSize
      BY <1>1, <2>1, <2>2, Geometry
    <3>2. (Start + i) % PageSize = (Start % PageSize) + i
      BY <1>1, <3>1, Geometry, CountsAlong DEF Cells
    <3> QED
      BY <1>1, <2>2, <3>2 DEF PageBase, Cells
  <2>4. Affected(n) = {Start + i : i \in 0 .. n - 1}
    BY <1>3, <2>3 DEF Affected
  <2> HIDE <2>3
  <2>5. {Start + i : i \in 0 .. n - 1} = Start .. Start + n - 1
    <3>1. Start \in Int /\ n \in Int
      BY <1>1 DEF Cells
    <3>2. ASSUME NEW x \in Start .. Start + n - 1 PROVE \E i \in 0 .. n - 1 : x = Start + i
      <4>1. x - Start \in 0 .. n - 1 /\ x = Start + (x - Start)
        BY <3>1
      <4> QED
        BY <4>1
    <3> QED
      BY <3>1, <3>2
  <2> QED
    BY <2>4, <2>5 DEF Region
<1>4. CASE call.kind \notin Writes
  <2>1. Start % Piece = 0
    <3>1. CASE call.kind = "eraseChip"
      <4>1. call.length = Capacity /\ offset = 0 /\ call.address + call.length <= Capacity
        BY <3>1 DEF FlashInv, UnderWay, Legal, Single
      <4>2. Start = 0
        BY <4>1, Geometry DEF Start, FlashInv, TypeOK, Cells
      <4> QED
        BY <1>1, <4>2
    <3>2. CASE call.kind # "eraseChip"
      BY <1>2, <1>4, <3>2 DEF Refused
    <3> QED
      BY <3>1, <3>2
  <2>2. Start - (Start % Piece) = Start /\ n = Piece
    BY <1>1, <1>4, <2>1 DEF Cells
  <2> QED
    BY <1>4, <2>2 DEF Affected
<1> QED
    BY <1>3, <1>4

\* A busy chip can only be working for the caller if it was sent a command.
LEMMA ChipFollows ==
    ASSUME MaskFits, FlashInv, Changed, pc = "command", idleChip,
           NEW n \in 1 .. Piece, n = Piece \/ call.kind \in Writes, ChipObeys(n)
    PROVE  /\ busy' /\ doing' = Region(Start, n)
           /\ done \cup doing' = Region(call.address, offset + n)
           /\ offset + n \in 0 .. call.length
<1>1. ~busy /\ writable /\ done = Region(call.address, offset)
    BY DEF Changed
<1>2. busy' /\ doing' = Region(Start, n)
    BY <1>1, ChangesNext DEF ChipObeys
<1>3. call.address \in Nat /\ offset \in Nat /\ n \in Nat /\ call.length \in Nat
    BY PieceFits DEF FlashInv, TypeOK, Cells
<1>4. done \cup doing' = Region(call.address, offset + n)
  <2>1. Region(call.address, offset) \cup Region(call.address + offset, n)
           = Region(call.address, offset + n)
    BY <1>3 DEF Region
  <2> QED
    BY <1>1, <1>2, <2>1 DEF Start
<1>5. offset + n \in 0 .. call.length
    BY <1>3, PieceFits DEF Left
<1> QED
    BY <1>1, <1>2, <1>4, <1>5

-----------------------------------------------------------------------------
(* Types, and what an operation under way has passed. *)

LEMMA InitInv == Init => IInv
<1> SUFFICES ASSUME Init PROVE IInv
    OBVIOUS
<1> USE DEF Init
<1>1. TypeOK
  <2>1. 0 \in Cells /\ 0 \in 0 .. Capacity
    BY Geometry DEF Cells
  <2> QED
    BY <2>1 DEF TypeOK, Kinds
<1>2. UnderWay /\ Changed /\ ResultHonest
    BY DEF UnderWay, Changed, ResultHonest
<1>3. ChangesPrefix
  <2>1. done \cup doing = Region(call.address, 0) /\ 0 \in 0 .. call.length
    BY DEF Region
  <2> QED
    BY <2>1 DEF ChangesPrefix
<1> QED
    BY <1>1, <1>2, <1>3 DEF IInv, FlashInv

LEMMA StepKeepsTypes ==
    ASSUME FlashInv, [Next]_vars
    PROVE  TypeOK'
<1> USE DEF FlashInv
<1>1. CASE \E c \in Call : Calls(c)
  <2>1. PICK c \in Call : Calls(c)
    BY <1>1
  <2>2. c \in [kind : Kinds, address : Cells, length : 0 .. Capacity]
    BY CallsAre
  <2>3. Answer(c) \in {"none", "ok"} \cup Errors
    BY DEF Answer, Errors
  <2> QED
    BY <2>1, <2>2, <2>3, Geometry DEF Calls, TypeOK
<1>2. CASE Refuses
    BY <1>2 DEF Refuses, Return, Refused, Errors, TypeOK, chipVars
<1>3. CASE Enables
    BY <1>3 DEF Enables, Return, Errors, TypeOK, chipVars
<1>4. CASE Commands
  <2>1. ASSUME NEW n \in 1 .. Piece, n = Piece \/ call.kind \in Writes, ChipObeys(n)
        PROVE  busy' \in BOOLEAN /\ writable' \in BOOLEAN /\ doing' \subseteq Cells
    <3>1. Affected(n) \subseteq Cells
      BY <1>4, <2>1, ChangesCells DEF Commands
    <3> QED
      BY <2>1, <3>1 DEF ChipObeys, TypeOK
  <2>2. Piece \in 1 .. Left /\ Left \in Int
    BY <1>4, PieceFits DEF Commands
  <2>3. busy' \in BOOLEAN /\ writable' \in BOOLEAN /\ doing' \subseteq Cells
    <3>1. CASE ChipObeys(Piece)
      BY <2>1, <2>2, <3>1
    <3>2. CASE UNCHANGED <<busy, writable, doing>>
      BY <3>2 DEF TypeOK
    <3>3. CASE call.kind \in Writes /\ \E n \in 1 .. Piece - 1 : ChipObeys(n)
      BY <2>1, <2>2, <3>3
    <3> QED
      BY <1>4, <3>1, <3>2, <3>3 DEF Commands
  <2>4. /\ call' = call /\ offset' = offset /\ idleChip' = idleChip /\ done' = done
        /\ pc' \in {"wait", "idle"} /\ result' \in {result, "io"}
    BY <1>4 DEF Commands, Return
  <2> QED
    BY <2>3, <2>4 DEF TypeOK, Errors
<1>5. CASE Proceeds
  <2>1. Piece \in 1 .. Left
    BY <1>5, PieceFits DEF Proceeds
  <2>2. call.length \in 0 .. Capacity /\ offset \in 0 .. Capacity
    BY DEF TypeOK
  <2>3. Advanced \in 0 .. Capacity
    BY <2>1, <2>2, Geometry DEF Advanced, Left
  <2> QED
    BY <1>5, <2>3 DEF Proceeds, TypeOK, chipVars
<1>6. CASE Abandons
    BY <1>6 DEF Abandons, Return, Errors, TypeOK, chipVars
<1>7. CASE ChipFinishes
    BY <1>7 DEF ChipFinishes, TypeOK
<1>8. CASE UNCHANGED vars
    BY <1>8 DEF vars, chipVars, TypeOK
<1> QED
    BY <1>1, <1>2, <1>3, <1>4, <1>5, <1>6, <1>7, <1>8 DEF Next, Driver

LEMMA StepKeepsUnderWay ==
    ASSUME FlashInv, [Next]_vars
    PROVE  UnderWay'
<1> USE DEF FlashInv
<1>1. CASE \E c \in Call : Calls(c)
  <2>1. PICK c \in Call : Calls(c)
    BY <1>1
  <2>2. CASE Answer(c) # "none"
    BY <2>1, <2>2 DEF Calls, UnderWay
  <2>3. CASE Answer(c) = "none"
    <3>1. c.length \in Nat /\ c.kind \in Kinds
      BY CallsAre
    <3>2. c.length > 0
      BY <2>1, <2>3, <3>1, Geometry DEF Answer, Calls, Legal, Kinds, Single, Writes
    <3>3. 0 % SectorSize = 0
      BY Geometry
    <3>4. call' = c /\ offset' = 0 /\ pc' = "enable" /\ result' = "none" /\ Legal(c)
      BY <2>1, <2>3 DEF Calls
    <3> QED
      BY <2>3, <3>2, <3>3, <3>4 DEF UnderWay, Answer, Legal, Single, Writes
  <2> QED
    BY <2>2, <2>3
<1>2. CASE Refuses \/ Abandons
    BY <1>2 DEF Refuses, Abandons, Return, UnderWay
<1>3. CASE Enables
  <2>1. Refused = {} /\ call' = call /\ offset' = offset
    BY <1>3 DEF Enables, Return
  <2>2. Refused' = Refused
    BY <2>1 DEF Refused, Piece, Chunk, BlockFits, Least, Start, Left
  <2>3. CASE pc' = "idle"
    BY <2>3 DEF UnderWay
  <2>4. CASE pc' # "idle"
    BY <1>3, <2>1, <2>2, <2>4 DEF Enables, Return, UnderWay, Answer, Legal
  <2> QED
    BY <2>3, <2>4
<1>4. CASE Commands
  <2>1. call' = call /\ offset' = offset
    BY <1>4 DEF Commands, Return
  <2>2. Refused' = Refused
    BY <2>1 DEF Refused, Piece, Chunk, BlockFits, Least, Start, Left
  <2>3. pc' = "idle" \/ (pc' = "wait" /\ result' = result)
    BY <1>4 DEF Commands, Return
  <2> QED
    BY <1>4, <2>1, <2>2, <2>3 DEF Commands, UnderWay, Answer, Legal
<1>5. CASE Proceeds
  <2>1. pc = "wait" /\ call' = call /\ offset' = Advanced
    BY <1>5 DEF Proceeds
  <2>2. /\ Piece \in 1 .. Left /\ Left \in Int
        /\ call.kind \in Single => Piece = Left
        /\ call.kind = "erase" => Advanced % SectorSize = 0
    BY <2>1, PieceFits
  <2>3. Advanced <= call.length /\ Advanced \in Nat /\ call.length \in Nat
    BY <2>2, Numbers DEF Advanced, Left
  <2>4. call.kind \in Single => Advanced = call.length
    BY <2>2, Numbers DEF Advanced, Left
  <2>5. CASE pc' = "idle"
    BY <2>5 DEF UnderWay
  <2>6. CASE pc' # "idle"
    <3>1. Advanced # call.length /\ pc' = "enable" /\ result' = result
      BY <1>5, <2>6 DEF Proceeds
    <3>2. Advanced < call.length /\ call.kind \notin Single
      BY <2>3, <2>4, <3>1
    <3> QED
      BY <2>1, <2>2, <3>1, <3>2 DEF UnderWay, Answer, Legal
  <2> QED
    BY <2>5, <2>6
<1>7. CASE ChipFinishes \/ UNCHANGED vars
  <2>1. UNCHANGED <<call, offset, pc, result>>
    BY <1>7 DEF ChipFinishes, vars
  <2> QED
    BY <2>1 DEF UnderWay, Answer, Legal, Refused, Piece, Chunk, BlockFits, Least, Start, Left
<1> QED
    BY <1>1, <1>2, <1>3, <1>4, <1>5, <1>7 DEF Next, Driver

-----------------------------------------------------------------------------
(* How far the chip is. *)

LEMMA StepKeepsChanged ==
    ASSUME MaskFits, IInv, [Next]_vars
    PROVE  Changed'
<1> USE DEF IInv
<1>1. CASE \E c \in Call : Calls(c)
  <2>1. PICK c \in Call : Calls(c)
    BY <1>1
  <2>2. /\ busy' = busy /\ doing' = doing /\ done' = {} /\ idleChip' = ~busy
        /\ call' = c /\ offset' = 0 /\ pc' \in {"idle", "enable"}
    BY <2>1 DEF Calls
  <2>3. c.address \in Nat
    BY CallsAre
  <2>4. Region(c.address, 0) = {}
    BY <2>3 DEF Region
  <2>5. Region(call.address, offset)' = Region(c.address, 0)
    BY <2>2 DEF Region
  <2> QED
    BY <2>2, <2>4, <2>5 DEF Changed
<1>2. CASE Refuses
    BY <1>2 DEF Refuses, Return, Refused, Changed, chipVars
<1>3. CASE Enables
  <2>1. /\ UNCHANGED <<call, offset, idleChip, busy, doing, done>>
        /\ \/ pc' = "command" /\ writable' = (writable \/ ~busy) /\ result' = result
           \/ pc' = "idle" /\ result' = "io"
        /\ pc = "enable"
    BY <1>3 DEF Enables, Return, chipVars, NeedsEnable
  <2>2. Region(call.address, offset)' = Region(call.address, offset)
    BY <2>1 DEF Region
  <2> QED
    BY <2>1, <2>2 DEF Changed
<1>4. CASE Commands
  <2>1. pc = "command" /\ UNCHANGED <<call, offset, idleChip, done>>
    BY <1>4 DEF Commands, Return
  <2>2. Piece \in 1 .. Left /\ Left \in Int
    BY <2>1, PieceFits
  <2>3. CASE ChipObeys(Piece) /\ pc' = "wait" /\ result' = result
    <3>1. Region(call.address, offset)' = Region(call.address, offset)
      BY <2>1 DEF Region
    <3>2. Region(Start, Piece)' = Region(Start, Piece)
      BY <2>1 DEF Region, Start, Piece, Chunk, BlockFits, Least, Left
    <3>3. ASSUME idleChip PROVE busy' /\ doing' = Region(Start, Piece)
      BY <2>1, <2>2, <2>3, <3>3, ChipFollows
    <3>4. ~busy' => doing' = {}
      BY <2>3 DEF ChipObeys, Changed
    <3>5. result' = "none" /\ (idleChip => done = Region(call.address, offset))
      BY <2>1, <2>3 DEF Changed, FlashInv, UnderWay
    <3> QED
      BY <2>1, <2>3, <3>1, <3>2, <3>3, <3>4, <3>5 DEF Changed
  <2>4. CASE pc' = "idle" /\ result' = "io"
    <3>1. ~busy' => doing' = {}
      BY <1>4 DEF Commands, ChipObeys, Changed
    <3> QED
      BY <2>4, <3>1 DEF Changed
  <2> QED
    BY <1>4, <2>3, <2>4 DEF Commands, Return
<1>5. CASE Proceeds
  <2>1. /\ pc = "wait" /\ ~busy /\ offset' = Advanced /\ UNCHANGED <<call, idleChip, chipVars>>
        /\ pc' \in {"idle", "enable"}
    BY <1>5 DEF Proceeds
  <2>2. Region(call.address, offset)' = Region(call.address, Advanced)
    BY <2>1 DEF Region
  <2> QED
    BY <2>1, <2>2 DEF Changed, chipVars
<1>6. CASE Abandons
    BY <1>6 DEF Abandons, Return, Changed, chipVars
<1>7. CASE ChipFinishes
  <2>1. busy /\ UNCHANGED <<call, offset, pc, result, idleChip>> /\ ~busy' /\ doing' = {}
    BY <1>7 DEF ChipFinishes
  <2>2. ASSUME idleChip, pc = "wait" PROVE done' = Region(call.address, Advanced)
    <3>1. call.address \in Nat /\ offset \in Nat /\ Piece \in Nat
      BY <2>2, PieceFits DEF FlashInv, TypeOK, Cells
    <3>2. done' = Region(call.address, offset) \cup Region(call.address + offset, Piece)
      BY <1>7, <2>1, <2>2 DEF ChipFinishes, Changed, Start
    <3>3. Region(call.address, offset) \cup Region(call.address + offset, Piece)
             = Region(call.address, offset + Piece)
      BY <3>1 DEF Region
    <3> QED
      BY <3>2, <3>3 DEF Advanced
  <2>3. Region(call.address, Advanced)' = Region(call.address, Advanced)
    BY <2>1 DEF Region, Advanced, Piece, Chunk, BlockFits, Least, Start, Left
  <2> QED
    BY <2>1, <2>2, <2>3 DEF Changed
<1>8. CASE UNCHANGED vars
  <2>1. UNCHANGED <<call, offset, pc, result, idleChip, busy, writable, doing, done>>
    BY <1>8 DEF vars, chipVars
  <2> QED
    BY <2>1 DEF Changed, Region, Advanced, Piece, Chunk, BlockFits, Least, Start, Left
<1> QED
    BY <1>1, <1>2, <1>3, <1>4, <1>5, <1>6, <1>7, <1>8 DEF Next, Driver

-----------------------------------------------------------------------------
(* The two properties. *)

LEMMA StepKeepsPrefix ==
    ASSUME MaskFits, IInv, [Next]_vars
    PROVE  ChangesPrefix'
<1> USE DEF IInv
<1>1. CASE \E c \in Call : Calls(c)
  <2>1. PICK c \in Call : Calls(c)
    BY <1>1
  <2>2. doing' = doing /\ done' = {} /\ idleChip' = ~busy /\ call' = c
    BY <2>1 DEF Calls
  <2>3. c.address \in Nat /\ c.length \in Nat
    BY CallsAre
  <2>4. Region(c.address, 0) = {} /\ 0 \in 0 .. c.length
    BY <2>3 DEF Region
  <2> QED
    BY <2>2, <2>4 DEF ChangesPrefix, Changed, Region
<1>2. CASE Commands
  <2>1. pc = "command" /\ UNCHANGED <<call, offset, idleChip, done>>
    BY <1>2 DEF Commands, Return
  <2>2. Piece \in 1 .. Left /\ Left \in Int
    BY <2>1, PieceFits
  <2>3. ASSUME NEW n \in 1 .. Piece, n = Piece \/ call.kind \in Writes, ChipObeys(n)
        PROVE  ChangesPrefix'
    <3>1. ASSUME idleChip
          PROVE  /\ (done \cup doing)' = Region(call.address, offset + n)
                 /\ offset + n \in 0 .. call.length
      BY <2>1, <2>3, <3>1, ChipFollows
    <3> QED
      BY <2>1, <3>1 DEF ChangesPrefix, Region
  <2>4. CASE UNCHANGED <<busy, writable, doing>>
    BY <2>1, <2>4 DEF ChangesPrefix, Region
  <2> QED
    BY <1>2, <2>2, <2>3, <2>4 DEF Commands
<1>3. CASE ChipFinishes
    BY <1>3 DEF ChipFinishes, ChangesPrefix, Region
<1>4. CASE Refuses \/ Enables \/ Proceeds \/ Abandons \/ UNCHANGED vars
  <2>1. UNCHANGED <<call, idleChip, doing, done>>
    BY <1>4 DEF Refuses, Enables, Proceeds, Abandons, Return, vars, chipVars
  <2> QED
    BY <2>1 DEF ChangesPrefix, Region
<1> QED
    BY <1>1, <1>2, <1>3, <1>4 DEF Next, Driver

LEMMA StepKeepsHonest ==
    ASSUME MaskFits, IInv, [Next]_vars
    PROVE  ResultHonest'
<1> USE DEF IInv
<1>1. CASE \E c \in Call : Calls(c)
  <2>1. PICK c \in Call : Calls(c)
    BY <1>1
  <2>2. result' = Answer(c) /\ call' = c /\ done' = {}
    BY <2>1 DEF Calls
  <2>3. Answer(c) \notin {"tooBig", "misaligned"}
    BY DEF Answer
  <2>4. Answer(c) = "ok" => c.length = 0
    BY DEF Answer
  <2>5. c.address \in Nat
    BY CallsAre
  <2> QED
    BY <2>2, <2>3, <2>4, <2>5 DEF ResultHonest, Region
<1>2. CASE Refuses
  <2>1. PICK error \in Refused : Return(error)
    BY <1>2 DEF Refuses
  <2>2. call.kind \in Single
    BY <1>2, NeverRefused DEF Refuses
  <2>3. error \in {"tooBig", "misaligned"}
    BY DEF Refused
  <2> QED
    BY <2>1, <2>2, <2>3 DEF Return, ResultHonest
<1>3. CASE Proceeds
  <2>1. pc = "wait" /\ ~busy /\ UNCHANGED <<call, idleChip, done>> /\ result = "none"
    BY <1>3 DEF Proceeds, chipVars, FlashInv, UnderWay
  <2>2. CASE Advanced = call.length /\ pc' = "idle" /\ result' = "ok"
    <3>1. idleChip => done = Region(call.address, Advanced)
      BY <2>1 DEF Changed
    <3> QED
      BY <2>1, <2>2, <3>1 DEF ResultHonest, Region
  <2>3. CASE result' = result
    BY <2>1, <2>3 DEF ResultHonest
  <2> QED
    BY <1>3, <2>2, <2>3 DEF Proceeds
<1>4. CASE Enables \/ Commands \/ Abandons
  <2>1. pc # "idle" /\ result = "none"
    BY <1>4 DEF Enables, Commands, Abandons, FlashInv, UnderWay
  <2>2. result' \in {"none", "io", "timeout"}
    BY <1>4, <2>1 DEF Enables, Commands, Abandons, Return
  <2> QED
    BY <2>2 DEF ResultHonest
<1>5. CASE ChipFinishes
    BY <1>5 DEF ChipFinishes, ResultHonest, Changed
<1>6. CASE UNCHANGED vars
    BY <1>6 DEF vars, chipVars, ResultHonest, Region
<1> QED
    BY <1>1, <1>2, <1>3, <1>4, <1>5, <1>6 DEF Next, Driver

-----------------------------------------------------------------------------

\* The driver's variables and the chip's keep their types, whatever the size the
\* addresses are checked against.
THEOREM FlashTypeCorrect == Spec => []TypeOK
<1>1. Init => FlashInv
    BY InitInv DEF IInv
<1>2. FlashInv /\ [Next]_vars => FlashInv'
    BY StepKeepsTypes, StepKeepsUnderWay DEF FlashInv
<1>3. FlashInv => TypeOK
    BY DEF FlashInv
<1> QED
    BY <1>1, <1>2, <1>3, PTL DEF Spec

LEMMA FlashInvariance == ASSUME MaskFits PROVE Spec => []IInv
<1>1. IInv /\ [Next]_vars => IInv'
  <2> SUFFICES ASSUME IInv, [Next]_vars PROVE IInv'
    OBVIOUS
  <2>1. TypeOK' /\ UnderWay'
    BY StepKeepsTypes, StepKeepsUnderWay DEF IInv
  <2>2. Changed' /\ ChangesPrefix' /\ ResultHonest'
    BY StepKeepsChanged, StepKeepsPrefix, StepKeepsHonest
  <2> QED
    BY <2>1, <2>2 DEF IInv, FlashInv
<1> QED
    BY <1>1, InitInv, PTL DEF Spec

\* A successful write or erase (Fs/Flash.cpp) has changed all that was named,
\* and no piece is refused that the driver cut itself.
THEOREM ResultsAreTrue == ASSUME MaskFits PROVE Spec => []ResultHonest
<1>1. IInv => ResultHonest
    BY DEF IInv
<1> QED
    BY <1>1, FlashInvariance, PTL

\* Whatever fails, a prefix of what was named has been changed and nothing else.
THEOREM ChangesAreAPrefix == ASSUME MaskFits PROVE Spec => []ChangesPrefix
<1>1. IInv => ChangesPrefix
    BY DEF IInv
<1> QED
    BY <1>1, FlashInvariance, PTL
=============================================================================
