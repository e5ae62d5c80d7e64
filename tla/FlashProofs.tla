----------------------------- MODULE FlashProofs ----------------------------
(***************************************************************************)
(* What mtd and sysupgrade keep true for every partition and image, with   *)
(* power losses, failures and changes of the image file anywhere (Flash).  *)
(*                                                                         *)
(* None of the four properties is inductive by itself: the shape of the    *)
(* flash has to be tied to the loop positions (off, EraseEnd), which in    *)
(* turn needs that positions are whole blocks, that the rounded range      *)
(* covers the image and stays inside the partition, and that the 32-bit    *)
(* arithmetic therefore never wraps.                                       *)
(***************************************************************************)
EXTENDS Flash, TLAPS

-----------------------------------------------------------------------------
(* Arithmetic.                                                             *)

LEMMA DivMod ==
    ASSUME NEW a \in Nat, NEW b \in Nat \ {0}
    PROVE  a \div b \in Nat /\ a = (a \div b) * b + (a % b) /\ a % b \in 0 .. b - 1
OBVIOUS

LEMMA MultipleMod ==
    ASSUME NEW k \in Nat, NEW b \in Nat \ {0}
    PROVE  k * b \in Nat /\ (k * b) % b = 0
OBVIOUS

\* Of two multiples of b the larger is larger by at least b.
LEMMA NextMultiple ==
    ASSUME NEW x \in Nat, NEW y \in Nat, NEW b \in Nat \ {0}, x % b = 0, y % b = 0, x < y
    PROVE  x + b <= y /\ (x + b) % b = 0
<1>1. PICK j \in Nat : x = j * b
  <2>1. x \div b \in Nat /\ x = (x \div b) * b + 0
    BY DivMod
  <2> WITNESS x \div b \in Nat
  <2> QED
    BY <2>1
<1>2. PICK k \in Nat : y = k * b
  <2>1. y \div b \in Nat /\ y = (y \div b) * b + 0
    BY DivMod
  <2> WITNESS y \div b \in Nat
  <2> QED
    BY <2>1
<1>3. (j + 1) * b = x + b /\ j + 1 \in Nat
    BY <1>1
<1>4. (j + 1) * b <= k * b
    BY <1>1, <1>2
<1>5. ((j + 1) * b) % b = 0
    BY <1>3, MultipleMod
<1> QED
    BY <1>2, <1>3, <1>4, <1>5

\* n rounded up to a multiple of b, as erase_range computes it.
RoundUp(n, b) == ((n + b - 1) \div b) * b

LEMMA RoundUpBounds ==
    ASSUME NEW n \in Nat, NEW b \in Nat \ {0}
    PROVE  /\ RoundUp(n, b) \in Nat /\ RoundUp(n, b) % b = 0
           /\ n <= RoundUp(n, b) /\ RoundUp(n, b) < n + b
<1> DEFINE a == n + b - 1
           k == a \div b
           m == a % b
<1>1. a \in Nat
    OBVIOUS
<1>2. k \in Nat /\ a = k * b + m /\ m \in 0 .. b - 1
    BY <1>1, DivMod
<1>4. RoundUp(n, b) = k * b
    BY DEF RoundUp
<1> HIDE DEF k, m
<1>3. k * b \in Nat /\ (k * b) % b = 0
  <2>1. k \in Nat /\ b \in Nat \ {0}
    BY <1>2
  <2> QED
    BY <2>1, MultipleMod
<1>5. n <= k * b /\ k * b < n + b
    BY <1>1, <1>2, <1>3
<1> QED
    BY <1>3, <1>4, <1>5

\* The range is rounded up within a partition of whole blocks.
LEMMA RoundUpFits ==
    ASSUME NEW n \in Nat, NEW b \in Nat \ {0}, NEW size \in Nat, size % b = 0, n <= size
    PROVE  RoundUp(n, b) <= size
<1>1. /\ RoundUp(n, b) \in Nat /\ RoundUp(n, b) % b = 0 /\ RoundUp(n, b) < n + b
    BY RoundUpBounds
<1>2. ASSUME size < RoundUp(n, b) PROVE FALSE
  <2>1. size + b <= RoundUp(n, b)
    BY <1>1, <1>2, NextMultiple
  <2> QED
    BY <1>1, <2>1
<1> QED
    BY <1>1, <1>2

-----------------------------------------------------------------------------
(* The inductive invariant.                                                *)

\* The first w cells hold the image, those up to e are erased, the rest is as
\* it was when the command started.
Shape(w, e) ==
    \A o \in Offset : flash[o] = IF o < w THEN data.ver ELSE IF o < e THEN Erased ELSE before[o]

Types ==
    /\ info \in Infos
    /\ flash \in [Offset -> Cells \ {Spoilt}]
    /\ pc \in {"idle", "validate", "backup", "read", "open", "erase", "write", "verify", "reboot", "dead"}
    /\ image \in Images \cup {NoImage} /\ data \in Images \cup {NoImage}
    /\ cmd \in Cmds
    /\ off \in 0 .. Size /\ rc \in -1 .. 2

Untouched == pc \in {"validate", "backup", "read", "open", "verify"} => off = 0 /\ Shape(0, 0)

Erasing ==
    pc = "erase" =>
        /\ cmd \in {"upgrade", "write", "erase"} /\ (cmd # "erase" => data.len <= Size)
        /\ off <= EraseEnd /\ off % Block = 0
        /\ Shape(0, off)
        /\ off > 0 => wrote = NoImage

Writing ==
    pc = "write" =>
        /\ cmd \in {"upgrade", "write"} /\ data.len <= Size
        /\ off <= data.len
        /\ Shape(off, EraseEnd)
        /\ data.len > 0 => wrote = NoImage

Rebooting == pc = "reboot" => cmd = "upgrade" /\ data.len <= Size /\ Shape(data.len, EraseEnd)

\* sysupgrade goes on only with an image that was not empty when validated.
Validated == cmd = "upgrade" /\ pc \in {"backup", "read", "open", "erase", "write", "reboot"} => checked.len > 0

\* sysupgrade -T goes no further.
Tested == cmd = "test" => pc \in {"idle", "validate", "dead"}

\* What was written last is still there.
Written == wrote # NoImage => Holds(flash, wrote)

FlashInv == Types /\ Untouched /\ Erasing /\ Writing /\ Rebooting /\ Validated /\ Tested /\ Written /\ RebootSafe /\ VerifyTruth

-----------------------------------------------------------------------------
(* Facts about a partition and an image that fits.                         *)

LEMMA InfoFacts ==
    ASSUME info \in Infos
    PROVE  /\ Size \in Nat \ {0} /\ Size < WordSize /\ WordSize \in Nat
           /\ Block \in Nat \ {0} /\ Size % Block = 0
<1>1. /\ Size \in 1 .. WordSize - 1 /\ info.erasesize \in 0 .. Size /\ WordSize \in Nat
      /\ info.erasesize > 0 => Size % info.erasesize = 0
    BY FlashAssumption DEF Size
<1>2. CASE info.erasesize = 0
    BY <1>1, <1>2 DEF Block
<1>3. CASE info.erasesize # 0
    BY <1>1, <1>3 DEF Block
<1> QED
    BY <1>1, <1>2, <1>3

LEMMA ImageFacts ==
    ASSUME NEW i \in Images \cup {NoImage}
    PROVE  /\ i.len \in Nat
           /\ i.len > 0 => i \in Images /\ i.ver \in Cells \ {Spoilt}
BY FlashAssumption DEF NoImage, Cells

\* The range that is erased: whole blocks, all of the image, nothing beyond its
\* last block, and no wrap-around in u32.
LEMMA EraseEndFacts ==
    ASSUME Types, cmd = "erase" \/ data.len <= Size
    PROVE  /\ EraseLen \in 0 .. Size
           /\ EraseEnd \in 0 .. Size /\ EraseEnd % Block = 0
           /\ EraseLen <= EraseEnd /\ EraseEnd < EraseLen + Block
<1> DEFINE r == RoundUp(EraseLen, Block)
<1>1. /\ Size \in Nat \ {0} /\ Size < WordSize /\ WordSize \in Nat
      /\ Block \in Nat \ {0} /\ Size % Block = 0
    BY InfoFacts DEF Types
<1>2. EraseLen \in 0 .. Size
  <2>1. data.len \in Nat
    BY ImageFacts DEF Types
  <2> QED
    BY <1>1, <2>1 DEF EraseLen
<1>3. r \in Nat /\ r % Block = 0 /\ EraseLen <= r /\ r < EraseLen + Block /\ r <= Size
    BY <1>1, <1>2, RoundUpBounds, RoundUpFits
<1>4. EraseEnd = LET end == r % WordSize IN IF end < Size THEN end ELSE Size
    BY DEF EraseEnd, RoundUp
<1> HIDE DEF r
<1>5. r % WordSize = r
    BY <1>1, <1>3
<1>6. EraseEnd = r
    BY <1>1, <1>3, <1>4, <1>5
<1> QED
    BY <1>2, <1>3, <1>6

LEMMA FlashInitInv == Init => FlashInv
<1> SUFFICES ASSUME Init PROVE FlashInv
    OBVIOUS
<1> USE DEF Init
<1>1. Size \in Nat \ {0} /\ Block \in Nat \ {0}
    BY InfoFacts
<1>2. Types
    BY <1>1 DEF Types, Cells, Cmds, Old, Spoilt, Erased, Offset
<1> QED
    BY <1>2 DEF FlashInv, Untouched, Erasing, Writing, Rebooting, Validated, Tested, Written, RebootSafe, VerifyTruth

-----------------------------------------------------------------------------
(* The steps.                                                              *)

\* The steps that leave the flash, the image in memory and the position alone:
\* what FlashInv says of the flash carries over.
Still == UNCHANGED <<info, flash, cmd, data, off, before, wrote>>

LEMMA StillFacts ==
    ASSUME Still
    PROVE  /\ Size' = Size /\ Offset' = Offset /\ Block' = Block /\ EraseLen' = EraseLen /\ EraseEnd' = EraseEnd
           /\ \A w, e : Shape(w, e)' <=> Shape(w, e)
           /\ \A i : Holds(flash, i)' <=> Holds(flash, i)
           /\ \A c : Holds(c, data)' <=> Holds(c, data)
           /\ Written' <=> Written
BY DEF Still, Size, Offset, Block, EraseLen, EraseEnd, Shape, Holds, Written

\* A command that ends with the flash as it is, and did not compare it.
LEMMA EndsInv ==
    ASSUME FlashInv, Still, image' \in Images \cup {NoImage},
           pc' = "idle", rc' \in -1 .. 2, cmd = "verify" => rc' \in {-1, 1}
    PROVE  FlashInv'
<1>1. /\ Size' = Size /\ Offset' = Offset /\ (Written' <=> Written)
    BY StillFacts
<1>2. Types'
    BY <1>1 DEF FlashInv, Types, Still
<1>3. Untouched' /\ Erasing' /\ Writing' /\ Rebooting' /\ Validated' /\ Tested' /\ RebootSafe'
    BY DEF Untouched, Erasing, Writing, Rebooting, Validated, Tested, RebootSafe
<1>4. VerifyTruth'
    BY DEF VerifyTruth, Still
<1> QED
    BY <1>1, <1>2, <1>3, <1>4 DEF FlashInv

\* A command that goes on with the flash as it is.
LEMMA GoesOnInv ==
    ASSUME FlashInv, Still, image' \in Images \cup {NoImage}, rc' = rc,
           pc \in {"validate", "backup", "open"}, pc' \in {"backup", "read", "erase", "verify"},
           pc' = "erase" => cmd \in {"upgrade", "write", "erase"} /\ (cmd # "erase" => data.len <= Size),
           Validated', Tested'
    PROVE  FlashInv'
<1>1. /\ Size' = Size /\ Offset' = Offset /\ Block' = Block /\ EraseEnd' = EraseEnd /\ (Written' <=> Written)
      /\ \A w, e : Shape(w, e)' <=> Shape(w, e)
    BY StillFacts
<1>2. Types'
    BY <1>1 DEF FlashInv, Types, Still
<1>3. off = 0 /\ off' = 0 /\ Shape(0, 0)
    BY DEF FlashInv, Untouched, Still
<1>4. Untouched'
    BY <1>1, <1>3 DEF Untouched
<1>5. Erasing'
  <2> SUFFICES ASSUME pc' = "erase" PROVE Erasing'
    BY DEF Erasing
  <2>1. EraseEnd \in 0 .. Size /\ Block \in Nat \ {0}
    BY EraseEndFacts, InfoFacts DEF FlashInv, Types
  <2>2. off' <= EraseEnd' /\ off' % Block' = 0
    BY <1>1, <1>3, <2>1
  <2> QED
    BY <1>1, <1>3, <2>2 DEF Erasing, Still
<1>6. Writing' /\ Rebooting' /\ RebootSafe' /\ VerifyTruth'
    BY DEF Writing, Rebooting, RebootSafe, VerifyTruth
<1> QED
    BY <1>1, <1>2, <1>4, <1>5, <1>6 DEF FlashInv

\* The failures.
LEMMA FailsInv == FlashInv /\ Fails => FlashInv'
<1> SUFFICES ASSUME FlashInv, Fails PROVE FlashInv'
    OBVIOUS
<1>1. Still /\ image' = image /\ pc' = "idle" /\ rc' = 1
    BY DEF Fails, ValidateFails, ReadFails, OpenFails, EraseFails, WriteFails, Exit, Still, fixed
<1>2. image' \in Images \cup {NoImage}
    BY <1>1 DEF FlashInv, Types
<1> QED
    BY <1>1, <1>2, EndsInv

\* The steps before the flash is touched.
LEMMA PrepareInv == FlashInv /\ (Validate \/ Backup \/ Open) => FlashInv'
<1> SUFFICES ASSUME FlashInv, Validate \/ Backup \/ Open PROVE FlashInv'
    OBVIOUS
<1>1. Still /\ image' = image
    BY DEF Validate, Backup, Open, Still, fixed
<1>2. image' \in Images \cup {NoImage} /\ cmd \in Cmds
    BY <1>1 DEF FlashInv, Types
<1>3. CASE Validate
  <2>1. CASE cmd = "test"
    <3>1. pc' = "idle" /\ rc' = 0
        BY <1>3, <2>1 DEF Validate, Exit
    <3> QED
        BY <1>1, <1>2, <2>1, <3>1, EndsInv
  <2>2. CASE cmd # "test"
    <3>1. pc = "validate" /\ pc' = "backup" /\ rc' = rc /\ checked'.len > 0
        BY <1>3, <2>2 DEF Validate, ValidateOk
    <3>2. Validated' /\ Tested'
        BY <1>1, <2>2, <3>1 DEF Validated, Tested, Still
    <3> QED
        BY <1>1, <1>2, <3>1, <3>2, GoesOnInv
  <2> QED
    BY <2>1, <2>2
<1>4. CASE Backup
  <2>1. pc = "backup" /\ pc' = "read" /\ rc' = rc /\ checked' = checked
    BY <1>4 DEF Backup
  <2>2. Validated' /\ Tested'
    BY <1>1, <2>1 DEF FlashInv, Validated, Tested, Still
  <2> QED
    BY <1>1, <1>2, <2>1, <2>2, GoesOnInv
<1>5. CASE Open
  <2>1. /\ pc = "open" /\ checked' = checked /\ cmd # "test"
        /\ \/ pc' = "idle" /\ rc' = 1
           \/ pc' = "verify" /\ rc' = rc
           \/ pc' = "erase" /\ rc' = rc /\ cmd # "verify" /\ (cmd # "erase" => data.len <= Size)
    BY <1>2, <1>5 DEF Open, Exit, Fits, FlashInv, Tested
  <2>2. CASE pc' = "idle" /\ rc' = 1
    BY <1>1, <1>2, <2>2, EndsInv
  <2>3. CASE pc' \in {"verify", "erase"} /\ rc' = rc
    <3>1. Validated' /\ Tested'
        BY <1>1, <2>1, <2>3 DEF FlashInv, Validated, Tested, Still
    <3>2. pc' = "erase" => cmd \in {"upgrade", "write", "erase"} /\ (cmd # "erase" => data.len <= Size)
        BY <1>2, <2>1 DEF Cmds
    <3> QED
        BY <1>1, <1>2, <2>1, <2>3, <3>1, <3>2, GoesOnInv
  <2> QED
    BY <2>1, <2>2, <2>3
<1> QED
    BY <1>3, <1>4, <1>5

\* The image is read into memory.
LEMMA ReadImageInv == FlashInv /\ ReadImage => FlashInv'
<1> SUFFICES ASSUME FlashInv, ReadImage PROVE FlashInv'
    OBVIOUS
<1> USE DEF ReadImage, fixed
<1>1. Size' = Size /\ Offset' = Offset
    BY DEF Size, Offset
<1>2. Types'
    BY <1>1 DEF FlashInv, Types
<1>3. Untouched'
  <2>1. \A o \in Offset : ~(o < 0) /\ flash[o] = before[o]
    BY InfoFacts DEF FlashInv, Types, Untouched, Shape, Offset
  <2>2. off' = 0 /\ pc' = "open"
    BY DEF FlashInv, Untouched
  <2> QED
    BY <1>1, <2>1, <2>2 DEF Untouched, Shape
<1>4. Written' /\ Validated' /\ Tested'
    BY <1>1 DEF FlashInv, Written, Holds, Validated, Tested
<1>5. Erasing' /\ Writing' /\ Rebooting' /\ RebootSafe' /\ VerifyTruth'
    BY DEF Erasing, Writing, Rebooting, RebootSafe, VerifyTruth
<1> QED
    BY <1>2, <1>3, <1>4, <1>5 DEF FlashInv

\* One block is erased: the shape moves on by a block and stays in the partition.
LEMMA EraseBlockInv == FlashInv /\ EraseBlock => FlashInv'
<1> SUFFICES ASSUME FlashInv, EraseBlock PROVE FlashInv'
    OBVIOUS
<1> USE DEF EraseBlock, fixed
<1>1. /\ Size' = Size /\ Offset' = Offset /\ Block' = Block /\ EraseEnd' = EraseEnd /\ pc = "erase" /\ pc' = "erase"
    BY DEF Size, Offset, Block, EraseEnd, EraseLen
<1>2. /\ cmd \in {"upgrade", "write", "erase"} /\ (cmd # "erase" => data.len <= Size)
      /\ off % Block = 0 /\ Shape(0, off) /\ Types /\ off \in 0 .. Size
    BY <1>1 DEF FlashInv, Erasing, Types
<1>3. EraseEnd \in 0 .. Size /\ EraseEnd % Block = 0 /\ Block \in Nat \ {0} /\ Size \in Nat
    BY <1>2, EraseEndFacts, InfoFacts DEF Types
<1>4. off' = off + Block /\ off' <= EraseEnd /\ off' % Block = 0 /\ off' \in 0 .. Size
  <2>1. off \in Nat /\ EraseEnd \in Nat /\ off < EraseEnd /\ off' = off + Block
    BY <1>2, <1>3
  <2>2. off + Block <= EraseEnd /\ (off + Block) % Block = 0
    BY <1>2, <1>3, <2>1, NextMultiple
  <2> QED
    BY <1>2, <1>3, <2>1, <2>2
<1>5. \A o \in Offset : flash'[o] = IF o < off' THEN Erased ELSE before[o]
  <2> TAKE o \in Offset
  <2>1. o \in Nat /\ flash'[o] = IF off <= o /\ o < off + Block THEN Erased ELSE flash[o]
    BY DEF Offset
  <2>2. flash[o] = IF o < off THEN Erased ELSE before[o]
    BY <1>2, <2>1 DEF Shape
  <2> QED
    BY <1>2, <1>3, <1>4, <2>1, <2>2
<1>6. Shape(0, off)'
    BY <1>1, <1>5 DEF Shape, Offset
<1>7. Types'
  <2>1. flash' \in [Offset -> Cells \ {Spoilt}]
    BY <1>2 DEF Types, Cells, Erased, Spoilt
  <2> QED
    BY <1>1, <1>2, <1>4, <2>1 DEF Types
<1>8. Erasing' /\ Written'
    BY <1>1, <1>2, <1>4, <1>6 DEF Erasing, Written
<1>9. Untouched' /\ Writing' /\ Rebooting' /\ Validated' /\ Tested' /\ RebootSafe' /\ VerifyTruth'
    BY <1>1 DEF FlashInv, Untouched, Writing, Rebooting, Validated, Tested, RebootSafe, VerifyTruth
<1> QED
    BY <1>7, <1>8, <1>9 DEF FlashInv

\* The whole range is erased.
LEMMA EraseDoneInv == FlashInv /\ EraseDone => FlashInv'
<1> SUFFICES ASSUME FlashInv, EraseDone PROVE FlashInv'
    OBVIOUS
<1> USE DEF EraseDone, fixed
<1>1. CASE cmd = "erase"
  <2>1. Still /\ image' \in Images \cup {NoImage} /\ pc' = "idle" /\ rc' = 0
    BY <1>1 DEF Still, Exit, FlashInv, Types
  <2> QED
    BY <1>1, <2>1, EndsInv
<1>2. CASE cmd # "erase"
  <2>1. /\ Size' = Size /\ Offset' = Offset /\ EraseEnd' = EraseEnd
        /\ pc = "erase" /\ pc' = "write" /\ off' = 0 /\ rc' = rc
    BY <1>2 DEF Size, Offset, Block, EraseEnd, EraseLen
  <2>2. /\ cmd \in {"upgrade", "write"} /\ data.len <= Size
        /\ off <= EraseEnd /\ Shape(0, off) /\ Types /\ off \in 0 .. Size
        /\ off > 0 => wrote = NoImage
    BY <1>2, <2>1 DEF FlashInv, Erasing, Types
  <2>3. data.len \in Nat /\ Size \in Nat /\ EraseEnd \in 0 .. Size /\ data.len <= EraseEnd
    BY <1>2, <2>2, EraseEndFacts, ImageFacts, InfoFacts DEF Types, EraseLen
  <2>4. off = EraseEnd
    BY <2>2, <2>3
  <2>5. Types' /\ Written'
    BY <2>1, <2>2, <2>3 DEF FlashInv, Types, Written, Holds
  <2>6. Writing'
    <3>1. Shape(off, EraseEnd)'
        BY <2>1, <2>2, <2>4 DEF Shape, Offset
    <3>2. off' <= data'.len /\ (data'.len > 0 => wrote' = NoImage)
        BY <2>1, <2>2, <2>3, <2>4
    <3> QED
        BY <2>1, <2>2, <3>1, <3>2 DEF Writing
  <2>7. Untouched' /\ Erasing' /\ Rebooting' /\ RebootSafe' /\ VerifyTruth'
    BY <2>1 DEF Untouched, Erasing, Rebooting, RebootSafe, VerifyTruth
  <2>8. Validated' /\ Tested'
    BY <2>1, <2>2 DEF FlashInv, Validated, Tested
  <2> QED
    BY <2>5, <2>6, <2>7, <2>8 DEF FlashInv
<1> QED
    BY <1>1, <1>2

\* One byte is written, to a cell that is erased.
LEMMA WriteByteInv == FlashInv /\ WriteByte => FlashInv'
<1> SUFFICES ASSUME FlashInv, WriteByte PROVE FlashInv'
    OBVIOUS
<1> USE DEF WriteByte, fixed
<1>1. /\ Size' = Size /\ Offset' = Offset /\ EraseEnd' = EraseEnd /\ pc = "write" /\ pc' = "write"
    BY DEF Size, Offset, Block, EraseEnd, EraseLen
<1>2. /\ cmd \in {"upgrade", "write"} /\ data.len <= Size
      /\ off <= data.len /\ Shape(off, EraseEnd) /\ Types /\ off \in 0 .. Size
      /\ data.len > 0 => wrote = NoImage
    BY <1>1 DEF FlashInv, Writing, Types
<1>3. /\ data.len \in Nat /\ Size \in Nat /\ EraseEnd \in 0 .. Size /\ data.len <= EraseEnd
      /\ data.len > 0 /\ data.ver \in Cells \ {Spoilt}
  <2>1. /\ data.len \in Nat /\ Size \in Nat /\ EraseEnd \in 0 .. Size /\ EraseLen <= EraseEnd
    BY <1>2, EraseEndFacts, ImageFacts, InfoFacts DEF Types
  <2>2. EraseLen = data.len
    BY <1>2 DEF EraseLen
  <2>3. data.len > 0
    BY <1>2, <2>1
  <2> QED
    BY <2>1, <2>2, <2>3, ImageFacts DEF FlashInv, Types
<1>4. off \in Offset /\ flash[off] = Erased
    BY <1>2, <1>3 DEF Shape, Offset
<1>5. flash' = [flash EXCEPT ![off] = data.ver] /\ flash \in [Offset -> Cells \ {Spoilt}]
    BY <1>2, <1>4 DEF Types
<1>6. off' = off + 1 /\ off' <= data.len /\ off' \in 0 .. Size
    BY <1>2, <1>3
<1>7. Types'
  <2>1. flash' \in [Offset -> Cells \ {Spoilt}]
    BY <1>3, <1>5
  <2> QED
    BY <1>1, <1>2, <1>6, <2>1 DEF Types
<1>8. \A o \in Offset : flash'[o] = IF o < off' THEN data.ver ELSE IF o < EraseEnd THEN Erased ELSE before[o]
  <2> TAKE o \in Offset
  <2>1. flash[o] = IF o < off THEN data.ver ELSE IF o < EraseEnd THEN Erased ELSE before[o]
    BY <1>2 DEF Shape
  <2>2. o \in Nat /\ flash'[o] = IF o = off THEN data.ver ELSE flash[o]
    BY <1>4, <1>5 DEF Offset
  <2> QED
    BY <1>2, <1>3, <1>6, <2>1, <2>2
<1>9. Writing' /\ Written'
  <2>1. Shape(off, EraseEnd)'
    BY <1>1, <1>8 DEF Shape, Offset
  <2> QED
    BY <1>1, <1>2, <1>3, <1>6, <2>1 DEF Writing, Written
<1>10. Untouched' /\ Erasing' /\ Rebooting' /\ Validated' /\ Tested' /\ RebootSafe' /\ VerifyTruth'
    BY <1>1 DEF FlashInv, Untouched, Erasing, Rebooting, Validated, Tested, RebootSafe, VerifyTruth
<1> QED
    BY <1>7, <1>9, <1>10 DEF FlashInv

\* All is written.
LEMMA WriteDoneInv == FlashInv /\ WriteDone => FlashInv'
<1> SUFFICES ASSUME FlashInv, WriteDone PROVE FlashInv'
    OBVIOUS
<1> USE DEF WriteDone, fixed
<1>1. /\ Size' = Size /\ Offset' = Offset /\ EraseEnd' = EraseEnd /\ pc = "write" /\ off = data.len
      /\ wrote' = data /\ UNCHANGED <<flash, data, before, cmd, checked, cause, off, image, info>>
    BY DEF Size, Offset, Block, EraseEnd, EraseLen
<1>2. cmd \in {"upgrade", "write"} /\ data.len <= Size /\ Shape(data.len, EraseEnd) /\ Types
    BY <1>1 DEF FlashInv, Writing
<1>3. Holds(flash, data)
    BY <1>2 DEF Shape, Holds
<1>4. \/ pc' = "reboot" /\ cmd = "upgrade" /\ rc' = rc
      \/ pc' = "idle" /\ rc' = 0 /\ cmd = "write"
    BY <1>2 DEF Exit
<1>5. Types'
    BY <1>1, <1>2, <1>4 DEF Types
<1>6. Written'
    BY <1>1, <1>3 DEF Written, Holds
<1>7. Rebooting'
    BY <1>1, <1>2, <1>4 DEF Rebooting, Shape
<1>8. RebootSafe'
    BY <1>1, <1>2, <1>3, <1>4 DEF RebootSafe, Holds
<1>9. Validated' /\ Tested' /\ VerifyTruth'
    BY <1>1, <1>4 DEF FlashInv, Validated, Tested, VerifyTruth
<1>10. Untouched' /\ Erasing' /\ Writing'
    BY <1>4 DEF Untouched, Erasing, Writing
<1> QED
    BY <1>5, <1>6, <1>7, <1>8, <1>9, <1>10 DEF FlashInv

\* The comparison.
LEMMA VerifyInv == FlashInv /\ Verify => FlashInv'
<1> SUFFICES ASSUME FlashInv, Verify PROVE FlashInv'
    OBVIOUS
<1>1. /\ Still /\ image' = image /\ pc' = "idle"
      /\ rc' = IF data.len > Size THEN 1 ELSE IF Same THEN 0 ELSE 2
    BY DEF Verify, fixed, Still, Exit
<1>2. /\ Size' = Size /\ Offset' = Offset /\ (Written' <=> Written)
      /\ \A i : Holds(flash, i)' <=> Holds(flash, i)
      /\ Holds(flash, data)' <=> Holds(flash, data)
    BY <1>1, StillFacts DEF Still, Holds
<1>3. Types'
    BY <1>1, <1>2 DEF FlashInv, Types, Still
<1>4. VerifyTruth'
  <2> SUFFICES ASSUME rc' \in {0, 2}, data # NoImage
               PROVE  (rc' = 0 => Holds(flash, data)) /\ (data = wrote => rc' = 0)
    BY <1>1, <1>2 DEF VerifyTruth, Still
  <2>1. ~(data.len > Size) /\ (rc' = 0 <=> Same)
    BY <1>1
  <2>2. data.len <= Size
    BY <2>1, ImageFacts, InfoFacts DEF FlashInv, Types
  <2>3. rc' = 0 <=> Holds(flash, data)
    BY <2>1, <2>2 DEF Same
  <2>4. data = wrote => Holds(flash, data)
    BY DEF FlashInv, Written
  <2> QED
    BY <2>3, <2>4
<1>5. Untouched' /\ Erasing' /\ Writing' /\ Rebooting' /\ Validated' /\ Tested' /\ RebootSafe'
    BY <1>1 DEF Untouched, Erasing, Writing, Rebooting, Validated, Tested, RebootSafe
<1> QED
    BY <1>2, <1>3, <1>4, <1>5 DEF FlashInv

\* A restart, by sysupgrade or by a loss of power.
LEMMA RestartInv == FlashInv /\ (Reboot \/ PowerLoss) => FlashInv'
<1> SUFFICES ASSUME FlashInv, Reboot \/ PowerLoss PROVE FlashInv'
    OBVIOUS
<1>1. PICK why : Restart(why) /\ (why = "power" \/ (why = "reboot" /\ pc = "reboot"))
    BY DEF Reboot, PowerLoss
<1>2. Still /\ image' \in Images \cup {NoImage} /\ rc' = -1 /\ checked' = checked
    BY <1>1 DEF Restart, Still, fixed
<1>3. CASE Bootable(flash)
    BY <1>1, <1>2, <1>3, EndsInv DEF Restart
<1>4. CASE ~Bootable(flash)
  <2>1. pc' = "dead" /\ cause' = why
    BY <1>1, <1>4 DEF Restart
  <2>2. /\ Size' = Size /\ Offset' = Offset /\ (Written' <=> Written)
    BY <1>2, StillFacts
  <2>3. Types'
    BY <1>2, <2>1, <2>2 DEF FlashInv, Types, Still
  <2>4. ASSUME why = "reboot" PROVE data.len = 0 /\ checked.len > 0
    <3>1. pc = "reboot" /\ cmd = "upgrade" /\ data.len <= Size /\ Holds(flash, data) /\ checked.len > 0
        BY <1>1, <2>4 DEF FlashInv, Rebooting, RebootSafe, Validated
    <3>2. data.len \in Nat /\ (data.len > 0 => data \in Images)
        BY ImageFacts DEF FlashInv, Types
    <3>3. ~(data.len > 0)
        BY <1>4, <3>1, <3>2 DEF Bootable
    <3> QED
        BY <3>1, <3>2, <3>3
  <2>5. RebootSafe'
    BY <1>2, <2>1, <2>4 DEF RebootSafe, Still
  <2>6. Untouched' /\ Erasing' /\ Writing' /\ Rebooting' /\ Validated' /\ Tested' /\ VerifyTruth'
    BY <2>1 DEF Untouched, Erasing, Writing, Rebooting, Validated, Tested, VerifyTruth
  <2> QED
    BY <2>2, <2>3, <2>5, <2>6 DEF FlashInv
<1> QED
    BY <1>3, <1>4

\* A command is typed.
LEMMA StartInv ==
    ASSUME FlashInv, NEW c \in Cmds, NEW k \in BOOLEAN, Start(c, k)
    PROVE  FlashInv'
<1>1. /\ Size' = Size /\ Offset' = Offset /\ UNCHANGED <<info, flash, image, wrote>>
      /\ cmd' = c /\ rc' = -1 /\ data' = NoImage /\ off' = 0 /\ before' = flash
      /\ pc' \in {"validate", "open", "read"} /\ (pc' # "validate" => c \notin {"upgrade", "test"})
    BY DEF Start, Size, Offset
<1>2. Size \in Nat
    BY InfoFacts DEF FlashInv, Types
<1>3. Types'
    BY <1>1, <1>2 DEF FlashInv, Types
<1>4. Untouched'
  <2>1. \A o \in Offset : ~(o < 0)
    BY <1>2 DEF Offset
  <2> QED
    BY <1>1, <2>1 DEF Untouched, Shape
<1>5. Written'
    BY <1>1 DEF FlashInv, Written, Holds
<1>6. Erasing' /\ Writing' /\ Rebooting' /\ Validated' /\ Tested' /\ RebootSafe' /\ VerifyTruth'
    BY <1>1 DEF Erasing, Writing, Rebooting, Validated, Tested, RebootSafe, VerifyTruth
<1> QED
    BY <1>3, <1>4, <1>5, <1>6 DEF FlashInv

\* Nothing happens but to the image file.
LEMMA FlashIdleInv ==
    ASSUME FlashInv, Still, UNCHANGED <<pc, rc, checked, cause>>, image' \in Images \cup {NoImage}
    PROVE  FlashInv'
<1>1. /\ Size' = Size /\ Offset' = Offset /\ Block' = Block /\ EraseEnd' = EraseEnd /\ (Written' <=> Written)
      /\ \A w, e : Shape(w, e)' <=> Shape(w, e)
      /\ Holds(flash, data)' <=> Holds(flash, data)
    BY StillFacts DEF Still, Holds
<1>2. Shape(off, EraseEnd)' <=> Shape(off, EraseEnd)
    BY <1>1 DEF Still, Shape
<1>3. Shape(0, off)' <=> Shape(0, off)
    BY <1>1 DEF Still, Shape
<1>4. Shape(data.len, EraseEnd)' <=> Shape(data.len, EraseEnd)
    BY <1>1 DEF Still, Shape
<1>5. Types' /\ Untouched'
    BY <1>1 DEF FlashInv, Types, Untouched, Still
<1>6. Erasing' /\ Writing' /\ Rebooting'
    BY <1>1, <1>2, <1>3, <1>4 DEF FlashInv, Erasing, Writing, Rebooting, Still
<1>7. Validated' /\ Tested' /\ RebootSafe' /\ VerifyTruth'
    BY <1>1 DEF FlashInv, Validated, Tested, RebootSafe, VerifyTruth, Still
<1> QED
    BY <1>1, <1>5, <1>6, <1>7 DEF FlashInv

LEMMA FlashNext == FlashInv /\ [Next]_vars => FlashInv'
<1> SUFFICES ASSUME FlashInv, [Next]_vars PROVE FlashInv'
    OBVIOUS
<1>1. CASE Progress
    BY <1>1, PrepareInv, ReadImageInv, EraseBlockInv, EraseDoneInv, WriteByteInv, WriteDoneInv, VerifyInv, RestartInv
       DEF Progress
<1>2. CASE Fails
    BY <1>2, FailsInv
<1>3. CASE PowerLoss
    BY <1>3, RestartInv
<1>4. CASE ImageChanges
    BY <1>4, FlashIdleInv DEF ImageChanges, Still
<1>5. CASE \E c \in Cmds, k \in BOOLEAN : Start(c, k)
    BY <1>5, StartInv
<1>6. CASE UNCHANGED vars
  <2>1. Still /\ UNCHANGED <<pc, rc, checked, cause, image>>
    BY <1>6 DEF vars, Still
  <2> QED
    BY <2>1, FlashIdleInv DEF FlashInv, Types
<1> QED
    BY <1>1, <1>2, <1>3, <1>4, <1>5, <1>6 DEF Next

LEMMA FlashInvariance == Spec => []FlashInv
BY FlashInitInv, FlashNext, PTL DEF Spec

-----------------------------------------------------------------------------
(* Results.                                                                *)

(* No cell is ever written that was not erased before, and the loops stay  *)
(* inside the partition, for every partition of whole blocks or without    *)
(* blocks and every image (mtd.rs: erase_range, write).                    *)
THEOREM FlashTypes == Spec => []TypeOK
<1>1. FlashInv => TypeOK
    BY DEF FlashInv, Types, TypeOK
<1> QED
    BY <1>1, FlashInvariance, PTL

(* At every moment a power loss finds image, erased cells and the old      *)
(* contents in this order, with block boundaries between the last two and  *)
(* nothing beyond the image's last block touched (mtd.rs: write).          *)
THEOREM FlashShape == Spec => []CrashShape
<1>1. FlashInv => CrashShape
  <2> SUFFICES ASSUME FlashInv, pc \notin {"idle", "dead"}
               PROVE  \E w \in 0 .. Size, e \in 0 .. Size :
                         /\ w <= e /\ e % Block = 0 /\ (w > 0 => w <= data.len /\ e >= data.len)
                         /\ e < EraseLen + Block
                         /\ e > 0 => cmd \in {"upgrade", "write", "erase"} /\ pc \in {"erase", "write", "reboot"}
                         /\ Shape(w, e)
    BY DEF CrashShape, Shape
  <2>1. Size \in Nat \ {0} /\ Block \in Nat \ {0} /\ data.len \in Nat /\ off \in 0 .. Size /\ EraseLen \in Nat
    BY InfoFacts, ImageFacts DEF FlashInv, Types, EraseLen
  <2>2. CASE pc \in {"validate", "backup", "read", "open", "verify"}
    <3>1. Shape(0, 0) /\ 0 % Block = 0 /\ 0 < EraseLen + Block
        BY <2>1, <2>2 DEF FlashInv, Untouched
    <3> QED
        BY <2>1, <3>1
  <2>3. CASE pc = "erase"
    <3>1. /\ cmd \in {"upgrade", "write", "erase"} /\ (cmd # "erase" => data.len <= Size)
          /\ off <= EraseEnd /\ off % Block = 0 /\ Shape(0, off)
        BY <2>3 DEF FlashInv, Erasing
    <3>2. EraseEnd \in 0 .. Size /\ EraseEnd < EraseLen + Block
        BY <3>1, EraseEndFacts DEF FlashInv
    <3>3. off < EraseLen + Block /\ 0 <= off
        BY <2>1, <3>1, <3>2
    <3> QED
        BY <2>1, <2>3, <3>1, <3>3
  <2>4. CASE pc \in {"write", "reboot"}
    <3>1. PICK w \in 0 .. Size : w <= data.len /\ Shape(w, EraseEnd)
        BY <2>1, <2>4 DEF FlashInv, Writing, Rebooting
    <3>2. cmd \in {"upgrade", "write"} /\ data.len <= Size
        BY <2>4 DEF FlashInv, Writing, Rebooting
    <3>3. /\ EraseEnd \in 0 .. Size /\ EraseEnd % Block = 0 /\ EraseLen = data.len
          /\ EraseLen <= EraseEnd /\ EraseEnd < EraseLen + Block
        BY <3>2, EraseEndFacts DEF FlashInv, EraseLen
    <3>4. w <= EraseEnd /\ EraseEnd >= data.len
        BY <2>1, <3>1, <3>3
    <3> QED
        BY <2>4, <3>1, <3>2, <3>3, <3>4
  <2> QED
    BY <2>2, <2>3, <2>4 DEF FlashInv, Types
<1> QED
    BY <1>1, FlashInvariance, PTL

(* sysupgrade reboots only with the whole image on the flash; a device it  *)
(* leaves dead was given an image that was emptied after it had been       *)
(* validated (sysupgrade.rs: run; mtd.rs: write).                          *)
THEOREM FlashReboots == Spec => []RebootSafe
BY FlashInvariance, PTL DEF FlashInv

(* verify tells the truth, also after power losses (mtd.rs: verify).       *)
THEOREM FlashVerifies == Spec => []VerifyTruth
BY FlashInvariance, PTL DEF FlashInv

=============================================================================
