------------------------------- MODULE Flash --------------------------------
(***************************************************************************)
(* Firmware upgrades: the commands of `mtd` (src/src/mtd.rs) and           *)
(* `sysupgrade` (src/src/sysupgrade.rs) on one flash partition, with a     *)
(* power loss between any two steps, erases and writes that fail, and an   *)
(* image file that changes while a command runs (it is named, not held).   *)
(*                                                                         *)
(* The partition is one cell per byte.  A cell that is written without     *)
(* having been erased is spoilt, as bits can only be cleared.              *)
(***************************************************************************)
EXTENDS Integers

CONSTANTS
    Infos,       \* MtdInfo of the partition: [size, erasesize]
    Images,      \* image files: [ver, len]; len 0 is an empty file
    WordSize,    \* 2^32 in the code
    MaxCmds,     \* bound on the commands run
    MaxChanges   \* bound on the changes of the image file

NoImage == [ver |-> "none", len |-> 0]
Old     == "old"    \* the firmware the device came with
Erased  == "ff"
Spoilt  == "spoilt"
Cells   == {Old, Erased, Spoilt} \cup {i.ver : i \in Images}
Cmds    == {"upgrade", "test", "write", "erase", "verify"}

\* The kernel makes a partition writable only if it is a whole number of blocks.
ASSUME FlashAssumption ==
    /\ WordSize \in Nat \ {0} /\ MaxCmds \in Nat /\ MaxChanges \in Nat
    /\ \A d \in Infos : /\ d.size \in 1 .. WordSize - 1 /\ d.erasesize \in 0 .. d.size
                        /\ d.erasesize > 0 => d.size % d.erasesize = 0
    /\ \A i \in Images : i.len \in Nat /\ i.ver # Spoilt

VARIABLES
    info,     \* the partition's size and erase size
    flash,    \* its cells
    image,    \* the image file
    saved,    \* config.bak holds the configuration
    pc, cmd, keep,
    data,     \* the image as mtd read it into memory
    off,      \* position of the erase or write loop
    rc,       \* exit code of the last command, -1 if it has none
    cmds, changes,
    before,   \* history: the cells when the command started
    checked,  \* history: the image validate looked at
    wrote,    \* history: the image the last write put down, until the next erase
    cause     \* history: why the device is dead

vars  == <<info, flash, image, saved, pc, cmd, keep, data, off, rc, cmds, changes, before, checked, wrote, cause>>
fixed == <<info, cmd, keep, cmds, changes, before>>   \* what no step of a command changes

Size   == info.size
Offset == 0 .. Size - 1

Init ==
    /\ info \in Infos
    /\ flash = [o \in Offset |-> Old] /\ before = flash
    /\ image \in Images \cup {NoImage}
    /\ saved = FALSE
    /\ pc = "idle" /\ cmd = "verify" /\ keep = TRUE
    /\ data = NoImage /\ checked = NoImage /\ off = 0 /\ rc = 0
    /\ cmds = 0 /\ changes = 0 /\ wrote = NoImage /\ cause = "none"

-----------------------------------------------------------------------------
(* What is on the flash.                                                   *)

Holds(cells, i) == \A o \in Offset : o < i.len => cells[o] = i.ver

\* What the boot loader would start: the old firmware, or an image it finds whole.
Bootable(cells) == \E i \in Images \cup {[ver |-> Old, len |-> Size]} : i.len > 0 /\ i.len <= Size /\ Holds(cells, i)

-----------------------------------------------------------------------------
(* Commands.                                                               *)

Exit(code) == pc' = "idle" /\ rc' = code

\* A command is typed; -n and -T are options of sysupgrade.
Start(c, k) ==
    /\ pc = "idle" /\ cmds < MaxCmds
    /\ cmd' = c /\ keep' = k /\ cmds' = cmds + 1
    /\ rc' = -1 /\ data' = NoImage /\ off' = 0 /\ before' = flash
    /\ pc' = CASE c \in {"upgrade", "test"} -> "validate" [] c = "erase" -> "open" [] OTHER -> "read"
    /\ checked' = NoImage
    /\ UNCHANGED <<info, flash, image, saved, changes, wrote, cause>>

\* validate: a regular file that is not empty, and a partition that resolves
\* (or not).  Its size is not compared with the partition's.
ValidateOk == image # NoImage /\ image.len > 0

Validate ==
    /\ pc = "validate" /\ ValidateOk
    /\ checked' = image
    /\ IF cmd = "test" THEN Exit(0) ELSE pc' = "backup" /\ UNCHANGED rc
    /\ UNCHANGED <<fixed, flash, image, saved, data, off, wrote, cause>>

ValidateFails ==
    /\ pc = "validate"
    /\ Exit(1)
    /\ UNCHANGED <<fixed, flash, image, saved, data, off, checked, wrote, cause>>

\* backup_config, then sync.  A copy that fails is only warned about, and may
\* have spoilt an earlier one.
Backup ==
    /\ pc = "backup" /\ pc' = "read"
    /\ IF keep THEN saved' \in BOOLEAN ELSE UNCHANGED saved
    /\ UNCHANGED <<fixed, flash, image, data, off, rc, checked, wrote, cause>>

\* mtd: the whole image is read into memory, before the device is opened.
ReadImage ==
    /\ pc = "read" /\ image # NoImage
    /\ data' = image /\ pc' = "open"
    /\ UNCHANGED <<fixed, flash, image, saved, off, rc, checked, wrote, cause>>

ReadFails ==
    /\ pc = "read"
    /\ Exit(1)
    /\ UNCHANGED <<fixed, flash, image, saved, data, off, checked, wrote, cause>>

\* Mutant: an image that does not fit is noticed only by the write.
FitsAlways == TRUE

Fits == data.len <= Size

Open ==
    /\ pc = "open"
    /\ CASE cmd = "erase"  -> pc' = "erase" /\ UNCHANGED rc
         [] cmd = "verify" -> pc' = "verify" /\ UNCHANGED rc
         [] OTHER          -> IF Fits THEN pc' = "erase" /\ UNCHANGED rc ELSE Exit(1)
    /\ UNCHANGED <<fixed, flash, image, saved, data, off, checked, wrote, cause>>

OpenFails ==
    /\ pc = "open"
    /\ Exit(1)
    /\ UNCHANGED <<fixed, flash, image, saved, data, off, checked, wrote, cause>>

\* erase_range: a chip without blocks is erased byte by byte.
Block == IF info.erasesize = 0 THEN 1 ELSE info.erasesize

EraseLen == IF cmd = "erase" THEN Size ELSE data.len

\* Mutant: the end of the range is rounded down.
EraseEndDown == (EraseLen \div Block) * Block

\* Rounded up to whole blocks in u32 arithmetic, at most the partition's size.
EraseEnd ==
    LET end == (((EraseLen + Block - 1) \div Block) * Block) % WordSize
    IN IF end < Size THEN end ELSE Size

\* Mutant: the loop advances by the erase size the chip reports.
EraseBlockRaw ==
    /\ pc = "erase" /\ off < EraseEnd
    /\ flash' = [o \in Offset |-> IF off <= o /\ o < off + Block THEN Erased ELSE flash[o]]
    /\ off' = off + info.erasesize
    /\ wrote' = NoImage
    /\ UNCHANGED <<fixed, image, saved, pc, data, rc, checked, cause>>

EraseBlock ==
    /\ pc = "erase" /\ off < EraseEnd
    /\ flash' = [o \in Offset |-> IF off <= o /\ o < off + Block THEN Erased ELSE flash[o]]
    /\ off' = off + Block
    /\ wrote' = NoImage
    /\ UNCHANGED <<fixed, image, saved, pc, data, rc, checked, cause>>

EraseFails ==
    /\ pc = "erase" /\ off < EraseEnd
    /\ Exit(1)
    /\ UNCHANGED <<fixed, flash, image, saved, data, off, checked, wrote, cause>>

EraseDone ==
    /\ pc = "erase" /\ off >= EraseEnd
    /\ IF cmd = "erase" THEN Exit(0) /\ UNCHANGED off ELSE pc' = "write" /\ off' = 0 /\ UNCHANGED rc
    /\ UNCHANGED <<fixed, flash, image, saved, data, checked, wrote, cause>>

\* write_all, a byte at a time, so that power can fail between any two.
WriteByte ==
    /\ pc = "write" /\ off < data.len /\ off < Size
    /\ flash' = [flash EXCEPT ![off] = IF @ = Erased THEN data.ver ELSE Spoilt]
    /\ off' = off + 1
    /\ UNCHANGED <<fixed, image, saved, pc, data, rc, checked, wrote, cause>>

\* Mutant: sysupgrade does not look at the result of the write.
WriteFailsUnseen ==
    /\ pc = "write" /\ off < data.len
    /\ IF cmd = "upgrade" THEN pc' = "reboot" /\ UNCHANGED rc ELSE Exit(1)
    /\ UNCHANGED <<fixed, flash, image, saved, data, off, checked, wrote, cause>>

WriteFails ==
    /\ pc = "write" /\ off < data.len
    /\ Exit(1)
    /\ UNCHANGED <<fixed, flash, image, saved, data, off, checked, wrote, cause>>

\* All is written and flushed; sysupgrade then syncs and reboots.
WriteDone ==
    /\ pc = "write" /\ off = data.len
    /\ IF cmd = "upgrade" THEN pc' = "reboot" /\ UNCHANGED rc ELSE Exit(0)
    /\ wrote' = data
    /\ UNCHANGED <<fixed, flash, image, saved, data, off, checked, cause>>

\* Mutant: only the first byte is compared.
SameFirst == data.len <= Size /\ (data.len > 0 => flash[0] = data.ver)

\* read_exact and the comparison with the image.
Same == data.len <= Size /\ Holds(flash, data)

Verify ==
    /\ pc = "verify"
    /\ Exit(IF data.len > Size THEN 1 ELSE IF Same THEN 0 ELSE 2)
    /\ UNCHANGED <<fixed, flash, image, saved, data, off, checked, wrote, cause>>

\* The device comes up again, with an empty /tmp, or does not.
Restart(why) ==
    /\ IF Bootable(flash) THEN pc' = "idle" /\ UNCHANGED cause ELSE pc' = "dead" /\ cause' = why
    /\ rc' = -1 /\ image' = NoImage
    /\ UNCHANGED <<fixed, flash, saved, data, off, checked, wrote>>

Reboot == pc = "reboot" /\ Restart("reboot")

PowerLoss == pc # "dead" /\ Restart("power")

\* Somebody downloads or replaces the image.
ImageChanges ==
    /\ pc # "dead" /\ changes < MaxChanges
    /\ image' \in (Images \cup {NoImage}) \ {image} /\ changes' = changes + 1
    /\ UNCHANGED <<info, flash, saved, pc, cmd, keep, data, off, rc, cmds, before, checked, wrote, cause>>

Progress ==
    Validate \/ Backup \/ ReadImage \/ Open \/ EraseBlock \/ EraseDone \/ WriteByte \/ WriteDone \/ Verify \/ Reboot

Fails == ValidateFails \/ ReadFails \/ OpenFails \/ EraseFails \/ WriteFails

Next == Progress \/ Fails \/ PowerLoss \/ ImageChanges \/ \E c \in Cmds, k \in BOOLEAN : Start(c, k)

\* A command is a sequential program whose system calls return.  They may
\* fail, but need not, except where there is no image.
Refused  == (~ValidateOk /\ ValidateFails) \/ (image = NoImage /\ ReadFails)
Fairness == WF_vars(Progress) /\ WF_vars(Refused)

Spec == Init /\ [][Next]_vars /\ Fairness

-----------------------------------------------------------------------------
(* Properties.                                                             *)

(* Cells, positions and codes are what the code can produce; in particular *)
(* no cell is ever written without having been erased, whatever the sizes  *)
(* of blocks and image (erase_range, write).                               *)
TypeOK ==
    /\ flash \in [Offset -> Cells \ {Spoilt}]
    /\ pc \in {"idle", "validate", "backup", "read", "open", "erase", "write", "verify", "reboot", "dead"}
    /\ data \in Images \cup {NoImage}
    /\ off \in 0 .. Size /\ rc \in -1 .. 2

(* What a power loss can leave behind at any moment: the first w bytes of  *)
(* the image, then erased cells up to a block boundary, then what was      *)
(* there before the command; no byte is written before the whole range is  *)
(* erased, and nothing beyond the image's last block is touched (mtd       *)
(* write).  A command that is refused, and a test, touch nothing at all.   *)
CrashShape ==
    pc \notin {"idle", "dead"} =>
        \E w \in 0 .. Size, e \in 0 .. Size :
            /\ w <= e /\ e % Block = 0 /\ (w > 0 => w <= data.len /\ e >= data.len)
            /\ e < EraseLen + Block
            /\ e > 0 => cmd \in {"upgrade", "write", "erase"} /\ pc \in {"erase", "write", "reboot"}
            /\ \A o \in Offset : flash[o] = IF o < w THEN data.ver ELSE IF o < e THEN Erased ELSE before[o]

(* sysupgrade reboots only with the image it read wholly on the flash, so  *)
(* that a device dies by its hand only if the image file it had validated  *)
(* was emptied before mtd read it (run: NOT rebooting unless rc = 0).      *)
RebootSafe ==
    /\ pc = "reboot" => Holds(flash, data) /\ data.len <= Size
    /\ pc = "dead" /\ cause = "reboot" => data.len = 0 /\ checked.len > 0

(* verify says 0 only if the image is on the flash, and it does say 0 for  *)
(* the image that was written last, if nothing was erased since, power     *)
(* losses or not (verify, write).                                          *)
VerifyTruth ==
    pc = "idle" /\ cmd = "verify" /\ rc \in {0, 2} /\ data # NoImage =>
        /\ rc = 0 => Holds(flash, data)
        /\ data = wrote => rc = 0

(* Every command comes to an end: the erase loop also on a chip that has   *)
(* no erase size.                                                          *)
CommandEnds == (pc # "idle") ~> (pc \in {"idle", "dead"})
=============================================================================
