------------------------------- MODULE Mount -------------------------------
(***************************************************************************)
(* One disk through many sessions of the system: boot opens the file       *)
(* system (DfsOpenFileSystem), processes work on it, fdisk formats it, and *)
(* GracefulExit closes it (DfsCloseFileSystem) unless the simulator stops  *)
(* first, at any step.                                                     *)
(*                                                                         *)
(* Closing is one step per block, as DfsCloseFileSystem writes it: the     *)
(* dirty blocks of the cache, the inodes and the free block vector in      *)
(* order, and the superblock last, with the mark that says "closed".       *)
(* Opening clears the mark before anything else is written.  Neither of    *)
(* them looks at what its block transfers return, but for the superblock:  *)
(* a session goes on without what it could not read, and a close sets the  *)
(* mark whatever it could not write.                                       *)
(***************************************************************************)
EXTENDS HostFiles

CONSTANTS
  NumMetaBlocks,  \* disk blocks of the inodes and, behind them, of the vector
  FbvStart,       \* the first disk block of the vector
  UsedBlocks,     \* what fdisk puts there
  Marked,         \* a superblock with valid = 1
  Unmarked        \* a superblock with valid = 0, the geometry filled in

SuperBlock == 1
MetaStart == SuperBlock + 1
MetaEnd == SuperBlock + NumMetaBlocks
MetaBlocks == MetaStart .. MetaEnd
DataBlocks == MetaEnd + 1 .. DISK_NUMBLOCKS - 1
Stored == MetaStart .. DISK_NUMBLOCKS - 1
Images == [Stored -> Contents]

ASSUME MountAssumption ==
  /\ NumMetaBlocks \in Nat \ {0}
  /\ MetaEnd < DISK_NUMBLOCKS
  /\ FbvStart \in MetaBlocks
  /\ {UsedBlocks, Marked, Unmarked} \subseteq Contents
  /\ Marked # Unmarked /\ Zero \notin {Marked, Unmarked, UsedBlocks}

VARIABLES
  pc,        \* where the kernel is
  valid,     \* sb.valid in memory
  mem,       \* inodes and vector in memory; the data as its writers left it
  dirty,     \* data blocks whose content is only in the cache
  at,        \* the next block DfsCloseFileSystem writes
  fdisk,     \* where the process that runs fdisk is
  fat,       \* the next block fdisk writes
  saved,     \* what the last close had in memory when it came to the mark
  unread,    \* the blocks this open could not read
  unwritten, \* the blocks whose last write since the mark was cleared failed
  overwritten,  \* fdisk or the data of files went over the metadata on the disk
  astray     \* a session began with a vector that gives the metadata away

kernel == <<pc, valid, mem, dirty, at>>
format == <<fdisk, fat>>
history == <<saved, unread, unwritten, overwritten, astray>>
vars == <<openfiles, file, lost, kernel, format, history>>

Blank == [b \in Stored |-> Zero]
OnDisk == [b \in Stored |-> file[b]]

\* The simulator ends: only the host file is left.
Stop ==
  /\ pc' = "off" /\ valid' = FALSE /\ mem' = Blank /\ dirty' = {}
  /\ at' = MetaStart /\ fdisk' = "idle" /\ fat' = MetaStart
  /\ openfiles' = {} /\ lost' = 0
  /\ unread' = {}

Init ==
  /\ pc = "off" /\ valid = FALSE /\ mem = Blank /\ dirty = {}
  /\ at = MetaStart /\ fdisk = "idle" /\ fat = MetaStart
  /\ openfiles = {} /\ lost = 0
  /\ file = Absent
  /\ saved = Blank /\ unread = {} /\ unwritten = {}
  /\ overwritten = FALSE /\ astray = FALSE

-----------------------------------------------------------------------------
(* Boot: main, DfsModuleInit, DfsOpenFileSystem *)

Boot ==
  /\ pc = "off" /\ pc' = "boot"
  /\ FsModuleInit
  /\ UNCHANGED <<file, valid, mem, dirty, at, format, history>>

BootPrints ==
  /\ pc = "boot" /\ PrintFile
  /\ UNCHANGED <<kernel, format, history>>

BootVm ==
  /\ pc = "boot" /\ pc' = "superblock"
  /\ OpenVm
  /\ UNCHANGED <<valid, mem, dirty, at, format, history>>

\* The superblock cannot be read: the system runs without a file system.
OpenFails ==
  /\ pc = "superblock" /\ pc' = "run"
  /\ DiskTransfer(FALSE)
  /\ UNCHANGED <<file, valid, mem, dirty, at, format, history>>

\* The superblock is all zeros and the code divides by its block size.  What
\* the machine makes of that is cut off: the session ends here.
OpenUnformatted ==
  /\ pc = "superblock" /\ DiskReachable
  /\ file[SuperBlock] = Zero
  /\ Stop
  /\ UNCHANGED <<file, saved, unwritten, overwritten, astray>>

OpenSuperblock ==
  /\ pc = "superblock" /\ pc' = "read"
  /\ DiskTransfer(TRUE)
  /\ DiskReadBlock(SuperBlock, Zero, TRUE) # Zero
  /\ UNCHANGED <<file, valid, mem, dirty, at, format, history>>

\* Wrong variant: the last block is not read.
ReadAllButLast(got) ==
  [b \in Stored |-> DiskReadBlock(b, mem[b], b \in got \ {MetaEnd})]

\* The blocks DfsReadContiguousBytes copies to memory, and the data that
\* readers will find on the disk.
ReadContiguous(got) == [b \in Stored |-> DiskReadBlock(b, mem[b], b \in got)]

\* The inodes are read up to block i and the vector up to block v, where a
\* read fails or they end; the open goes on with what it has.
OpenRead ==
  /\ pc = "read" /\ pc' = "mark"
  /\ \E i \in MetaStart .. FbvStart, v \in FbvStart .. MetaEnd + 1 :
       /\ DiskTransfer(i > MetaStart \/ v > FbvStart)
       /\ unread' = (i .. FbvStart - 1) \cup (v .. MetaEnd)
       /\ mem' = ReadContiguous(Stored \ unread')
  /\ astray' = (astray \/ mem'[FbvStart] = Zero)
  /\ UNCHANGED <<file, valid, dirty, at, format, saved, unwritten, overwritten>>

\* Wrong variant: the mark on the disk is left as it is.
MarkInMemory ==
  /\ pc = "mark" /\ pc' = "run"
  /\ valid' = TRUE
  /\ unread' = {} /\ unwritten' = {} /\ overwritten' = FALSE
  /\ UNCHANGED <<openfiles, file, lost, mem, dirty, at, format, saved, astray>>

\* Only with the mark cleared is the file system open.
OpenMark ==
  /\ pc = "mark" /\ pc' = "run"
  /\ \E done \in BOOLEAN :
       /\ DiskWriteBlock(SuperBlock, Unmarked, done)
       /\ valid' = done
       /\ unwritten' = IF done THEN {} ELSE unwritten
       /\ overwritten' = (overwritten /\ ~done)
  /\ unread' = {}
  /\ UNCHANGED <<mem, dirty, at, format, saved, astray>>

-----------------------------------------------------------------------------
(* A session *)

Load ==
  /\ pc = "run" /\ LoadProgram
  /\ UNCHANGED <<kernel, format, history>>

\* A call changes an inode block, a block of the vector or a cached block.  It
\* never clears the bits of the metadata in the vector.
Update(b, c) ==
  /\ pc = "run" /\ valid
  /\ b = FbvStart /\ c = Zero => astray
  /\ mem' = [mem EXCEPT ![b] = c]
  /\ dirty' = IF b \in DataBlocks THEN dirty \cup {b} ELSE dirty
  /\ UNCHANGED <<openfiles, file, lost, pc, valid, at, format, history>>

\* DfsWriteBlockUncached, whose result is ignored: it fails for a block the
\* vector has as free, and with the transfer of a block or of one before it.
WriteUncached(b) ==
  /\ \E done \in BOOLEAN :
       /\ DiskWriteBlock(b, mem[b], done)
       /\ unwritten' = IF done THEN unwritten \ {b} ELSE unwritten \cup {b}
  /\ UNCHANGED <<saved, unread, overwritten, astray>>

\* A dirty slot is written back; its buffer is gone even if that fails.
WriteBack(d) ==
  /\ d \in dirty
  /\ dirty' = dirty \ {d}
  /\ WriteUncached(d)
  /\ UNCHANGED <<pc, valid, mem, at, format>>

Evict(d) == pc = "run" /\ valid /\ WriteBack(d)

\* With the metadata free by the vector, files get its blocks for their data,
\* and an eviction or the flush brings the data there (Zero stands for it).
Overrun(b) ==
  /\ pc \in {"run", "flush"} /\ valid /\ astray
  /\ \E done \in BOOLEAN : DiskWriteBlock(b, Zero, done)
  /\ overwritten' = TRUE
  /\ UNCHANGED <<kernel, format, saved, unread, unwritten, astray>>

Invalidate ==
  /\ pc = "run" /\ valid' = FALSE
  /\ UNCHANGED <<openfiles, file, lost, pc, mem, dirty, at, format, history>>

Crash ==
  /\ pc # "off" /\ Stop
  /\ UNCHANGED <<file, saved, unwritten, overwritten, astray>>

-----------------------------------------------------------------------------
(* GracefulExit and DfsCloseFileSystem *)

ExitUnopened ==
  /\ pc = "run" /\ ~valid
  /\ Stop
  /\ UNCHANGED <<file, saved, unwritten, overwritten, astray>>

Close ==
  /\ pc = "run" /\ valid
  /\ pc' = "flush"
  /\ UNCHANGED <<openfiles, file, lost, valid, mem, dirty, at, format, history>>

CloseFlush(d) == pc = "flush" /\ WriteBack(d)

FlushDone ==
  /\ pc = "flush" /\ dirty = {}
  /\ pc' = "metadata"
  /\ UNCHANGED <<openfiles, file, lost, valid, mem, dirty, at, format, history>>

CloseMetadata ==
  /\ pc = "metadata"
  /\ WriteUncached(at)
  /\ at' = at + 1
  /\ pc' = IF at = MetaEnd THEN "mark closed" ELSE pc
  /\ UNCHANGED <<valid, mem, dirty, format>>

CloseMark ==
  /\ pc = "mark closed"
  /\ \/ DiskReachable /\ file' = [file EXCEPT ![SuperBlock] = Marked]
     \/ UNCHANGED file
  /\ saved' = mem
  /\ Stop
  /\ UNCHANGED <<unwritten, overwritten, astray>>

-----------------------------------------------------------------------------
(* fdisk, a user process: its own superblock says valid = 0; the kernel's   *)
(* still says 1.  It does not look at what its writes return.               *)

Formatting == pc = "run" /\ UNCHANGED <<kernel, saved, unread, unwritten>>

FdiskStart ==
  /\ Formatting /\ fdisk = "idle" /\ Loadable
  /\ fdisk' = "create"
  /\ UNCHANGED <<openfiles, file, lost, fat, overwritten, astray>>

FdiskCreate ==
  /\ Formatting /\ fdisk = "create"
  /\ \E erased, done \in BOOLEAN :
       /\ DiskCreate(erased, done)
       /\ fdisk' = IF done THEN "write" ELSE "idle"
       /\ overwritten' = (overwritten \/ erased)
       /\ astray' = (astray /\ (valid \/ ~erased))
  /\ fat' = MetaStart

Fresh(b) == IF b = FbvStart THEN UsedBlocks ELSE Zero

\* Wrong variant: the loop writes one block too many.
FdiskWriteTooMany ==
  /\ Formatting /\ fdisk = "write"
  /\ \E done \in BOOLEAN : DiskWriteBlock(fat, Fresh(fat), done)
  /\ fat' = fat + 1
  /\ fdisk' = IF fat > MetaEnd THEN "superblock" ELSE fdisk
  /\ UNCHANGED <<overwritten, astray>>

FdiskWrite ==
  /\ Formatting /\ fdisk = "write"
  /\ \E done \in BOOLEAN : DiskWriteBlock(fat, Fresh(fat), done)
  /\ fat' = fat + 1
  /\ fdisk' = IF fat = MetaEnd THEN "superblock" ELSE fdisk
  /\ UNCHANGED <<overwritten, astray>>

FdiskSuperblock ==
  /\ Formatting /\ fdisk = "superblock"
  /\ \E done \in BOOLEAN : DiskWriteBlock(SuperBlock, Unmarked, done)
  /\ fdisk' = "done"
  /\ UNCHANGED <<fat, overwritten, astray>>

\* exitsim: the simulator ends without GracefulExit.
FdiskExit ==
  /\ pc = "run" /\ fdisk = "done"
  /\ Stop
  /\ UNCHANGED <<file, saved, unwritten, overwritten, astray>>

-----------------------------------------------------------------------------

Next ==
  \/ Boot \/ BootPrints \/ BootVm
  \/ OpenFails \/ OpenUnformatted \/ OpenSuperblock \/ OpenRead \/ OpenMark
  \/ Load \/ Invalidate \/ Crash
  \/ \E b \in Stored, c \in Contents \ {Marked, Unmarked} : Update(b, c)
  \/ \E d \in DataBlocks : Evict(d) \/ CloseFlush(d)
  \/ \E b \in 0 .. MetaEnd : Overrun(b)
  \/ ExitUnopened \/ Close \/ FlushDone \/ CloseMetadata \/ CloseMark
  \/ FdiskStart \/ FdiskCreate \/ FdiskWrite \/ FdiskSuperblock \/ FdiskExit

Spec == Init /\ [][Next]_vars

-----------------------------------------------------------------------------
(* Properties *)

TypeOK ==
  /\ openfiles \subseteq Slots
  /\ file \in [DiskBlocks -> Contents] \cup {Absent}
  /\ lost \in 0 .. FS_MAX_OPEN_FILES
  /\ pc \in {"off", "boot", "superblock", "read", "mark", "run", "flush",
             "metadata", "mark closed"}
  /\ valid \in BOOLEAN
  /\ mem \in Images /\ saved \in Images
  /\ dirty \subseteq DataBlocks
  /\ {at, fat} \subseteq MetaStart .. MetaEnd + 1
  /\ fdisk \in {"idle", "create", "write", "superblock", "done"}
  /\ unread \subseteq MetaBlocks /\ unwritten \subseteq Stored
  /\ overwritten \in BOOLEAN /\ astray \in BOOLEAN

IsMarked == file # Absent /\ file[SuperBlock] = Marked

\* A disk that is marked closed holds, block for block, what memory and cache
\* held when the close that marked it came to the mark, but for the blocks that
\* close or an eviction of its session tried to write and could not: the mark
\* was cleared before the first write of the session and is set after the last
\* (os/dfs.c:140-151, 168-200), whatever crashed between two of them.  Nothing
\* is said of a disk whose metadata was written over, by fdisk (FormatStays) or
\* by the data of files.
MarkedMeansComplete ==
  IsMarked /\ ~overwritten => \A b \in Stored \ unwritten : file[b] = saved[b]

\* A session that starts on a disk marked closed starts with what the last one
\* had, in every block that that one could write and this one could read.
ReopenRestores ==
  [][pc = "read" /\ pc' = "mark" /\ IsMarked /\ ~overwritten =>
       \A b \in Stored \ (unwritten \cup unread') : mem'[b] = saved[b]]_vars

\* While the file system is open the table of files has a slot for its disk:
\* the accesses give their slots back, also those that fail, slot 0 is taken
\* before the first of them, and only files that are not executables use it up.
DiskStaysReachable ==
  valid /\ lost < FS_MAX_OPEN_FILES - 1 => DiskReachable

\* apps/fdisk/fdisk/fdisk.c:30 "Need to invalidate filesystem before writing
\* to it to make sure that the OS doesn't wipe out what we do here with the
\* old version in memory": once fdisk has formatted the disk, the kernel of
\* that session leaves the superblock, the inodes and the vector alone (but for
\* the data of files of a session that went astray).
FormatStays ==
  [][fdisk = "done" /\ ~astray =>
       \A b \in {SuperBlock} \cup MetaBlocks : file'[b] = file[b]]_vars
=============================================================================
