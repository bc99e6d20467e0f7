---------------------------- MODULE MountProofs ----------------------------
(***************************************************************************)
(* Proofs about Mount for every size of the disk, of its metadata and of   *)
(* the table of files: whatever stops between two writes and whichever     *)
(* transfers fail, each for good or only once, a disk that is marked       *)
(* closed holds what the last close had in memory but for the blocks it    *)
(* could not write, and the next session starts with what it can read.     *)
(***************************************************************************)
EXTENDS Mount, QueueTheorems, FiniteSetTheorems, TLAPS

Closing == pc \in {"flush", "metadata", "mark closed"}
Written == fdisk \in {"write", "superblock", "done"}

\* What the place the kernel and fdisk are at says of the other variables.
Phases ==
  /\ pc # "run" /\ ~Closing => dirty = {} /\ ~valid /\ fdisk = "idle"
  /\ Closing => valid
  /\ pc \in {"metadata", "mark closed"} => dirty = {}
  /\ pc = "metadata" => at <= MetaEnd
  /\ pc = "mark closed" => at = MetaEnd + 1
  /\ pc \notin {"metadata", "mark closed"} => at = MetaStart
  /\ fdisk = "write" => fat <= MetaEnd

\* Slot 0 is in use from the first access to the disk that succeeds.
FirstSlotTaken ==
  /\ valid \/ pc \in {"read", "mark"} \/ fdisk # "idle" => 0 \in openfiles
  /\ pc \in {"read", "mark"} => file # Absent

\* A slot is in use for each file that lost one.
LostCounted == lost <= Cardinality(openfiles)

\* While a session has the file system open, or has overwritten the disk, the
\* disk is not marked.
OpenIsUnmarked == valid \/ Written => file # Absent /\ ~IsMarked

FormatNoted == Written => overwritten

\* What memory and cache no longer have to bring to the disk is there, unless
\* its write failed: the clean data, and the metadata the close is done with.
ReachesDisk ==
  valid /\ ~overwritten =>
    /\ \A d \in DataBlocks \ unwritten : d \notin dirty => file[d] = mem[d]
    /\ \A b \in MetaBlocks \ unwritten : b < at => file[b] = mem[b]

\* Apart from slot 0, no slot is in use that no file lost.
LostBounds == Cardinality(openfiles \ {0}) <= lost

ReadIsMemory == pc = "mark" => \A b \in Stored \ unread : mem[b] = file[b]

IInv ==
  /\ TypeOK /\ Phases /\ FirstSlotTaken /\ LostCounted
  /\ OpenIsUnmarked /\ FormatNoted /\ ReachesDisk /\ ReadIsMemory
  /\ MarkedMeansComplete
-----------------------------------------------------------------------------
(* The disk's layout and the table of files *)

LEMMA Layout ==
  /\ MetaStart = 2 /\ MetaEnd \in Nat /\ MetaEnd >= 2 /\ MetaStart <= MetaEnd
  /\ MetaBlocks \subseteq Stored /\ DataBlocks \subseteq Stored
  /\ \A b \in Stored : b \in MetaBlocks \/ b \in DataBlocks
  /\ \A b \in MetaBlocks : b \notin DataBlocks /\ b <= MetaEnd /\ b >= MetaStart
  /\ Stored \subseteq DiskBlocks
  /\ SuperBlock \in DiskBlocks /\ SuperBlock \notin Stored
BY HostAssumption, MountAssumption
DEF MetaStart, MetaEnd, SuperBlock, MetaBlocks, DataBlocks, Stored, DiskBlocks

LEMMA MetaIsInterval ==
  /\ MetaBlocks \subseteq Nat
  /\ \A n \in Nat : n \in MetaBlocks <=> MetaStart <= n /\ n <= MetaEnd
  /\ \A n \in Nat : n \in MetaStart .. MetaEnd + 1 <=> MetaStart <= n /\ n <= MetaEnd + 1
<1>1. MetaStart \in Nat /\ MetaEnd \in Nat
  BY Layout
<1>. QED BY <1>1 DEF MetaBlocks

LEMMA LostIsNat == TypeOK => lost \in Nat
<1>1. TypeOK => lost \in 0 .. FS_MAX_OPEN_FILES
  BY DEF TypeOK
<1>. QED BY <1>1, HostAssumption

LEMMA NextBlocks ==
  ASSUME TypeOK
  PROVE  /\ at \in Nat /\ at >= MetaStart /\ at <= MetaEnd + 1
         /\ fat \in Nat /\ fat >= MetaStart /\ fat <= MetaEnd + 1
<1>1. at \in MetaStart .. MetaEnd + 1 /\ fat \in MetaStart .. MetaEnd + 1
  BY DEF TypeOK
<1>2. MetaStart = 2 /\ MetaEnd \in Nat
  BY Layout
<1>. QED BY <1>1, <1>2

LEMMA SlotsCounted ==
  ASSUME NEW S \in SUBSET Slots
  PROVE  /\ IsFiniteSet(S)
         /\ Cardinality(S) \in Nat
         /\ Cardinality(S) <= FS_MAX_OPEN_FILES
<1>1. IsFiniteSet(Slots) /\ Cardinality(Slots) = FS_MAX_OPEN_FILES
  <2>1. 0 \in Int /\ FS_MAX_OPEN_FILES - 1 \in Int
    BY HostAssumption
  <2>2. /\ IsFiniteSet(0 .. FS_MAX_OPEN_FILES - 1)
        /\ Cardinality(0 .. FS_MAX_OPEN_FILES - 1) =
             IF 0 > FS_MAX_OPEN_FILES - 1 THEN 0 ELSE FS_MAX_OPEN_FILES - 1 - 0 + 1
    BY <2>1, FS_Interval, Zenon
  <2>. QED BY <2>2, HostAssumption DEF Slots
<1>2. IsFiniteSet(S) /\ Cardinality(S) <= Cardinality(Slots)
  BY <1>1, FS_Subset, Zenon
<1>3. Cardinality(S) \in Nat
  BY <1>2, FS_CardinalityType, Zenon
<1>. QED BY <1>1, <1>2, <1>3

\* Files that are closed again leave at most slot 0 behind, and that once.
LEMMA FirstSlotLeft ==
  ASSUME TypeOK, LostCounted, lost' = lost,
         openfiles' = openfiles \/ openfiles' = openfiles \cup {0}
  PROVE  openfiles' \subseteq Slots /\ LostCounted'
<1>1. 0 \in Slots
  BY HostAssumption DEF Slots
<1>2. IsFiniteSet(openfiles) /\ Cardinality(openfiles) \in Nat
  BY SlotsCounted DEF TypeOK
<1>3. Cardinality(openfiles \cup {0}) =
        IF 0 \in openfiles THEN Cardinality(openfiles) ELSE Cardinality(openfiles) + 1
  BY <1>2, FS_AddElement, Zenon
<1>4. Cardinality(openfiles) <= Cardinality(openfiles')
  BY <1>2, <1>3
<1>5. Cardinality(openfiles') \in Nat /\ lost \in Nat
  BY <1>2, <1>3, LostIsNat
<1>6. openfiles' \subseteq Slots
  BY <1>1 DEF TypeOK
<1>. QED BY <1>2, <1>4, <1>5, <1>6 DEF LostCounted

LEMMA AccessKeepsSlots ==
  ASSUME TypeOK, LostCounted, NEW done, DiskTransfer(done)
  PROVE  /\ openfiles' \subseteq Slots /\ lost' = lost /\ LostCounted'
         /\ 0 \in openfiles => openfiles' = openfiles
<1>1. openfiles' = openfiles \/ openfiles' = openfiles \cup {0}
  BY HostAssumption DEF DiskTransfer, FsOpen, FsClose, FdValid, Slots
<1>2. lost' = lost
  BY DEF DiskTransfer
<1>. QED BY <1>1, <1>2, FirstSlotLeft DEF TypeOK

\* A file that keeps its slot.
LEMMA LeaveOpenTakesSlot ==
  ASSUME TypeOK, LostCounted, LeaveOpen
  PROVE  /\ openfiles \subseteq openfiles' /\ openfiles' \subseteq Slots
         /\ lost' \in 0 .. FS_MAX_OPEN_FILES /\ LostCounted'
<1>1. PICK s \in Slots : FsOpen(s) /\ openfiles' = openfiles \cup {s}
  BY DEF LeaveOpen
<1>2. openfiles \subseteq openfiles' /\ openfiles' \subseteq Slots
  BY <1>1 DEF TypeOK
<1>3. IsFiniteSet(openfiles) /\ Cardinality(openfiles) \in Nat
  BY SlotsCounted DEF TypeOK
<1>4. Cardinality(openfiles') = Cardinality(openfiles) + 1
  <2>1. s \notin openfiles
    BY <1>1 DEF FsOpen
  <2>2. Cardinality(openfiles \cup {s}) =
          IF s \in openfiles THEN Cardinality(openfiles) ELSE Cardinality(openfiles) + 1
    BY <1>3, FS_AddElement, Zenon
  <2>. QED BY <1>1, <2>1, <2>2
<1>5. lost' = lost + 1 /\ lost \in Nat
  BY LostIsNat DEF LeaveOpen
<1>6. LostCounted'
  BY <1>3, <1>4, <1>5 DEF LostCounted
<1>7. lost' \in 0 .. FS_MAX_OPEN_FILES
  <2>1. Cardinality(openfiles') <= FS_MAX_OPEN_FILES
    BY <1>2, SlotsCounted
  <2>. QED BY <1>3, <1>4, <1>5, <1>6, <2>1, HostAssumption DEF LostCounted
<1>. QED BY <1>2, <1>6, <1>7

LEMMA InitIInv == Init => IInv
<1>. SUFFICES ASSUME Init PROVE IInv
  OBVIOUS
<1>1. TypeOK
  <2>1. Blank \in Images
    BY HostAssumption DEF Blank, Images
  <2>2. MetaStart \in MetaStart .. MetaEnd + 1 /\ 0 \in 0 .. FS_MAX_OPEN_FILES
    BY HostAssumption, Layout
  <2>. QED BY <2>1, <2>2 DEF Init, TypeOK
<1>2. LostCounted
  BY FS_EmptySet DEF Init, LostCounted
<1>3. Phases /\ FirstSlotTaken /\ OpenIsUnmarked /\ FormatNoted
  BY DEF Init, Phases, Closing, FirstSlotTaken, OpenIsUnmarked, FormatNoted, Written
<1>4. ReachesDisk /\ ReadIsMemory /\ MarkedMeansComplete
  BY DEF Init, ReachesDisk, ReadIsMemory, MarkedMeansComplete, IsMarked
<1>. QED BY <1>1, <1>2, <1>3, <1>4 DEF IInv
-----------------------------------------------------------------------------
(* Access to the disk *)

LEMMA SuccessTakesFirst ==
  ASSUME TypeOK, DiskTransfer(TRUE)
  PROVE  0 \in openfiles /\ file # Absent
<1>1. PICK s \in Slots : FsOpen(s) /\ FdValid(s)
  BY DEF DiskTransfer
<1>2. 0 \in openfiles
  BY <1>1, HostAssumption DEF FsOpen, FdValid, Slots
<1>. QED BY <1>2 DEF DiskTransfer

LEMMA BlockWritten ==
  ASSUME TypeOK, LostCounted, 0 \in openfiles, NEW done \in BOOLEAN,
         NEW b \in DiskBlocks, NEW c \in Contents, DiskWriteBlock(b, c, done)
  PROVE  /\ openfiles' = openfiles /\ lost' = lost /\ LostCounted'
         /\ file' \in [DiskBlocks -> Contents] \cup {Absent}
         /\ file' = Absent <=> file = Absent
         /\ \A x \in DiskBlocks : x # b => file'[x] = file[x]
         /\ done => file'[b] = c
         /\ file'[b] = c \/ file' = file
<1>1. openfiles' = openfiles /\ lost' = lost /\ LostCounted'
  BY AccessKeepsSlots DEF DiskWriteBlock
<1>2. CASE DiskReachable /\ file' = [file EXCEPT ![b] = c]
  <2>1. file \in [DiskBlocks -> Contents]
    BY <1>2 DEF DiskReachable, TypeOK
  <2>2. file' \in [DiskBlocks -> Contents] /\ file'[b] = c
    BY <1>2, <2>1
  <2>3. file' # Absent /\ file # Absent
    BY <2>1, <2>2, HostAssumption DEF DiskBlocks
  <2>4. \A x \in DiskBlocks : x # b => file'[x] = file[x]
    BY <1>2, <2>1
  <2>. QED BY <1>1, <2>2, <2>3, <2>4
<1>3. CASE ~done /\ UNCHANGED file
  BY <1>1, <1>3 DEF TypeOK
<1>. QED BY <1>2, <1>3 DEF DiskWriteBlock

\* A write that fails is noted, and one that does not has arrived.
LEMMA UncachedWritten ==
  ASSUME TypeOK, LostCounted, 0 \in openfiles, NEW b \in Stored, WriteUncached(b)
  PROVE  /\ openfiles' = openfiles /\ lost' = lost /\ LostCounted'
         /\ file' \in [DiskBlocks -> Contents] \cup {Absent}
         /\ file' = Absent <=> file = Absent
         /\ \A x \in DiskBlocks : x # b => file'[x] = file[x]
         /\ unwritten' \subseteq Stored
         /\ \A x \in Stored \ unwritten' :
              /\ x = b => file'[x] = mem[x]
              /\ x # b => x \notin unwritten
         /\ UNCHANGED <<saved, unread, overwritten, astray>>
<1>1. PICK done \in BOOLEAN :
        /\ DiskWriteBlock(b, mem[b], done)
        /\ unwritten' = IF done THEN unwritten \ {b} ELSE unwritten \cup {b}
  BY DEF WriteUncached
<1>2. b \in DiskBlocks /\ mem[b] \in Contents
  BY Layout DEF TypeOK, Images
<1>3. /\ openfiles' = openfiles /\ lost' = lost /\ LostCounted'
      /\ file' \in [DiskBlocks -> Contents] \cup {Absent}
      /\ file' = Absent <=> file = Absent
      /\ \A x \in DiskBlocks : x # b => file'[x] = file[x]
      /\ done => file'[b] = mem[b]
  BY <1>1, <1>2, BlockWritten
<1>4. unwritten \subseteq Stored /\ unwritten' \subseteq Stored
  BY <1>1 DEF TypeOK
<1>5. UNCHANGED <<saved, unread, overwritten, astray>>
  BY DEF WriteUncached
<1>. QED BY <1>1, <1>3, <1>4, <1>5

\* A disk that is not marked stays so when something else is written.
LEMMA UnmarkedStays ==
  ASSUME file # Absent, ~IsMarked, file' # Absent,
         file'[SuperBlock] \in {file[SuperBlock], Unmarked, Zero}
  PROVE  ~IsMarked'
BY MountAssumption DEF IsMarked

-----------------------------------------------------------------------------
(* Boot and opening *)

LEMMA BootStep ==
  ASSUME IInv, Boot \/ BootPrints \/ BootVm \/ OpenFails \/ OpenSuperblock
  PROVE  IInv'
<1>. USE DEF IInv
<1>1. pc \in {"off", "boot", "superblock"} /\ pc' \in {"boot", "superblock", "read", "run"}
  BY DEF Boot, BootPrints, BootVm, OpenFails, OpenSuperblock, kernel
<1>2. /\ UNCHANGED <<file, valid, mem, dirty, at, format, history>>
      /\ dirty = {} /\ ~valid /\ fdisk = "idle"
  BY <1>1 DEF Boot, BootPrints, BootVm, OpenFails, OpenSuperblock, kernel,
              Phases, Closing, PrintFile, LeaveOpen, OpenVm
<1>3. openfiles' \subseteq Slots /\ lost' \in 0 .. FS_MAX_OPEN_FILES /\ LostCounted'
  <2>1. CASE Boot
    BY <2>1, FS_EmptySet, HostAssumption DEF Boot, FsModuleInit, LostCounted
  <2>2. CASE BootPrints
    BY <2>2, LeaveOpenTakesSlot DEF BootPrints, PrintFile
  <2>3. CASE BootVm
    <3>1. openfiles' = openfiles \/ openfiles' = openfiles \cup {0}
      BY <2>3, HostAssumption DEF BootVm, OpenVm, FsOpen, FsClose, FdValid, Slots
    <3>2. lost' = lost
      BY <2>3 DEF BootVm, OpenVm
    <3>. QED BY <3>1, <3>2, FirstSlotLeft DEF TypeOK
  <2>4. CASE OpenFails
    BY <2>4, AccessKeepsSlots DEF OpenFails, TypeOK
  <2>5. CASE OpenSuperblock
    BY <2>5, AccessKeepsSlots DEF OpenSuperblock, TypeOK
  <2>. QED BY <2>1, <2>2, <2>3, <2>4, <2>5
<1>4. TypeOK'
  BY <1>1, <1>2, <1>3 DEF TypeOK, format, history
<1>5. Phases'
  BY <1>1, <1>2 DEF Phases, Closing, format
<1>6. FirstSlotTaken'
  <2>1. pc' = "read" => OpenSuperblock
    BY <1>1 DEF Boot, BootPrints, BootVm, OpenFails, OpenSuperblock, kernel
  <2>2. CASE OpenSuperblock
    <3>1. DiskTransfer(TRUE)
      BY <2>2 DEF OpenSuperblock
    <3>2. 0 \in openfiles /\ file # Absent
      BY <3>1, SuccessTakesFirst
    <3>3. openfiles' = openfiles
      BY <3>1, <3>2, AccessKeepsSlots
    <3>. QED BY <1>2, <3>2, <3>3 DEF FirstSlotTaken, format
  <2>. QED BY <1>1, <1>2, <2>1, <2>2 DEF FirstSlotTaken, format
<1>7. OpenIsUnmarked' /\ FormatNoted' /\ ReachesDisk' /\ ReadIsMemory'
  BY <1>1, <1>2 DEF OpenIsUnmarked, FormatNoted, Written, ReachesDisk, ReadIsMemory, format
<1>8. MarkedMeansComplete'
  BY <1>2 DEF MarkedMeansComplete, IsMarked, history
<1>. QED BY <1>3, <1>4, <1>5, <1>6, <1>7, <1>8

\* What the reads delivered is the disk block for block.
LEMMA ReadIsOnDisk ==
  ASSUME IInv, OpenRead
  PROVE  /\ unread' \subseteq MetaBlocks
         /\ mem' \in Images
         /\ \A b \in Stored \ unread' : mem'[b] = file[b]
         /\ UNCHANGED <<openfiles, file, lost>> /\ LostCounted'
<1>1. PICK i \in MetaStart .. FbvStart, v \in FbvStart .. MetaEnd + 1 :
        /\ DiskTransfer(i > MetaStart \/ v > FbvStart)
        /\ unread' = (i .. FbvStart - 1) \cup (v .. MetaEnd)
        /\ mem' = ReadContiguous(Stored \ unread')
  BY DEF OpenRead
<1>2. 0 \in openfiles /\ file \in [DiskBlocks -> Contents] /\ mem \in [Stored -> Contents]
  BY DEF OpenRead, IInv, FirstSlotTaken, TypeOK, Images
<1>3. openfiles' = openfiles /\ lost' = lost /\ LostCounted'
  BY <1>1, <1>2, AccessKeepsSlots DEF IInv
<1>4. unread' \subseteq MetaBlocks
  <2>1. MetaStart \in Nat /\ MetaEnd \in Nat /\ FbvStart \in Nat
        /\ MetaStart <= FbvStart /\ FbvStart <= MetaEnd
    BY Layout, MountAssumption, MetaIsInterval
  <2>2. i \in Nat /\ i >= MetaStart /\ v \in Nat /\ v >= FbvStart
    BY <2>1
  <2>3. \A x \in unread' : x \in Nat /\ MetaStart <= x /\ x <= MetaEnd
    BY <1>1, <2>1, <2>2
  <2>. QED BY <2>3, MetaIsInterval
<1>5. ASSUME NEW b \in Stored
      PROVE  mem'[b] = IF b \in unread' THEN mem[b] ELSE file[b]
  BY <1>1 DEF ReadContiguous, DiskReadBlock
<1>6. mem' \in Images
  <2>1. mem' = [b \in Stored |-> mem'[b]]
    BY <1>1 DEF ReadContiguous
  <2>2. \A b \in Stored : mem'[b] \in Contents
    BY <1>2, <1>5, Layout
  <2>. QED BY <2>1, <2>2 DEF Images
<1>. QED BY <1>3, <1>4, <1>5, <1>6 DEF OpenRead

LEMMA ReadStep ==
  ASSUME IInv, OpenRead
  PROVE  IInv'
<1>. USE DEF IInv
<1>1. /\ pc = "read" /\ pc' = "mark" /\ mem' \in Images /\ unread' \subseteq MetaBlocks
      /\ \A b \in Stored \ unread' : mem'[b] = file[b]
      /\ astray' \in BOOLEAN /\ LostCounted'
      /\ UNCHANGED <<openfiles, file, lost, valid, dirty, at, format, saved,
                     unwritten, overwritten>>
  BY ReadIsOnDisk DEF OpenRead, TypeOK
<1>2. /\ dirty = {} /\ ~valid /\ fdisk = "idle" /\ at = MetaStart
      /\ file # Absent /\ 0 \in openfiles
  BY <1>1 DEF Phases, Closing, FirstSlotTaken
<1>3. TypeOK'
  BY <1>1 DEF TypeOK, format
<1>4. Phases' /\ FirstSlotTaken'
  BY <1>1, <1>2 DEF Phases, Closing, FirstSlotTaken, format
<1>5. OpenIsUnmarked' /\ FormatNoted' /\ ReachesDisk'
  BY <1>1, <1>2 DEF OpenIsUnmarked, FormatNoted, Written, ReachesDisk, format
<1>6. ReadIsMemory' /\ MarkedMeansComplete'
  BY <1>1 DEF ReadIsMemory, MarkedMeansComplete, IsMarked
<1>. QED BY <1>1, <1>3, <1>4, <1>5, <1>6

LEMMA MarkStep ==
  ASSUME IInv, OpenMark
  PROVE  IInv'
<1>. USE DEF IInv
<1>1. PICK done \in BOOLEAN :
        /\ DiskWriteBlock(SuperBlock, Unmarked, done)
        /\ valid' = done
        /\ unwritten' = IF done THEN {} ELSE unwritten
        /\ overwritten' = (overwritten /\ ~done)
  BY DEF OpenMark
<1>2. /\ pc = "mark" /\ pc' = "run" /\ unread' = {}
      /\ UNCHANGED <<mem, dirty, at, format, saved, astray>>
  BY DEF OpenMark
<1>3. /\ dirty = {} /\ ~valid /\ fdisk = "idle" /\ at = MetaStart
      /\ 0 \in openfiles /\ file # Absent /\ unread \subseteq MetaBlocks
  BY <1>2 DEF Phases, Closing, FirstSlotTaken, TypeOK
<1>4. SuperBlock \in DiskBlocks /\ Unmarked \in Contents
  BY Layout, MountAssumption
<1>5. /\ openfiles' = openfiles /\ lost' = lost /\ LostCounted'
      /\ file' \in [DiskBlocks -> Contents] \cup {Absent}
      /\ file' # Absent
      /\ \A x \in DiskBlocks : x # SuperBlock => file'[x] = file[x]
      /\ done => file'[SuperBlock] = Unmarked
      /\ file'[SuperBlock] = Unmarked \/ file' = file
  BY <1>1, <1>3, <1>4, BlockWritten
<1>6. TypeOK'
  BY <1>1, <1>2, <1>5 DEF TypeOK, format
<1>7. Phases' /\ FirstSlotTaken'
  BY <1>1, <1>2, <1>3, <1>5 DEF Phases, Closing, FirstSlotTaken, format
<1>8. IsMarked' => IsMarked /\ file' = file /\ ~done
  BY <1>3, <1>5, MountAssumption DEF IsMarked
<1>9. OpenIsUnmarked' /\ FormatNoted' /\ ReadIsMemory'
  BY <1>1, <1>2, <1>3, <1>5, <1>8
  DEF OpenIsUnmarked, FormatNoted, Written, ReadIsMemory, format
<1>10. MarkedMeansComplete'
  BY <1>1, <1>2, <1>8 DEF MarkedMeansComplete
<1>11. ReachesDisk'
  <2>1. \A d \in DataBlocks : file'[d] = mem'[d]
    BY <1>2, <1>3, <1>5, Layout DEF ReadIsMemory
  <2>2. \A b \in MetaBlocks : ~(b < at')
    BY <1>2, <1>3, Layout DEF MetaBlocks
  <2>. QED BY <2>1, <2>2 DEF ReachesDisk
<1>. QED BY <1>5, <1>6, <1>7, <1>9, <1>10, <1>11

-----------------------------------------------------------------------------
(* A session *)

\* Steps that leave the disk and the data as they are.
LEMMA LoadStep ==
  ASSUME IInv, Load
  PROVE  IInv'
<1>. USE DEF IInv
<1>1. pc = "run" /\ UNCHANGED <<file, kernel, format, history>>
  BY DEF Load, LoadProgram, LeaveOpen
<1>2. /\ openfiles \subseteq openfiles' /\ openfiles' \subseteq Slots
      /\ lost' \in 0 .. FS_MAX_OPEN_FILES /\ LostCounted'
  <2>1. CASE LeaveOpen
    BY <2>1, LeaveOpenTakesSlot
  <2>2. CASE UNCHANGED <<openfiles, file, lost>>
    BY <2>2 DEF TypeOK, LostCounted
  <2>. QED BY <2>1, <2>2 DEF Load, LoadProgram
<1>3. TypeOK'
  BY <1>1, <1>2 DEF TypeOK, kernel, format, history
<1>4. Phases' /\ OpenIsUnmarked' /\ FormatNoted'
  BY <1>1 DEF Phases, Closing, OpenIsUnmarked, FormatNoted, Written, IsMarked,
              kernel, format, history
<1>5. FirstSlotTaken' /\ ReadIsMemory'
  BY <1>1, <1>2 DEF FirstSlotTaken, ReadIsMemory, kernel, format, history
<1>6. ReachesDisk' /\ MarkedMeansComplete'
  BY <1>1 DEF ReachesDisk, MarkedMeansComplete, IsMarked, kernel, history
<1>. QED BY <1>2, <1>3, <1>4, <1>5, <1>6

LEMMA UpdateStep ==
  ASSUME IInv, NEW b \in Stored, NEW c \in Contents, Update(b, c)
  PROVE  IInv'
<1>. USE DEF IInv
<1>1. /\ pc = "run" /\ valid /\ mem' = [mem EXCEPT ![b] = c]
      /\ dirty' = IF b \in DataBlocks THEN dirty \cup {b} ELSE dirty
      /\ UNCHANGED <<openfiles, file, lost, pc, valid, at, format, history>>
  BY DEF Update
<1>2. mem \in [Stored -> Contents] /\ mem' \in [Stored -> Contents]
  BY <1>1 DEF TypeOK, Images
<1>3. TypeOK'
  BY <1>1, <1>2 DEF TypeOK, Images, format, history
<1>4. Phases' /\ FirstSlotTaken' /\ LostCounted' /\ OpenIsUnmarked' /\ FormatNoted'
  BY <1>1
  DEF Phases, Closing, FirstSlotTaken, LostCounted, OpenIsUnmarked, FormatNoted, Written,
      IsMarked, format, history
<1>5. ReachesDisk'
  <2>1. at = MetaStart
    BY <1>1 DEF Phases
  <2>2. \A d \in DataBlocks : d \notin dirty' => d # b /\ d \notin dirty
    BY <1>1
  <2>3. \A d \in DataBlocks : d # b => mem'[d] = mem[d]
    BY <1>1, <1>2, Layout
  <2>4. \A m \in MetaBlocks : ~(m < at)
    BY <2>1, Layout DEF MetaBlocks
  <2>. QED BY <1>1, <2>2, <2>3, <2>4 DEF ReachesDisk, history
<1>6. ReadIsMemory' /\ MarkedMeansComplete'
  BY <1>1 DEF ReadIsMemory, MarkedMeansComplete, IsMarked, history
<1>. QED BY <1>3, <1>4, <1>5, <1>6

LEMMA PlaceStep ==
  ASSUME IInv, Invalidate \/ Close \/ FlushDone
  PROVE  IInv'
<1>. USE DEF IInv
<1>1. /\ pc \in {"run", "flush"} /\ pc' \in {"run", "flush", "metadata"}
      /\ pc' \in {"flush", "metadata"} => valid'
      /\ pc' = "metadata" => dirty = {}
      /\ valid' => valid
      /\ pc' = "run" => pc = "run"
      /\ valid' \in BOOLEAN
      /\ UNCHANGED <<openfiles, file, lost, mem, dirty, at, format, history>>
  BY DEF Invalidate, Close, FlushDone, Phases, Closing, TypeOK
<1>2. TypeOK' /\ LostCounted'
  BY <1>1 DEF TypeOK, LostCounted, format, history
<1>3. Phases'
  BY <1>1, Layout DEF Phases, Closing, format
<1>4. FirstSlotTaken' /\ OpenIsUnmarked' /\ FormatNoted'
  BY <1>1 DEF FirstSlotTaken, OpenIsUnmarked, FormatNoted, Written, IsMarked, format, history
<1>5. ReachesDisk' /\ ReadIsMemory' /\ MarkedMeansComplete'
  BY <1>1 DEF ReachesDisk, ReadIsMemory, MarkedMeansComplete, IsMarked, history
<1>. QED BY <1>2, <1>3, <1>4, <1>5

LEMMA WriteBackStep ==
  ASSUME IInv, NEW d \in DataBlocks, Evict(d) \/ CloseFlush(d)
  PROVE  IInv'
<1>. USE DEF IInv
<1>1. /\ pc \in {"run", "flush"} /\ valid /\ d \in dirty /\ dirty' = dirty \ {d}
      /\ WriteUncached(d)
      /\ UNCHANGED <<pc, valid, mem, at, format>>
  BY DEF Evict, CloseFlush, WriteBack, Phases, Closing
<1>2. 0 \in openfiles /\ file # Absent /\ ~IsMarked /\ at = MetaStart
  BY <1>1 DEF FirstSlotTaken, OpenIsUnmarked, Phases
<1>3. d \in Stored /\ SuperBlock \in DiskBlocks /\ d # SuperBlock
  BY Layout
<1>4. /\ openfiles' = openfiles /\ lost' = lost /\ LostCounted'
      /\ file' \in [DiskBlocks -> Contents] \cup {Absent}
      /\ file' = Absent <=> file = Absent
      /\ \A x \in DiskBlocks : x # d => file'[x] = file[x]
      /\ unwritten' \subseteq Stored
      /\ \A x \in Stored \ unwritten' :
           /\ x = d => file'[x] = mem[x]
           /\ x # d => x \notin unwritten
      /\ UNCHANGED <<saved, unread, overwritten, astray>>
  BY <1>1, <1>2, <1>3, UncachedWritten
<1>5. TypeOK'
  BY <1>1, <1>4 DEF TypeOK, format
<1>6. Phases' /\ FirstSlotTaken'
  BY <1>1, <1>4 DEF Phases, Closing, FirstSlotTaken, format
<1>7. file' # Absent /\ ~IsMarked'
  BY <1>2, <1>3, <1>4, UnmarkedStays
<1>8. OpenIsUnmarked' /\ FormatNoted' /\ ReadIsMemory' /\ MarkedMeansComplete'
  BY <1>1, <1>4, <1>7
  DEF OpenIsUnmarked, FormatNoted, Written, ReadIsMemory, MarkedMeansComplete, format
<1>9. ReachesDisk'
  <2>1. \A m \in MetaBlocks : ~(m < at)
    BY <1>2, Layout DEF MetaBlocks
  <2>2. ASSUME NEW x \in DataBlocks \ unwritten', x \notin dirty', ~overwritten
        PROVE  file'[x] = mem[x]
    <3>1. CASE x = d
      BY <3>1, <2>2, <1>3, <1>4
    <3>2. CASE x # d
      <4>1. x \notin unwritten /\ x \notin dirty /\ x \in DiskBlocks
        BY <3>2, <2>2, <1>1, <1>4, Layout
      <4>. QED BY <4>1, <3>2, <2>2, <1>1, <1>4 DEF ReachesDisk
    <3>. QED BY <3>1, <3>2
  <2>. QED BY <1>1, <1>4, <2>1, <2>2 DEF ReachesDisk
<1>. QED BY <1>4, <1>5, <1>6, <1>8, <1>9

\* Data that goes over the metadata, the superblock included.
LEMMA OverrunStep ==
  ASSUME IInv, NEW b \in 0 .. MetaEnd, Overrun(b)
  PROVE  IInv'
<1>. USE DEF IInv
<1>1. PICK done \in BOOLEAN : DiskWriteBlock(b, Zero, done)
  BY DEF Overrun
<1>2. /\ pc \in {"run", "flush"} /\ valid /\ overwritten' = TRUE
      /\ UNCHANGED <<kernel, format, saved, unread, unwritten, astray>>
  BY DEF Overrun
<1>3. 0 \in openfiles /\ file # Absent /\ ~IsMarked
  BY <1>2 DEF FirstSlotTaken, OpenIsUnmarked
<1>4. b \in DiskBlocks /\ Zero \in Contents /\ SuperBlock \in DiskBlocks
  BY HostAssumption, MountAssumption, Layout DEF DiskBlocks
<1>5. /\ openfiles' = openfiles /\ lost' = lost /\ LostCounted'
      /\ file' \in [DiskBlocks -> Contents] \cup {Absent}
      /\ file' = Absent <=> file = Absent
      /\ \A x \in DiskBlocks : x # b => file'[x] = file[x]
      /\ file'[b] = Zero \/ file' = file
  BY <1>1, <1>3, <1>4, BlockWritten
<1>6. file' # Absent /\ ~IsMarked'
  BY <1>3, <1>4, <1>5, UnmarkedStays
<1>7. TypeOK'
  BY <1>2, <1>5 DEF TypeOK, kernel, format
<1>8. Phases' /\ FirstSlotTaken'
  BY <1>2, <1>5 DEF Phases, Closing, FirstSlotTaken, kernel, format
<1>9. OpenIsUnmarked' /\ FormatNoted' /\ ReachesDisk' /\ ReadIsMemory' /\ MarkedMeansComplete'
  BY <1>2, <1>6
  DEF OpenIsUnmarked, FormatNoted, Written, ReachesDisk, ReadIsMemory, MarkedMeansComplete,
      kernel, format
<1>. QED BY <1>5, <1>7, <1>8, <1>9

-----------------------------------------------------------------------------
(* The end of a session *)

\* What a stop leaves in memory and in the table of files.
LEMMA StopLeaves ==
  ASSUME Stop
  PROVE  /\ pc' = "off" /\ ~valid' /\ valid' \in BOOLEAN /\ mem' \in Images /\ dirty' = {}
         /\ at' = MetaStart /\ fat' = MetaStart /\ fdisk' = "idle"
         /\ at' \in MetaStart .. MetaEnd + 1
         /\ openfiles' = {} /\ lost' = 0 /\ lost' \in 0 .. FS_MAX_OPEN_FILES
         /\ unread' = {} /\ LostCounted'
<1>1. Blank \in Images
  BY HostAssumption DEF Blank, Images
<1>2. MetaStart \in MetaStart .. MetaEnd + 1 /\ 0 \in 0 .. FS_MAX_OPEN_FILES
  BY HostAssumption, Layout
<1>3. LostCounted'
  <2>1. openfiles' = {} /\ lost' = 0
    BY DEF Stop
  <2>. QED BY <2>1, FS_EmptySet DEF LostCounted
<1>. QED BY <1>1, <1>2, <1>3 DEF Stop

\* Without a write to the disk the mark says no more than before.
LEMMA StopStep ==
  ASSUME IInv, Stop, UNCHANGED <<file, saved, unwritten, overwritten, astray>>
  PROVE  IInv'
<1>. USE DEF IInv
<1>1. TypeOK' /\ LostCounted'
  BY StopLeaves DEF TypeOK
<1>2. Phases' /\ FirstSlotTaken' /\ OpenIsUnmarked' /\ FormatNoted'
  BY StopLeaves DEF Phases, Closing, FirstSlotTaken, OpenIsUnmarked, FormatNoted, Written
<1>3. ReachesDisk' /\ ReadIsMemory' /\ MarkedMeansComplete'
  BY StopLeaves DEF ReachesDisk, ReadIsMemory, MarkedMeansComplete, IsMarked
<1>. QED BY <1>1, <1>2, <1>3

LEMMA CloseMetadataStep ==
  ASSUME IInv, CloseMetadata
  PROVE  IInv'
<1>. USE DEF IInv
<1>1. /\ pc = "metadata" /\ at' = at + 1 /\ WriteUncached(at)
      /\ pc' = IF at = MetaEnd THEN "mark closed" ELSE pc
      /\ UNCHANGED <<valid, mem, dirty, format>>
  BY DEF CloseMetadata
<1>2. /\ valid /\ dirty = {} /\ at <= MetaEnd /\ 0 \in openfiles
      /\ file # Absent /\ ~IsMarked
  BY <1>1 DEF FirstSlotTaken, OpenIsUnmarked, Phases, Closing
<1>3. at \in MetaBlocks /\ MetaEnd \in Nat /\ at \in Nat
  BY <1>2, Layout, NextBlocks DEF MetaBlocks
<1>4. at \in Stored /\ SuperBlock \in DiskBlocks /\ at # SuperBlock
  BY <1>3, Layout
<1>5. /\ openfiles' = openfiles /\ lost' = lost /\ LostCounted'
      /\ file' \in [DiskBlocks -> Contents] \cup {Absent}
      /\ file' = Absent <=> file = Absent
      /\ \A x \in DiskBlocks : x # at => file'[x] = file[x]
      /\ unwritten' \subseteq Stored
      /\ \A x \in Stored \ unwritten' :
           /\ x = at => file'[x] = mem[x]
           /\ x # at => x \notin unwritten
      /\ UNCHANGED <<saved, unread, overwritten, astray>>
  BY <1>1, <1>2, <1>4, UncachedWritten
<1>6. at' \in MetaStart .. MetaEnd + 1 /\ pc' \in {"metadata", "mark closed"}
  <2>1. at + 1 \in Nat /\ MetaStart <= at + 1 /\ at + 1 <= MetaEnd + 1
    BY <1>2, <1>3, Layout, NextBlocks
  <2>. QED BY <1>1, <2>1, MetaIsInterval
<1>7. TypeOK'
  BY <1>1, <1>5, <1>6 DEF TypeOK, format
<1>8. Phases'
  <2>1. pc' = "metadata" => at' <= MetaEnd
    BY <1>1, <1>2, <1>3
  <2>2. pc' = "mark closed" => at' = MetaEnd + 1
    BY <1>1
  <2>. QED BY <1>1, <1>2, <1>6, <2>1, <2>2 DEF Phases, Closing, format
<1>9. FirstSlotTaken'
  BY <1>1, <1>2, <1>5, <1>6 DEF FirstSlotTaken
<1>10. file' # Absent /\ ~IsMarked'
  BY <1>2, <1>4, <1>5, UnmarkedStays
<1>11. OpenIsUnmarked' /\ FormatNoted' /\ ReadIsMemory' /\ MarkedMeansComplete'
  BY <1>1, <1>5, <1>6, <1>10
  DEF OpenIsUnmarked, FormatNoted, Written, ReadIsMemory, MarkedMeansComplete, format
<1>12. ReachesDisk'
  <2>1. ASSUME NEW x \in DataBlocks \ unwritten', ~overwritten
        PROVE  file'[x] = mem[x]
    <3>1. x # at /\ x \in Stored /\ x \in DiskBlocks
      BY <1>3, Layout
    <3>2. x \notin unwritten /\ file'[x] = file[x]
      BY <3>1, <1>5
    <3>. QED BY <3>2, <1>2, <2>1 DEF ReachesDisk
  <2>2. ASSUME NEW m \in MetaBlocks \ unwritten', m < at', ~overwritten
        PROVE  file'[m] = mem[m]
    <3>1. m < at \/ m = at
      <4>1. m \in Nat /\ at \in Nat /\ m < at + 1
        BY <1>1, <1>3, <2>2, MetaIsInterval
      <4>. HIDE DEF IInv
      <4>. QED BY <4>1
    <3>2. CASE m = at
      BY <3>2, <2>2, <1>4, <1>5
    <3>3. CASE m # at
      <4>1. m \notin unwritten /\ file'[m] = file[m] /\ m < at
        BY <3>1, <3>3, <1>5, Layout
      <4>. QED BY <4>1, <1>2, <2>2 DEF ReachesDisk
    <3>. QED BY <3>2, <3>3
  <2>. QED BY <1>1, <1>5, <2>1, <2>2 DEF ReachesDisk
<1>. QED BY <1>5, <1>7, <1>8, <1>9, <1>11, <1>12

\* Whatever could be written is on the disk when the mark is set.
LEMMA CloseMarkStep ==
  ASSUME IInv, CloseMark
  PROVE  IInv'
<1>. USE DEF IInv
<1>1. /\ pc = "mark closed" /\ Stop /\ saved' = mem
      /\ UNCHANGED <<unwritten, overwritten, astray>>
  BY DEF CloseMark
<1>2. dirty = {} /\ valid /\ at = MetaEnd + 1 /\ file # Absent /\ ~IsMarked
  BY <1>1 DEF Phases, Closing, OpenIsUnmarked
<1>3. /\ file' \in [DiskBlocks -> Contents] \cup {Absent}
      /\ \A b \in Stored : file'[b] = file[b]
  <2>1. CASE DiskReachable /\ file' = [file EXCEPT ![SuperBlock] = Marked]
    <3>1. file \in [DiskBlocks -> Contents]
      BY <1>2 DEF TypeOK
    <3>. QED BY <2>1, <3>1, MountAssumption, Layout
  <2>2. CASE UNCHANGED file
    BY <2>2 DEF TypeOK
  <2>. QED BY <2>1, <2>2 DEF CloseMark
<1>4. TypeOK' /\ LostCounted'
  BY <1>1, <1>3, StopLeaves DEF TypeOK
<1>5. Phases' /\ FirstSlotTaken' /\ OpenIsUnmarked' /\ FormatNoted' /\ ReachesDisk'
      /\ ReadIsMemory'
  BY <1>1, StopLeaves
  DEF Phases, Closing, FirstSlotTaken, OpenIsUnmarked, FormatNoted, Written, ReachesDisk,
      ReadIsMemory
<1>6. ASSUME ~overwritten, NEW b \in Stored \ unwritten PROVE file[b] = mem[b]
  <2>1. \A m \in MetaBlocks : m < at
    BY <1>2, Layout DEF MetaBlocks
  <2>. QED BY <1>2, <1>6, <2>1, Layout DEF ReachesDisk
<1>7. MarkedMeansComplete'
  BY <1>1, <1>3, <1>6 DEF MarkedMeansComplete
<1>. QED BY <1>4, <1>5, <1>7

-----------------------------------------------------------------------------
(* fdisk *)

LEMMA FdiskStartStep ==
  ASSUME IInv, FdiskStart
  PROVE  IInv'
<1>. USE DEF IInv
<1>1. /\ pc = "run" /\ fdisk' = "create" /\ Loadable
      /\ UNCHANGED <<openfiles, file, lost, kernel, fat, history>>
  BY DEF FdiskStart, Formatting, history
<1>2. 0 \in openfiles
  BY <1>1, HostAssumption DEF Loadable, FsOpen, FdValid, Slots
<1>3. TypeOK' /\ LostCounted'
  BY <1>1 DEF TypeOK, LostCounted, kernel, history
<1>4. Phases' /\ FirstSlotTaken'
  BY <1>1, <1>2 DEF Phases, Closing, FirstSlotTaken, kernel
<1>5. OpenIsUnmarked' /\ FormatNoted' /\ ReachesDisk' /\ ReadIsMemory' /\ MarkedMeansComplete'
  BY <1>1
  DEF OpenIsUnmarked, FormatNoted, Written, ReachesDisk, ReadIsMemory, MarkedMeansComplete,
      IsMarked, kernel, history
<1>. QED BY <1>3, <1>4, <1>5

LEMMA FdiskCreateStep ==
  ASSUME IInv, FdiskCreate
  PROVE  IInv'
<1>. USE DEF IInv
<1>1. PICK erased \in BOOLEAN, done \in BOOLEAN :
        /\ DiskCreate(erased, done)
        /\ fdisk' = IF done THEN "write" ELSE "idle"
        /\ overwritten' = (overwritten \/ erased)
        /\ astray' = (astray /\ (valid \/ ~erased))
  BY DEF FdiskCreate
<1>2. /\ pc = "run" /\ fdisk = "create" /\ fat' = MetaStart /\ (done => erased)
      /\ file' = IF erased THEN [b \in DiskBlocks |-> Zero] ELSE file
      /\ UNCHANGED <<openfiles, lost, kernel, saved, unread, unwritten>>
  BY <1>1 DEF FdiskCreate, Formatting, DiskCreate
<1>3. MetaStart \in MetaStart .. MetaEnd + 1 /\ MetaStart <= MetaEnd
  BY Layout
<1>4. astray' \in BOOLEAN /\ overwritten' \in BOOLEAN
      /\ fdisk' \in {"idle", "write"}
  BY <1>1 DEF TypeOK
<1>5. Phases' /\ FirstSlotTaken'
  BY <1>2, <1>3, <1>4 DEF Phases, Closing, FirstSlotTaken, kernel
<1>6. CASE ~erased
  <2>1. UNCHANGED <<file, overwritten>> /\ fdisk' = "idle"
    BY <1>1, <1>2, <1>6 DEF TypeOK
  <2>2. TypeOK' /\ LostCounted'
    BY <1>2, <1>3, <1>4, <2>1 DEF TypeOK, LostCounted, kernel
  <2>3. OpenIsUnmarked' /\ FormatNoted' /\ ReachesDisk' /\ ReadIsMemory'
        /\ MarkedMeansComplete'
    BY <1>2, <2>1
    DEF OpenIsUnmarked, FormatNoted, Written, ReachesDisk, ReadIsMemory, MarkedMeansComplete,
        IsMarked, kernel
  <2>. QED BY <1>5, <2>2, <2>3
<1>7. CASE erased
  <2>1. file' = [b \in DiskBlocks |-> Zero] /\ overwritten'
    BY <1>1, <1>2, <1>7
  <2>2. file' \in [DiskBlocks -> Contents] /\ file' # Absent /\ file'[SuperBlock] = Zero
    BY <2>1, Layout, HostAssumption DEF DiskBlocks
  <2>3. TypeOK' /\ LostCounted'
    BY <1>2, <1>3, <1>4, <2>2 DEF TypeOK, LostCounted, kernel
  <2>4. OpenIsUnmarked' /\ FormatNoted' /\ ReachesDisk' /\ ReadIsMemory'
        /\ MarkedMeansComplete'
    BY <1>2, <2>1, <2>2, MountAssumption
    DEF OpenIsUnmarked, FormatNoted, ReachesDisk, ReadIsMemory, MarkedMeansComplete,
        IsMarked, kernel
  <2>. QED BY <1>5, <2>3, <2>4
<1>. QED BY <1>6, <1>7

LEMMA FdiskWriteStep ==
  ASSUME IInv, FdiskWrite \/ FdiskSuperblock
  PROVE  IInv'
<1>. USE DEF IInv
<1>1. /\ pc = "run" /\ fdisk \in {"write", "superblock"}
      /\ fdisk' \in {"write", "superblock", "done"}
      /\ UNCHANGED <<kernel, history>>
  BY DEF FdiskWrite, FdiskSuperblock, Formatting, history
<1>2. overwritten /\ 0 \in openfiles /\ file # Absent /\ ~IsMarked
  BY <1>1 DEF FormatNoted, Written, FirstSlotTaken, OpenIsUnmarked
<1>3. PICK b \in DiskBlocks, c \in Contents, done \in BOOLEAN :
        DiskWriteBlock(b, c, done) /\ (b = SuperBlock => c = Unmarked)
  <2>1. CASE FdiskSuperblock
    BY <2>1, Layout, MountAssumption DEF FdiskSuperblock
  <2>2. CASE FdiskWrite
    <3>1. fat \in MetaBlocks
      <4>1. fat <= MetaEnd
        BY <2>2 DEF FdiskWrite, Phases
      <4>. QED BY <4>1, NextBlocks, MetaIsInterval
    <3>2. fat \in DiskBlocks /\ fat # SuperBlock
      BY <3>1, Layout
    <3>3. Fresh(fat) \in Contents
      BY HostAssumption, MountAssumption DEF Fresh
    <3>. QED BY <2>2, <3>2, <3>3 DEF FdiskWrite
  <2>. QED BY <2>1, <2>2
<1>4. /\ openfiles' = openfiles /\ lost' = lost /\ LostCounted'
      /\ file' \in [DiskBlocks -> Contents] \cup {Absent}
      /\ file' = Absent <=> file = Absent
      /\ \A x \in DiskBlocks : x # b => file'[x] = file[x]
      /\ file'[b] = c \/ file' = file
  BY <1>2, <1>3, BlockWritten
<1>5. file' # Absent /\ ~IsMarked'
  BY <1>2, <1>3, <1>4, Layout, UnmarkedStays
<1>6. fat' \in MetaStart .. MetaEnd + 1 /\ (fdisk' = "write" => fat' <= MetaEnd)
  <2>1. fat' = fat \/ (fat' = fat + 1 /\ fat <= MetaEnd)
    BY DEF FdiskWrite, FdiskSuperblock, Phases
  <2>2. fdisk' = "write" => fat' = fat + 1 /\ fat # MetaEnd /\ fat <= MetaEnd
    BY <1>1 DEF FdiskWrite, FdiskSuperblock, Phases
  <2>3. fat' \in Nat /\ MetaStart <= fat' /\ fat' <= MetaEnd + 1 /\ MetaEnd \in Nat
    BY <2>1, Layout, NextBlocks
  <2>. QED BY <2>2, <2>3, MetaIsInterval, NextBlocks
<1>7. TypeOK'
  BY <1>1, <1>4, <1>6 DEF TypeOK, kernel, history
<1>8. Phases' /\ FirstSlotTaken'
  BY <1>1, <1>2, <1>4, <1>6 DEF Phases, Closing, FirstSlotTaken, kernel
<1>9. OpenIsUnmarked' /\ FormatNoted' /\ ReachesDisk' /\ ReadIsMemory' /\ MarkedMeansComplete'
  BY <1>1, <1>2, <1>5
  DEF OpenIsUnmarked, FormatNoted, Written, ReachesDisk, ReadIsMemory, MarkedMeansComplete,
      kernel, history
<1>. QED BY <1>4, <1>7, <1>8, <1>9

LEMMA StutteringStep == IInv /\ UNCHANGED vars => IInv'
<1>. SUFFICES ASSUME IInv, UNCHANGED vars PROVE IInv'
  OBVIOUS
<1>1. TypeOK' /\ Phases' /\ LostCounted'
  BY DEF IInv, TypeOK, Phases, Closing, LostCounted, vars, kernel, format, history
<1>2. FirstSlotTaken' /\ OpenIsUnmarked' /\ FormatNoted'
  BY DEF IInv, FirstSlotTaken, OpenIsUnmarked, FormatNoted, Written, IsMarked, vars, kernel,
         format, history
<1>3. ReachesDisk' /\ ReadIsMemory' /\ MarkedMeansComplete'
  BY DEF IInv, ReachesDisk, ReadIsMemory, MarkedMeansComplete, IsMarked, vars, kernel,
         format, history
<1>. QED BY <1>1, <1>2, <1>3 DEF IInv

LEMMA NextIInv == IInv /\ [Next]_vars => IInv'
<1>. SUFFICES ASSUME IInv, [Next]_vars PROVE IInv'
  OBVIOUS
<1>1. CASE Boot \/ BootPrints \/ BootVm \/ OpenFails \/ OpenSuperblock
  BY <1>1, BootStep
<1>2. CASE OpenRead \/ OpenMark
  BY <1>2, ReadStep, MarkStep
<1>3. CASE Load \/ \E b \in Stored, c \in Contents \ {Marked, Unmarked} : Update(b, c)
  BY <1>3, LoadStep, UpdateStep
<1>4. CASE Invalidate \/ Close \/ FlushDone
  BY <1>4, PlaceStep
<1>5. CASE \E d \in DataBlocks : Evict(d) \/ CloseFlush(d)
  BY <1>5, WriteBackStep
<1>6. CASE \E b \in 0 .. MetaEnd : Overrun(b)
  BY <1>6, OverrunStep
<1>7. CASE OpenUnformatted \/ Crash \/ ExitUnopened \/ FdiskExit
  BY <1>7, StopStep DEF OpenUnformatted, Crash, ExitUnopened, FdiskExit
<1>8. CASE CloseMetadata \/ CloseMark
  BY <1>8, CloseMetadataStep, CloseMarkStep
<1>9. CASE FdiskStart \/ FdiskCreate \/ FdiskWrite \/ FdiskSuperblock
  BY <1>9, FdiskStartStep, FdiskCreateStep, FdiskWriteStep
<1>10. CASE UNCHANGED vars
  BY <1>10, StutteringStep
<1>. QED BY <1>1, <1>2, <1>3, <1>4, <1>5, <1>6, <1>7, <1>8, <1>9, <1>10 DEF Next

-----------------------------------------------------------------------------
(* The table of files *)

\* What a step can do to the table: start a session or end one, use slot 0 up,
\* or lose a slot.
LEMMA StepsOnSlots ==
  ASSUME [Next]_vars
  PROVE  \/ openfiles' = {} /\ lost' = 0
         \/ openfiles' \subseteq openfiles \cup {0} /\ lost' = lost
         \/ LeaveOpen
<1>. DEFINE Changed == \/ openfiles' = {} /\ lost' = 0
                       \/ openfiles' \subseteq openfiles \cup {0} /\ lost' = lost
                       \/ LeaveOpen
<1>1. \A done : DiskTransfer(done) => Changed
  BY HostAssumption DEF DiskTransfer, FsOpen, FsClose, FdValid, Slots
<1>2. OpenVm => Changed
  BY HostAssumption DEF OpenVm, FsOpen, FsClose, FdValid, Slots
<1>3. \A b, c, done : DiskWriteBlock(b, c, done) => Changed
  BY <1>1 DEF DiskWriteBlock
<1>4. UNCHANGED <<openfiles, lost>> => Changed
  OBVIOUS
<1>5. CASE Boot \/ OpenUnformatted \/ Crash \/ ExitUnopened \/ FdiskExit \/ CloseMark
  BY <1>5 DEF Boot, OpenUnformatted, Crash, ExitUnopened, FdiskExit, CloseMark, Stop,
              FsModuleInit
<1>6. CASE BootPrints \/ Load
  BY <1>6 DEF BootPrints, PrintFile, Load, LoadProgram
<1>7. CASE BootVm
  BY <1>2, <1>7 DEF BootVm
<1>8. CASE OpenFails \/ OpenSuperblock \/ OpenRead
  BY <1>1, <1>8 DEF OpenFails, OpenSuperblock, OpenRead
<1>9. CASE \/ OpenMark \/ CloseMetadata \/ FdiskWrite \/ FdiskSuperblock
           \/ \E b \in 0 .. MetaEnd : Overrun(b)
  BY <1>3, <1>9 DEF OpenMark, CloseMetadata, WriteUncached, FdiskWrite, FdiskSuperblock,
                    Overrun
<1>10. CASE \E d \in DataBlocks : Evict(d) \/ CloseFlush(d)
  BY <1>3, <1>10 DEF Evict, CloseFlush, WriteBack, WriteUncached
<1>11. CASE \/ \E b \in Stored, c \in Contents \ {Marked, Unmarked} : Update(b, c)
            \/ Invalidate \/ Close \/ FlushDone \/ FdiskStart \/ FdiskCreate
  BY <1>4, <1>11 DEF Update, Invalidate, Close, FlushDone, FdiskStart, FdiskCreate,
                     DiskCreate
<1>12. CASE UNCHANGED vars
  BY <1>4, <1>12 DEF vars
<1>. QED BY <1>5, <1>6, <1>7, <1>8, <1>9, <1>10, <1>11, <1>12 DEF Next

LEMMA BesidesFirst ==
  ASSUME NEW S \in SUBSET Slots
  PROVE  /\ IsFiniteSet(S \ {0})
         /\ Cardinality(S \ {0}) \in Nat
<1>1. S \ {0} \in SUBSET Slots
  OBVIOUS
<1>. QED BY <1>1, SlotsCounted

LEMMA NextLostBounds == IInv /\ LostBounds /\ [Next]_vars => LostBounds'
<1>. SUFFICES ASSUME IInv, LostBounds, [Next]_vars PROVE LostBounds'
  OBVIOUS
<1>1. openfiles \in SUBSET Slots /\ openfiles' \in SUBSET Slots /\ lost \in Nat
  BY NextIInv, LostIsNat DEF IInv, TypeOK
<1>2. /\ IsFiniteSet(openfiles \ {0}) /\ Cardinality(openfiles \ {0}) \in Nat
      /\ IsFiniteSet(openfiles' \ {0}) /\ Cardinality(openfiles' \ {0}) \in Nat
  BY <1>1, BesidesFirst
<1>3. CASE openfiles' = {} /\ lost' = 0
  <2>1. openfiles' \ {0} = {}
    BY <1>3
  <2>. QED BY <1>3, <2>1, FS_EmptySet DEF LostBounds
<1>4. CASE openfiles' \subseteq openfiles \cup {0} /\ lost' = lost
  <2>1. openfiles' \ {0} \subseteq openfiles \ {0}
    BY <1>4
  <2>2. Cardinality(openfiles' \ {0}) <= Cardinality(openfiles \ {0})
    BY <1>2, <2>1, FS_Subset, Zenon
  <2>. QED BY <1>1, <1>2, <1>4, <2>2 DEF LostBounds
<1>5. CASE LeaveOpen
  <2>1. PICK s \in Slots : openfiles' = openfiles \cup {s}
    BY <1>5 DEF LeaveOpen
  <2>2. lost' = lost + 1
    BY <1>5 DEF LeaveOpen
  <2>3. Cardinality((openfiles \ {0}) \cup {s}) =
          IF s \in openfiles \ {0} THEN Cardinality(openfiles \ {0})
                                   ELSE Cardinality(openfiles \ {0}) + 1
    BY <1>2, FS_AddElement, Zenon
  <2>4. IsFiniteSet((openfiles \ {0}) \cup {s})
    BY <1>2, FS_AddElement, Zenon
  <2>5. openfiles' \ {0} \subseteq (openfiles \ {0}) \cup {s}
    BY <2>1
  <2>6. Cardinality(openfiles' \ {0}) <= Cardinality((openfiles \ {0}) \cup {s})
    BY <2>4, <2>5, FS_Subset, Zenon
  <2>. QED BY <1>1, <1>2, <2>2, <2>3, <2>6 DEF LostBounds
<1>. QED BY <1>3, <1>4, <1>5, StepsOnSlots

\* With fewer files lost than there are slots beside slot 0, one is free.
LEMMA FreeSlot ==
  ASSUME TypeOK, LostBounds, lost < FS_MAX_OPEN_FILES - 1
  PROVE  openfiles # Slots
<1>. SUFFICES ASSUME openfiles = Slots PROVE FALSE
  OBVIOUS
<1>1. Slots \ {0} = 1 .. FS_MAX_OPEN_FILES - 1
  BY HostAssumption DEF Slots
<1>2. 1 \in Int /\ FS_MAX_OPEN_FILES - 1 \in Int /\ lost \in Nat
  BY HostAssumption, LostIsNat
<1>3. Cardinality(1 .. FS_MAX_OPEN_FILES - 1) =
        IF 1 > FS_MAX_OPEN_FILES - 1 THEN 0 ELSE FS_MAX_OPEN_FILES - 1 - 1 + 1
  BY <1>2, FS_Interval, Zenon
<1>4. Cardinality(1 .. FS_MAX_OPEN_FILES - 1) <= lost
  BY <1>1 DEF LostBounds
<1>. QED BY <1>2, <1>3, <1>4, HostAssumption

LEMMA FirstFree ==
  ASSUME TypeOK, openfiles # Slots
  PROVE  \E s \in Slots : FsOpen(s)
<1>1. openfiles \subseteq Slots /\ Slots \subseteq Nat
  <2>1. openfiles \subseteq Slots
    BY DEF TypeOK
  <2>2. Slots \subseteq Nat
    BY HostAssumption DEF Slots
  <2>. QED BY <2>1, <2>2
<1>2. Slots \ openfiles \in SUBSET Nat /\ Slots \ openfiles # {}
  BY <1>1
<1>3. \E s \in Slots \ openfiles : \A t \in Slots \ openfiles : s <= t
  BY <1>2, LeastExists
<1>. QED BY <1>3 DEF FsOpen

LEMMA InvariantReaches == IInv /\ LostBounds => DiskStaysReachable
<1>. SUFFICES ASSUME IInv, LostBounds, valid, lost < FS_MAX_OPEN_FILES - 1
              PROVE  DiskReachable
  BY DEF DiskStaysReachable
<1>1. 0 \in openfiles /\ file # Absent
  BY DEF IInv, FirstSlotTaken, OpenIsUnmarked
<1>2. PICK s \in Slots : FsOpen(s)
  BY FreeSlot, FirstFree DEF IInv
<1>3. s > 0
  BY <1>1, <1>2, HostAssumption DEF FsOpen, Slots
<1>. QED BY <1>1, <1>2, <1>3 DEF DiskReachable, FdValid

-----------------------------------------------------------------------------
(* The theorems *)

\* IInv is inductive: the sessions keep it, and so does a stop at any step.
THEOREM SessionsKeepIInv == Spec => []IInv
<1>1. Init => IInv
  BY InitIInv
<1>2. IInv /\ [Next]_vars => IInv'
  BY NextIInv
<1>. QED BY <1>1, <1>2, PTL DEF Spec

\* The state of Mount has its types: no step of opening, closing or fdisk
\* leaves the disk (os/dfs.c:65-151, 165-205; apps/fdisk/fdisk/fdisk.c).
THEOREM TypeCorrect == Spec => []TypeOK
<1>1. IInv => TypeOK
  BY DEF IInv
<1>. QED BY <1>1, SessionsKeepIInv, PTL

\* MarkedMeansComplete for every disk: the mark of DfsCloseFileSystem is never
\* on a disk that misses a block of what that close had in memory, but for the
\* blocks whose last write failed; any transfer may fail, or come up short, and
\* the next one succeed (os/disk.c:97-101, ignored at os/dfs.c:181, 188, 516).
THEOREM MarkedIsComplete == Spec => []MarkedMeansComplete
<1>1. IInv => MarkedMeansComplete
  BY DEF IInv
<1>. QED BY <1>1, SessionsKeepIInv, PTL

\* ReopenRestores for every disk: DfsOpenFileSystem brings back what the close
\* that left the mark had in memory, but for the blocks whose last write failed
\* before the mark and those it cannot read itself (os/dfs.c:135, 139, both
\* ignored).
THEOREM ReopenIsRestore == Spec => ReopenRestores
<1>. DEFINE Restored == \A b \in Stored \ (unwritten \cup unread') : mem'[b] = saved[b]
<1>1. ASSUME IInv, [Next]_vars
      PROVE  [pc = "read" /\ pc' = "mark" /\ IsMarked /\ ~overwritten => Restored]_vars
  <2>. SUFFICES ASSUME Next, pc = "read", pc' = "mark", IsMarked, ~overwritten
                PROVE  Restored
    BY <1>1
  <2>1. OpenRead
    BY DEF Next, Boot, BootPrints, BootVm, OpenFails, OpenUnformatted, OpenSuperblock,
           OpenMark, Load, Invalidate, Crash, Update, Evict, CloseFlush, Overrun,
           ExitUnopened, Close, FlushDone, CloseMetadata, CloseMark, FdiskStart,
           FdiskCreate, FdiskWrite, FdiskSuperblock, FdiskExit, Stop, Formatting,
           WriteBack, kernel
  <2>2. \A b \in Stored \ unread' : mem'[b] = file[b]
    BY <1>1, <2>1, ReadIsOnDisk
  <2>. QED BY <1>1, <2>2 DEF IInv, MarkedMeansComplete
<1>. QED BY <1>1, SessionsKeepIInv, PTL DEF Spec, ReopenRestores

\* DiskStaysReachable for every size of the table: FsClose gives back the slot
\* of every access to the disk (os/disk.c, os/filesys.c), so an open file
\* system runs out of slots for its disk through nothing but files that were
\* not executables.
THEOREM DiskIsReachable == Spec => []DiskStaysReachable
<1>1. Init => LostBounds
  <2>. SUFFICES ASSUME Init PROVE LostBounds
    OBVIOUS
  <2>1. openfiles \ {0} = {} /\ lost = 0
    BY DEF Init
  <2>. QED BY <2>1, FS_EmptySet DEF LostBounds
<1>2. IInv /\ LostBounds /\ [Next]_vars => LostBounds'
  BY NextLostBounds
<1>3. IInv /\ LostBounds => DiskStaysReachable
  BY InvariantReaches
<1>. QED BY <1>1, <1>2, <1>3, SessionsKeepIInv, PTL DEF Spec
=============================================================================
