----------------------------- MODULE HostFiles -----------------------------
(***************************************************************************)
(* The host's files as the kernel uses them: the table of open files of    *)
(* os/filesys.c and the disk of os/disk.c, one host file that every access *)
(* opens, seeks in, reads or writes one block of, and closes.              *)
(*                                                                         *)
(* Slot 0 of the table can be handed out by FsOpen, but FdValid does not   *)
(* accept it: a file opened there can be neither used nor closed.          *)
(***************************************************************************)
EXTENDS Integers

CONSTANTS
  FS_MAX_OPEN_FILES,  \* slots of openfiles
  DISK_NUMBLOCKS,     \* blocks of the disk
  Contents,           \* what a block can hold
  Zero,               \* a block of zeros
  Absent              \* the host file of the disk does not exist

ASSUME HostAssumption ==
  /\ FS_MAX_OPEN_FILES \in Nat \ {0}
  /\ DISK_NUMBLOCKS \in Nat \ {0}
  /\ Zero \in Contents
  /\ Absent \notin [0 .. DISK_NUMBLOCKS - 1 -> Contents]

Slots == 0 .. FS_MAX_OPEN_FILES - 1
DiskBlocks == 0 .. DISK_NUMBLOCKS - 1

VARIABLES
  openfiles,  \* the slots whose flags are not 0
  file,       \* the host file of the disk
  lost        \* how many files left their slot in use, for the properties

FsModuleInit == openfiles' = {} /\ lost' = 0

FdValid(s) == s > 0

\* FsOpen takes the first free slot; it fails if there is none, or if the host
\* does not open the file.
FsOpen(s) == s \in Slots \ openfiles /\ \A t \in Slots \ openfiles : s <= t

\* What is left of an open file after FsClose, or an FsClose that refuses it.
FsClose(s) ==
  openfiles' = IF FdValid(s) THEN openfiles ELSE openfiles \cup {s}

-----------------------------------------------------------------------------
(* The disk.  done says whether DiskReadBlock or DiskWriteBlock returned    *)
(* success; any single transfer may fail and the next one succeed.          *)

\* FsOpen can succeed with a slot that FsRead and FsWrite accept.
DiskReachable == file # Absent /\ \E s \in Slots : FsOpen(s) /\ FdValid(s)

\* The open and the close around a transfer, or an open that the table or the
\* host refuses: FsFreeEntry gives the slot back.
DiskTransfer(done) ==
  /\ \/ /\ file # Absent
        /\ \E s \in Slots : FsOpen(s) /\ FsClose(s) /\ (done => FdValid(s))
     \/ ~done /\ UNCHANGED openfiles
  /\ UNCHANGED lost

\* A write that comes up short fails although the block may have changed: it
\* counts as arrived or not by the bytes that tell contents apart.
DiskWriteBlock(b, c, done) ==
  /\ DiskTransfer(done)
  /\ \/ DiskReachable /\ file' = [file EXCEPT ![b] = c]
     \/ ~done /\ UNCHANGED file

\* Only a read that succeeds delivers anything; what fails stays as it was.
DiskReadBlock(b, old, done) == IF done THEN file[b] ELSE old

\* Opening for writing erases the file, or makes it; then it is filled with
\* zeros, and a block that did not get them is a hole of the file.  A caller
\* runs from a file, so slot 0 is taken by now.  The close can fail too.
DiskCreate(erased, done) ==
  /\ done => erased
  /\ erased => openfiles # Slots
  /\ file' = IF erased THEN [b \in DiskBlocks |-> Zero] ELSE file
  /\ UNCHANGED <<openfiles, lost>>

-----------------------------------------------------------------------------
(* The other users of the table *)

\* Boot writes a file "vm".  The host may refuse it.
OpenVm ==
  /\ \/ UNCHANGED openfiles
     \/ \E s \in Slots : FsOpen(s) /\ FsClose(s)
  /\ UNCHANGED <<file, lost>>

\* A file that is not an executable keeps its slot, as ProcessGetCodeInfo
\* returns without FsClose, and so does one in slot 0, which FsClose refuses.
LeaveOpen ==
  /\ \E s \in Slots : FsOpen(s) /\ openfiles' = openfiles \cup {s}
  /\ lost' = lost + 1
  /\ UNCHANGED file

\* The option -f of the kernel prints an executable.  Its slot is not given
\* back either: main calls the host's close with the number of the slot.
PrintFile == LeaveOpen

\* A program is loaded: the host has no such file, or it is loaded or found
\* too short, and closed, or it is not an executable.
Loadable == \E s \in Slots : FsOpen(s) /\ FdValid(s)

\* Wrong variant: an executable that was loaded is not closed either.
LoadProgramUnclosed ==
  \/ LeaveOpen
  \/ /\ \E s \in Slots : FsOpen(s) /\ openfiles' = openfiles \cup {s}
     /\ UNCHANGED <<file, lost>>

LoadProgram == LeaveOpen \/ UNCHANGED <<openfiles, file, lost>>
=============================================================================
