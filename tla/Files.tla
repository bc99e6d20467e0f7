------------------------------- MODULE Files --------------------------------
(***************************************************************************)
(* The file calls of os/files.c: a table of descriptors over the inode     *)
(* layer.  Each call runs with interrupts off and is one step (what        *)
(* happens when a lock makes a call wait is the subject of FsLocks).       *)
(*                                                                         *)
(* An inode is its name, its size and the extent of the bytes stored in    *)
(* it; Inodes models the blocks under it.  curr_pos and file_size are      *)
(* machine words: a position is kept unsigned, handed to the inode layer   *)
(* as a signed int, and compared unsigned.                                 *)
(***************************************************************************)
EXTENDS Integers, FiniteSets

CONSTANTS
  Names,       \* file names
  NoName,      \* the name of an unused inode, and a cleared one
  NumInodes,   \* DFS_INODE_MAX_NUM
  NumFds,      \* FILE_MAX_OPEN_FILES
  BlockSize,   \* bytes per file system block
  MaxVirtual,  \* DFS_INODE_MAX_VIRTUAL_BLOCKNUM
  WordSize,    \* 2^32
  FILE_MAX_READWRITE_BYTES,  \* the largest num_bytes that the traps let through
  Counts,      \* bound: the num_bytes of reads and writes
  Offsets,     \* bound: the num_bytes of seeks
  MaxPos       \* bound: how far from 0 a position may move

FILE_FAIL == -1
FILE_SUCCESS == 1
DFS_FAIL == -1
NoInode == -1     \* a descriptor whose DfsInodeOpen failed

Inodes == 0 .. NumInodes - 1
Fds == 0 .. NumFds - 1
Words == 0 .. WordSize - 1
Modes == {"r", "w"}
Whence == {"set", "end", "cur"}

ASSUME FilesAssumption ==
  /\ NoName \notin Names
  /\ NumInodes \in Nat \ {0}
  /\ NumFds \in Nat \ {0}
  /\ BlockSize \in Nat \ {0}
  /\ MaxVirtual \in Nat \ {0}
  /\ WordSize \in Nat \ {0} /\ WordSize % 2 = 0
  /\ FILE_MAX_READWRITE_BYTES \in Nat /\ FILE_MAX_READWRITE_BYTES < WordSize \div 2
  \* num_bytes is an int, and the traps only look whether it is too large.
  /\ Counts \subseteq -(WordSize \div 2) .. FILE_MAX_READWRITE_BYTES
  /\ Offsets \subseteq Int
  /\ MaxPos \in Nat /\ MaxPos < WordSize \div 2

VARIABLES
  fname,    \* the name of each inode; NoName when it is not in use
  size,     \* file_size, as a word
  extent,   \* the end of the last byte stored in the file's blocks
  fd,       \* the descriptors
  ret       \* the last call and what it returned

vars == <<fname, size, extent, fd, ret>>

Descriptors ==
  [inuse : BOOLEAN, filename : Names \cup {NoName}, inode : Inodes \cup {NoInode},
   eof : BOOLEAN, mode : Modes, pos : Words]

ClosedFd == [inuse |-> FALSE, filename |-> NoName, inode |-> 0,
             eof |-> FALSE, mode |-> "r", pos |-> 0]

\* FileModuleInit on a freshly formatted disk; fd is zeroed memory.
Init ==
  /\ fname = [i \in Inodes |-> NoName]
  /\ size = [i \in Inodes |-> 0]
  /\ extent = [i \in Inodes |-> 0]
  /\ fd = [h \in Fds |-> ClosedFd]
  /\ ret = [call |-> "boot", h |-> 0, asked |-> 0, val |-> FILE_SUCCESS]

-----------------------------------------------------------------------------
(* Machine words.                                                          *)

Word(x) == x % WordSize
Signed(w) == IF w >= WordSize \div 2 THEN w - WordSize ELSE w
\* C division rounds towards zero.
Quotient(a, b) == IF a >= 0 THEN a \div b ELSE -((-a) \div b)

-----------------------------------------------------------------------------
(* The inode layer.                                                        *)

InUse(i) == fname[i] # NoName
Named(n) == {i \in Inodes : fname[i] = n}
Unused == {i \in Inodes : ~InUse(i)}
First(S) == CHOOSE x \in S : \A y \in S : x <= y

DfsInodeFilenameExists(n) == IF Named(n) = {} THEN DFS_FAIL ELSE First(Named(n))

DfsInodeFilesize(i) == IF InUse(i) THEN size[i] ELSE Word(DFS_FAIL)

\* The blocks of a transfer of n bytes at start, as unsigned words; the loop
\* takes a turn when the first is before the end.
StartBlock(start) == Word(Quotient(start, BlockSize))
EndBlock(start, n) ==
  Word(Quotient(start + n, BlockSize) + IF (start + n) % BlockSize # 0 THEN 1 ELSE 0)
Turns(start, n) == StartBlock(start) < EndBlock(start, n)

\* A turn that starts at a negative byte of a block, or that runs towards the
\* end of the address space, as it does when the end of the transfer is beyond
\* the ints or a block or more before 0, leaves the buffers: such calls are
\* cut off.
Defined(start, n) ==
  Turns(start, n) => /\ Quotient(start, BlockSize) * BlockSize <= start
                     /\ EndBlock(start, n) < WordSize \div 2
                     /\ start + n < WordSize \div 2

\* curr_total_bytes.  With a negative n there is a turn in one block at most:
\* nothing is copied, and n is counted.
Transferred(start, n) == IF Turns(start, n) THEN n ELSE 0

\* Wrong variant: the length of the write is taken for its end.
NewSizeForgetsStart(i, start, n) ==
  IF size[i] < Transferred(start, n) THEN Transferred(start, n) ELSE size[i]

\* The largest size is stored; a block beyond the last one that an inode can
\* address is not.
NewSize(i, start, n) ==
  LET end == Word(start + Transferred(start, n))
  IN IF size[i] < end THEN end ELSE size[i]

NewExtent(i, start, n) ==
  LET stored == {b \in start .. start + n - 1 : 0 <= b /\ b < MaxVirtual * BlockSize}
  IN IF ~Turns(start, n) THEN extent[i]
     ELSE IF \E b \in stored : extent[i] <= b
          THEN 1 + CHOOSE b \in stored : \A c \in stored : c <= b
          ELSE extent[i]

-----------------------------------------------------------------------------
(* The calls.                                                              *)

\* Wrong variant: the search ends at the first descriptor.
UsedByFirst(i) == fd[0].inuse /\ fd[0].inode = i

UsedByAnother(i) == \E h \in Fds : fd[h].inuse /\ fd[h].inode = i
Free == {h \in Fds : ~fd[h].inuse}

Return(call, h, val) == ret' = [call |-> call, h |-> h, asked |-> 0, val |-> val]
ReturnBytes(call, h, n, val) == ret' = [call |-> call, h |-> h, asked |-> n, val |-> val]

\* Only the first descriptor that is free is taken, after the file has been
\* found, created or replaced; the inode is not looked at.
Descriptor(n, m, i) ==
  IF Free = {}
  THEN /\ Return("open", 0, FILE_FAIL)
       /\ UNCHANGED fd
  ELSE LET h == First(Free)
       IN /\ fd' = [fd EXCEPT ![h] = [inuse |-> TRUE, filename |-> n, inode |-> i,
                                      eof |-> FALSE, mode |-> m, pos |-> 0]]
          /\ Return("open", h, h)

OpenFails ==
  /\ Return("open", 0, FILE_FAIL)
  /\ UNCHANGED <<fname, size, extent, fd>>

OpenExisting(n, m, i) ==
  IF UsedByAnother(i) THEN OpenFails
  ELSE IF m = "r"
       THEN /\ Descriptor(n, m, i)
            /\ UNCHANGED <<fname, size, extent>>
       ELSE LET j == First(Unused \cup {i})   \* deleted, then opened anew
            IN /\ fname' = [fname EXCEPT ![i] = NoName, ![j] = n]
               /\ size' = [size EXCEPT ![i] = 0, ![j] = 0]
               /\ extent' = [extent EXCEPT ![i] = 0]
               /\ Descriptor(n, m, j)

OpenNew(n, m) ==
  IF m = "r" THEN OpenFails
  ELSE IF Unused = {}
       THEN /\ Descriptor(n, m, NoInode)
            /\ UNCHANGED <<fname, size, extent>>
       ELSE LET i == First(Unused)
            IN /\ fname' = [fname EXCEPT ![i] = n]
               /\ size' = [size EXCEPT ![i] = 0]
               /\ Descriptor(n, m, i)
               /\ UNCHANGED extent

FileOpen(n, m) ==
  LET i == DfsInodeFilenameExists(n)
  IN IF i = DFS_FAIL THEN OpenNew(n, m) ELSE OpenExisting(n, m, i)

FileClose(h) ==
  /\ fd' = [fd EXCEPT ![h].inuse = FALSE]
  /\ Return("close", h, FILE_SUCCESS)
  /\ UNCHANGED <<fname, size, extent>>

\* Bound: positions stay within MaxPos of 0.
Near(pos) == Signed(pos) \in -MaxPos .. MaxPos

ReadRefused(h) == ~fd[h].inuse \/ fd[h].eof \/ fd[h].mode # "r"

AtEnd(h, n) == Word(fd[h].pos + n) >= DfsInodeFilesize(fd[h].inode)

\* Wrong variant: the length is not cut.
Unclamped(h, n) == n

\* The length passed down, as an int.  The sum in AtEnd is unsigned: a negative
\* count that leads before the start is replaced by the rest of the file.
Clamped(h, n) ==
  IF AtEnd(h, n) THEN Signed(Word(DfsInodeFilesize(fd[h].inode) - fd[h].pos)) ELSE n

\* A rest of the file beyond what the traps let through leaves their buffer:
\* cut off.
FileRead(h, n) ==
  /\ IF ReadRefused(h)
     THEN ReturnBytes("read", h, n, FILE_FAIL) /\ UNCHANGED fd
     ELSE /\ fd[h].inode # NoInode        \* else inodes[-1] is read
          /\ LET start == Signed(fd[h].pos)
                 total == Transferred(start, Clamped(h, n))
             IN /\ Defined(start, Clamped(h, n))
                /\ total <= FILE_MAX_READWRITE_BYTES
                /\ IF total = DFS_FAIL
                   THEN UNCHANGED fd
                   ELSE fd' = [fd EXCEPT ![h].pos = Word(@ + total),
                                         ![h].eof = AtEnd(h, n)]
                /\ ReturnBytes("read", h, n, total)
  /\ UNCHANGED <<fname, size, extent>>

\* Wrong variant: the mode is not looked at.
WriteRefusedUnlessOpen(h) == ~fd[h].inuse

WriteRefused(h) == ~fd[h].inuse \/ fd[h].mode # "w"

FileWrite(h, n) ==
  IF WriteRefused(h)
  THEN /\ ReturnBytes("write", h, n, FILE_FAIL)
       /\ UNCHANGED <<fname, size, extent, fd>>
  ELSE LET i == fd[h].inode
           start == Signed(fd[h].pos)
           total == Transferred(start, n)
           pos == IF total = DFS_FAIL THEN fd[h].pos ELSE Word(fd[h].pos + total)
       IN /\ i # NoInode                  \* else inodes[-1] is written
          /\ Defined(start, n)
          /\ Near(pos)
          /\ size' = [size EXCEPT ![i] = NewSize(i, start, n)]
          /\ extent' = [extent EXCEPT ![i] = NewExtent(i, start, n)]
          /\ fd' = [fd EXCEPT ![h].pos = pos]
          /\ ReturnBytes("write", h, n, total)
          /\ UNCHANGED fname

SeekBase(h, whence) ==
  CASE whence = "set" -> 0
    [] whence = "end" -> DfsInodeFilesize(fd[h].inode)
    [] whence = "cur" -> fd[h].pos

\* Wrong variant: a position before the start is kept as it is.
SeekTargetSigned(h, n, whence) == SeekBase(h, whence) + n

SeekTarget(h, n, whence) == Word(SeekBase(h, whence) + n)

\* Wrong variant: the end-of-file flag stays set.
SeekKeepsEof(h, n, whence) ==
  /\ IF ~fd[h].inuse
     THEN Return("seek", h, FILE_FAIL) /\ UNCHANGED fd
     ELSE /\ whence = "end" => fd[h].inode # NoInode
          /\ Near(SeekTarget(h, n, whence))
          /\ fd' = [fd EXCEPT ![h].pos = SeekTarget(h, n, whence)]
          /\ Return("seek", h, FILE_SUCCESS)
  /\ UNCHANGED <<fname, size, extent>>

FileSeek(h, n, whence) ==
  /\ IF ~fd[h].inuse
     THEN Return("seek", h, FILE_FAIL) /\ UNCHANGED fd
     ELSE /\ whence = "end" => fd[h].inode # NoInode
          /\ Near(SeekTarget(h, n, whence))
          /\ fd' = [fd EXCEPT ![h].pos = SeekTarget(h, n, whence), ![h].eof = FALSE]
          /\ Return("seek", h, FILE_SUCCESS)
  /\ UNCHANGED <<fname, size, extent>>

\* Wrong variant: the descriptors stay.
DropNone(n) == fd

\* Every descriptor opened under the name is dropped, whoever opened it.
DropDescriptors(n) ==
  [h \in Fds |-> IF fd[h].inuse /\ fd[h].filename = n
                 THEN [fd[h] EXCEPT !.inuse = FALSE, !.filename = NoName]
                 ELSE fd[h]]

FileDelete(n) ==
  /\ fd' = DropDescriptors(n)
  /\ LET i == DfsInodeFilenameExists(n)
     IN IF i = DFS_FAIL
        THEN /\ Return("delete", 0, FILE_FAIL)
             /\ UNCHANGED <<fname, size, extent>>
        ELSE /\ fname' = [fname EXCEPT ![i] = NoName]
             /\ size' = [size EXCEPT ![i] = 0]
             /\ extent' = [extent EXCEPT ![i] = 0]
             /\ Return("delete", 0, FILE_SUCCESS)

Next ==
  \/ \E n \in Names, m \in Modes : FileOpen(n, m)
  \/ \E h \in Fds : FileClose(h)
  \/ \E h \in Fds, n \in Counts : FileRead(h, n)
  \/ \E h \in Fds, n \in Counts : FileWrite(h, n)
  \/ \E h \in Fds, n \in Offsets, w \in Whence : FileSeek(h, n, w)
  \/ \E n \in Names : FileDelete(n)

Spec == Init /\ [][Next]_vars

-----------------------------------------------------------------------------
(* Properties.                                                             *)

\* The types: words stay within a machine word, and a descriptor holds an
\* inode of the table or none (files.c:13, files_shared.h:14).
TypeOK ==
  /\ fname \in [Inodes -> Names \cup {NoName}]
  /\ size \in [Inodes -> Words]
  /\ extent \in [Inodes -> 0 .. MaxVirtual * BlockSize]
  /\ fd \in [Fds -> Descriptors]
  /\ ret \in [call : {"boot", "open", "close", "read", "write", "seek", "delete"},
              h : Fds, asked : Int, val : Int]

Opened(h) == fd[h].inuse /\ fd[h].inode # NoInode

\* A descriptor in use refers to the file it was opened under, and not to a
\* file that took over the inode after a deletion: FileDelete drops the
\* descriptors of the name it deletes, and FileOpen replaces a file that
\* nobody has open (files.c:56-68, 258-263).
DescriptorNamesItsFile == \A h \in Fds : Opened(h) => fname[fd[h].inode] = fd[h].filename

\* A file is open through one descriptor at a time, across any sequence of
\* opens, closes and deletions (files.c:54-62).
OneDescriptorPerFile ==
  \A h, k \in Fds : Opened(h) /\ Opened(k) /\ fd[h].inode = fd[k].inode => h = k

\* The end-of-file flag is never stale: while it is set there is nothing left
\* to read, so refusing to read is right (files.c:137, 159-164, 247).  Only a
\* file whose size became negative, by a write before its start or one of a
\* negative count that ends there, is excepted.
EofMeansEnd ==
  \A h \in Fds :
    Opened(h) /\ fd[h].eof /\ Signed(size[fd[h].inode]) >= 0
      => fd[h].pos >= size[fd[h].inode]

\* No byte stored in a file lies beyond its size, where no read would reach
\* it, whatever seeks precede the writes (dfs.c:886-889).
SizeCoversExtent == \A i \in Inodes : extent[i] <= size[i]

\* A read that delivers bytes ends within the file, after seeks in both
\* directions and for every count the traps let through, negative ones too
\* (files.c:158-164; traps.c:161).  It delivers no more than was asked for,
\* unless that is negative: before the start of the file the unsigned sum of
\* files.c:159 is beyond every end, and the count becomes the whole rest.
ReadStaysInFile ==
  [][ret'.call = "read" /\ ret'.val > 0
       => /\ fd'[ret'.h].pos <= size[fd[ret'.h].inode]
          /\ ret'.asked >= 0 => ret'.val <= ret'.asked]_vars

\* While a descriptor has a file open for reading, no call of any process
\* changes the file (files.c:54-68, 199).
ReaderSeesStableFile ==
  [][\A h \in Fds :
       Opened(h) /\ fd[h].mode = "r" /\ fd'[h].inuse =>
         LET i == fd[h].inode
         IN /\ fname'[i] = fname[i]
            /\ size'[i] = size[i]
            /\ extent'[i] = extent[i]]_vars

\* What files.c:32-36 says of FileOpen: FILE_FAIL on failure, else the handle
\* of a descriptor of the file.
OpenGivesAFile ==
  [][ret'.call = "open" /\ ret'.val # FILE_FAIL => fd'[ret'.val].inode \in Inodes]_vars
=============================================================================
