------------------------------- MODULE Inodes -------------------------------
(***************************************************************************)
(* The inode layer of os/dfs.c: names, sizes and the translation from the  *)
(* blocks of a file to the blocks of the file system, through direct       *)
(* pointers, one indirect table and one double indirect table, over the    *)
(* block layer, which is used as BlockStore promises: reads return the     *)
(* last write, and a block that is allocated starts with anybody's junk.   *)
(*                                                                         *)
(* The unit of data is the cell: the four bytes of a block number.  A      *)
(* block has as many cells as an address table has entries.                *)
(*                                                                         *)
(* A call runs with interrupts off.  The loops of DfsInodeReadBytes and    *)
(* DfsInodeWriteBytes are one step per block, and no other call starts     *)
(* while one is in progress; the other calls are one step.                 *)
(***************************************************************************)
EXTENDS Integers, Sequences, FiniteSets

CONSTANTS
  NumBlocks,    \* file system blocks
  NumReserved,  \* the first ones, which hold the metadata
  NumInodes,    \* DFS_INODE_MAX_NUM
  NumDirect,    \* DFS_INODE_NUM_DIRECT_ADDRESSED_BLOCKS
  BlockSize,    \* cells per block; DFS_INODE_NUM_INDIRECT_ADDRESSED_BLOCKS
  Names,        \* file names
  NoName,       \* the name of an unused inode
  Data,         \* what a client may write in a cell
  Junk,         \* a cell whose value nobody chose
  Writes,       \* bound: the write calls clients make
  Reads         \* bound: the read calls clients make

DFS_FAIL == -1
DFS_SUCCESS == 1

Blocks == 0 .. NumBlocks - 1
Reserved == 0 .. NumReserved - 1
Inodes == 0 .. NumInodes - 1
Cells == 0 .. BlockSize - 1
MaxVirtual == NumDirect + BlockSize + BlockSize * BlockSize

BlockNums == Blocks \cup {DFS_FAIL}   \* what a pointer may hold; 0 is null

ASSUME InodesAssumption ==
  /\ NumReserved \in Nat \ {0}
  /\ NumBlocks \in Nat /\ NumReserved <= NumBlocks
  /\ NumInodes \in Nat \ {0}
  /\ NumDirect \in Nat \ {0}
  /\ BlockSize \in Nat \ {0}
  /\ NoName \notin Names
  /\ Junk \notin Data \cup BlockNums
  /\ Writes \subseteq [h : Inodes, start : Nat, mem : Seq(Data)]
  /\ Reads \subseteq [h : Inodes, start : Nat, n : Nat]

VARIABLES
  inuse, fname, file_size,             \* the inodes
  direct, indirect, double_indirect,   \* their pointers
  fbv,          \* the allocated blocks
  content,      \* the cells of each block
  call,         \* the read or write in progress
  ret           \* what the last call returned

inodeVars == <<inuse, fname, file_size, direct, indirect, double_indirect>>
vars == <<inodeVars, fbv, content, call, ret>>

NoCall == [op |-> "none"]
NullPointers == [v \in 0 .. NumDirect - 1 |-> 0]
ZeroBlock == [c \in Cells |-> 0]      \* bzero
JunkBlock == [c \in Cells |-> Junk]

\* A freshly formatted disk: every inode is zeroed.
Init ==
  /\ inuse = [h \in Inodes |-> FALSE]
  /\ fname = [h \in Inodes |-> NoName]
  /\ file_size = [h \in Inodes |-> 0]
  /\ direct = [h \in Inodes |-> NullPointers]
  /\ indirect = [h \in Inodes |-> 0]
  /\ double_indirect = [h \in Inodes |-> 0]
  /\ fbv = Reserved
  /\ content = [b \in Blocks |-> JunkBlock]
  /\ call = NoCall
  /\ ret = DFS_SUCCESS

-----------------------------------------------------------------------------
(* The block layer: the next block DfsAllocateBlock hands out when the     *)
(* blocks in a are taken, and writes, which nobody sees without a block.   *)

NextFree(a) ==
  IF a = Blocks THEN DFS_FAIL
                ELSE CHOOSE b \in Blocks \ a : \A c \in Blocks \ a : b <= c
TakeOutside(a) == a \cup {NextFree(a)}   \* wrong: marks block -1 as well
TakeNothing(a) == a                      \* wrong: the bit is not cleared
Take(a) == a \cup ({NextFree(a)} \cap Blocks)
ReadBlock(store, b) == IF b \in Blocks THEN store[b] ELSE JunkBlock
WriteBlock(store, b, x) == IF b \in Blocks THEN [store EXCEPT ![b] = x] ELSE store

-----------------------------------------------------------------------------
(* Translation *)

IsDirect(v) == v < NumDirect
IsIndirect(v) == NumDirect <= v /\ v < NumDirect + BlockSize
Beyond(v) == v - NumDirect - BlockSize     \* in the double indirect range

\* The pointer in entry i of the table in block t, or null without a table.
Entry(t, i) == IF t = 0 THEN 0 ELSE ReadBlock(content, t)[i]

Pointer(h, v) ==
  CASE IsDirect(v)   -> direct[h][v]
    [] IsIndirect(v) -> Entry(indirect[h], v - NumDirect)
    [] OTHER         -> Entry(Entry(double_indirect[h], Beyond(v) \div BlockSize),
                              Beyond(v) % BlockSize)

DfsInodeTranslateVirtualToFilesys(h, v) ==
  IF inuse[h] /\ v < MaxVirtual /\ Pointer(h, v) # 0 THEN Pointer(h, v) ELSE DFS_FAIL

\* Each case of DfsInodeAllocateVirtualBlock: the block it returns and what
\* it changes.  A failed DfsAllocateBlock is not noticed: its -1 is stored.
AllocateDirect(h, v) ==
  LET b == NextFree(fbv) IN
  [blk |-> b, fbv |-> Take(fbv), content |-> content,
   direct |-> [direct EXCEPT ![h][v] = b],
   indirect |-> indirect, double_indirect |-> double_indirect]

\* Block t as a table whose entry i gets b: zeroed if it was just allocated.
SetEntry(store, t, fresh, i, b) ==
  WriteBlock(store, t, [(IF fresh THEN ZeroBlock ELSE ReadBlock(store, t)) EXCEPT ![i] = b])

AllocateIndirect(h, v) ==
  LET fresh == indirect[h] = 0
      t  == IF fresh THEN NextFree(fbv) ELSE indirect[h]
      a  == IF fresh THEN Take(fbv) ELSE fbv
      b  == NextFree(a)
  IN
  [blk |-> b, fbv |-> Take(a),
   content |-> SetEntry(content, t, fresh, v - NumDirect, b),
   direct |-> direct, indirect |-> [indirect EXCEPT ![h] = t],
   double_indirect |-> double_indirect]

\* Wrong variant: the two indices of the double indirect range are swapped
\* when the data block is stored.
AllocateDoubleSwapped(h, v) ==
  LET i1 == Beyond(v) \div BlockSize
      i2 == Beyond(v) % BlockSize
      fresh1 == double_indirect[h] = 0
      t1 == IF fresh1 THEN NextFree(fbv) ELSE double_indirect[h]
      a1 == IF fresh1 THEN Take(fbv) ELSE fbv
      fresh2 == fresh1 \/ ReadBlock(content, t1)[i1] = 0
      t2 == IF fresh2 THEN NextFree(a1) ELSE ReadBlock(content, t1)[i1]
      a2 == IF fresh2 THEN Take(a1) ELSE a1
      b  == NextFree(a2)
      c1 == IF fresh2 THEN SetEntry(content, t1, fresh1, i1, t2) ELSE content
  IN
  [blk |-> b, fbv |-> Take(a2),
   content |-> SetEntry(c1, t2, fresh2, i1, b),
   direct |-> direct, indirect |-> indirect,
   double_indirect |-> [double_indirect EXCEPT ![h] = t1]]

AllocateDouble(h, v) ==
  LET i1 == Beyond(v) \div BlockSize
      i2 == Beyond(v) % BlockSize
      fresh1 == double_indirect[h] = 0
      t1 == IF fresh1 THEN NextFree(fbv) ELSE double_indirect[h]
      a1 == IF fresh1 THEN Take(fbv) ELSE fbv
      fresh2 == fresh1 \/ ReadBlock(content, t1)[i1] = 0
      t2 == IF fresh2 THEN NextFree(a1) ELSE ReadBlock(content, t1)[i1]
      a2 == IF fresh2 THEN Take(a1) ELSE a1
      b  == NextFree(a2)
      c1 == IF fresh2 THEN SetEntry(content, t1, fresh1, i1, t2) ELSE content
  IN
  [blk |-> b, fbv |-> Take(a2),
   content |-> SetEntry(c1, t2, fresh2, i2, b),
   direct |-> direct, indirect |-> indirect,
   double_indirect |-> [double_indirect EXCEPT ![h] = t1]]

\* Nothing is allocated, and b is what the call goes on with.
NoAllocation(b) ==
  [blk |-> b, fbv |-> fbv, content |-> content, direct |-> direct,
   indirect |-> indirect, double_indirect |-> double_indirect]

DfsInodeAllocateVirtualBlock(h, v) ==
  CASE v >= MaxVirtual -> NoAllocation(DFS_FAIL)
    [] IsDirect(v)     -> AllocateDirect(h, v)
    [] IsIndirect(v)   -> AllocateIndirect(h, v)
    [] OTHER           -> AllocateDouble(h, v)

-----------------------------------------------------------------------------
(* An inode that lost an address table to a full disk holds -1 for it: the *)
(* code goes on with whatever a cache slot contains as block numbers.  The *)
(* model does not follow it there.                                         *)

TablesOf(h) ==
  {indirect[h], double_indirect[h]} \cup {Entry(double_indirect[h], i) : i \in Cells}
TableLost(h) == DFS_FAIL \in TablesOf(h)

\* The block numbers of the data of h, and all it refers to.
LeavesOf(h) == {Pointer(h, v) : v \in 0 .. MaxVirtual - 1}
Refs(h) == (LeavesOf(h) \cup TablesOf(h)) \ {0}

-----------------------------------------------------------------------------
(* Calls on whole inodes *)

\* The handle of the name, else the first unused inode, else failure.
\* Wrong variant: the name is not looked for.
OpenWithoutLookup(n) ==
  /\ call = NoCall
  /\ LET unused == {h \in Inodes : ~inuse[h]}
         first(S) == CHOOSE h \in S : \A k \in S : h <= k
     IN  IF unused = {}
           THEN ret' = DFS_FAIL /\ UNCHANGED inodeVars
           ELSE /\ ret' = first(unused)
                /\ inuse' = [inuse EXCEPT ![first(unused)] = TRUE]
                /\ fname' = [fname EXCEPT ![first(unused)] = n]
                /\ file_size' = [file_size EXCEPT ![first(unused)] = 0]
                /\ UNCHANGED <<direct, indirect, double_indirect>>
  /\ UNCHANGED <<fbv, content, call>>

DfsInodeOpen(n) ==
  /\ call = NoCall
  /\ LET named  == {h \in Inodes : inuse[h] /\ fname[h] = n}
         unused == {h \in Inodes : ~inuse[h]}
         first(S) == CHOOSE h \in S : \A k \in S : h <= k
     IN
     \/ /\ named # {}
        /\ ret' = first(named)
        /\ UNCHANGED inodeVars
     \/ /\ named = {} /\ unused # {}
        /\ ret' = first(unused)
        /\ inuse' = [inuse EXCEPT ![first(unused)] = TRUE]
        /\ fname' = [fname EXCEPT ![first(unused)] = n]
        /\ file_size' = [file_size EXCEPT ![first(unused)] = 0]
        /\ UNCHANGED <<direct, indirect, double_indirect>>
     \/ /\ named = {} /\ unused = {}
        /\ ret' = DFS_FAIL
        /\ UNCHANGED inodeVars
  /\ UNCHANGED <<fbv, content, call>>

FreedDataOnly(h) == LeavesOf(h) \ {0}   \* wrong: the tables are not freed
FreedByDelete(h) == Refs(h)

\* The loops of DfsInodeDelete free what the inode refers to.  A pointer that
\* a full disk left at -1 would make DfsFreeBlock store outside the vector:
\* the model does not follow such a call.
DfsInodeDelete(h) ==
  /\ call = NoCall
  /\ IF ~inuse[h]
       THEN ret' = DFS_FAIL /\ UNCHANGED <<inodeVars, fbv, content>>
       ELSE /\ DFS_FAIL \notin Refs(h)
            /\ fbv' = fbv \ FreedByDelete(h)
            /\ content' = [b \in Blocks |-> IF b \in FreedByDelete(h) THEN JunkBlock ELSE content[b]]
            /\ inuse' = [inuse EXCEPT ![h] = FALSE]
            /\ fname' = [fname EXCEPT ![h] = NoName]
            /\ file_size' = [file_size EXCEPT ![h] = 0]
            /\ direct' = [direct EXCEPT ![h] = NullPointers]
            /\ indirect' = [indirect EXCEPT ![h] = 0]
            /\ double_indirect' = [double_indirect EXCEPT ![h] = 0]
            /\ ret' = DFS_SUCCESS
  /\ UNCHANGED call

DfsInodeFilesize(h) ==
  /\ call = NoCall
  /\ ret' = IF inuse[h] THEN file_size[h] ELSE DFS_FAIL
  /\ UNCHANGED <<inodeVars, fbv, content, call>>

-----------------------------------------------------------------------------
(* Reading and writing, block by block *)

FirstBlock(start) == start \div BlockSize
EndBlock(start, n) == (start + n + BlockSize - 1) \div BlockSize

BeginWrite(w) ==
  /\ call = NoCall
  /\ inuse[w.h] /\ ~TableLost(w.h)
  /\ call' = [op |-> "write", h |-> w.h, start |-> w.start, mem |-> w.mem,
              n |-> Len(w.mem), blk |-> FirstBlock(w.start), failed |-> FALSE]
  /\ UNCHANGED <<inodeVars, fbv, content, ret>>

\* Wrong variant: the last block of several is not read.
BaseForgetsLast(store, b) ==
  IF call.blk = FirstBlock(call.start) /\ call.start % BlockSize # 0
    THEN ReadBlock(store, b)
    ELSE ZeroBlock

\* What the block buffer holds before the new cells are copied into it: the
\* old cells if the first block starts in its middle, or if the last one of
\* several ends in its middle; else zeros.
Base(store, b) ==
  LET first == call.blk = FirstBlock(call.start)
      last  == call.blk = EndBlock(call.start, call.n) - 1
  IN  IF \/ first /\ call.start % BlockSize # 0
         \/ ~first /\ last /\ (call.start + call.n) % BlockSize # 0
        THEN ReadBlock(store, b)
        ELSE ZeroBlock

\* The position of cell c of the current block in the caller's buffer.
Position(c) == call.blk * BlockSize + c - call.start + 1

WriteStep ==
  /\ call.op = "write"
  /\ call.blk < EndBlock(call.start, call.n)
  /\ ~TableLost(call.h)
  /\ LET b == DfsInodeTranslateVirtualToFilesys(call.h, call.blk)
         m == IF b = DFS_FAIL THEN DfsInodeAllocateVirtualBlock(call.h, call.blk)
                              ELSE NoAllocation(b)
         base == Base(m.content, m.blk)
     IN
     /\ content' = WriteBlock(m.content, m.blk,
                     [c \in Cells |-> IF Position(c) \in 1 .. call.n
                                        THEN call.mem[Position(c)] ELSE base[c]])
     /\ fbv' = m.fbv
     /\ direct' = m.direct
     /\ indirect' = m.indirect
     /\ double_indirect' = m.double_indirect
     /\ call' = [call EXCEPT !.blk = @ + 1,
                             !.failed = @ \/ m.blk = DFS_FAIL]
  /\ UNCHANGED <<inuse, fname, file_size, ret>>

\* Wrong variant: the size is compared with the length of the write alone.
EndWriteForgetsStart ==
  /\ call.op = "write"
  /\ call.blk = EndBlock(call.start, call.n)
  /\ file_size' = [file_size EXCEPT ![call.h] = IF @ < call.n THEN call.n ELSE @]
  /\ ret' = call.n
  /\ call' = NoCall
  /\ UNCHANGED <<inuse, fname, direct, indirect, double_indirect, fbv, content>>

EndWrite ==
  /\ call.op = "write"
  /\ call.blk = EndBlock(call.start, call.n)
  /\ file_size' = [file_size EXCEPT ![call.h] =
                     IF @ < call.start + call.n THEN call.start + call.n ELSE @]
  /\ ret' = call.n
  /\ call' = NoCall
  /\ UNCHANGED <<inuse, fname, direct, indirect, double_indirect, fbv, content>>

BeginRead(r) ==
  /\ call = NoCall
  /\ inuse[r.h] /\ ~TableLost(r.h)
  /\ call' = [op |-> "read", h |-> r.h, start |-> r.start, mem |-> <<>>,
              n |-> r.n, blk |-> FirstBlock(r.start)]
  /\ UNCHANGED <<inodeVars, fbv, content, ret>>

\* Wrong variant: every block is copied from its first cell.
ReadStepFromBlockStart ==
  /\ call.op = "read"
  /\ call.blk < EndBlock(call.start, call.n)
  /\ LET x == ReadBlock(content, DfsInodeTranslateVirtualToFilesys(call.h, call.blk))
         wanted == {c \in Cells : Position(c) \in 1 .. call.n}
     IN  call' = [call EXCEPT !.blk = @ + 1,
                    !.mem = @ \o [k \in 1 .. Cardinality(wanted) |-> x[k - 1]]]
  /\ UNCHANGED <<inodeVars, fbv, content, ret>>

\* The failure of a translation is not noticed: DfsReadBlock gets -1.
ReadStep ==
  /\ call.op = "read"
  /\ call.blk < EndBlock(call.start, call.n)
  /\ LET x == ReadBlock(content, DfsInodeTranslateVirtualToFilesys(call.h, call.blk))
         wanted == {c \in Cells : Position(c) \in 1 .. call.n}
         done == Len(call.mem)
     IN  call' = [call EXCEPT !.blk = @ + 1,
                    !.mem = @ \o [k \in 1 .. Cardinality(wanted) |->
                                    x[call.start + done + k - 1 - call.blk * BlockSize]]]
  /\ UNCHANGED <<inodeVars, fbv, content, ret>>

EndRead ==
  /\ call.op = "read"
  /\ call.blk = EndBlock(call.start, call.n)
  /\ ret' = Len(call.mem)
  /\ call' = NoCall
  /\ UNCHANGED <<inodeVars, fbv, content>>

Next ==
  \/ \E n \in Names : DfsInodeOpen(n)
  \/ \E h \in Inodes : DfsInodeDelete(h) \/ DfsInodeFilesize(h)
  \/ \E w \in Writes : BeginWrite(w)
  \/ \E r \in Reads : BeginRead(r)
  \/ WriteStep \/ EndWrite \/ ReadStep \/ EndRead

Spec == Init /\ [][Next]_vars

-----------------------------------------------------------------------------
(* Properties *)

Cell == Data \cup BlockNums \cup {Junk}
WriteCall == [op : {"write"}, h : Inodes, start : Nat, mem : Seq(Data), n : Nat,
              blk : Nat, failed : BOOLEAN]
ReadCall == [op : {"read"}, h : Inodes, start : Nat, mem : Seq(Cell), n : Nat, blk : Nat]

TypeOK ==
  /\ inuse \in [Inodes -> BOOLEAN]
  /\ fname \in [Inodes -> Names \cup {NoName}]
  /\ file_size \in [Inodes -> Nat]
  /\ direct \in [Inodes -> [0 .. NumDirect - 1 -> BlockNums]]
  /\ indirect \in [Inodes -> BlockNums]
  /\ double_indirect \in [Inodes -> BlockNums]
  /\ fbv \in SUBSET Blocks
  /\ content \in [Blocks -> [Cells -> Cell]]
  /\ call \in WriteCall \cup ReadCall \cup {NoCall}
  /\ ret \in Int

\* Every place of an inode that can hold a block number.
Places ==
  [kind : {"data"}, at : 0 .. MaxVirtual - 1] \cup [kind : {"table"}, at : Cells]
    \cup [kind : {"indirect", "double"}, at : {0}]
PointerAt(h, p) ==
  CASE p.kind = "data"     -> Pointer(h, p.at)
    [] p.kind = "table"    -> Entry(double_indirect[h], p.at)
    [] p.kind = "indirect" -> indirect[h]
    [] p.kind = "double"   -> double_indirect[h]

\* No two places of the file system, be they data or address tables, of one
\* file or of two, ever name the same block, and none names a metadata block.
NoBlockShared ==
  \A h, k \in Inodes, p, q \in Places :
    PointerAt(h, p) \in Blocks \ {0} =>
      /\ PointerAt(h, p) \notin Reserved
      /\ <<h, p>> # <<k, q>> => PointerAt(h, p) # PointerAt(k, q)

\* DfsInodeDelete frees all a file ever got and nothing else, and no write that
\* a full disk cuts short leaves a block behind: the allocated blocks are the
\* metadata and what the inodes refer to.
AllocatedIffReferenced ==
  fbv = Reserved \cup ((UNION {Refs(h) : h \in Inodes}) \cap Blocks)

\* The cell at offset o of file h; Junk where nothing is mapped.
Offsets == 0 .. MaxVirtual * BlockSize - 1
CellOf(h, o) ==
  ReadBlock(content, DfsInodeTranslateVirtualToFilesys(h, o \div BlockSize))[o % BlockSize]

Changed(h, o) == CellOf(h, o)' # CellOf(h, o)
Writing(h) == call.op = "write" /\ call.h = h
InRange(o) == call.start <= o /\ o < call.start + call.n

\* A step changes the bytes of one file at most: the one being written, or the
\* one that is deleted, whatever blocks are freed, reused or moved between.
FilesIsolated ==
  [][\A h \in Inodes, o \in Offsets :
       Changed(h, o) => Writing(h) \/ (inuse[h] /\ ~inuse'[h])]_vars

\* A write changes no byte outside its range that had a value, with one
\* exception: when it lies within one block and starts at its first byte, the
\* rest of that block is lost (os/dfs.c:848).
WritesKeepTheRest ==
  [][\A h \in Inodes, o \in Offsets :
       Writing(h) /\ Changed(h, o) /\ ~InRange(o) /\ CellOf(h, o) # Junk =>
         /\ call.start % BlockSize = 0 /\ call.n < BlockSize
         /\ o \div BlockSize = call.start \div BlockSize]_vars

\* When DfsInodeWriteBytes returns and got every block it asked for, the file
\* has the bytes it was given, each at its place.
WritesStore ==
  [][call.op = "write" /\ call' = NoCall /\ ~call.failed =>
       \A h \in Inodes, o \in Offsets :
         h = call.h /\ InRange(o) => CellOf(h, o)' = call.mem[o - call.start + 1]]_vars

\* DfsInodeReadBytes returns the bytes of its range, in order, and all of them.
ReadsReturnTheFile ==
  [][call.op = "read" /\ call' = NoCall =>
       /\ ret' = call.n
       /\ \A k \in 1 .. call.n : call.mem[k] = CellOf(call.h, call.start + k - 1)]_vars

\* Between calls, no byte somebody wrote lies beyond the size of its file.
SizeCoversData ==
  \A h \in Inodes, o \in Offsets :
    CellOf(h, o) \in Data \ {0} => o < file_size[h] \/ Writing(h)

\* A name finds at most one file.
NamesUnique ==
  \A h, k \in Inodes : inuse[h] /\ inuse[k] /\ fname[h] = fname[k] => h = k

\* os/dfs.c:810 "if you are only writing part of a given file system block,
\* you'll need to read that block from the disk first": a write keeps every
\* byte outside its range.
PartialWriteKeepsRest ==
  [][\A h \in Inodes, o \in Offsets :
       Writing(h) /\ Changed(h, o) => InRange(o) \/ CellOf(h, o) = Junk]_vars

\* os/dfs.c:812 "Return DFS_FAIL on failure and the number of bytes written on
\* success": a write that got no block for some of its bytes does not return
\* their number.
FailedWriteReported ==
  [][call.op = "write" /\ call' = NoCall /\ call.failed => ret' # call.n]_vars
=============================================================================
