----------------------------- MODULE BlockStore -----------------------------
(***************************************************************************)
(* What the block layer of the DLXOS file system (os/dfs.c: the free block *)
(* vector and the buffer cache) promises to the inode layer above it, with *)
(* no cache and no disk: every allocated block has one content, which only *)
(* a write of that block changes, and a block is handed out only while it  *)
(* is free.  The content of a free block is nobody's: it may change at any *)
(* step, and a block that is allocated again starts with whatever it holds.*)
(*                                                                         *)
(* A step is the answer to one call: the variable call has the function    *)
(* and its arguments, so that a read of b can be answered only with what b *)
(* holds, and a write of b can only change b.                              *)
(***************************************************************************)
EXTENDS Integers

CONSTANTS
  NumBlocks,  \* number of file system blocks
  Data        \* the contents a block can have

DFS_FAIL == -1
DFS_SUCCESS == 1

Blocks == 0 .. NumBlocks - 1

VARIABLES
  open,       \* the file system is open for allocation
  allocated,  \* the blocks in use
  content,    \* the content of each block
  call,       \* the last call and its arguments
  ret         \* what it returned

storeVars == <<open, allocated, content, call, ret>>

StoreInit ==
  /\ open = TRUE
  /\ allocated \in SUBSET Blocks
  /\ content \in [Blocks -> Data]
  /\ call = <<"DfsOpenFileSystem">>
  /\ ret = DFS_SUCCESS

-----------------------------------------------------------------------------

\* The blocks in S keep their content.
Keep(S) == \A b \in S : content'[b] = content[b]

\* Reading through the failure handle, the hole of a file, delivers something
\* and touches no allocated block.
Read(b) ==
  /\ \/ b \in allocated /\ ret' = content[b]
     \/ b = DFS_FAIL /\ ret' \in Data
  /\ Keep(allocated)
  /\ UNCHANGED <<open, allocated>>

\* Writing through it, after an allocation that failed, touches none either.
Write(b, d) ==
  /\ \/ b \in allocated /\ content'[b] = d
     \/ b = DFS_FAIL
  /\ Keep(allocated \ {b})
  /\ ret' = DFS_SUCCESS
  /\ UNCHANGED <<open, allocated>>

Allocate ==
  \/ /\ open
     /\ \E b \in Blocks \ allocated : allocated' = allocated \cup {b} /\ ret' = b
     /\ Keep(allocated)
     /\ UNCHANGED open
  \/ /\ ~open \/ allocated = Blocks
     /\ ret' = DFS_FAIL
     /\ UNCHANGED <<open, allocated, content>>

Free(b) ==
  \/ /\ open
     /\ allocated' = allocated \ {b}
     /\ ret' = DFS_SUCCESS
     /\ Keep(allocated')
     /\ UNCHANGED open
  \/ /\ ~open
     /\ ret' = DFS_FAIL
     /\ UNCHANGED <<open, allocated, content>>

Invalidate ==
  /\ open' = FALSE
  /\ UNCHANGED <<allocated, content, ret>>

\* Nobody sees what the implementation does with its buffers.
Flush ==
  /\ Keep(allocated)
  /\ ret' \in {ret, DFS_SUCCESS}
  /\ UNCHANGED <<open, allocated>>

StoreNext ==
  \/ \E b \in Blocks \cup {DFS_FAIL} :
       \/ Read(b) /\ call' = <<"DfsReadBlock", b>>
       \/ \E d \in Data : Write(b, d) /\ call' = <<"DfsWriteBlock", b, d>>
  \/ Allocate /\ call' = <<"DfsAllocateBlock">>
  \/ \E b \in Blocks : Free(b) /\ call' = <<"DfsFreeBlock", b>>
  \/ Flush /\ call' = <<"DfsCacheFlush">>
  \/ Invalidate /\ call' = <<"DfsInvalidate">>

StoreSpec == StoreInit /\ [][StoreNext]_storeVars
=============================================================================
