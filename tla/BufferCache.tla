----------------------------- MODULE BufferCache -----------------------------
(***************************************************************************)
(* The block layer of os/dfs.c: the free block vector (DfsAllocateBlock,   *)
(* DfsFreeBlock), the uncached block transfers and the write-back buffer   *)
(* cache with its two slot queues (DfsReadBlock, DfsWriteBlock,            *)
(* DfsCacheHit, DfsCacheAllocateSlot, DfsCacheFlush).                      *)
(*                                                                         *)
(* A call is one step: the file system runs inside traps, with interrupts  *)
(* off, and never sleeps while it works on a slot.  DfsCacheFlush is one   *)
(* step per turn of its loop, and no other call starts until it ends.      *)
(*                                                                         *)
(* The disk transfers what it is asked to; Mount has the transfers that    *)
(* fail, which this layer does not notice.                                 *)
(***************************************************************************)
EXTENDS Integers, Sequences, SequencesExt

CONSTANTS
  NumBlocks,  \* file system blocks; DFS_MAX_NUM_BLOCKS
  NumSlots,   \* cache slots; DFS_NUM_BUFFER_CACHE_ENTRY
  Data,       \* the contents a block can have
  Zero,       \* the content of a zeroed block
  NULL,       \* the end of a queue
  MaxCount    \* bound: the use counter of a slot goes no higher

ASSUME CacheAssumption ==
  /\ NumBlocks \in Nat \ {0}
  /\ NumSlots \in Nat \ {0}
  /\ Zero \in Data
  /\ NULL \notin 0 .. NumSlots - 1
  /\ MaxCount \in Nat \ {0}

DFS_FAIL == -1
DFS_SUCCESS == 1

Blocks == 0 .. NumBlocks - 1
Slots == 0 .. NumSlots - 1
BlockNums == Blocks \cup {DFS_FAIL}   \* what fblknum may hold

VARIABLES
  valid,        \* sb.valid: the file system is open
  fbv,          \* the blocks whose bit is set in the free block vector
  disk,         \* the content of each block on the disk
  inuse, dirty, fblknum, count,   \* bcache_slots
  bcache,       \* the buffer of each slot
  empty_slots, full_slots,        \* the two queues
  flushing,     \* DfsCacheFlush is in its loop
  l,            \* its cursor: the slot whose link l is, or NULL
  call,         \* the last call and its arguments, for ImplementsStore
  ret           \* what it returned

slotVars == <<inuse, dirty, fblknum, count, bcache, empty_slots, full_slots>>
walk == <<flushing, l>>
vars == <<valid, fbv, disk, slotVars, walk, call, ret>>

\* DfsBufferCacheInit links every slot at the head of empty_slots, in index
\* order, after the file system was opened with whatever the disk holds.
Init ==
  /\ valid = TRUE
  /\ fbv \in SUBSET Blocks
  /\ disk \in [Blocks -> Data]
  /\ inuse = [s \in Slots |-> FALSE]
  /\ dirty = [s \in Slots |-> FALSE]
  /\ fblknum = [s \in Slots |-> DFS_FAIL]
  /\ count = [s \in Slots |-> 0]
  /\ bcache = [s \in Slots |-> Zero]
  /\ empty_slots = [i \in 1 .. NumSlots |-> NumSlots - i]
  /\ full_slots = <<>>
  /\ flushing = FALSE /\ l = NULL
  /\ call = <<"DfsOpenFileSystem">> /\ ret = DFS_SUCCESS

-----------------------------------------------------------------------------
(* The free block vector *)

\* Wrong variant: the scan of the vector goes one block too far.
AllocateScansTooFar ==
  /\ ~flushing
  /\ IF valid
       THEN \E b \in (0 .. NumBlocks) \ fbv :
              /\ \A c \in (0 .. NumBlocks) \ fbv : b <= c
              /\ fbv' = fbv \cup {b}
              /\ ret' = b
       ELSE ret' = DFS_FAIL /\ UNCHANGED fbv
  /\ UNCHANGED <<valid, disk, slotVars, walk>>

DfsAllocateBlock ==
  /\ ~flushing
  /\ IF valid /\ fbv # Blocks
       THEN \E b \in Blocks \ fbv :
              /\ \A c \in Blocks \ fbv : b <= c
              /\ fbv' = fbv \cup {b}
              /\ ret' = b
       ELSE ret' = DFS_FAIL /\ UNCHANGED fbv
  /\ UNCHANGED <<valid, disk, slotVars, walk>>

\* The inode layer frees only blocks it holds.
DfsFreeBlock(b) ==
  /\ ~flushing
  /\ b \in fbv
  /\ IF valid
       THEN fbv' = fbv \ {b} /\ ret' = DFS_SUCCESS
       ELSE ret' = DFS_FAIL /\ UNCHANGED fbv
  /\ UNCHANGED <<valid, disk, slotVars, walk>>

DfsInvalidate ==
  /\ ~flushing
  /\ valid' = FALSE
  /\ UNCHANGED <<fbv, disk, slotVars, walk, ret>>

-----------------------------------------------------------------------------
(* Transfers between a slot's buffer and the disk.  A block that is not    *)
(* allocated is refused; the callers ignore the error, so a failed read    *)
(* leaves the buffer as it was and a failed write leaves the disk so.  For *)
(* block DFS_FAIL the code tests a word outside the vector: whatever it    *)
(* finds, the transfer is refused, by the vector or by the disk's range.   *)

\* Wrong variant: the test of the vector is inverted, so nothing is read.
ReadTestInverted(b, s) == IF b \in Blocks \ fbv THEN disk'[b] ELSE bcache[s]

DfsReadBlockUncached(b, s) == IF b \in fbv THEN disk'[b] ELSE bcache[s]

\* Wrong variant: the vector is not looked at.
WriteUnchecked(s) ==
  disk' = IF fblknum[s] \in Blocks
            THEN [disk EXCEPT ![fblknum[s]] = bcache[s]]
            ELSE disk

DfsWriteBlockUncached(s) ==
  disk' = IF fblknum[s] \in fbv
            THEN [disk EXCEPT ![fblknum[s]] = bcache[s]]
            ELSE disk

-----------------------------------------------------------------------------
(* The slots *)

Holds(s, b) == inuse[s] /\ fblknum[s] = b

\* Wrong variant: the first slot in use is taken for a hit of any block.
HitAtFirst(i, b) == i = 1 /\ full_slots # <<>>

\* DfsCacheHit finds b in the i-th link of full_slots.
HitAt(i, b) ==
  /\ i \in 1 .. Len(full_slots)
  /\ Holds(full_slots[i], b)
  /\ \A j \in 1 .. i - 1 : ~Holds(full_slots[j], b)

\* Wrong variant: only the first link is looked at.
MissAtHead(b) == full_slots # <<>> => ~Holds(full_slots[1], b)

Miss(b) == \A i \in 1 .. Len(full_slots) : ~Holds(full_slots[i], b)

CacheHit(s) ==
  /\ count[s] < MaxCount
  /\ count' = [count EXCEPT ![s] = @ + 1]
  /\ UNCHANGED <<disk, inuse, fblknum, empty_slots, full_slots>>

\* The victim is the first of the least frequently used slots.
LeastUsedAt(i) ==
  /\ i \in 1 .. Len(full_slots)
  /\ \A j \in 1 .. Len(full_slots) :
        count[full_slots[i]] <= count[full_slots[j]]
  /\ \A j \in 1 .. i - 1 : count[full_slots[i]] < count[full_slots[j]]

TakeEmpty(s) ==
  /\ empty_slots # <<>>
  /\ s = Head(empty_slots)
  /\ empty_slots' = Tail(empty_slots)
  /\ full_slots' = Append(full_slots, s)
  /\ UNCHANGED disk

\* Wrong variant: the victim stays linked where it was.
EvictLinked(s) ==
  /\ empty_slots = <<>>
  /\ \E i \in 1 .. Len(full_slots) :
       /\ LeastUsedAt(i)
       /\ s = full_slots[i]
       /\ Len(full_slots) <= 2 * NumSlots
       /\ full_slots' = Append(full_slots, s)
  /\ IF dirty[s] THEN DfsWriteBlockUncached(s) ELSE UNCHANGED disk
  /\ UNCHANGED empty_slots

Evict(s) ==
  /\ empty_slots = <<>>
  /\ \E i \in 1 .. Len(full_slots) :
       /\ LeastUsedAt(i)
       /\ s = full_slots[i]
       /\ full_slots' = Append(RemoveAt(full_slots, i), s)
  /\ IF dirty[s] THEN DfsWriteBlockUncached(s) ELSE UNCHANGED disk
  /\ UNCHANGED empty_slots

DfsCacheAllocateSlot(b, s) ==
  /\ TakeEmpty(s) \/ Evict(s)
  /\ inuse' = [inuse EXCEPT ![s] = TRUE]
  /\ fblknum' = [fblknum EXCEPT ![s] = b]
  /\ count' = [count EXCEPT ![s] = 1]

-----------------------------------------------------------------------------
(* Cached reads and writes.  The inode layer passes a block it holds, or   *)
(* DFS_FAIL: the hole of a file it reads, the block it failed to allocate. *)

Usable(b) == valid /\ ~flushing /\ (b \in fbv \/ b = DFS_FAIL)

DfsReadBlock(b) ==
  /\ Usable(b)
  /\ \/ \E i \in 1 .. Len(full_slots) :
          /\ HitAt(i, b)
          /\ CacheHit(full_slots[i])
          /\ ret' = bcache[full_slots[i]]
          /\ UNCHANGED <<bcache, dirty>>
     \/ /\ Miss(b)
        /\ \E s \in Slots :
             /\ DfsCacheAllocateSlot(b, s)
             /\ dirty' = [dirty EXCEPT ![s] = FALSE]
             /\ bcache' = [bcache EXCEPT ![s] = DfsReadBlockUncached(b, s)]
             /\ ret' = bcache'[s]
  /\ UNCHANGED <<valid, fbv, walk>>

\* On a miss the block is read into the slot and then overwritten whole.
DfsWriteBlock(b, d) ==
  /\ Usable(b)
  /\ \E s \in Slots :
       /\ \/ /\ \E i \in 1 .. Len(full_slots) :
                  HitAt(i, b) /\ s = full_slots[i]
             /\ CacheHit(s)
          \/ Miss(b) /\ DfsCacheAllocateSlot(b, s)
       /\ bcache' = [bcache EXCEPT ![s] = d]
       /\ dirty' = [dirty EXCEPT ![s] = TRUE]
  /\ ret' = DFS_SUCCESS
  /\ UNCHANGED <<valid, fbv, walk>>

-----------------------------------------------------------------------------
(* DfsCacheFlush walks full_slots; each dirty slot is written if its block *)
(* is still allocated, reset, and moved to the end of empty_slots.  The    *)
(* cursor has gone on to the next link before the link under it is freed.  *)

Dirty(s) == inuse[s] /\ dirty[s]

DfsCacheFlush ==
  /\ ~flushing
  /\ flushing' = TRUE
  /\ l' = IF full_slots = <<>> THEN NULL ELSE Head(full_slots)
  /\ UNCHANGED <<valid, fbv, disk, slotVars, ret>>

\* Wrong variant: the cursor goes on after the removal, along a link that is
\* the last of the free ones by then.
NextAfterRemoval(i) ==
  IF i < Len(full_slots) /\ ~Dirty(full_slots[i]) THEN full_slots[i + 1] ELSE NULL

\* AQueueNext of the link in the i-th place.
NextLink(i) == IF i < Len(full_slots) THEN full_slots[i + 1] ELSE NULL

\* A turn of the loop with the cursor in the i-th place.
Turn(i) ==
  /\ flushing
  /\ i \in 1 .. Len(full_slots)
  /\ l = full_slots[i]
  /\ l' = NextLink(i)
  /\ UNCHANGED <<valid, fbv, bcache, flushing, ret>>

FlushSlot(i) ==
  /\ Turn(i) /\ Dirty(l)
  /\ DfsWriteBlockUncached(l)
  /\ inuse' = [inuse EXCEPT ![l] = FALSE]
  /\ dirty' = [dirty EXCEPT ![l] = FALSE]
  /\ fblknum' = [fblknum EXCEPT ![l] = DFS_FAIL]
  /\ count' = [count EXCEPT ![l] = 0]
  /\ full_slots' = RemoveAt(full_slots, i)
  /\ empty_slots' = Append(empty_slots, l)

FlushSkip(i) ==
  /\ Turn(i) /\ ~Dirty(l)
  /\ UNCHANGED <<disk, inuse, dirty, fblknum, count, empty_slots, full_slots>>

FlushDone ==
  /\ flushing /\ l = NULL
  /\ flushing' = FALSE
  /\ ret' = DFS_SUCCESS
  /\ UNCHANGED <<valid, fbv, disk, slotVars, l>>

FlushLoop == (\E i \in 1 .. Len(full_slots) : FlushSlot(i) \/ FlushSkip(i)) \/ FlushDone

Next ==
  \/ \E b \in BlockNums :
       \/ DfsReadBlock(b) /\ call' = <<"DfsReadBlock", b>>
       \/ \E d \in Data : DfsWriteBlock(b, d) /\ call' = <<"DfsWriteBlock", b, d>>
  \/ DfsAllocateBlock /\ call' = <<"DfsAllocateBlock">>
  \/ \E b \in Blocks : DfsFreeBlock(b) /\ call' = <<"DfsFreeBlock", b>>
  \/ (DfsCacheFlush \/ FlushLoop) /\ call' = <<"DfsCacheFlush">>
  \/ DfsInvalidate /\ call' = <<"DfsInvalidate">>

Spec == Init /\ [][Next]_vars

-----------------------------------------------------------------------------
(* Properties *)

Calls ==
  {<<"DfsReadBlock", b>> : b \in BlockNums}
    \cup {<<"DfsWriteBlock", b, d>> : b \in BlockNums, d \in Data}
    \cup {<<"DfsFreeBlock", b>> : b \in Blocks}
    \cup {<<f>> : f \in {"DfsOpenFileSystem", "DfsAllocateBlock", "DfsCacheFlush",
                        "DfsInvalidate"}}

TypeOK ==
  /\ valid \in BOOLEAN
  /\ fbv \in SUBSET Blocks
  /\ disk \in [Blocks -> Data]
  /\ inuse \in [Slots -> BOOLEAN]
  /\ dirty \in [Slots -> BOOLEAN]
  /\ fblknum \in [Slots -> BlockNums]
  /\ count \in [Slots -> 0 .. MaxCount]
  /\ bcache \in [Slots -> Data]
  /\ empty_slots \in Seq(Slots)
  /\ full_slots \in Seq(Slots)
  /\ flushing \in BOOLEAN
  /\ l \in Slots \cup {NULL}
  /\ call \in Calls
  /\ ret \in Data \cup BlockNums \cup {DFS_SUCCESS}

\* Whatever sequence of misses, evictions and flushes ran, every slot is
\* linked exactly once, in full_slots when it holds a block and in
\* empty_slots otherwise: none is lost and none is handed out twice.
SlotsPartitioned ==
  /\ Range(full_slots) = {s \in Slots : inuse[s]}
  /\ Range(empty_slots) = {s \in Slots : ~inuse[s]}
  /\ IsInjective(full_slots)
  /\ IsInjective(empty_slots)

\* DfsCacheAllocateSlot is never called for a block some slot already has, so
\* no two slots ever hold different versions of one block.
CachedOnce ==
  \A s, t \in Slots : inuse[s] /\ inuse[t] /\ fblknum[s] = fblknum[t] => s = t

\* Dropping a clean slot loses nothing: its buffer is what the disk has, also
\* for a block that was freed, or freed and allocated again, since the fill.
CleanMatchesDisk ==
  \A s \in Slots : inuse[s] /\ ~dirty[s] /\ fblknum[s] \in Blocks
                   => bcache[s] = disk[fblknum[s]]

\* What a reader of b is served: the slot that holds it, else the disk.
View ==
  [b \in Blocks |-> IF \E s \in Slots : Holds(s, b)
                      THEN bcache[CHOOSE s \in Slots : Holds(s, b)]
                      ELSE disk[b]]

\* The disk only ever receives the current content of an allocated block: a
\* freed block's dirty buffer never reaches it (os/dfs.c, the fbv tests of
\* DfsCacheFlush and DfsWriteBlockUncached).
DiskGetsOnlyCurrent ==
  [][\A b \in Blocks : disk'[b] # disk[b] => b \in fbv /\ disk'[b] = View[b]]_vars

\* When DfsCacheFlush returns, the disk has the current content of every
\* allocated block, as DfsCloseFileSystem counts on: the walk has met every
\* slot, though it frees links on its way (os/dfs.c:521-558).
FlushMakesDurable ==
  [][flushing /\ ~flushing' => \A b \in fbv : disk'[b] = View[b]]_vars

\* The cache and the free block vector implement the store the inode layer
\* sees, call by call: DfsReadBlock of an allocated block returns what was
\* last written to it, DfsWriteBlock changes the block of its handle and no
\* other, and evictions and flushes are invisible.
Store == INSTANCE BlockStore WITH open <- valid, allocated <- fbv, content <- View
ImplementsStore == Store!StoreSpec
=============================================================================
