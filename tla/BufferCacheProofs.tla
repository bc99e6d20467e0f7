-------------------------- MODULE BufferCacheProofs --------------------------
(***************************************************************************)
(* Proofs about BufferCache for every number of blocks, slots and contents:*)
(* the queues never lose or duplicate a slot, no block is cached twice,    *)
(* a clean slot agrees with the disk, the flush leaves no dirty slot, and  *)
(* each call is answered as a store without a cache would answer it.       *)
(***************************************************************************)
EXTENDS BufferCache, QueueTheorems

\* The inductive invariant: the properties need each other.  CachedOnce needs
\* the queues to link exactly the slots in use, because DfsCacheHit searches
\* full_slots; CleanMatchesDisk needs CachedOnce, because a write-back of one
\* slot would make the clean copy in another one stale.
IInv == TypeOK /\ SlotsPartitioned /\ CachedOnce /\ CleanMatchesDisk

\* The flush has left no dirty slot behind its cursor.
CleanBehind ==
  flushing =>
    \/ l = NULL /\ \A j \in 1 .. Len(full_slots) : ~Dirty(full_slots[j])
    \/ \E i \in 1 .. Len(full_slots) :
         l = full_slots[i] /\ \A j \in 1 .. i - 1 : ~Dirty(full_slots[j])

-----------------------------------------------------------------------------

LEMMA InitIInv == Init => IInv
<1>. SUFFICES ASSUME Init PROVE IInv
  OBVIOUS
<1>. USE CacheAssumption
<1>1. empty_slots \in [1 .. NumSlots -> Slots]
  BY DEF Init, Slots
<1>2. empty_slots \in Seq(Slots) /\ DOMAIN empty_slots = 1 .. NumSlots
  BY <1>1, SeqDef DEF Init
<1>3. TypeOK
  <2>1. DFS_FAIL \in BlockNums /\ 0 \in 0 .. MaxCount
    BY DEF BlockNums
  <2>2. full_slots \in Seq(Slots)
    BY DEF Init
  <2>3. call \in Calls
    BY DEF Init, Calls
  <2>. QED BY <1>2, <2>1, <2>2, <2>3 DEF Init, TypeOK
<1>4. Range(empty_slots) = Slots
  <2>1. ASSUME NEW s \in Slots PROVE s \in Range(empty_slots)
    <3>1. NumSlots - s \in 1 .. NumSlots /\ empty_slots[NumSlots - s] = s
      BY DEF Init, Slots
    <3>. QED BY <1>2, <3>1 DEF Range
  <2>. QED BY <1>1, <2>1 DEF Range
<1>5. IsInjective(empty_slots)
  BY <1>2 DEF Init, IsInjective
<1>6. Range(full_slots) = {} /\ IsInjective(full_slots)
  BY DEF Init, Range, IsInjective
<1>7. {s \in Slots : inuse[s]} = {} /\ {s \in Slots : ~inuse[s]} = Slots
  BY DEF Init
<1>8. SlotsPartitioned
  BY <1>4, <1>5, <1>6, <1>7 DEF SlotsPartitioned
<1>9. CachedOnce /\ CleanMatchesDisk
  BY DEF Init, CachedOnce, CleanMatchesDisk
<1>. QED BY <1>3, <1>8, <1>9 DEF IInv

-----------------------------------------------------------------------------

\* A slot is in full_slots exactly when it is in use.
LEMMA FullIsInUse ==
  ASSUME TypeOK, SlotsPartitioned
  PROVE  /\ \A i \in 1 .. Len(full_slots) :
               full_slots[i] \in Slots /\ inuse[full_slots[i]]
         /\ \A s \in Slots : inuse[s] =>
               \E i \in 1 .. Len(full_slots) : full_slots[i] = s
<1>1. full_slots \in Seq(Slots)
  BY DEF TypeOK
<1>2. Range(full_slots) = {full_slots[i] : i \in 1 .. Len(full_slots)}
  BY <1>1, RangeEquality
<1>. QED BY <1>2 DEF SlotsPartitioned

\* A block misses exactly when no slot in use holds it.
LEMMA MissMeansNotCached ==
  ASSUME TypeOK, SlotsPartitioned, NEW b, Miss(b)
  PROVE  \A s \in Slots : inuse[s] => fblknum[s] # b
BY FullIsInUse DEF Miss, Holds

\* What the write-back of a slot leaves on the disk.
WrittenBack(s) ==
  IF inuse[s] /\ dirty[s] /\ fblknum[s] \in fbv
    THEN [disk EXCEPT ![fblknum[s]] = bcache[s]]
    ELSE disk

\* DfsCacheAllocateSlot takes one slot, from the empty queue or by eviction,
\* to the end of full_slots, and writes back what it held.
LEMMA SlotTaken ==
  ASSUME IInv, NEW b \in BlockNums, NEW s \in Slots, DfsCacheAllocateSlot(b, s)
  PROVE  /\ full_slots' \in Seq(Slots) /\ IsInjective(full_slots')
         /\ empty_slots' \in Seq(Slots) /\ IsInjective(empty_slots')
         /\ Range(full_slots') = {t \in Slots : inuse'[t]}
         /\ Range(empty_slots') = {t \in Slots : ~inuse'[t]}
         /\ inuse' \in [Slots -> BOOLEAN]
         /\ fblknum' \in [Slots -> BlockNums]
         /\ count' \in [Slots -> 0 .. MaxCount]
         /\ disk' = WrittenBack(s)
         /\ disk' \in [Blocks -> Data]
<1>. USE DEF IInv
<1>1. /\ full_slots \in Seq(Slots) /\ empty_slots \in Seq(Slots)
      /\ IsInjective(full_slots) /\ IsInjective(empty_slots)
      /\ Range(full_slots) = {t \in Slots : inuse[t]}
      /\ Range(empty_slots) = {t \in Slots : ~inuse[t]}
  BY DEF TypeOK, SlotsPartitioned
<1>2. /\ inuse' = [inuse EXCEPT ![s] = TRUE] /\ inuse \in [Slots -> BOOLEAN]
      /\ inuse' \in [Slots -> BOOLEAN]
      /\ fblknum' \in [Slots -> BlockNums]
      /\ count' \in [Slots -> 0 .. MaxCount]
  BY CacheAssumption DEF DfsCacheAllocateSlot, TypeOK
<1>3. CASE TakeEmpty(s)
  <2>1. /\ s \in Range(empty_slots)
        /\ empty_slots' \in Seq(Slots) /\ IsInjective(empty_slots')
        /\ Range(empty_slots') = Range(empty_slots) \ {s}
    BY <1>1, <1>3, TailOfQueue DEF TakeEmpty
  <2>2. s \notin Range(full_slots) /\ ~inuse[s]
    BY <1>1, <2>1
  <2>3. /\ full_slots' \in Seq(Slots) /\ IsInjective(full_slots')
        /\ Range(full_slots') = Range(full_slots) \cup {s}
    BY <1>1, <1>3, <2>2, AppendToQueue DEF TakeEmpty
  <2>4. disk' = WrittenBack(s) /\ disk' \in [Blocks -> Data]
    BY <1>3, <2>2 DEF TakeEmpty, WrittenBack, TypeOK
  <2>5. /\ Range(full_slots') = {t \in Slots : inuse'[t]}
        /\ Range(empty_slots') = {t \in Slots : ~inuse'[t]}
    BY <1>1, <1>2, <2>1, <2>3
  <2>. QED BY <1>2, <2>1, <2>3, <2>4, <2>5
<1>4. CASE Evict(s)
  <2>1. PICK i \in 1 .. Len(full_slots) :
            /\ s = full_slots[i]
            /\ full_slots' = Append(RemoveAt(full_slots, i), s)
    BY <1>4 DEF Evict
  <2>. DEFINE r == RemoveAt(full_slots, i)
  <2>2. r \in Seq(Slots) /\ IsInjective(r) /\ Range(r) = Range(full_slots) \ {s}
    BY <1>1, <2>1, RemoveFromQueue
  <2>3. inuse[s] /\ s \in Range(full_slots)
    BY <1>1, <2>1, FullIsInUse
  <2>. HIDE DEF r
  <2>4. /\ full_slots' \in Seq(Slots) /\ IsInjective(full_slots')
        /\ Range(full_slots') = Range(full_slots)
    <3>1. full_slots' = Append(r, s) /\ s \notin Range(r)
      BY <2>1, <2>2 DEF r
    <3>2. Range(Append(r, s)) = Range(r) \cup {s}
      BY <2>2, AppendToQueue
    <3>. QED BY <2>2, <2>3, <3>1, <3>2, AppendToQueue
  <2>5. empty_slots' = empty_slots
    BY <1>4 DEF Evict
  <2>6. disk' = WrittenBack(s)
    BY <1>4, <2>3 DEF Evict, WrittenBack, DfsWriteBlockUncached
  <2>7. disk' \in [Blocks -> Data]
    BY <2>6 DEF WrittenBack, TypeOK
  <2>8. /\ Range(full_slots') = {t \in Slots : inuse'[t]}
        /\ Range(empty_slots') = {t \in Slots : ~inuse'[t]}
    BY <1>1, <1>2, <2>3, <2>4, <2>5
  <2>. QED BY <1>1, <1>2, <2>4, <2>5, <2>6, <2>7, <2>8
<1>. QED BY <1>3, <1>4 DEF DfsCacheAllocateSlot

\* The write-back of one slot does not touch the block of another one.
LEMMA WriteBackSparesOthers ==
  ASSUME IInv, NEW s \in Slots, NEW t \in Slots, t # s, inuse[t],
         fblknum[t] \in Blocks
  PROVE  WrittenBack(s)[fblknum[t]] = disk[fblknum[t]]
BY DEF IInv, TypeOK, CachedOnce, WrittenBack
-----------------------------------------------------------------------------
(* One step per action *)

LEMMA ReadKeepsIInv ==
  ASSUME IInv, NEW b \in BlockNums, DfsReadBlock(b), call' \in Calls
  PROVE  IInv'
<1>. USE DEF IInv
<1>1. CASE \E i \in 1 .. Len(full_slots) :
             /\ HitAt(i, b)
             /\ CacheHit(full_slots[i])
             /\ ret' = bcache[full_slots[i]]
             /\ UNCHANGED <<bcache, dirty>>
  <2>1. PICK s \in Slots :
            CacheHit(s) /\ ret' = bcache[s] /\ UNCHANGED <<bcache, dirty>>
    BY <1>1, FullIsInUse
  <2>2. UNCHANGED <<valid, fbv, walk, disk, inuse, fblknum, empty_slots,
                    full_slots, bcache, dirty>>
    BY <2>1 DEF DfsReadBlock, CacheHit
  <2>3. count' \in [Slots -> 0 .. MaxCount] /\ ret' \in Data
    BY <2>1, CacheAssumption DEF CacheHit, TypeOK
  <2>. QED BY <2>2, <2>3 DEF TypeOK, SlotsPartitioned, CachedOnce, CleanMatchesDisk, walk
<1>2. CASE /\ Miss(b)
           /\ \E s \in Slots :
                /\ DfsCacheAllocateSlot(b, s)
                /\ dirty' = [dirty EXCEPT ![s] = FALSE]
                /\ bcache' = [bcache EXCEPT ![s] = DfsReadBlockUncached(b, s)]
                /\ ret' = bcache'[s]
  <2>1. PICK s \in Slots :
            /\ DfsCacheAllocateSlot(b, s)
            /\ dirty' = [dirty EXCEPT ![s] = FALSE]
            /\ bcache' = [bcache EXCEPT ![s] = DfsReadBlockUncached(b, s)]
            /\ ret' = bcache'[s]
    BY <1>2
  <2>2. UNCHANGED <<valid, fbv, walk>> /\ (b \in fbv \/ b = DFS_FAIL)
    BY DEF DfsReadBlock, Usable
  <2>3. /\ inuse' = [inuse EXCEPT ![s] = TRUE]
        /\ fblknum' = [fblknum EXCEPT ![s] = b]
    BY <2>1 DEF DfsCacheAllocateSlot
  <2>4. DfsReadBlockUncached(b, s) \in Data
    BY <2>1, SlotTaken DEF DfsReadBlockUncached, TypeOK
  <2>5. TypeOK'
    BY <2>1, <2>2, <2>4, SlotTaken DEF TypeOK, walk
  <2>6. SlotsPartitioned'
    BY <2>1, SlotTaken DEF SlotsPartitioned
  <2>7. CachedOnce'
    BY <1>2, <2>3, MissMeansNotCached DEF CachedOnce, TypeOK
  <2>8. CleanMatchesDisk'
    <3>. SUFFICES ASSUME NEW t \in Slots, inuse'[t], ~dirty'[t],
                         fblknum'[t] \in Blocks
                  PROVE  bcache'[t] = disk'[fblknum'[t]]
      BY DEF CleanMatchesDisk
    <3>1. CASE t = s
      <4>1. fblknum'[t] = b /\ b # DFS_FAIL
        BY <2>3, <3>1 DEF TypeOK, Blocks, DFS_FAIL
      <4>. QED BY <2>1, <2>2, <3>1, <4>1 DEF TypeOK, DfsReadBlockUncached
    <3>2. CASE t # s
      <4>1. /\ inuse[t] /\ ~dirty[t] /\ fblknum'[t] = fblknum[t]
            /\ bcache'[t] = bcache[t]
        BY <2>1, <2>3, <3>2 DEF TypeOK
      <4>2. disk'[fblknum[t]] = disk[fblknum[t]]
        BY <2>1, <3>2, <4>1, SlotTaken, WriteBackSparesOthers
      <4>. QED BY <4>1, <4>2 DEF CleanMatchesDisk
    <3>. QED BY <3>1, <3>2
  <2>. QED BY <2>5, <2>6, <2>7, <2>8
<1>. QED BY <1>1, <1>2 DEF DfsReadBlock

LEMMA WriteKeepsIInv ==
  ASSUME IInv, NEW b \in BlockNums, NEW d \in Data, DfsWriteBlock(b, d),
         call' \in Calls
  PROVE  IInv'
<1>. USE DEF IInv
<1>1. PICK s \in Slots :
          /\ \/ /\ \E i \in 1 .. Len(full_slots) :
                      HitAt(i, b) /\ s = full_slots[i]
                /\ CacheHit(s)
             \/ Miss(b) /\ DfsCacheAllocateSlot(b, s)
          /\ bcache' = [bcache EXCEPT ![s] = d]
          /\ dirty' = [dirty EXCEPT ![s] = TRUE]
  BY DEF DfsWriteBlock
<1>2. UNCHANGED <<valid, fbv, walk>> /\ ret' = DFS_SUCCESS
  BY DEF DfsWriteBlock
<1>3. bcache' \in [Slots -> Data] /\ dirty' \in [Slots -> BOOLEAN]
  BY <1>1 DEF TypeOK
<1>4. CASE CacheHit(s)
  <2>1. UNCHANGED <<disk, inuse, fblknum, empty_slots, full_slots>>
    BY <1>4 DEF CacheHit
  <2>2. count' \in [Slots -> 0 .. MaxCount]
    BY <1>4, CacheAssumption DEF CacheHit, TypeOK
  <2>3. TypeOK'
    BY <1>2, <1>3, <2>1, <2>2 DEF TypeOK, walk
  <2>. QED BY <1>1, <2>1, <2>3 DEF TypeOK, SlotsPartitioned, CachedOnce, CleanMatchesDisk
<1>5. CASE Miss(b) /\ DfsCacheAllocateSlot(b, s)
  <2>1. /\ inuse' = [inuse EXCEPT ![s] = TRUE]
        /\ fblknum' = [fblknum EXCEPT ![s] = b]
    BY <1>5 DEF DfsCacheAllocateSlot
  <2>2. TypeOK'
    BY <1>2, <1>3, <1>5, SlotTaken DEF TypeOK, walk
  <2>3. SlotsPartitioned'
    BY <1>5, SlotTaken DEF SlotsPartitioned
  <2>4. CachedOnce'
    BY <1>5, <2>1, MissMeansNotCached DEF CachedOnce, TypeOK
  <2>5. CleanMatchesDisk'
    <3>. SUFFICES ASSUME NEW t \in Slots, inuse'[t], ~dirty'[t],
                         fblknum'[t] \in Blocks
                  PROVE  bcache'[t] = disk'[fblknum'[t]]
      BY DEF CleanMatchesDisk
    <3>1. /\ t # s /\ inuse[t] /\ ~dirty[t] /\ fblknum'[t] = fblknum[t]
          /\ bcache'[t] = bcache[t]
      BY <1>1, <2>1 DEF TypeOK
    <3>2. disk'[fblknum[t]] = disk[fblknum[t]]
      BY <1>5, <3>1, SlotTaken, WriteBackSparesOthers
    <3>. QED BY <3>1, <3>2 DEF CleanMatchesDisk
  <2>. QED BY <2>2, <2>3, <2>4, <2>5
<1>. QED BY <1>1, <1>4, <1>5

LEMMA NextLinkIsLink ==
  ASSUME TypeOK, NEW i \in 1 .. Len(full_slots)
  PROVE  NextLink(i) \in Slots \cup {NULL}
<1>1. full_slots \in Seq(Slots)
  BY DEF TypeOK
<1>2. CASE i < Len(full_slots)
  <2>1. i + 1 \in 1 .. Len(full_slots)
    BY <1>1, <1>2
  <2>. QED BY <1>1, <1>2, <2>1 DEF NextLink
<1>3. CASE ~(i < Len(full_slots))
  BY <1>3 DEF NextLink
<1>. QED BY <1>2, <1>3

LEMMA FlushSlotKeepsIInv ==
  ASSUME IInv, NEW i \in 1 .. Len(full_slots), FlushSlot(i), call' \in Calls
  PROVE  IInv'
<1>. USE DEF IInv
<1>. DEFINE s == full_slots[i]
<1>1. s \in Slots /\ inuse[s] /\ dirty[s] /\ l = s
  BY FullIsInUse DEF FlushSlot, Turn, Dirty
<1>2. /\ full_slots \in Seq(Slots) /\ empty_slots \in Seq(Slots)
      /\ IsInjective(full_slots) /\ IsInjective(empty_slots)
      /\ Range(full_slots) = {t \in Slots : inuse[t]}
      /\ Range(empty_slots) = {t \in Slots : ~inuse[t]}
  BY DEF TypeOK, SlotsPartitioned
<1>3. /\ inuse' = [inuse EXCEPT ![s] = FALSE]
      /\ dirty' = [dirty EXCEPT ![s] = FALSE]
      /\ fblknum' = [fblknum EXCEPT ![s] = DFS_FAIL]
      /\ count' = [count EXCEPT ![s] = 0]
      /\ full_slots' = RemoveAt(full_slots, i)
      /\ empty_slots' = Append(empty_slots, s)
      /\ l' = NextLink(i)
      /\ UNCHANGED <<valid, fbv, bcache, flushing, ret>>
      /\ disk' = WrittenBack(s)
  BY <1>1 DEF FlushSlot, Turn, DfsWriteBlockUncached, WrittenBack
<1>4. /\ full_slots' \in Seq(Slots) /\ IsInjective(full_slots')
      /\ Range(full_slots') = Range(full_slots) \ {s}
  BY <1>2, <1>3, RemoveFromQueue
<1>5. s \notin Range(empty_slots)
  BY <1>1, <1>2
<1>6. /\ empty_slots' \in Seq(Slots) /\ IsInjective(empty_slots')
      /\ Range(empty_slots') = Range(empty_slots) \cup {s}
  BY <1>1, <1>2, <1>3, <1>5, AppendToQueue
<1>. HIDE DEF s
<1>7. TypeOK'
  <2>1. disk' \in [Blocks -> Data]
    BY <1>1, <1>3 DEF WrittenBack, TypeOK
  <2>2. inuse' \in [Slots -> BOOLEAN] /\ dirty' \in [Slots -> BOOLEAN]
    BY <1>3 DEF TypeOK
  <2>3. fblknum' \in [Slots -> BlockNums]
    BY <1>3 DEF TypeOK, BlockNums
  <2>4. count' \in [Slots -> 0 .. MaxCount]
    <3>1. 0 \in 0 .. MaxCount
      BY CacheAssumption
    <3>. QED BY <1>3, <3>1 DEF TypeOK
  <2>5. l' \in Slots \cup {NULL}
    BY <1>3, NextLinkIsLink
  <2>. QED BY <1>3, <1>4, <1>6, <2>1, <2>2, <2>3, <2>4, <2>5 DEF TypeOK
<1>8. SlotsPartitioned'
  <2>1. /\ Range(full_slots') = {t \in Slots : inuse'[t]}
        /\ Range(empty_slots') = {t \in Slots : ~inuse'[t]}
    BY <1>1, <1>2, <1>3, <1>4, <1>6 DEF TypeOK
  <2>. QED BY <1>4, <1>6, <2>1 DEF SlotsPartitioned
<1>9. \A t \in Slots : inuse'[t] => t # s /\ inuse[t] /\ fblknum'[t] = fblknum[t]
  BY <1>1, <1>3 DEF TypeOK
<1>10. CachedOnce'
  BY <1>9 DEF CachedOnce
<1>11. CleanMatchesDisk'
  <2>. SUFFICES ASSUME NEW t \in Slots, inuse'[t], ~dirty'[t],
                       fblknum'[t] \in Blocks
                PROVE  bcache'[t] = disk'[fblknum'[t]]
    BY DEF CleanMatchesDisk
  <2>1. /\ t # s /\ inuse[t] /\ ~dirty[t] /\ fblknum'[t] = fblknum[t]
        /\ bcache'[t] = bcache[t]
    BY <1>3, <1>9 DEF TypeOK
  <2>2. disk'[fblknum[t]] = disk[fblknum[t]]
    BY <1>1, <1>3, <2>1, WriteBackSparesOthers
  <2>. QED BY <2>1, <2>2 DEF CleanMatchesDisk
<1>. QED BY <1>7, <1>8, <1>10, <1>11

\* The remaining actions leave the slots and the disk alone.
LEMMA SlotsUntouched ==
  ASSUME IInv, UNCHANGED <<disk, slotVars>>,
         valid' \in BOOLEAN, fbv' \in SUBSET Blocks, flushing' \in BOOLEAN,
         l' \in Slots \cup {NULL}, call' \in Calls,
         ret' \in Data \cup BlockNums \cup {DFS_SUCCESS}
  PROVE  IInv'
BY DEF IInv, TypeOK, SlotsPartitioned, CachedOnce, CleanMatchesDisk, slotVars

LEMMA NextKeepsIInv == IInv /\ [Next]_vars => IInv'
<1>. SUFFICES ASSUME IInv, [Next]_vars PROVE IInv'
  OBVIOUS
<1>0. call' \in Calls
  BY DEF Next, Calls, IInv, TypeOK, vars
<1>1. ASSUME NEW b \in BlockNums, DfsReadBlock(b) PROVE IInv'
  BY <1>0, <1>1, ReadKeepsIInv
<1>2. ASSUME NEW b \in BlockNums, NEW d \in Data, DfsWriteBlock(b, d) PROVE IInv'
  BY <1>0, <1>2, WriteKeepsIInv
<1>3. CASE DfsAllocateBlock
  <2>1. fbv' \in SUBSET Blocks /\ ret' \in BlockNums
    BY <1>3 DEF DfsAllocateBlock, IInv, TypeOK, BlockNums
  <2>. QED BY <1>0, <1>3, <2>1, SlotsUntouched DEF DfsAllocateBlock, walk, IInv, TypeOK
<1>4. ASSUME NEW b \in Blocks, DfsFreeBlock(b) PROVE IInv'
  BY <1>0, <1>4, SlotsUntouched DEF DfsFreeBlock, walk, IInv, TypeOK, BlockNums
<1>5. CASE DfsCacheFlush
  <2>1. l' \in Slots \cup {NULL}
    <3>1. full_slots \in Seq(Slots)
      BY DEF IInv, TypeOK
    <3>. QED BY <1>5, <3>1 DEF DfsCacheFlush
  <2>. QED BY <1>0, <1>5, <2>1, SlotsUntouched DEF DfsCacheFlush, IInv, TypeOK
<1>6. ASSUME NEW i \in 1 .. Len(full_slots), FlushSlot(i) PROVE IInv'
  BY <1>0, <1>6, FlushSlotKeepsIInv
<1>7. ASSUME NEW i \in 1 .. Len(full_slots), FlushSkip(i) PROVE IInv'
  <2>1. l' \in Slots \cup {NULL}
    BY <1>7, NextLinkIsLink DEF FlushSkip, Turn, IInv
  <2>. QED BY <1>0, <1>7, <2>1, SlotsUntouched DEF FlushSkip, Turn, slotVars, IInv, TypeOK
<1>8. CASE FlushDone
  BY <1>0, <1>8, SlotsUntouched DEF FlushDone, IInv, TypeOK
<1>9. CASE DfsInvalidate
  BY <1>0, <1>9, SlotsUntouched DEF DfsInvalidate, walk, IInv, TypeOK
<1>10. CASE UNCHANGED vars
  BY <1>0, <1>10, SlotsUntouched DEF vars, walk, IInv, TypeOK
<1>. QED BY <1>1, <1>2, <1>3, <1>4, <1>5, <1>6, <1>7, <1>8, <1>9, <1>10
         DEF Next, FlushLoop

LEMMA SpecIInv == Spec => []IInv
BY InitIInv, NextKeepsIInv, PTL DEF Spec

-----------------------------------------------------------------------------
(* The walk of DfsCacheFlush *)

\* The place of the cursor is the only one its slot has.
LEMMA TurnIsAtCursor ==
  ASSUME IInv, CleanBehind, NEW i \in 1 .. Len(full_slots), Turn(i)
  PROVE  /\ full_slots \in Seq(Slots) /\ IsInjective(full_slots)
         /\ \A j \in 1 .. Len(full_slots) :
               full_slots[j] \in Slots /\ (j # i => full_slots[j] # l)
         /\ \A j \in 1 .. i - 1 : ~Dirty(full_slots[j])
<1>1. full_slots \in Seq(Slots) /\ IsInjective(full_slots) /\ flushing /\ l = full_slots[i]
  BY DEF IInv, TypeOK, SlotsPartitioned, Turn
<1>2. DOMAIN full_slots = 1 .. Len(full_slots)
      /\ \A j \in 1 .. Len(full_slots) : full_slots[j] \in Slots
  BY <1>1
<1>3. \A j \in 1 .. Len(full_slots) : j # i => full_slots[j] # l
  BY <1>1, <1>2 DEF IsInjective
<1>4. l # NULL
  BY <1>1, <1>2, CacheAssumption DEF Slots
<1>5. PICK k \in 1 .. Len(full_slots) :
         l = full_slots[k] /\ \A j \in 1 .. k - 1 : ~Dirty(full_slots[j])
  BY <1>1, <1>4 DEF CleanBehind
<1>. QED BY <1>1, <1>2, <1>3, <1>5

LEMMA FlushSlotKeepsBehind ==
  ASSUME IInv, CleanBehind, NEW i \in 1 .. Len(full_slots), FlushSlot(i)
  PROVE  CleanBehind'
<1>. DEFINE n == Len(full_slots)
            r == RemoveAt(full_slots, i)
<1>1. /\ Turn(i) /\ l \in Slots /\ full_slots' = r /\ l' = NextLink(i)
      /\ inuse' = [inuse EXCEPT ![l] = FALSE] /\ dirty' = [dirty EXCEPT ![l] = FALSE]
  BY FullIsInUse DEF FlushSlot, Turn, IInv
<1>2. /\ full_slots \in Seq(Slots)
      /\ \A j \in 1 .. n : full_slots[j] \in Slots /\ (j # i => full_slots[j] # l)
      /\ \A j \in 1 .. i - 1 : ~Dirty(full_slots[j])
  BY <1>1, TurnIsAtCursor
<1>3. n \in Nat /\ i \in Nat /\ 1 <= i /\ i <= n
  BY <1>2
<1>4. /\ Len(r) = n - 1
      /\ \A k \in 1 .. n - 1 : r[k] = IF k < i THEN full_slots[k] ELSE full_slots[k + 1]
  BY <1>2, RemoveIsAt
<1>. HIDE DEF r
<1>5. \A j \in 1 .. i - 1 : ~(inuse'[full_slots'[j]] /\ dirty'[full_slots'[j]])
  <2>. SUFFICES ASSUME NEW j \in 1 .. i - 1 PROVE ~(inuse'[r[j]] /\ dirty'[r[j]])
    BY <1>1
  <2>1. j \in 1 .. n - 1 /\ j \in 1 .. n /\ j < i /\ j # i
    BY <1>3
  <2>2. r[j] = full_slots[j] /\ full_slots[j] # l /\ full_slots[j] \in Slots
    BY <1>2, <1>4, <2>1
  <2>3. inuse'[r[j]] = inuse[full_slots[j]] /\ dirty'[r[j]] = dirty[full_slots[j]]
    BY <1>1, <2>2 DEF IInv, TypeOK
  <2>. QED BY <1>2, <2>3 DEF Dirty
<1>6. CASE i < n
  <2>1. i \in 1 .. n - 1
    BY <1>3, <1>6
  <2>2. l' = full_slots'[i] /\ i \in 1 .. Len(full_slots')
    BY <1>1, <1>4, <1>6, <2>1 DEF NextLink
  <2>. QED BY <1>5, <2>2 DEF CleanBehind, Dirty
<1>7. CASE i = n
  <2>1. l' = NULL /\ Len(full_slots') = i - 1
    BY <1>1, <1>4, <1>7 DEF NextLink
  <2>. QED BY <1>5, <2>1 DEF CleanBehind, Dirty
<1>. QED BY <1>3, <1>6, <1>7

LEMMA FlushSkipKeepsBehind ==
  ASSUME IInv, CleanBehind, NEW i \in 1 .. Len(full_slots), FlushSkip(i)
  PROVE  CleanBehind'
<1>. DEFINE n == Len(full_slots)
<1>1. Turn(i) /\ ~Dirty(full_slots[i]) /\ l' = NextLink(i)
      /\ UNCHANGED <<inuse, dirty, full_slots>>
  BY DEF FlushSkip, Turn
<1>2. full_slots \in Seq(Slots) /\ \A j \in 1 .. i - 1 : ~Dirty(full_slots[j])
  BY <1>1, TurnIsAtCursor
<1>3. n \in Nat /\ i \in Nat /\ 1 <= i /\ i <= n
  BY <1>2
<1>4. \A j \in 1 .. i : ~Dirty(full_slots[j])
  BY <1>1, <1>2, <1>3
<1>5. \A j \in 1 .. i : ~(inuse'[full_slots'[j]] /\ dirty'[full_slots'[j]])
  BY <1>1, <1>4 DEF Dirty
<1>6. CASE i < n
  <2>1. i + 1 \in 1 .. Len(full_slots') /\ l' = full_slots'[i + 1] /\ (i + 1) - 1 = i
    BY <1>1, <1>3, <1>6 DEF NextLink
  <2>2. \A j \in 1 .. (i + 1) - 1 : ~(inuse'[full_slots'[j]] /\ dirty'[full_slots'[j]])
    BY <1>5, <2>1
  <2>. QED BY <2>1, <2>2 DEF CleanBehind, Dirty
<1>7. CASE i = n
  <2>1. l' = NULL /\ Len(full_slots') = i
    BY <1>1, <1>7 DEF NextLink
  <2>. QED BY <1>5, <2>1 DEF CleanBehind, Dirty
<1>. QED BY <1>3, <1>6, <1>7

LEMMA NextKeepsBehind == IInv /\ CleanBehind /\ [Next]_vars => CleanBehind'
<1>. SUFFICES ASSUME IInv, CleanBehind, [Next]_vars PROVE CleanBehind'
  OBVIOUS
<1>1. CASE \E b \in BlockNums : DfsReadBlock(b) \/ \E d \in Data : DfsWriteBlock(b, d)
  BY <1>1 DEF DfsReadBlock, DfsWriteBlock, Usable, walk, CleanBehind
<1>2. CASE DfsAllocateBlock \/ DfsInvalidate \/ \E b \in Blocks : DfsFreeBlock(b)
  BY <1>2 DEF DfsAllocateBlock, DfsInvalidate, DfsFreeBlock, walk, CleanBehind
<1>3. CASE DfsCacheFlush
  <2>1. full_slots \in Seq(Slots) /\ full_slots' = full_slots
    BY <1>3 DEF IInv, TypeOK, DfsCacheFlush, slotVars
  <2>2. CASE full_slots = <<>>
    BY <1>3, <2>1, <2>2 DEF DfsCacheFlush, CleanBehind
  <2>3. CASE full_slots # <<>>
    <3>1. 1 \in 1 .. Len(full_slots') /\ l' = full_slots'[1]
      BY <1>3, <2>1, <2>3 DEF DfsCacheFlush
    <3>. QED BY <3>1 DEF CleanBehind
  <2>. QED BY <2>2, <2>3
<1>4. CASE \E i \in 1 .. Len(full_slots) : FlushSlot(i) \/ FlushSkip(i)
  BY <1>4, FlushSlotKeepsBehind, FlushSkipKeepsBehind
<1>5. CASE FlushDone
  BY <1>5 DEF FlushDone, CleanBehind
<1>6. CASE UNCHANGED vars
  BY <1>6 DEF vars, walk, slotVars, CleanBehind, Dirty
<1>. QED BY <1>1, <1>2, <1>3, <1>4, <1>5, <1>6 DEF Next, FlushLoop

LEMMA SpecBehind == Spec => []CleanBehind
<1>1. Init => CleanBehind
  BY DEF Init, CleanBehind
<1>. QED BY <1>1, SpecIInv, NextKeepsBehind, PTL DEF Spec

-----------------------------------------------------------------------------
(* The results *)

\* Every variable keeps its type, whatever the number of blocks and slots.
THEOREM CacheTypeCorrect == Spec => []TypeOK
<1>1. IInv => TypeOK
  BY DEF IInv
<1>. QED BY <1>1, SpecIInv, PTL

\* No slot is lost or linked twice: the cache keeps its capacity for ever.
THEOREM CacheKeepsItsSlots == Spec => []SlotsPartitioned
<1>1. IInv => SlotsPartitioned
  BY DEF IInv
<1>. QED BY <1>1, SpecIInv, PTL

\* No block is ever in two slots.
THEOREM NoBlockCachedTwice == Spec => []CachedOnce
<1>1. IInv => CachedOnce
  BY DEF IInv
<1>. QED BY <1>1, SpecIInv, PTL

\* A clean slot can be dropped at any time.
THEOREM CleanSlotsAgreeWithDisk == Spec => []CleanMatchesDisk
<1>1. IInv => CleanMatchesDisk
  BY DEF IInv
<1>. QED BY <1>1, SpecIInv, PTL
-----------------------------------------------------------------------------
(* What readers are served *)

\* The slot that holds a block is what its readers get.
LEMMA ViewOfCached ==
  ASSUME IInv, NEW s \in Slots, inuse[s], fblknum[s] \in Blocks
  PROVE  View[fblknum[s]] = bcache[s]
<1>. DEFINE b == fblknum[s]
            t == CHOOSE u \in Slots : Holds(u, b)
<1>1. t \in Slots /\ Holds(t, b)
  BY DEF Holds
<1>2. t = s
  BY <1>1 DEF IInv, CachedOnce, Holds
<1>. QED BY <1>1, <1>2 DEF View

\* Without such a slot they get the disk's copy.
LEMMA ViewOfUncached ==
  ASSUME NEW b \in Blocks, \A s \in Slots : inuse[s] => fblknum[s] # b
  PROVE  View[b] = disk[b]
BY DEF View, Holds

\* The same two facts about the state a step leads to.
LEMMA ViewOfCachedNext ==
  ASSUME IInv', NEW s \in Slots, inuse'[s], fblknum'[s] \in Blocks
  PROVE  View'[fblknum'[s]] = bcache'[s]
<1>. DEFINE b == fblknum'[s]
            t == CHOOSE u \in Slots : inuse'[u] /\ fblknum'[u] = b
<1>1. t \in Slots /\ inuse'[t] /\ fblknum'[t] = b
  OBVIOUS
<1>2. t = s
  BY <1>1 DEF IInv, CachedOnce
<1>. QED BY <1>1, <1>2 DEF View, Holds

LEMMA ViewOfUncachedNext ==
  ASSUME NEW b \in Blocks, \A s \in Slots : inuse'[s] => fblknum'[s] # b
  PROVE  View'[b] = disk'[b]
BY DEF View, Holds

\* Dropping the block a slot holds changes what the readers of no allocated
\* block get: a dirty buffer is written back, a clean one equals the disk.
LEMMA DropKeepsView ==
  ASSUME IInv, IInv', NEW s \in Slots, NEW c \in fbv,
         disk' = WrittenBack(s),
         \A t \in Slots \ {s} : /\ inuse'[t] = inuse[t]
                                /\ fblknum'[t] = fblknum[t]
                                /\ bcache'[t] = bcache[t],
         inuse'[s] => fblknum'[s] # c
  PROVE  View'[c] = View[c]
<1>1. c \in Blocks
  BY DEF IInv, TypeOK
<1>2. CASE inuse[s] /\ fblknum[s] = c
  <2>1. View[c] = bcache[s]
    BY <1>1, <1>2, ViewOfCached
  <2>2. \A t \in Slots : inuse'[t] => fblknum'[t] # c
    BY <1>2 DEF IInv, CachedOnce
  <2>3. View'[c] = disk'[c]
    BY <1>1, <2>2, ViewOfUncachedNext
  <2>4. disk'[c] = bcache[s]
    BY <1>1, <1>2 DEF IInv, TypeOK, WrittenBack, CleanMatchesDisk
  <2>. QED BY <2>1, <2>3, <2>4
<1>3. CASE \E t \in Slots \ {s} : inuse[t] /\ fblknum[t] = c
  <2>1. PICK t \in Slots \ {s} : inuse[t] /\ fblknum[t] = c
    BY <1>3
  <2>2. View[c] = bcache[t]
    BY <1>1, <2>1, ViewOfCached
  <2>3. View'[c] = bcache'[t]
    BY <1>1, <2>1, ViewOfCachedNext
  <2>. QED BY <2>1, <2>2, <2>3
<1>4. CASE \A t \in Slots : inuse[t] => fblknum[t] # c
  <2>1. View[c] = disk[c]
    BY <1>1, <1>4, ViewOfUncached
  <2>2. View'[c] = disk'[c]
    BY <1>1, <1>4, ViewOfUncachedNext
  <2>3. disk'[c] = disk[c]
    BY <1>1, <1>4 DEF IInv, TypeOK, WrittenBack
  <2>. QED BY <2>1, <2>2, <2>3
<1>. QED BY <1>2, <1>3, <1>4
-----------------------------------------------------------------------------
(* The cache implements the block store *)

\* A cached block read is a read of the store.
LEMMA ReadIsStoreRead ==
  ASSUME IInv, IInv', NEW b \in BlockNums, DfsReadBlock(b)
  PROVE  Store!Read(b)
<1>. USE DEF Store!Keep
<1>1. valid' = valid /\ fbv' = fbv /\ (b \in fbv \/ b = DFS_FAIL)
  BY DEF DfsReadBlock, Usable
<1>2. fbv \subseteq Blocks /\ DFS_FAIL \notin Blocks /\ bcache \in [Slots -> Data]
  BY DEF IInv, TypeOK, Blocks, DFS_FAIL
<1>3. \E s \in Slots :
         /\ inuse'[s] /\ fblknum'[s] = b /\ ret' = bcache'[s]
         /\ \A c \in fbv : View'[c] = View[c]
  <2>1. CASE \E i \in 1 .. Len(full_slots) :
               /\ HitAt(i, b)
               /\ CacheHit(full_slots[i])
               /\ ret' = bcache[full_slots[i]]
               /\ UNCHANGED <<bcache, dirty>>
    <3>1. PICK s \in Slots :
              /\ inuse[s] /\ fblknum[s] = b /\ CacheHit(s)
              /\ ret' = bcache[s] /\ UNCHANGED <<bcache, dirty>>
      BY <2>1, FullIsInUse DEF HitAt, Holds, IInv
    <3>2. UNCHANGED <<disk, inuse, fblknum, bcache>>
      BY <3>1 DEF CacheHit
    <3>3. View' = View
      BY <3>2 DEF View, Holds
    <3>. QED BY <3>1, <3>2, <3>3
  <2>2. CASE /\ Miss(b)
             /\ \E s \in Slots :
                  /\ DfsCacheAllocateSlot(b, s)
                  /\ dirty' = [dirty EXCEPT ![s] = FALSE]
                  /\ bcache' = [bcache EXCEPT ![s] = DfsReadBlockUncached(b, s)]
                  /\ ret' = bcache'[s]
    <3>1. PICK s \in Slots :
              /\ DfsCacheAllocateSlot(b, s)
              /\ bcache' = [bcache EXCEPT ![s] = DfsReadBlockUncached(b, s)]
              /\ ret' = bcache'[s]
      BY <2>2
    <3>2. /\ inuse' = [inuse EXCEPT ![s] = TRUE]
          /\ fblknum' = [fblknum EXCEPT ![s] = b]
      BY <3>1 DEF DfsCacheAllocateSlot
    <3>3. /\ inuse'[s] /\ fblknum'[s] = b
          /\ \A t \in Slots \ {s} : /\ inuse'[t] = inuse[t]
                                    /\ fblknum'[t] = fblknum[t]
                                    /\ bcache'[t] = bcache[t]
      BY <3>1, <3>2 DEF IInv, TypeOK
    <3>4. disk' = WrittenBack(s)
      BY <3>1, SlotTaken
    <3>5. ASSUME NEW c \in fbv, c # b PROVE View'[c] = View[c]
      BY <3>3, <3>4, <3>5, DropKeepsView
    <3>6. ASSUME b \in fbv PROVE View'[b] = View[b]
      <4>1. \A t \in Slots : inuse[t] => fblknum[t] # b
        BY <2>2, MissMeansNotCached DEF IInv
      <4>2. View[b] = disk[b]
        BY <1>2, <3>6, <4>1, ViewOfUncached
      <4>3. View'[b] = bcache'[s]
        BY <1>2, <3>3, <3>6, ViewOfCachedNext
      <4>4. bcache'[s] = disk'[b]
        BY <1>2, <3>1, <3>6 DEF DfsReadBlockUncached
      <4>5. disk'[b] = disk[b]
        BY <1>2, <3>4, <3>6, <4>1 DEF WrittenBack, IInv, TypeOK
      <4>. QED BY <4>2, <4>3, <4>4, <4>5
    <3>. QED BY <3>1, <3>3, <3>5, <3>6
  <2>. QED BY <2>1, <2>2 DEF DfsReadBlock
<1>4. PICK s \in Slots :
          /\ inuse'[s] /\ fblknum'[s] = b /\ ret' = bcache'[s]
          /\ \A c \in fbv : View'[c] = View[c]
  BY <1>3
<1>5. CASE b \in fbv
  <2>1. View'[b] = bcache'[s]
    BY <1>2, <1>4, <1>5, ViewOfCachedNext
  <2>. QED BY <1>1, <1>4, <1>5, <2>1 DEF Store!Read
<1>6. CASE b = DFS_FAIL
  <2>1. ret' \in Data /\ DFS_FAIL = Store!DFS_FAIL
    BY <1>4 DEF IInv, TypeOK, DFS_FAIL, Store!DFS_FAIL
  <2>. QED BY <1>1, <1>4, <1>6, <2>1 DEF Store!Read
<1>. QED BY <1>1, <1>5, <1>6

\* A cached block write is a write of the store.
LEMMA WriteIsStoreWrite ==
  ASSUME IInv, IInv', NEW b \in BlockNums, NEW d \in Data, DfsWriteBlock(b, d)
  PROVE  Store!Write(b, d)
<1>. USE DEF Store!Keep
<1>1. /\ valid' = valid /\ fbv' = fbv /\ (b \in fbv \/ b = DFS_FAIL)
      /\ ret' = Store!DFS_SUCCESS
  BY DEF DfsWriteBlock, Usable, DFS_SUCCESS, Store!DFS_SUCCESS
<1>2. fbv \subseteq Blocks /\ DFS_FAIL \notin Blocks
  BY DEF IInv, TypeOK, Blocks, DFS_FAIL
<1>3. PICK s \in Slots :
          /\ \/ /\ \E i \in 1 .. Len(full_slots) :
                      HitAt(i, b) /\ s = full_slots[i]
                /\ CacheHit(s)
             \/ Miss(b) /\ DfsCacheAllocateSlot(b, s)
          /\ bcache' = [bcache EXCEPT ![s] = d]
  BY DEF DfsWriteBlock
<1>4. bcache'[s] = d /\ \A t \in Slots \ {s} : bcache'[t] = bcache[t]
  BY <1>3 DEF IInv, TypeOK
<1>5. inuse'[s] /\ fblknum'[s] = b /\ \A c \in fbv \ {b} : View'[c] = View[c]
  <2>1. CASE /\ \E i \in 1 .. Len(full_slots) : HitAt(i, b) /\ s = full_slots[i]
             /\ CacheHit(s)
    <3>1. inuse[s] /\ fblknum[s] = b
      BY <2>1 DEF HitAt, Holds
    <3>2. UNCHANGED <<disk, inuse, fblknum>>
      BY <2>1 DEF CacheHit
    <3>3. ASSUME NEW c \in fbv \ {b} PROVE View'[c] = View[c]
      <4>1. CASE \E t \in Slots : inuse[t] /\ fblknum[t] = c
        <5>1. PICK t \in Slots : inuse[t] /\ fblknum[t] = c
          BY <4>1
        <5>2. View[c] = bcache[t] /\ View'[c] = bcache'[t]
          BY <1>2, <3>2, <3>3, <5>1, ViewOfCached, ViewOfCachedNext
        <5>. QED BY <1>4, <3>1, <5>1, <5>2
      <4>2. CASE \A t \in Slots : inuse[t] => fblknum[t] # c
        BY <1>2, <3>2, <4>2, ViewOfUncached, ViewOfUncachedNext
      <4>. QED BY <4>1, <4>2
    <3>. QED BY <3>1, <3>2, <3>3
  <2>2. CASE Miss(b) /\ DfsCacheAllocateSlot(b, s)
    <3>1. /\ inuse' = [inuse EXCEPT ![s] = TRUE]
          /\ fblknum' = [fblknum EXCEPT ![s] = b]
      BY <2>2 DEF DfsCacheAllocateSlot
    <3>2. /\ inuse'[s] /\ fblknum'[s] = b
          /\ \A t \in Slots \ {s} : inuse'[t] = inuse[t] /\ fblknum'[t] = fblknum[t]
      BY <3>1 DEF IInv, TypeOK
    <3>3. disk' = WrittenBack(s)
      BY <2>2, SlotTaken
    <3>. QED BY <1>4, <3>2, <3>3, DropKeepsView
  <2>. QED BY <1>3, <2>1, <2>2
<1>6. CASE b \in fbv
  <2>1. View'[b] = d
    BY <1>2, <1>4, <1>5, <1>6, ViewOfCachedNext
  <2>. QED BY <1>1, <1>5, <1>6, <2>1 DEF Store!Write
<1>7. CASE b = DFS_FAIL
  BY <1>1, <1>2, <1>5, <1>7 DEF Store!Write, DFS_FAIL, Store!DFS_FAIL
<1>. QED BY <1>1, <1>6, <1>7

\* A turn of the flush loop is internal to the store.
LEMMA FlushSlotIsInternal ==
  ASSUME IInv, IInv', NEW i \in 1 .. Len(full_slots), FlushSlot(i)
  PROVE  Store!Flush
<1>. DEFINE s == full_slots[i]
<1>1. s \in Slots /\ inuse[s] /\ dirty[s] /\ l = s
  BY FullIsInUse DEF FlushSlot, Turn, Dirty, IInv
<1>2. /\ inuse' = [inuse EXCEPT ![s] = FALSE]
      /\ fblknum' = [fblknum EXCEPT ![s] = DFS_FAIL]
      /\ UNCHANGED <<valid, fbv, bcache, ret>>
      /\ disk' = WrittenBack(s)
  BY <1>1 DEF FlushSlot, Turn, DfsWriteBlockUncached, WrittenBack
<1>. HIDE DEF s
<1>3. /\ ~inuse'[s]
      /\ \A t \in Slots \ {s} : /\ inuse'[t] = inuse[t]
                                /\ fblknum'[t] = fblknum[t]
                                /\ bcache'[t] = bcache[t]
  BY <1>1, <1>2 DEF IInv, TypeOK
<1>4. \A c \in fbv : View'[c] = View[c]
  BY <1>1, <1>2, <1>3, DropKeepsView
<1>. QED BY <1>2, <1>4 DEF Store!Flush, Store!Keep

LEMMA InitIsStoreInit == Init => Store!StoreInit
<1>. SUFFICES ASSUME Init PROVE Store!StoreInit
  OBVIOUS
<1>1. View = disk
  BY DEF Init, View, Holds
<1>. QED BY <1>1 DEF Init, Store!StoreInit, Store!Blocks, Blocks,
                     Store!DFS_SUCCESS, DFS_SUCCESS

LEMMA NextIsStoreNext ==
  IInv /\ IInv' /\ [Next]_vars => [Store!StoreNext]_Store!storeVars
<1>. SUFFICES ASSUME IInv, IInv', [Next]_vars
              PROVE  Store!StoreNext \/ UNCHANGED Store!storeVars
  OBVIOUS
<1>. USE DEF Store!Keep
<1>0. Store!DFS_FAIL = DFS_FAIL /\ Store!DFS_SUCCESS = DFS_SUCCESS /\ Store!Blocks = Blocks
  BY DEF Store!DFS_FAIL, DFS_FAIL, Store!DFS_SUCCESS, DFS_SUCCESS, Store!Blocks, Blocks
<1>1. UNCHANGED <<disk, slotVars>> => View' = View
  BY DEF slotVars, View, Holds
<1>2. ASSUME NEW b \in BlockNums, DfsReadBlock(b), call' = <<"DfsReadBlock", b>>
      PROVE  Store!StoreNext
  <2>1. Store!Read(b)
    BY <1>2, ReadIsStoreRead
  <2>. QED BY <1>0, <1>2, <2>1 DEF Store!StoreNext, BlockNums
<1>3. ASSUME NEW b \in BlockNums, NEW d \in Data, DfsWriteBlock(b, d),
             call' = <<"DfsWriteBlock", b, d>>
      PROVE  Store!StoreNext
  <2>1. Store!Write(b, d)
    BY <1>3, WriteIsStoreWrite
  <2>. QED BY <1>0, <1>3, <2>1 DEF Store!StoreNext, BlockNums
<1>4. CASE DfsAllocateBlock /\ call' = <<"DfsAllocateBlock">>
  <2>1. View' = View /\ valid' = valid
    BY <1>1, <1>4 DEF DfsAllocateBlock
  <2>2. CASE valid /\ fbv # Blocks
    <3>1. PICK b \in Blocks \ fbv : fbv' = fbv \cup {b} /\ ret' = b
      BY <1>4, <2>2 DEF DfsAllocateBlock
    <3>. QED BY <1>0, <1>4, <2>1, <2>2, <3>1 DEF Store!Allocate, Store!StoreNext
  <2>3. CASE ~(valid /\ fbv # Blocks)
    <3>1. Store!Allocate
      BY <1>0, <1>4, <2>1, <2>3 DEF DfsAllocateBlock, Store!Allocate
    <3>. QED BY <1>4, <3>1 DEF Store!StoreNext
  <2>. QED BY <2>2, <2>3
<1>5. ASSUME NEW b \in Blocks, DfsFreeBlock(b), call' = <<"DfsFreeBlock", b>>
      PROVE  Store!StoreNext
  <2>1. View' = View /\ valid' = valid
    BY <1>1, <1>5 DEF DfsFreeBlock
  <2>2. Store!Free(b)
    BY <1>0, <1>5, <2>1 DEF DfsFreeBlock, Store!Free
  <2>. QED BY <1>0, <1>5, <2>2 DEF Store!StoreNext
<1>6. CASE (DfsCacheFlush \/ FlushLoop) /\ call' = <<"DfsCacheFlush">>
  <2>1. ASSUME DfsCacheFlush PROVE Store!Flush
    BY <1>1, <2>1 DEF DfsCacheFlush, slotVars, Store!Flush
  <2>2. ASSUME NEW i \in 1 .. Len(full_slots), FlushSlot(i) PROVE Store!Flush
    BY <2>2, FlushSlotIsInternal
  <2>3. ASSUME NEW i \in 1 .. Len(full_slots), FlushSkip(i) PROVE Store!Flush
    BY <1>1, <2>3 DEF FlushSkip, Turn, slotVars, Store!Flush
  <2>4. ASSUME FlushDone PROVE Store!Flush
    BY <1>0, <1>1, <2>4 DEF FlushDone, slotVars, Store!Flush
  <2>5. Store!Flush
    BY <1>6, <2>1, <2>2, <2>3, <2>4 DEF FlushLoop
  <2>. QED BY <1>6, <2>5 DEF Store!StoreNext
<1>7. CASE DfsInvalidate /\ call' = <<"DfsInvalidate">>
  BY <1>1, <1>7 DEF DfsInvalidate, Store!Invalidate, Store!StoreNext
<1>8. CASE UNCHANGED vars
  BY <1>1, <1>8 DEF vars, Store!storeVars
<1>. QED BY <1>2, <1>3, <1>4, <1>5, <1>6, <1>7, <1>8 DEF Next

\* The write-back cache is transparent: whatever the pattern of hits, misses,
\* evictions, frees and flushes, DfsReadBlock(b) of an allocated block returns
\* what was last written to b, DfsWriteBlock(b, d) changes b and no other
\* allocated block, and only free blocks are handed out.
THEOREM CacheImplementsStore == Spec => ImplementsStore
<1>1. Init => Store!StoreInit
  BY InitIsStoreInit
<1>2. IInv /\ IInv' /\ [Next]_vars => [Store!StoreNext]_Store!storeVars
  BY NextIsStoreNext
<1>. QED BY <1>1, <1>2, SpecIInv, PTL DEF Spec, ImplementsStore, Store!StoreSpec

-----------------------------------------------------------------------------
(* What reaches the disk *)

\* No step writes anything but the current content of an allocated block.
THEOREM OnlyCurrentContentReachesDisk == Spec => DiskGetsOnlyCurrent
<1>1. ASSUME IInv, NEW s \in Slots, disk' = WrittenBack(s), NEW b \in Blocks,
             disk'[b] # disk[b]
      PROVE  b \in fbv /\ disk'[b] = View[b]
  <2>1. inuse[s] /\ fblknum[s] = b /\ b \in fbv /\ disk'[b] = bcache[s]
    BY <1>1 DEF WrittenBack, IInv, TypeOK
  <2>. QED BY <1>1, <2>1, ViewOfCached
<1>2. ASSUME IInv, Next
      PROVE  disk' = disk \/ \E s \in Slots : disk' = WrittenBack(s)
  <2>1. ASSUME NEW b \in BlockNums, DfsReadBlock(b)
        PROVE  disk' = disk \/ \E s \in Slots : disk' = WrittenBack(s)
    BY <1>2, <2>1, SlotTaken DEF DfsReadBlock, CacheHit
  <2>2. ASSUME NEW b \in BlockNums, NEW d \in Data, DfsWriteBlock(b, d)
        PROVE  disk' = disk \/ \E s \in Slots : disk' = WrittenBack(s)
    BY <1>2, <2>2, SlotTaken DEF DfsWriteBlock, CacheHit
  <2>3. ASSUME NEW i \in 1 .. Len(full_slots), FlushSlot(i)
        PROVE  \E s \in Slots : disk' = WrittenBack(s)
    <3>1. full_slots[i] \in Slots /\ inuse[full_slots[i]]
      BY <1>2, FullIsInUse DEF IInv
    <3>2. disk' = WrittenBack(full_slots[i])
      BY <2>3, <3>1 DEF FlushSlot, Turn, Dirty, DfsWriteBlockUncached, WrittenBack
    <3>. QED BY <3>1, <3>2
  <2>. QED BY <1>2, <2>1, <2>2, <2>3
           DEF Next, DfsAllocateBlock, DfsFreeBlock, DfsCacheFlush, FlushLoop,
               FlushSkip, FlushDone, DfsInvalidate, slotVars
<1>3. IInv /\ [Next]_vars =>
        [\A b \in Blocks : disk'[b] # disk[b] => b \in fbv /\ disk'[b] = View[b]]_vars
  BY <1>1, <1>2 DEF vars
<1>. QED BY <1>3, SpecIInv, PTL DEF Spec, DiskGetsOnlyCurrent

\* When DfsCacheFlush returns, the disk is up to date for every allocated
\* block: its cursor has passed every slot, over all the links it freed.
THEOREM FlushIsDurable == Spec => FlushMakesDurable
<1>1. ASSUME IInv, CleanBehind, FlushDone, NEW b \in fbv PROVE disk'[b] = View[b]
  <2>1. b \in Blocks /\ disk' = disk /\ flushing /\ l = NULL
    BY <1>1 DEF IInv, TypeOK, FlushDone
  <2>2. \A i \in 1 .. Len(full_slots) : ~Dirty(full_slots[i])
    <3>1. \A i \in 1 .. Len(full_slots) : l # full_slots[i]
      BY <1>1, <2>1, FullIsInUse, CacheAssumption DEF IInv, Slots
    <3>. QED BY <1>1, <2>1, <3>1 DEF CleanBehind
  <2>3. \A s \in Slots : inuse[s] => ~dirty[s]
    BY <1>1, <2>2, FullIsInUse DEF Dirty, IInv
  <2>4. CASE \E s \in Slots : inuse[s] /\ fblknum[s] = b
    BY <1>1, <2>1, <2>3, <2>4, ViewOfCached DEF IInv, CleanMatchesDisk
  <2>5. CASE \A s \in Slots : inuse[s] => fblknum[s] # b
    BY <2>1, <2>5, ViewOfUncached
  <2>. QED BY <2>4, <2>5
<1>2. ASSUME Next, flushing, ~flushing' PROVE FlushDone
  BY <1>2 DEF Next, DfsReadBlock, DfsWriteBlock, Usable, DfsAllocateBlock,
              DfsFreeBlock, DfsCacheFlush, FlushLoop, FlushSlot, FlushSkip, Turn,
              DfsInvalidate
<1>3. IInv /\ CleanBehind /\ [Next]_vars =>
        [flushing /\ ~flushing' => \A b \in fbv : disk'[b] = View[b]]_vars
  BY <1>1, <1>2
<1>. QED BY <1>3, SpecIInv, SpecBehind, PTL DEF Spec, FlushMakesDurable
=============================================================================
