# DLXOS file system: a TLA+ verification project

DLXOS is a teaching operating system for the DLX processor. This repository
(`src/flat`) adds a file system to it: a block device kept in a host file, a
block layer with a write-back cache, inodes with indirect blocks, and file
descriptors, used by user processes through traps. This directory holds TLA+
modules translated from that code, the TLC configurations that check them, and
proofs checked by TLAPS.

## The system

| Part | Source (`src/flat/`) | State | Operations |
|---|---|---|---|
| Block layer | `os/dfs.c` 86-564 | free block vector `fbv`, 16 cache slots, their buffers, the queues `empty_slots` and `full_slots` | allocate, free, invalidate, read, write, hit, allocate a slot (evict), flush |
| Inode layer | `os/dfs.c` 566-1122 | 128 inodes: name, size, 10 direct pointers, an indirect and a double indirect table | open, delete, read, write, size, allocate and translate a virtual block |
| Mount | `os/dfs.c` 33-204, `apps/fdisk` | superblock in memory and on disk, the metadata blocks | open, close, format |
| Descriptors | `os/files.c` | 15 descriptors: inode, mode, position, end-of-file flag | open, close, read, write, seek, delete |
| Synchronisation | `lib/synch.o` (an assembly listing), `include/os/synch.h` | locks with an owner and a FIFO of waiters, semaphores, conditions | acquire, release, wait, signal |
| Processes | `os/process.c`, `os/clock.c` | PCBs, the run, wait, zombie and free queues, the quantum | fork, schedule, suspend, wake up, destroy, timer interrupt |
| Queues | `os/queue.c` | 400 links on one free list and many doubly linked queues | allocate, remove, insert, move |
| Memory | `os/memory.c` | the page bitmap, page tables | allocate, free, translate, copy |
| Disk, host files | `os/disk.c`, `os/filesys.c` | a host file of 512-byte blocks | read, write, create |
| Traps | `os/traps.c`, `os/dlxos.s` | none of its own | copy arguments, dispatch |
| User programs | `apps/`, `os/ostests.c`, `os/usertraps.s` | none that persists | clients of the above |

**How they interact.** A user process enters the OS by a trap. Traps and
interrupts run with interrupts off (`os/process.c:167`), so a call of the file
system is not preempted; it gives up the processor only in `LockAcquire`, when
another process holds the lock. Descriptors call the inode layer, which calls
the block layer, which calls the disk, each under a lock of its own
(`fd_lock`, `inode_lock`, `fbv_lock`, `bcache_lock`). Everything that waits
or is cached sits on queues of `os/queue.c`. When the OS stops, `GracefulExit`
(`os/traps.c:26`) closes the file system.

**What is hard.** Sequences more than schedules: a slot outlives the block it
caches; a block is freed while dirty, or clean, and allocated again; a flush
walks a list it is changing; a write ends inside a block or between two address
tables; the disk fills up between the allocation of a table and of its data; a
deletion leaves gaps that the next file fills. And, where a lock is left held
(`os/dfs.c:1057-1060`), calls that were atomic begin to interleave.
`PROJECT.json` lists each hazard at its line with the properties that cover it.

**What makes each part correct.**
- Block layer: a read returns the last write of its block; a block has one
  cached copy; the disk gets only current content of allocated blocks; a flush
  makes everything durable; no slot is lost.
- Inode layer: no block serves two purposes; the allocated blocks are those in
  use; a file has exactly the bytes that were written to it; other files do not
  change.
- Mount: what is marked closed on the disk is a complete image, also after a
  crash, but for what a failed transfer left out; and the next session starts
  with it.
- Descriptors: a descriptor in use refers to the live file it was opened for.
- Synchronisation: a lock with waiters has an owner; outside a call nobody
  waits; what interleaves, and what can deadlock, is known.
- Processes: each PCB is in one queue, the one of its status; a runnable process
  eventually runs.
- Queues, memory: links and pages are neither lost nor handed out twice.

## Modules

| Module | Models | Notes |
|---|---|---|
| `BlockStore` | what the block layer promises | abstract: open/closed, allocated blocks, their contents, the last call and its result |
| `BufferCache` | the block layer | implements `BlockStore`; `MCBufferCache` gives TLC a view |
| `BufferCacheProofs` | theorems about `BufferCache` | inductive invariants `IInv` and `CleanBehind` |
| `QueueTheorems` | lemmas on queues as sequences, and on least numbers | append, remove at a position, tail; `LeastExists` |
| `Inodes` | the inode layer over a block layer used as `BlockStore` promises | `MCInodes` gives TLC the writes and reads |
| `InodesProofs` | theorems about `Inodes` | inductive invariant `IInv`: trees of pointers that share nothing |
| `Files` | the file calls over inodes reduced to name, size and extent | `MCFiles` gives TLC the seeks, the symmetry and a view |
| `FilesProofs` | theorems about `Files` | inductive invariant `IInv` |
| `Processes` | PCB queues, scheduler, quantum, page allocator, semaphores | one action per trap or interrupt |
| `ProcessesProofs` | theorems about `Processes` | the five invariants of the run are inductive together |
| `HostFiles` | the host's table of open files and the disk in a host file | operators that `Mount` composes |
| `Mount` | sessions over one disk: boot, open, close, format, stop | EXTENDS `HostFiles` |
| `MountProofs` | theorems about `Mount` | inductive invariant `IInv` |
| `LinkSequences` | what the queues of `queue.c` promise | abstract: sequences of links and a pool, the last call |
| `LinkQueue` | links, pointers and counts of `queue.c` | implements `LinkSequences`; `MCLinkQueue` gives TLC the symmetry and a view |
| `LinkQueueProofs` | theorems about `LinkQueue` | the links of each list can be numbered; refinement of `LinkSequences` |
| `FsLocks` | `fd_lock` and `inode_lock` under the calls of `files.c` and `dfs.c` | one step from one acquisition to the next |
| `FsLocksProofs` | theorems about `FsLocks` | inductive invariant `IInv` |

The modules fit together by what one shows of the next. `LinkQueue` implements
sequences, and `BufferCache` and `Processes` take their queues to be sequences.
`BufferCache` implements `BlockStore`, and `Inodes` uses its block layer as
`BlockStore` promises. `FsLocks` shows that no call waits before a hole has been
read, and `Inodes` and `Files` take their calls one at a time. `Mount` takes the
cache to keep the last write of each block and to write a dirty slot back, which
is what `BufferCache` shows of a disk that works; what becomes of a disk whose
transfers fail is the subject of `Mount`.

### BufferCache

State: `valid` is `sb.valid`; `fbv` is the set of blocks whose bit is set;
`disk` is the host file by file system block; `inuse`, `dirty`, `fblknum`,
`count` are the fields of `bcache_slots` and `bcache` the buffers;
`empty_slots` and `full_slots` are sequences of slots (the objects of the
links). `flushing` says that `DfsCacheFlush` is inside its loop and `l` is its
cursor, the slot whose link it stands on. `call` is the last call with its
arguments and `ret` what it returned.

Each call is one action that does all of its work: `DfsReadBlock(b)` and
`DfsWriteBlock(b, d)` include the lookup, the eviction of the least frequently
used slot with its write-back, and the fill. `DfsCacheFlush` is the exception:
one step per turn of its loop. A turn takes the successor of its link
(`NextLink`) and either writes, resets and moves the slot (`FlushSlot`) or passes
it by (`FlushSkip`); the loop ends when the cursor is `NULL` and for no other
reason (`FlushDone`), so that `FlushMakesDurable` depends on the walk: a cursor
that goes on after its link was freed ends early, and the property fails.

`ImplementsStore` is a refinement call by call. In `BlockStore` a step is the
answer to the call in `call`: a read of an allocated block b returns the content
of b, a write of b changes b and nothing else, a flush changes nothing. Only
through the handle `DFS_FAIL` may a read return anything and a write store
nothing. No action reads `call`, and the property judges a step by the call of
that step alone, so TLC may take states that differ in the last call for one
(`WithoutCall` of `MCBufferCache`).

Blocks passed by the inode layer are ones it holds, or `DFS_FAIL` (a hole that
is read, a block that could not be allocated): the code does not look, and
caches a slot for "block -1". The code then tests a word outside the vector;
whatever that word holds, the transfer is refused by the vector or by the range
check of `disk.c:75,121`, unless the machine stops on the access, so the model
has one outcome for it. Transfers always succeed here: after one that failed
unnoticed neither `CleanMatchesDisk` nor `FlushMakesDurable` holds, and `Mount`
says what then remains. `DfsFreeBlock` is called on allocated blocks only, which
is what `Inodes` shows of its caller (`AllocatedIffReferenced`).

### Inodes

State: the fields of the inodes as functions of the handle; `content`, the
blocks as the block layer shows them; `call`, the read or write in progress.
The unit of data is a *cell*, the four bytes of a block number, so a block of
data and an address table have the same number of cells and a table is stored in
a block like any data. `Junk` is the content of a block nobody wrote, and what a
read through `DFS_FAIL` returns.

`DfsInodeReadBytes` and `DfsInodeWriteBytes` are one step per block (`Begin...`,
`...Step`, `End...`), because each turn of the loop can find the disk full; the
other calls are one step. No other call starts while one is in progress: the
processes are one as long as none waits for `inode_lock` in the middle of a
call, which `FsLocks` shows of every run without a read of a hole
(`AtomicWithoutHole`). Two uses are cut off, each by a named guard,
because what follows depends on the memory layout: a read or write of a file
whose address table was lost to a full disk (`TableLost`), and the deletion of a
file with a -1 pointer.

### Files

State: `fd` is `file_descriptors`; an inode is its name, its `size` (a machine
word) and its `extent`, the end of the last byte stored in its blocks, which is
what `size` has to cover. Positions are words, signed where the code converts
them: `FileSeek` may move a position before the start or beyond the end, and
`FileRead` computes `filesize - curr_pos` there.

`num_bytes` is an `int`, of which the traps test only the upper limit
(`FILE_MAX_READWRITE_BYTES`; `traps.c:161`, 200, 210), so `Counts` has negative
numbers too. In the unsigned sum of `files.c:159` a negative count that leads
before the start of the file looks like one beyond its end: instead of being cut,
the count becomes the whole rest of the file, more than was asked for, and the
end-of-file flag is set (`Clamped`, `AtEnd`). `ReadStaysInFile` says what is left
of the promise: a read that delivers bytes still ends within the file, and only
one of a negative count delivers more than its count. Other negative counts copy
nothing (`bcopy` counts down to 0) and are counted all the same where the loop
takes a turn: the call returns them, the position moves back, and a write may so
make the size negative, which is the exception of `EofMeansEnd`. A count that
comes out as -1 is taken for a failure and moves nothing. A write of fewer than 0
bytes but less than a block before position 0 also clears the first block, since
the division rounds towards zero (`dfs.c:831`); the writes of `Inodes` have a
position and a length of at least 0.

A write that finds the disk full is not in this module: it returns the same
count and moves the position the same way (`FullDiskReport`). Cut off, each by a
named guard or a commented conjunct: a transfer whose first turn begins at a
negative byte of a block or runs towards the end of the address space
(`Defined`), a read that delivers more than the buffer of the trap can hold
(`total <= FILE_MAX_READWRITE_BYTES`), and reads and writes through a descriptor
without an inode, which index the inode table with -1. A file open for writing
is open to nobody else (`OneDescriptorPerFile`, `ReaderSeesStableFile`), so a
read and a write of one file never overlap.

### Processes

State: `status` is the flags of each PCB; the four queues are sequences of PCBs;
`pages` are the pages a process holds (`pagetable[0]`, `sysStackArea`);
`freepages`, `nfreepages` and `mapnum` are the bitmap, its counter and the word
where the next search begins; `jiffies` is `curtime - last_trigger_jiffies`;
`count` and `waiting` are the fields of the semaphores. Each action is a trap or
a timer interrupt up to the return into the process that is current then: what
follows in a process that slept is only its return. `ProcessSleep` and
`ProcessWakeup` are the operations other traps use; here semaphores use them, as
user programs can (`traps.c`, `TRAP_SEM_WAIT`). `halted` is set where
`GracefulExit` is called; nothing happens after it. Loading an executable and
building the first stack frame are left out; a missing executable is
`ForkFails`.

The fairness is that the timer interrupts again and again: `main` starts it
(`process.c:849`) and every interrupt sets it again (`clock.c:56-58`). Traps have
none: a program may compute forever.

### HostFiles and Mount

State: `openfiles` are the slots of `filesys.c` whose flags are not 0; `file` is
the host file by disk block. `pc` is where the kernel is between boot and exit,
`mem` the inodes and the vector in memory together with what readers of the data
blocks get, `dirty` the data blocks that only the cache has, `at` the next block
a close writes; `fdisk` and `fat` are the place of the process that formats.

The properties need some history: `saved` is what the last close had in memory
when it came to the mark; `unread` are the blocks this open could not read;
`unwritten` are the blocks whose last write since the mark was cleared failed;
`overwritten` says that the metadata on the disk is no longer what the system
wrote there as metadata.

A disk access opens the host file, transfers one block and closes it
(`DiskTransfer`). Slot 0 of the table is special: `FsOpen` hands it out and
`FdValid` refuses it, so the first file opened in a session is lost. Boot opens
the file `vm` before the disk (`process.c:834`), or the host refuses it and the
disk itself is lost once. The loader (`process.c:616`) and the option `-f`
(`process.c:784-806`) leave their slots behind too.

Any single transfer may fail and the next one succeed: the table is full, the
host refuses the open (`filesys.c:105-110`), or a transfer falls short
(`disk.c:97-101`, `141-145`). `done` is what `DiskReadBlock` or `DiskWriteBlock`
returns. A write that fails may have changed the block or not; a read that fails
leaves what was in memory. The callers go on in every case but three: the
superblock at an open, read or written (`dfs.c:122`, `147`), and at a close
(`dfs.c:195`, which ends the session all the same). The metadata are read up to
the first block that fails (`OpenRead`), while a close and the cache try each
block and ignore the result (`WriteUncached`). So a close whose writes failed
marks the disk all the same. `MarkedMeansComplete` and `ReopenRestores` therefore
speak of the blocks outside `unwritten` and `unread`: what a failure leaves out is
that block, and no other. Blocks fail here one by one, where the code also gives
up the rest of a file system block; that is among the choices.

A session that could not read its vector runs on what was in memory. A vector of
zeros gives the blocks of the metadata to files (`astray`), whose data then reach
the disk there (`Overrun`); the properties say nothing of such a disk, as of one
that `fdisk` wrote over (`overwritten`), until a later open clears the mark.

Opening, closing and formatting are one step per write, and `Crash` may end the
session between any two. The blocks are disk blocks; a file system block is a
few of them in a row, written in order (`dfs.c:348-354`). The data blocks stand
for allocated ones (what becomes of freed ones is `BufferCache`'s matter).
`DiskCreate` is one step: it truncates the file before it fills it, and the
format that follows writes every block whose content counts. The block behind
the vector that `fdisk` does not use is left out. A superblock of zeros, left by
a stop between `DiskCreate` and the last write of a format, is read without
complaint and the code divides by its block size: the session ends there
(`OpenUnformatted`).

### LinkSequences and LinkQueue

State: `heap` holds the fields of the links and queues as one record of
functions, so that an operation is an operator from heap to heap and a removal
can be followed by the insertion into `freeLinks` that the code makes; `l` is the
pointer each object keeps to its link (`pcb->l`, `bcache_slots[i].l`). Links are
numbers, the pool of the code. Callers keep to the order allocate, insert,
remove: an insertion is of a link that is on no queue, but next to any link,
also of another queue, which the code refuses (`Place`). In `LinkSequences` a
queue is a sequence and the free links are a set; `Walk` and `OnWalk` map the
pointers to them by following `next` as often as `nitems` says. `call` is the
last call with its arguments, and a step of `LinkSequences` is the answer to it:
an insertion takes the place its name says, and a call is refused exactly when
its arguments do not fit. As in `BufferCache` no action reads it, so TLC leaves
it out of its view.

### FsLocks

State: `pid` and `waiting` are the owner and the queue of each lock; `pc` is the
acquisition a process is at. `LockAcquire` and `LockRelease` are in the assembly
listing `lib/synch.o`: a lock is granted to its holder again without a count, a
release gives it to the first waiter at once. A step goes from one acquisition
to the next, and `Section` is the common case, acquire and release in one step.
The kernel is not preempted, so a process that has entered a call runs alone
(`running`) until it returns or sleeps. What the calls decide from the tables,
such as whether a name exists, is a choice here. `fbv_lock` and `bcache_lock`
are left out: every path gives them back before anything that can sleep.
`left` says that a read met a hole in the direct blocks and returned with
`inode_lock` (`dfs.c:1059`); any later release of `inode_lock` by anyone clears
it. A process that exits keeps its locks, and the next with its PCB is the
holder (`ProcessDestroy`, `Fork`).

The lock traps (`traps.c:698-707`) pass any handle a program gives to
`LockHandleAcquire` and `LockHandleRelease`, also those of the locks of the file
system. A program that did so could hold `inode_lock` outside a call without any
hole; `AtomicWithoutHole` and `DeadlockNeedsSeekAndHole` are about programs that
use locks they created. No program in the repository uses these traps.

## Runs

| Run | Question | Bounds |
|---|---|---|
| `BufferCache` | is the cache invisible, and is the disk always safe? | 3 blocks, 2 slots, 2 contents, use counts up to 2 |
| `Inodes` | do files keep their bytes while they grow, are deleted and compete for blocks? | 2 inodes, 3 names, 2-cell blocks, 1 direct pointer, 7 usable blocks, 5 writes, 2 reads |
| `Files` | do descriptors refer to their files, and do sizes and end-of-file flags tell the truth? | 3 names, 2 inodes, 2 descriptors, 1 block of 2 bytes, words of 4 bits, positions from -3 to 3, counts -2, -1, 0, 1 and 3, seeks by -1 and 2 |
| `Processes` | is every process in its queue with its pages, is no wakeup lost, is the processor shared? | 3 PCBs, 6 free pages over 3 words, 2 semaphores with counts up to 1, quantum 2 |
| `Mount` | is a disk marked closed complete, and does the next session start with it? | 5 disk blocks: boot block, superblock, 2 of metadata, 1 of data; 4 contents; 3 slots for host files |
| `LinkQueue` | do pointers and counts implement sequences? | 4 links, 2 queues, 5 objects |
| `FsLocks` | who may wait for whom, and when? | 3 processes |
| `PartialWrite` | does a partial write keep the rest of its block, as `dfs.c:810` says? No | 11 usable blocks |
| `FullDiskReport` | is a full disk reported, as `dfs.c:812` says? No | 5 usable blocks |
| `OpenWithoutInode` | does an open that returns a handle open a file, as `files.c:35` says? No | 2 names, 1 inode |
| `FormatOverwritten` | does a format survive the session it was made in, as `fdisk.c:30` says? No | as `Mount` |
| `SchedulerSkips` | is the process in front at a switch the one that ran, as `process.c:204` says? No | as `Processes`, 1 semaphore, quantum 1 |

Two slots and three blocks are the least with which a block can be evicted by a
second one while a third is cached, freed in each state of its slot, and
allocated again; the use count has to reach 2 for the victim to be other than
the head of the list. For `Inodes`, two cells per block give a file one direct,
two indirect and four double indirect blocks in two second-level tables. The
writes touch each range, cross each border (direct to indirect, one second-level
table to the next), start and end inside a block, and leave holes; seven usable
blocks hold either file but not both, so the disk runs out at a data block, at a
table and at a second-level table. More names than inodes make creation fail.
`NameSymmetry` is sound because names are only compared.
`CHECK_DEADLOCK FALSE` in the `Inodes` configurations is for the two uses that
are cut off; in those of `Processes` for the system that has stopped.

For `Files`, two of each table and three names make both tables run out, apart
and together; a block of two bytes has positions inside it, at its end, beyond
it and before the start. What a closed descriptor holds is never read again, so
the view `Seen` leaves it out, with `ret`, which only properties of steps look
at. The counts lie on both sides of 0, of the -1 that means failure, and of the
size of a block. For `Processes`, three processes are the least with which two
can wait in one queue, or in two, while a third runs; PCBs and pages run out
together, and a search for a page crosses and wraps around the words of the
bitmap.

For `Mount`, two blocks of metadata are the least with which a stop can leave one
of them old, and with which one write can fail and the next succeed; the vector is
one of them and the inodes the other. A block of data is clean, dirty or lost
apart from them. Three
slots of the host's table are slot 0, one that works, and one that can be lost
without harm. For `LinkQueue`, four links make lists with a first, a middle and a
last link beside another list, and five objects make the pool run out; the moves
include every pair of places. For `FsLocks`, three processes are the least with
which two wait, in one queue or in a circle, while a third runs.
`CHECK_DEADLOCK FALSE` is there because the system stops when all processes
sleep (`process.c:188`), which a deadlock between two of them can bring about.

`TimeShared` assumes that, from some time on, the processor changes hands only
at the end of a quantum: it says that the timer shares the processor among
processes that compute. Nothing is said of switches by sleep, exit or a yield,
which start the quantum anew; with them it does not hold in this code: see
`SchedulerSkips` below.

### What the violations show

- **Partial writes** (`dfs.c:848-857`): the first block of a write is read only
  if the write starts after the first byte. Writing 4 bytes at offset 0 of a
  1024-byte block zeroes the other 1020. `WritesKeepTheRest` shows that this is
  the only loss: every other byte outside the range of a write survives.
- **Full disk** (`dfs.c:842-843`, `955-976`): the -1 of `DfsAllocateBlock` is
  stored as a pointer and used as a block; the write reports full success.
- **Open without an inode** (`files.c:79-81`): when all inodes are in use,
  `FileOpen` returns a handle with inode -1.
- **Skipped turn** (`process.c:205`): the rotation moves the *next* process to
  the end when the running one has just left the queue. Two processes that wake
  each other and sleep can so keep a third from ever running: with the queue
  `<c, a, b>`, c sleeps and b runs; b wakes c and sleeps, and c runs; c wakes b,
  and the queue is as it was. `ClkResetProcess` starts the quantum anew at each
  of these switches, so the timer does not help.
- **Format** (`fdisk.c:30-33`): `fdisk` marks its own superblock invalid and not
  the kernel's. If the file system was open, whatever closes it in that session
  writes the old inodes, vector and superblock over the new ones. Alone, `fdisk`
  ends the simulator without a close and escapes this.

Three things were seen on the way and hold without a run. After a seek beyond the
end but within the last block, a read returns a negative number and moves the
position back (`files.c:158-164`; `ReadStaysInFile` says what reads keep to). A
flush empties dirty slots only, so that freed blocks whose slots are clean stay
cached (`dfs.c:525`, `557`): `CleanMatchesDisk` shows that they do no harm. And a
close sets the mark whatever its writes returned (`dfs.c:181`, `188`), so that
"marked" means complete only but for the blocks that could not be written
(`MarkedMeansComplete`).

## Proofs

`BufferCacheProofs` proves, for every number of blocks and slots, every set of
contents and every bound of the use counter (`CacheAssumption` only says that
they are positive and that the zero content is a content), the seven safety
properties of the `BufferCache` run, the refinement of `BlockStore` among them.

None is inductive alone. `IInv` conjoins: the types; that the queues partition
the slots without repetition (so that removing a position of `full_slots`
removes the slot); that a block is in one slot; and that clean slots agree with
the disk. `CachedOnce` needs the partition (a miss in the *queue* has to mean a
miss in the *slots*); the agreement of clean slots needs `CachedOnce` (writing
back one slot must not change the block under another); the refinement and the
two action properties need all of them, because `View`, the content a reader is
served, is a `CHOOSE` that only `CachedOnce` determines. That a flush is durable
needs a second invariant on top of it, `CleanBehind`: no slot that the cursor
has passed is dirty, and when it is `NULL` it has passed them all. It is kept
because the cursor moves to the link behind the one that is taken out, and
because nothing is twice in `full_slots`. Each action is a case with one step
per conjunct. In the refinement each call of the cache is matched with the step
of `BlockStore` for the same call and arguments. The facts about queues are
lemmas of `QueueTheorems`, from the library's theorems on sequences.

`MountProofs` proves the types, `MarkedMeansComplete` and `ReopenRestores` for
every size of the disk, of its metadata and of the table of files. The argument:
a mark on the disk and an open file system, or a format under way, exclude each
other (`OpenIsUnmarked`), so that the disk only changes while it is unmarked;
and while the file system is open, every clean data block and every block of
metadata before `at` is on the disk as it is in memory unless its last write
failed (`ReachesDisk`), so that the mark is set when all the others are. A
transfer may fail at any time, and so no hypothesis about the table of files is
needed: what fails joins `unwritten`, and leaves it again when a later write of
the same block succeeds. `ReadIsMemory` is the same for the open, with `unread`.
That the disk cannot be read before it exists needs slot 0 to be in use from the
first transfer that succeeds (`FirstSlotTaken`). `DiskStaysReachable` follows
from a count: apart from slot 0, no more slots are in use than files were lost
(`LostBounds`), so that one is left. That `FsOpen` finds it, the least free
slot, is `LeastExists` of `QueueTheorems`: an induction over data, which is
proved there by the well-founded order on finite sets.

`InodesProofs` proves every property of the `Inodes` run, for every size of the
disk, of its blocks and of the inode table: the types, the four invariants and
the four properties of steps. The pointers of an inode are a tree of depth
three, in which a block is a leaf, a table, or one of the two roots. The proofs
see them as one function `ptr` from the places of a file to block numbers. Every
call changes it along one path: an allocation that makes a table and an entry in
it, or a deletion that clears a whole inode; one lemma per kind of path gives
`ptr'`. `Tree` then says that no two places share a block (`Unshared`), that the
blocks allocated are those at some place (`Counted`), and that tables hold
numbers of blocks or -1 (`Numbers`). It is inductive with a few facts: a block
that is free reads as junk (`FreeIsJunk`), so that a new block shows nothing of
its last owner; and an inode that is not in use
points nowhere (`UnusedBlank`). For the contents, `cells` is the file as a
function of the offset; a step of a write changes the cells of one block of one
file and `DfsInodeDelete` those of one file, because of `Unshared`
(`FilesIsolated`, `WritesKeepTheRest`). What a call has done so far is in
`ReadSoFar`, `WriteCovers` and `WriteStored`, which give `ReadsReturnTheFile`,
`SizeCoversData` and `WritesStore` when it ends. `AllocatedIffReferenced` has no
exception: a write that stores -1 in a table or as a table loses no block.
`InodesAssumption` says that the sizes are positive, that the metadata fit the
disk, and that `Junk` is no value a program writes and no block number.

`FilesProofs` proves every property of the `Files` run for every number of names,
inodes and descriptors, every block size and every even word size. `IInv` adds
that an open descriptor has a name (`OpenedHasName`), that an unused inode stores
nothing (`UnusedEmpty`), and that only readers have the end-of-file flag
(`EofIsReaders`). The last one carries `EofMeansEnd`: a write or a deletion that
would make the flag stale is of a file that nobody reads, by
`OneDescriptorPerFile`. The rest is arithmetic of machine words: a size, as a
word, covers the last byte stored also when a write begins before the start or a
position is negative, and the count that `FileRead` passes down ends at the end of
the file or before it also when the one it was given is negative (`CutLeadsToEnd`,
`StartsAfterZero`, `ReadBounded`). `FilesAssumption` says no more of a count than
the code does: it is an `int` that is not above the limit of the traps.

`ProcessesProofs` proves every invariant of the `Processes` run for every number
of PCBs, pages and semaphores. The five are inductive together and not apart:
that a PCB leaves the queue of its status (`QueuesMatchStatus`) needs that the
current process heads the run queue (`CurrentRunsFirst`); that a woken process
was asleep needs `SleepersAccounted`; that a switch frees one PCB and its two
pages needs that there were no zombies before, `CurrentRunsFirst` again. The
search of `MemoryAllocPage` ends at a set bit whenever the counter is positive:
`PagesConserved` makes the counter the number of bits, and `WrapsAround` says
that the search meets every word.

`LinkQueueProofs` proves the types, `PointersMirror` and the refinement of
`LinkSequences` for every pool and all sets of queues and objects. That two
directions agree is not inductive: two links may agree on a circle beside the
list, and a removal then makes a count negative. The invariant is that the links
of each queue can be numbered from 1 to `nitems` along `next` and `prev`
(`Numbered`). The numbers are in no variable, so each operation is followed by
how it renumbers: one is taken out and those behind it move up, or the other way
round, and a move is both. For the refinement, numbered links make a sequence
(`NumberedRuns`), and the recursive `Walk` is that sequence, because a least
place where the two differ does not exist (`WalkIsList`). A call then is a link
that leaves a list (`UnlinkFrom`) and one that joins a list behind its first n
(`JoinInto`), n being what the name and the arguments of the call say, while the
other lists stay; `PlaceOf` and `EndsOf` say that `LinkSequences` inserts and
removes in these places. A removal is one from a queue of callers only because
no object has hold of a free link (`Held`), the other conjunct of `IInv`.

`FsLocksProofs` proves the three safety properties of `FsLocks` for every number
of processes. `IInv` adds where each waiter is (`AsleepAtAcquisition`), where
each holder is (`HoldersAreInside`), and that before any hole at most one
process is inside a call, which has all the locks that are held (`OneInside`).
Most steps are a `Section`, so most of the proof is one lemma about it.

Only model-checked: `TimeShared`, a liveness property under fairness, which is
out of reach of the prover.

## Plan

`Memory`: translation of addresses and copies between user and system space
(`memory.c:163-250`), and the traps that copy their arguments with them.

## Not modelled

- Address translation and copies between spaces (`memory.c:163-250`), and the
  traps that only copy arguments and dispatch: planned, see above. What the page
  behind the last one of a process holds (`memory.c:169`) depends on the layout.
- Loading an executable and building the first stack frame (`process.c:380-520`):
  what they contain is data; that loading can fail, and that it can leave a slot
  of the host's table behind, is in `Processes` and `HostFiles`.
- Condition variables and locks that user programs create: nothing in the OS
  uses them.
- The `FsDlx` functions are stubs, `FsDelete` has no caller, `sysproc.c` is
  commented out.
- Formatting and string functions (`misc.c`), the assembly stubs, the test
  programs and the build files have no state the properties are about; they are
  clients or transport of what is modelled.
