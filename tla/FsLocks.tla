------------------------------ MODULE FsLocks ------------------------------
(***************************************************************************)
(* The two locks of the file system under its calls: fd_lock around the    *)
(* descriptors (os/files.c), inode_lock around the inodes (os/dfs.c).      *)
(*                                                                         *)
(* A step runs from one acquisition to the next; what the code decides     *)
(* from the tables in between is any of the steps the call can take next.  *)
(* The kernel is not preempted: a process in a call runs alone until it    *)
(* returns or sleeps on a lock.  A lock that is released with processes    *)
(* waiting belongs to the first of them at once.                           *)
(*                                                                         *)
(* fbv_lock and bcache_lock are left out: every path gives them back       *)
(* before anything that can sleep, so nobody ever finds them taken.  The   *)
(* file system is open.                                                    *)
(***************************************************************************)
EXTENDS Integers, Sequences, SequencesExt

CONSTANTS
  Processes,  \* the PCBs
  fd_lock,
  inode_lock,
  NULL

Locks == {fd_lock, inode_lock}

ASSUME LocksAssumption == fd_lock # inode_lock /\ NULL \notin Processes

VARIABLES
  pid,      \* who holds each lock; it is taken once however often it is asked for
  waiting,  \* who sleeps on each lock
  pc,       \* the acquisition each process is at, "user", or "free": no process
  running,  \* the process inside the kernel that is not asleep, if any
  left,     \* a read of a hole ended with inode_lock held, and it still is
  holeRead  \* that has happened

vars == <<pid, waiting, pc, running, left, holeRead>>

Init ==
  /\ pid = [k \in Locks |-> NULL]
  /\ waiting = [k \in Locks |-> <<>>]
  /\ \E p \in Processes : pc = [q \in Processes |-> IF q = p THEN "user" ELSE "free"]
  /\ running = NULL
  /\ left = FALSE /\ holeRead = FALSE

\* Wrong variant: a process that waits for a lock stays on the run queue.
AsleepNowhere(p) == FALSE

Asleep(p) == \E k \in Locks : p \in Range(waiting[k])

-----------------------------------------------------------------------------
(* LockHandleAcquire and LockHandleRelease *)

\* Wrong variant: the holder is not recognised.
GrantedIfFree(p, k) == pid[k] = NULL

Granted(p, k) == pid[k] \in {NULL, p}

\* p is at the acquisition of k that is called s, and may run.
At(p, s) == pc[p] = s /\ running \in {NULL, p} /\ ~Asleep(p)

Goto(p, next) ==
  \E s \in next : /\ pc' = [pc EXCEPT ![p] = s]
                  /\ running' = IF s = "user" THEN NULL ELSE p

Sleep(p, k) ==
  /\ ~Granted(p, k)
  /\ waiting' = [waiting EXCEPT ![k] = Append(@, p)]
  /\ running' = NULL
  /\ UNCHANGED <<pid, pc, left, holeRead>>

Hold(p, k) ==
  /\ Granted(p, k)
  /\ pid' = [pid EXCEPT ![k] = p]
  /\ UNCHANGED waiting

\* Wrong variant: the process that is woken stays in the queue.
HandOverQueued(k) ==
  /\ pid' = [pid EXCEPT ![k] = IF waiting[k] = <<>> THEN NULL ELSE Head(waiting[k])]
  /\ left' = (left /\ k # inode_lock)
  /\ UNCHANGED waiting

HandOver(k) ==
  /\ IF waiting[k] = <<>>
       THEN pid' = [pid EXCEPT ![k] = NULL] /\ UNCHANGED waiting
       ELSE /\ pid' = [pid EXCEPT ![k] = Head(waiting[k])]
            /\ waiting' = [waiting EXCEPT ![k] = Tail(@)]
  /\ left' = (left /\ k # inode_lock)

\* Acquire k, or sleep until it is handed over; release it and go on.
Section(p, s, k, next) ==
  /\ At(p, s)
  /\ \/ Sleep(p, k)
     \/ Granted(p, k) /\ HandOver(k) /\ Goto(p, next) /\ UNCHANGED holeRead

\* A direct block that is not there: DfsInodeTranslateVirtualToFilesys returns
\* without releasing inode_lock.
ReadHole(p, s, next) ==
  /\ At(p, s)
  /\ Hold(p, inode_lock) /\ Goto(p, next)
  /\ left' = TRUE /\ holeRead' = TRUE

-----------------------------------------------------------------------------
(* The calls of os/files.c, with those they make of os/dfs.c *)

Enter(p) ==
  /\ At(p, "user")
  /\ Goto(p, {"open exists", "close", "read check", "write check", "seek", "delete exists"})
  /\ UNCHANGED <<pid, waiting, left, holeRead>>

FileOpen(p) ==
  \/ Section(p, "open exists", inode_lock, {"open exists", "open used", "open new", "user"})
  \/ Section(p, "open used", fd_lock, {"open used", "open delete", "open slot", "user"})
  \/ Section(p, "open delete", inode_lock, {"open new"})
  \/ Section(p, "open new", inode_lock, {"open new", "open slot"})
  \/ Section(p, "open slot", fd_lock, {"open slot", "open set", "user"})
  \/ Section(p, "open set", fd_lock, {"user"})

FileClose(p) == Section(p, "close", fd_lock, {"user"})

\* A block is read in each turn; -1 bytes read looks like a failure.
AfterBlock == {"read block", "read done", "user"}

\* Wrong variant: fd_lock is held until the size of the file is known.
FileReadHoldsFd(p) ==
  \/ Section(p, "read check", fd_lock, {"read position", "user"})
  \/ /\ At(p, "read position")
     /\ Hold(p, fd_lock) /\ Goto(p, {"read size"})
     /\ UNCHANGED <<left, holeRead>>
  \/ Section(p, "read size", inode_lock, AfterBlock)
  \/ Section(p, "read block", inode_lock, AfterBlock)
  \/ ReadHole(p, "read block", AfterBlock)
  \/ Section(p, "read done", fd_lock, {"user"})

FileRead(p) ==
  \/ Section(p, "read check", fd_lock, {"read position", "user"})
  \/ Section(p, "read position", fd_lock, {"read size"})
  \/ Section(p, "read size", inode_lock, AfterBlock)
  \/ Section(p, "read block", inode_lock, AfterBlock)
  \/ ReadHole(p, "read block", AfterBlock)
  \/ Section(p, "read done", fd_lock, {"user"})

\* A block that is not there is allocated.  The lock is still held if it is a
\* direct one, and was released otherwise.
FileWrite(p) ==
  \/ Section(p, "write check", fd_lock, {"write position", "user"})
  \/ Section(p, "write position", fd_lock, {"write block", "write size"})
  \/ Section(p, "write block", inode_lock, {"write block", "write allocate", "write size"})
  \/ /\ At(p, "write block")
     /\ Hold(p, inode_lock) /\ Goto(p, {"write allocate"})
     /\ UNCHANGED <<left, holeRead>>
  \/ Section(p, "write allocate", inode_lock, {"write block", "write size"})
  \/ Section(p, "write size", inode_lock, {"write done"})
  \/ Section(p, "write done", fd_lock, {"user"})

\* To seek from the end, the size is asked for with fd_lock held.
FileSeek(p) ==
  \/ Section(p, "seek", fd_lock, {"user"})
  \/ /\ At(p, "seek")
     /\ Hold(p, fd_lock) /\ Goto(p, {"seek size"})
     /\ UNCHANGED <<left, holeRead>>
  \/ Section(p, "seek size", inode_lock, {"seek end"})
  \/ Section(p, "seek end", fd_lock, {"user"})

\* The descriptors are dropped before, with no lock.
FileDelete(p) ==
  \/ Section(p, "delete exists", inode_lock, {"delete exists", "delete", "user"})
  \/ Section(p, "delete", inode_lock, {"user"})

-----------------------------------------------------------------------------
(* Processes come and go.  ProcessDestroy gives no lock back, and the next  *)
(* process with the PCB is the holder.                                     *)

Exit(p) ==
  /\ At(p, "user")
  /\ pc' = [pc EXCEPT ![p] = "free"]
  /\ UNCHANGED <<pid, waiting, running, left, holeRead>>

Fork(p) ==
  /\ At(p, "free") /\ \E q \in Processes : At(q, "user")
  /\ pc' = [pc EXCEPT ![p] = "user"]
  /\ UNCHANGED <<pid, waiting, running, left, holeRead>>

Call(p) ==
  \/ Enter(p) \/ FileOpen(p) \/ FileClose(p)
  \/ FileRead(p) \/ FileWrite(p) \/ FileSeek(p) \/ FileDelete(p)

Next == \E p \in Processes : Call(p) \/ Exit(p) \/ Fork(p)

Spec == Init /\ [][Next]_vars

-----------------------------------------------------------------------------
(* Properties *)

Steps ==
  {"user", "free", "close",
   "open exists", "open used", "open delete", "open new", "open slot", "open set",
   "read check", "read position", "read size", "read block", "read done",
   "write check", "write position", "write block", "write allocate", "write size",
   "write done", "seek", "seek size", "seek end", "delete exists", "delete"}

\* A queue has no room for a process twice.
TypeOK ==
  /\ pid \in [Locks -> Processes \cup {NULL}]
  /\ waiting \in [Locks -> {s \in Seq(Processes) : IsInjective(s)}]
  /\ pc \in [Processes -> Steps]
  /\ running \in Processes \cup {NULL}
  /\ left \in BOOLEAN /\ holeRead \in BOOLEAN

\* Whoever sleeps on a lock is in that queue only, waits for a process that
\* does not wait there itself, and is inside a call: it is woken by the release
\* that gives it the lock, never before and never twice.
LocksAndWaiters ==
  \A k \in Locks, p \in Processes :
    p \in Range(waiting[k]) =>
      /\ pid[k] \in Processes \ {p}
      /\ pid[k] \notin Range(waiting[k])
      /\ \A j \in Locks : p \in Range(waiting[j]) => j = k
      /\ pc[p] \notin {"user", "free"}

\* As long as no read has met a hole in the direct blocks, no process ever
\* waits: each call of the file system is one atomic step, although it takes
\* the locks many times, even one it has already (os/dfs.c:952 behind 1059).
AtomicWithoutHole == ~holeRead => \A k \in Locks : waiting[k] = <<>>

\* Two processes wait for each other's lock only if one seeks from the end,
\* which takes inode_lock under fd_lock (os/files.c:238), and the other has
\* returned from a read of a hole with inode_lock (os/dfs.c:1059).
WaitsFor(p, k, q) == p \in Range(waiting[k]) /\ pid[k] = q

DeadlockNeedsSeekAndHole ==
  \A p, q \in Processes :
    WaitsFor(p, fd_lock, q) /\ WaitsFor(q, inode_lock, p) =>
      pc[q] = "seek size" /\ left
=============================================================================
