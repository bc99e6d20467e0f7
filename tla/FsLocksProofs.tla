--------------------------- MODULE FsLocksProofs ---------------------------
(***************************************************************************)
(* Proofs about FsLocks for every number of processes: who sleeps on a     *)
(* lock is woken by its release, calls are atomic until a read of a hole   *)
(* leaves inode_lock behind, and what a deadlock takes.                    *)
(***************************************************************************)
EXTENDS FsLocks, QueueTheorems

\* The acquisitions of each lock.
FdSteps ==
  {"close", "open used", "open slot", "open set", "read check", "read position",
   "read done", "write check", "write position", "write done", "seek", "seek end"}

InodeSteps ==
  {"open exists", "open delete", "open new", "read size", "read block",
   "write block", "write allocate", "write size", "seek size", "delete exists", "delete"}

StepsOf(k) == IF k = fd_lock THEN FdSteps ELSE InodeSteps

\* Whoever sleeps does so where it acquires that lock.
AsleepAtAcquisition ==
  \A k \in Locks, p \in Processes : p \in Range(waiting[k]) => pc[p] \in StepsOf(k)

\* Who has a lock is at an acquisition of it (it was handed over), or seeks
\* from the end, or a read of a hole has left it the lock.
HoldersAreInside ==
  \A p \in Processes :
    /\ pid[fd_lock] = p => pc[p] \in FdSteps \cup {"seek size"}
    /\ pid[inode_lock] = p => left \/ pc[p] \in InodeSteps

\* Before that, one process at most is inside a call, and has all the locks.
OneInside ==
  ~holeRead =>
    /\ \A k \in Locks : waiting[k] = <<>>
    /\ \A p \in Processes : pc[p] \notin {"user", "free"} => running = p
    /\ \A k \in Locks : pid[k] # NULL => running = pid[k]
    /\ pid[fd_lock] # NULL => pc[running] \in {"seek size", "seek end"}
    /\ pid[inode_lock] # NULL => pc[running] = "write allocate"

IInv ==
  TypeOK /\ LocksAndWaiters /\ AsleepAtAcquisition /\ HoldersAreInside /\ OneInside
-----------------------------------------------------------------------------
(* What a sleep and a release do to the queue of a lock *)

LEMMA LockFacts ==
  /\ fd_lock \in Locks /\ inode_lock \in Locks /\ fd_lock # inode_lock
  /\ \A k \in Locks : k = fd_lock \/ k = inode_lock
  /\ StepsOf(fd_lock) = FdSteps /\ StepsOf(inode_lock) = InodeSteps
  /\ NULL \notin Processes
BY LocksAssumption DEF Locks, StepsOf

LEMMA EmptyQueue == Range(<<>>) = {}
BY DEF Range

LEMMA WaitingTyped ==
  ASSUME TypeOK, NEW k \in Locks
  PROVE  /\ waiting[k] \in Seq(Processes) /\ IsInjective(waiting[k])
         /\ Range(waiting[k]) \subseteq Processes
<1>1. waiting[k] \in Seq(Processes) /\ IsInjective(waiting[k])
  BY DEF TypeOK
<1>2. Range(waiting[k]) = {waiting[k][i] : i \in 1 .. Len(waiting[k])}
  BY <1>1, RangeEquality
<1>3. \A i \in 1 .. Len(waiting[k]) : waiting[k][i] \in Processes
  BY <1>1
<1>. QED BY <1>1, <1>2, <1>3

LEMMA HandOverFacts ==
  ASSUME TypeOK, NEW k \in Locks, HandOver(k)
  PROVE  /\ pid' \in [Locks -> Processes \cup {NULL}]
         /\ waiting' \in [Locks -> {s \in Seq(Processes) : IsInjective(s)}]
         /\ left' \in BOOLEAN /\ (left /\ k # inode_lock => left')
         /\ \A j \in Locks \ {k} : pid'[j] = pid[j] /\ waiting'[j] = waiting[j]
         /\ waiting[k] = <<>> => pid'[k] = NULL /\ waiting'[k] = <<>>
         /\ waiting[k] # <<>> => /\ pid'[k] \in Range(waiting[k])
                                 /\ Range(waiting'[k]) = Range(waiting[k]) \ {pid'[k]}
<1>1. /\ pid \in [Locks -> Processes \cup {NULL}]
      /\ waiting \in [Locks -> {s \in Seq(Processes) : IsInjective(s)}]
      /\ waiting[k] \in Seq(Processes) /\ IsInjective(waiting[k])
  BY DEF TypeOK
<1>2. CASE waiting[k] = <<>>
  BY <1>1, <1>2 DEF HandOver
<1>3. CASE waiting[k] # <<>>
  <2>1. /\ pid' = [pid EXCEPT ![k] = Head(waiting[k])]
        /\ waiting' = [waiting EXCEPT ![k] = Tail(waiting[k])]
        /\ left' = (left /\ k # inode_lock)
    BY <1>3 DEF HandOver
  <2>2. /\ Head(waiting[k]) \in Processes /\ Head(waiting[k]) \in Range(waiting[k])
        /\ Tail(waiting[k]) \in Seq(Processes) /\ IsInjective(Tail(waiting[k]))
        /\ Range(Tail(waiting[k])) = Range(waiting[k]) \ {Head(waiting[k])}
    BY <1>1, <1>3, TailOfQueue
  <2>. QED BY <1>1, <1>3, <2>1, <2>2
<1>. QED BY <1>2, <1>3

LEMMA SleepFacts ==
  ASSUME TypeOK, NEW k \in Locks, NEW p \in Processes, Sleep(p, k), ~Asleep(p)
  PROVE  /\ waiting' \in [Locks -> {s \in Seq(Processes) : IsInjective(s)}]
         /\ \A j \in Locks \ {k} : waiting'[j] = waiting[j]
         /\ Range(waiting'[k]) = Range(waiting[k]) \cup {p}
         /\ pid[k] \in Processes \ {p}
         /\ UNCHANGED <<pid, pc, left, holeRead>> /\ running' = NULL
<1>1. /\ waiting \in [Locks -> {s \in Seq(Processes) : IsInjective(s)}]
      /\ waiting[k] \in Seq(Processes) /\ IsInjective(waiting[k])
      /\ pid[k] \in Processes \cup {NULL}
  BY DEF TypeOK
<1>2. p \notin Range(waiting[k])
  BY DEF Asleep
<1>3. /\ Append(waiting[k], p) \in Seq(Processes) /\ IsInjective(Append(waiting[k], p))
      /\ Range(Append(waiting[k], p)) = Range(waiting[k]) \cup {p}
  BY <1>1, <1>2, AppendToQueue
<1>4. waiting' = [waiting EXCEPT ![k] = Append(waiting[k], p)]
  BY DEF Sleep
<1>. QED BY <1>1, <1>3, <1>4 DEF Sleep, Granted

-----------------------------------------------------------------------------
(* The steps of a call *)

\* What a step of p may do to the places: only p's own changes.
LEMMA GotoFacts ==
  ASSUME TypeOK, NEW p \in Processes, NEW next \in SUBSET Steps, Goto(p, next)
  PROVE  /\ pc' \in [Processes -> Steps] /\ pc'[p] \in next
         /\ \A q \in Processes \ {p} : pc'[q] = pc[q]
         /\ running' \in Processes \cup {NULL}
         /\ running' = IF pc'[p] = "user" THEN NULL ELSE p
BY DEF Goto, TypeOK

\* An acquisition that sleeps.  Before any hole there is none.
LEMMA SleepStep ==
  ASSUME IInv, NEW p \in Processes, NEW k \in Locks, NEW s \in StepsOf(k),
         At(p, s), Sleep(p, k)
  PROVE  IInv'
<1>. USE DEF IInv
<1>1. /\ waiting' \in [Locks -> {r \in Seq(Processes) : IsInjective(r)}]
      /\ \A j \in Locks \ {k} : waiting'[j] = waiting[j]
      /\ Range(waiting'[k]) = Range(waiting[k]) \cup {p}
      /\ pid[k] \in Processes \ {p}
      /\ UNCHANGED <<pid, pc, left, holeRead>> /\ running' = NULL
      /\ pc[p] = s /\ \A j \in Locks : p \notin Range(waiting[j])
  BY SleepFacts DEF At, Asleep
<1>2. s \notin {"user", "free"}
  BY DEF StepsOf, FdSteps, InodeSteps
<1>3. TypeOK'
  BY <1>1 DEF TypeOK
<1>4. LocksAndWaiters'
  <2>. SUFFICES ASSUME NEW j \in Locks, NEW q \in Processes, q \in Range(waiting'[j])
                PROVE  /\ pid[j] \in Processes \ {q}
                       /\ pid[j] \notin Range(waiting'[j])
                       /\ \A i \in Locks : q \in Range(waiting'[i]) => i = j
                       /\ pc[q] \notin {"user", "free"}
    BY <1>1 DEF LocksAndWaiters
  <2>1. CASE q = p
    <3>1. j = k /\ \A i \in Locks : p \in Range(waiting'[i]) => i = k
      BY <1>1, <2>1
    <3>2. pid[k] \notin Range(waiting[k])
      BY <1>1 DEF LocksAndWaiters
    <3>. QED BY <1>1, <1>2, <2>1, <3>1, <3>2
  <2>2. CASE q # p
    <3>1. \A i \in Locks : q \in Range(waiting'[i]) => q \in Range(waiting[i])
      BY <1>1, <2>2
    <3>2. /\ pid[j] \in Processes \ {q} /\ pid[j] \notin Range(waiting[j])
          /\ \A i \in Locks : q \in Range(waiting[i]) => i = j
          /\ pc[q] \notin {"user", "free"}
      BY <3>1 DEF LocksAndWaiters
    <3>. QED BY <1>1, <3>1, <3>2
  <2>. QED BY <2>1, <2>2
<1>5. AsleepAtAcquisition' /\ HoldersAreInside'
  BY <1>1 DEF AsleepAtAcquisition, HoldersAreInside
<1>6. OneInside'
  <2>1. ASSUME ~holeRead PROVE FALSE
    BY <1>1, <2>1, LockFacts DEF OneInside, At
  <2>. QED BY <1>1, <2>1 DEF OneInside
<1>. QED BY <1>3, <1>4, <1>5, <1>6

\* An acquisition that is granted, and the release that follows it.
LEMMA ReleaseStep ==
  ASSUME IInv, NEW p \in Processes, NEW k \in Locks, NEW s \in StepsOf(k),
         NEW next \in SUBSET (Steps \ {"free"}), s = "seek size" => next = {"seek end"},
         At(p, s), Granted(p, k), HandOver(k), Goto(p, next), UNCHANGED holeRead
  PROVE  IInv'
<1>. USE DEF IInv
<1>1. /\ pid' \in [Locks -> Processes \cup {NULL}]
      /\ waiting' \in [Locks -> {r \in Seq(Processes) : IsInjective(r)}]
      /\ left' \in BOOLEAN /\ (left /\ k # inode_lock => left')
      /\ \A j \in Locks \ {k} : pid'[j] = pid[j] /\ waiting'[j] = waiting[j]
      /\ waiting[k] = <<>> => pid'[k] = NULL /\ waiting'[k] = <<>>
      /\ waiting[k] # <<>> => /\ pid'[k] \in Range(waiting[k])
                              /\ Range(waiting'[k]) = Range(waiting[k]) \ {pid'[k]}
  BY HandOverFacts
<1>2. /\ pc' \in [Processes -> Steps] /\ pc'[p] \in next
      /\ \A q \in Processes \ {p} : pc'[q] = pc[q]
      /\ running' \in Processes \cup {NULL}
      /\ running' = IF pc'[p] = "user" THEN NULL ELSE p
  <2>1. next \in SUBSET Steps
    OBVIOUS
  <2>. QED BY <2>1, GotoFacts
<1>3. pc[p] = s /\ running \in {NULL, p} /\ \A j \in Locks : p \notin Range(waiting[j])
  BY DEF At, Asleep
<1>4. \A j \in Locks : Range(waiting'[j]) \subseteq Range(waiting[j])
  BY <1>1, EmptyQueue
<1>5. \A j \in Locks : Range(waiting[j]) \subseteq Processes
  BY WaitingTyped
<1>6. TypeOK'
  BY <1>1, <1>2 DEF TypeOK
<1>7. LocksAndWaiters'
  <2>. SUFFICES ASSUME NEW j \in Locks, NEW q \in Processes, q \in Range(waiting'[j])
                PROVE  /\ pid'[j] \in Processes \ {q}
                       /\ pid'[j] \notin Range(waiting'[j])
                       /\ \A i \in Locks : q \in Range(waiting'[i]) => i = j
                       /\ pc'[q] \notin {"user", "free"}
    BY DEF LocksAndWaiters
  <2>1. q \in Range(waiting[j]) /\ q # p
    BY <1>3, <1>4
  <2>2. /\ \A i \in Locks : q \in Range(waiting'[i]) => i = j
        /\ pc'[q] \notin {"user", "free"}
    BY <1>2, <1>4, <2>1 DEF LocksAndWaiters
  <2>3. CASE j # k
    BY <1>1, <2>1, <2>2, <2>3 DEF LocksAndWaiters
  <2>4. CASE j = k
    BY <1>1, <1>5, <2>1, <2>2, <2>4, EmptyQueue
  <2>. QED BY <2>3, <2>4
<1>8. AsleepAtAcquisition'
  BY <1>2, <1>3, <1>4 DEF AsleepAtAcquisition
<1>9. HoldersAreInside'
  <2>. SUFFICES ASSUME NEW q \in Processes
                PROVE  /\ pid'[fd_lock] = q => pc'[q] \in FdSteps \cup {"seek size"}
                       /\ pid'[inode_lock] = q => left' \/ pc'[q] \in InodeSteps
    BY DEF HoldersAreInside
  <2>1. pid'[k] = q => pc'[q] \in StepsOf(k)
    <3>1. pid'[k] = q => q \in Range(waiting[k])
      BY <1>1, LockFacts
    <3>. QED BY <1>2, <1>3, <3>1 DEF AsleepAtAcquisition
  <2>2. CASE k = fd_lock
    <3>1. pid'[inode_lock] = q => pid[inode_lock] = q /\ (left => left')
      BY <1>1, <2>2, LockFacts
    <3>2. s \in FdSteps /\ s \notin InodeSteps
      BY <2>2, LockFacts DEF FdSteps, InodeSteps
    <3>3. q = p /\ pid[inode_lock] = q => left
      BY <1>3, <3>2 DEF HoldersAreInside
    <3>. QED BY <1>2, <2>1, <2>2, <3>1, <3>3, LockFacts DEF HoldersAreInside
  <2>3. CASE k = inode_lock
    <3>1. pid'[fd_lock] = q => pid[fd_lock] = q
      BY <1>1, <2>3, LockFacts
    <3>2. s \in InodeSteps /\ s \notin FdSteps
      BY <2>3, LockFacts DEF FdSteps, InodeSteps
    <3>3. q = p /\ pid[fd_lock] = q => pc'[q] \in FdSteps
      BY <1>2, <1>3, <3>2 DEF HoldersAreInside, FdSteps
    <3>. QED BY <1>2, <2>1, <2>3, <3>1, <3>3, LockFacts DEF HoldersAreInside
  <2>. QED BY <2>2, <2>3, LockFacts
<1>10. OneInside'
  <2>. SUFFICES ASSUME ~holeRead PROVE OneInside'
    BY DEF OneInside
  <2>1. /\ \A j \in Locks : waiting[j] = <<>> /\ (pid[j] # NULL => running = pid[j])
        /\ \A q \in Processes : pc[q] \notin {"user", "free"} => running = q
        /\ pid[fd_lock] # NULL => pc[running] \in {"seek size", "seek end"}
        /\ pid[inode_lock] # NULL => pc[running] = "write allocate"
    BY DEF OneInside
  <2>2. s \notin {"user", "free"} /\ running = p
    <3>1. s \notin {"user", "free"}
      BY DEF StepsOf, FdSteps, InodeSteps
    <3>. QED BY <1>3, <2>1, <3>1
  <2>3. \A j \in Locks : waiting'[j] = <<>> /\ pid'[k] = NULL
    BY <1>1, <2>1
  <2>4. \A q \in Processes : pc'[q] \notin {"user", "free"} => running' = q
    BY <1>2, <2>1, <2>2
  <2>5. pid'[fd_lock] # NULL => /\ s = "seek size" /\ pc'[p] = "seek end"
                                /\ pid'[fd_lock] = p
    <3>1. pid'[fd_lock] # NULL => k = inode_lock /\ pid'[fd_lock] = pid[fd_lock]
      BY <1>1, <2>3, LockFacts
    <3>2. k = inode_lock => s # "seek end"
      BY LockFacts DEF InodeSteps
    <3>. QED BY <1>2, <1>3, <2>1, <2>2, <3>1, <3>2, LockFacts
  <2>6. pid'[inode_lock] = NULL
    <3>1. pid'[inode_lock] # NULL => k = fd_lock /\ pid'[inode_lock] = pid[inode_lock]
      BY <1>1, <2>3, LockFacts
    <3>2. k = fd_lock => s # "write allocate"
      BY LockFacts DEF FdSteps
    <3>3. pid[inode_lock] # NULL => s = "write allocate"
      BY <1>3, <2>1, <2>2
    <3>. QED BY <3>1, <3>2, <3>3
  <2>7. pid'[fd_lock] # NULL => running' = pid'[fd_lock] /\ pc'[running'] = "seek end"
    BY <1>2, <2>5
  <2>8. \A j \in Locks : pid'[j] # NULL => running' = pid'[j]
    BY <2>6, <2>7, LockFacts
  <2>. QED BY <2>3, <2>4, <2>6, <2>7, <2>8 DEF OneInside
<1>. QED BY <1>6, <1>7, <1>8, <1>9, <1>10

LEMMA SectionStep ==
  ASSUME IInv, NEW p \in Processes, NEW k \in Locks, NEW s \in StepsOf(k),
         NEW next \in SUBSET (Steps \ {"free"}), s = "seek size" => next = {"seek end"},
         Section(p, s, k, next)
  PROVE  IInv'
<1>1. CASE Sleep(p, k)
  BY <1>1, SleepStep DEF Section
<1>2. CASE Granted(p, k) /\ HandOver(k) /\ Goto(p, next) /\ UNCHANGED holeRead
  BY <1>2, ReleaseStep DEF Section
<1>. QED BY <1>1, <1>2 DEF Section

\* A lock that is kept for the next step: fd_lock by a seek, inode_lock by the
\* allocation of a direct block.
LEMMA KeepStep ==
  ASSUME IInv, NEW p \in Processes, NEW k \in Locks, NEW s, NEW t,
         \/ k = fd_lock /\ s = "seek" /\ t = "seek size"
         \/ k = inode_lock /\ s = "write block" /\ t = "write allocate",
         At(p, s), Hold(p, k), Goto(p, {t}), UNCHANGED <<left, holeRead>>
  PROVE  IInv'
<1>. USE DEF IInv
<1>1. /\ pid' = [pid EXCEPT ![k] = p] /\ pid[k] \in {NULL, p}
      /\ UNCHANGED <<waiting, left, holeRead>>
      /\ pc[p] = s /\ running \in {NULL, p} /\ \A j \in Locks : p \notin Range(waiting[j])
  BY DEF Hold, Granted, At, Asleep
<1>2. /\ pc' \in [Processes -> Steps] /\ pc'[p] = t
      /\ \A q \in Processes \ {p} : pc'[q] = pc[q]
      /\ running' = p
  <2>1. {t} \in SUBSET Steps /\ t # "user"
    BY DEF Steps
  <2>. QED BY <2>1, GotoFacts
<1>3. /\ pid' \in [Locks -> Processes \cup {NULL}] /\ pid'[k] = p
      /\ \A j \in Locks \ {k} : pid'[j] = pid[j]
  BY <1>1 DEF TypeOK
<1>4. TypeOK'
  BY <1>1, <1>2, <1>3 DEF TypeOK
<1>5. LocksAndWaiters'
  <2>. SUFFICES ASSUME NEW j \in Locks, NEW q \in Processes, q \in Range(waiting[j])
                PROVE  /\ pid'[j] \in Processes \ {q}
                       /\ pid'[j] \notin Range(waiting[j])
                       /\ \A i \in Locks : q \in Range(waiting[i]) => i = j
                       /\ pc'[q] \notin {"user", "free"}
    BY <1>1 DEF LocksAndWaiters
  <2>1. q # p
    BY <1>1
  <2>2. /\ pid[j] \in Processes \ {q} /\ pid[j] \notin Range(waiting[j])
        /\ \A i \in Locks : q \in Range(waiting[i]) => i = j
        /\ pc[q] \notin {"user", "free"}
    BY DEF LocksAndWaiters
  <2>3. pid'[j] \in Processes \ {q} /\ pid'[j] \notin Range(waiting[j])
    BY <1>1, <1>3, <2>1, <2>2
  <2>. QED BY <1>2, <2>1, <2>2, <2>3
<1>6. AsleepAtAcquisition'
  BY <1>1, <1>2 DEF AsleepAtAcquisition
<1>7. HoldersAreInside'
  <2>. SUFFICES ASSUME NEW q \in Processes
                PROVE  /\ pid'[fd_lock] = q => pc'[q] \in FdSteps \cup {"seek size"}
                       /\ pid'[inode_lock] = q => left' \/ pc'[q] \in InodeSteps
    BY DEF HoldersAreInside
  <2>1. /\ pid[fd_lock] = q => pc[q] \in FdSteps \cup {"seek size"}
        /\ pid[inode_lock] = q => left \/ pc[q] \in InodeSteps
    BY DEF HoldersAreInside
  <2>2. CASE q # p
    <3>1. pc'[q] = pc[q] /\ \A j \in Locks : pid'[j] = q => pid[j] = q
      BY <1>2, <1>3, <2>2
    <3>. QED BY <2>1, <3>1, LockFacts
  <2>3. CASE q = p /\ k = fd_lock
    BY <1>1, <1>2, <1>3, <2>1, <2>3, LockFacts DEF InodeSteps
  <2>4. CASE q = p /\ k = inode_lock
    BY <1>1, <1>2, <1>3, <2>1, <2>4, LockFacts DEF FdSteps, InodeSteps
  <2>. QED BY <2>2, <2>3, <2>4, LockFacts
<1>8. OneInside'
  <2>. SUFFICES ASSUME ~holeRead PROVE OneInside'
    BY DEF OneInside
  <2>1. /\ \A j \in Locks : waiting[j] = <<>> /\ (pid[j] # NULL => running = pid[j])
        /\ \A q \in Processes : pc[q] \notin {"user", "free"} => running = q
        /\ pid[fd_lock] # NULL => pc[running] \in {"seek size", "seek end"}
        /\ pid[inode_lock] # NULL => pc[running] = "write allocate"
    BY DEF OneInside
  <2>2. s \notin {"user", "free", "seek size", "seek end", "write allocate"} /\ running = p
    BY <1>1, <2>1
  <2>3. pid[fd_lock] = NULL /\ pid[inode_lock] = NULL
    BY <1>1, <2>1, <2>2
  <2>4. \A q \in Processes : pc'[q] \notin {"user", "free"} => running' = q
    BY <1>2, <2>1, <2>2
  <2>5. \A j \in Locks : pid'[j] # NULL => j = k /\ running' = pid'[j]
    BY <1>2, <1>3, <2>3, LockFacts
  <2>6. /\ pid'[fd_lock] # NULL => pc'[running'] \in {"seek size", "seek end"}
        /\ pid'[inode_lock] # NULL => pc'[running'] = "write allocate"
    BY <1>2, <2>5, LockFacts
  <2>. QED BY <1>1, <2>1, <2>4, <2>5, <2>6 DEF OneInside
<1>. QED BY <1>4, <1>5, <1>6, <1>7, <1>8

LEMMA HoleStep ==
  ASSUME IInv, NEW p \in Processes, ReadHole(p, "read block", AfterBlock)
  PROVE  IInv'
<1>. USE DEF IInv
<1>1. /\ pid' = [pid EXCEPT ![inode_lock] = p] /\ pid[inode_lock] \in {NULL, p}
      /\ waiting' = waiting /\ left' = TRUE /\ holeRead' = TRUE
      /\ pc[p] = "read block" /\ \A j \in Locks : p \notin Range(waiting[j])
  BY DEF ReadHole, Hold, Granted, At, Asleep
<1>2. /\ pc' \in [Processes -> Steps] /\ pc'[p] \in AfterBlock
      /\ \A q \in Processes \ {p} : pc'[q] = pc[q]
      /\ running' \in Processes \cup {NULL}
  <2>1. AfterBlock \in SUBSET Steps
    BY DEF AfterBlock, Steps
  <2>. QED BY <2>1, GotoFacts DEF ReadHole
<1>3. /\ pid' \in [Locks -> Processes \cup {NULL}] /\ pid'[inode_lock] = p
      /\ pid'[fd_lock] = pid[fd_lock]
  BY <1>1, LockFacts DEF TypeOK
<1>4. TypeOK'
  BY <1>1, <1>2, <1>3 DEF TypeOK
<1>5. LocksAndWaiters'
  <2>. SUFFICES ASSUME NEW j \in Locks, NEW q \in Processes, q \in Range(waiting[j])
                PROVE  /\ pid'[j] \in Processes \ {q}
                       /\ pid'[j] \notin Range(waiting[j])
                       /\ \A i \in Locks : q \in Range(waiting[i]) => i = j
                       /\ pc'[q] \notin {"user", "free"}
    BY <1>1 DEF LocksAndWaiters
  <2>1. q # p
    BY <1>1
  <2>. QED BY <1>1, <1>2, <1>3, <2>1, LockFacts DEF LocksAndWaiters
<1>6. AsleepAtAcquisition'
  BY <1>1, <1>2 DEF AsleepAtAcquisition
<1>7. HoldersAreInside'
  <2>1. pid[fd_lock] # p
    BY <1>1 DEF HoldersAreInside, FdSteps
  <2>. QED BY <1>1, <1>2, <1>3, <2>1 DEF HoldersAreInside
<1>8. OneInside'
  BY <1>1 DEF OneInside
<1>. QED BY <1>4, <1>5, <1>6, <1>7, <1>8

\* Calls begin and processes come and go without touching a lock.
LEMMA OutsideStep ==
  ASSUME IInv, NEW p \in Processes, Enter(p) \/ Exit(p) \/ Fork(p)
  PROVE  IInv'
<1>. USE DEF IInv
<1>1. /\ UNCHANGED <<pid, waiting, left, holeRead>>
      /\ pc[p] \in {"user", "free"} /\ running \in {NULL, p}
      /\ \A j \in Locks : p \notin Range(waiting[j])
  BY DEF Enter, Exit, Fork, At, Asleep
<1>2. /\ pc' \in [Processes -> Steps]
      /\ \A q \in Processes \ {p} : pc'[q] = pc[q]
      /\ \/ pc'[p] \in {"user", "free"} /\ running' = running
         \/ pc'[p] \notin {"user", "free"} /\ running' = p
  <2>1. CASE Enter(p)
    <3>. DEFINE N == {"open exists", "close", "read check", "write check", "seek",
                      "delete exists"}
    <3>1. N \in SUBSET Steps /\ \A s \in N : s \notin {"user", "free"}
      BY DEF Steps
    <3>2. Goto(p, N)
      BY <2>1 DEF Enter
    <3>. HIDE DEF N
    <3>. QED BY <3>1, <3>2, GotoFacts
  <2>2. CASE Exit(p) \/ Fork(p)
    <3>1. "user" \in Steps /\ "free" \in Steps
      BY DEF Steps
    <3>2. \E s \in {"user", "free"} : pc' = [pc EXCEPT ![p] = s]
      BY <2>2 DEF Exit, Fork
    <3>3. running' = running
      BY <2>2 DEF Exit, Fork
    <3>. QED BY <3>1, <3>2, <3>3 DEF TypeOK
  <2>. QED BY <2>1, <2>2
<1>3. TypeOK'
  BY <1>1, <1>2 DEF TypeOK
<1>4. LocksAndWaiters' /\ AsleepAtAcquisition'
  BY <1>1, <1>2 DEF LocksAndWaiters, AsleepAtAcquisition
<1>5. HoldersAreInside'
  <2>1. pid[fd_lock] # p /\ (pid[inode_lock] = p => left)
    BY <1>1 DEF HoldersAreInside, FdSteps, InodeSteps
  <2>. QED BY <1>1, <1>2, <2>1 DEF HoldersAreInside
<1>6. OneInside'
  <2>. SUFFICES ASSUME ~holeRead PROVE OneInside'
    BY <1>1 DEF OneInside
  <2>1. /\ \A j \in Locks : waiting[j] = <<>> /\ (pid[j] # NULL => running = pid[j])
        /\ \A q \in Processes : pc[q] \notin {"user", "free"} => running = q
        /\ pid[fd_lock] # NULL => pc[running] \in {"seek size", "seek end"}
        /\ pid[inode_lock] # NULL => pc[running] = "write allocate"
    BY DEF OneInside
  <2>2. pid[fd_lock] = NULL /\ pid[inode_lock] = NULL
    BY <1>1, <2>1, LockFacts
  <2>3. \A q \in Processes : pc'[q] \notin {"user", "free"} => running' = q
    BY <1>1, <1>2, <2>1, LockFacts
  <2>4. \A j \in Locks : pid'[j] = NULL /\ waiting'[j] = <<>>
    BY <1>1, <2>1, <2>2, LockFacts
  <2>5. pid'[fd_lock] = NULL /\ pid'[inode_lock] = NULL
    BY <2>4, LockFacts
  <2>. QED BY <2>3, <2>4, <2>5 DEF OneInside
<1>. QED BY <1>3, <1>4, <1>5, <1>6

-----------------------------------------------------------------------------
(* The calls *)

LEMMA OpenStep ==
  ASSUME IInv, NEW p \in Processes, FileOpen(p)
  PROVE  IInv'
<1>. USE SectionStep, LockFacts DEF Steps, FdSteps, InodeSteps
<1>1. CASE Section(p, "open exists", inode_lock, {"open exists", "open used", "open new", "user"})
  BY <1>1
<1>2. CASE Section(p, "open used", fd_lock, {"open used", "open delete", "open slot", "user"})
  BY <1>2
<1>3. CASE Section(p, "open delete", inode_lock, {"open new"})
  BY <1>3
<1>4. CASE Section(p, "open new", inode_lock, {"open new", "open slot"})
  BY <1>4
<1>5. CASE Section(p, "open slot", fd_lock, {"open slot", "open set", "user"})
  BY <1>5
<1>6. CASE Section(p, "open set", fd_lock, {"user"})
  BY <1>6
<1>. QED BY <1>1, <1>2, <1>3, <1>4, <1>5, <1>6 DEF FileOpen

LEMMA CloseOrDeleteStep ==
  ASSUME IInv, NEW p \in Processes, FileClose(p) \/ FileDelete(p)
  PROVE  IInv'
<1>. USE SectionStep, LockFacts DEF Steps, FdSteps, InodeSteps
<1>1. CASE Section(p, "close", fd_lock, {"user"})
  BY <1>1
<1>2. CASE Section(p, "delete exists", inode_lock, {"delete exists", "delete", "user"})
  BY <1>2
<1>3. CASE Section(p, "delete", inode_lock, {"user"})
  BY <1>3
<1>. QED BY <1>1, <1>2, <1>3 DEF FileClose, FileDelete

LEMMA ReadStep ==
  ASSUME IInv, NEW p \in Processes, FileRead(p)
  PROVE  IInv'
<1>. USE SectionStep, LockFacts DEF Steps, FdSteps, InodeSteps, AfterBlock
<1>1. CASE Section(p, "read check", fd_lock, {"read position", "user"})
  BY <1>1
<1>2. CASE Section(p, "read position", fd_lock, {"read size"})
  BY <1>2
<1>3. CASE Section(p, "read size", inode_lock, AfterBlock)
  BY <1>3
<1>4. CASE Section(p, "read block", inode_lock, AfterBlock)
  BY <1>4
<1>5. CASE ReadHole(p, "read block", AfterBlock)
  BY <1>5, HoleStep
<1>6. CASE Section(p, "read done", fd_lock, {"user"})
  BY <1>6
<1>. QED BY <1>1, <1>2, <1>3, <1>4, <1>5, <1>6 DEF FileRead

LEMMA WriteStep ==
  ASSUME IInv, NEW p \in Processes, FileWrite(p)
  PROVE  IInv'
<1>. USE SectionStep, LockFacts DEF Steps, FdSteps, InodeSteps
<1>1. CASE Section(p, "write check", fd_lock, {"write position", "user"})
  BY <1>1
<1>2. CASE Section(p, "write position", fd_lock, {"write block", "write size"})
  BY <1>2
<1>3. CASE Section(p, "write block", inode_lock, {"write block", "write allocate", "write size"})
  BY <1>3
<1>4. CASE /\ At(p, "write block")
           /\ Hold(p, inode_lock) /\ Goto(p, {"write allocate"})
           /\ UNCHANGED <<left, holeRead>>
  BY <1>4, KeepStep
<1>5. CASE Section(p, "write allocate", inode_lock, {"write block", "write size"})
  BY <1>5
<1>6. CASE Section(p, "write size", inode_lock, {"write done"})
  BY <1>6
<1>7. CASE Section(p, "write done", fd_lock, {"user"})
  BY <1>7
<1>. QED BY <1>1, <1>2, <1>3, <1>4, <1>5, <1>6, <1>7 DEF FileWrite

LEMMA SeekStep ==
  ASSUME IInv, NEW p \in Processes, FileSeek(p)
  PROVE  IInv'
<1>. USE SectionStep, LockFacts DEF Steps, FdSteps, InodeSteps
<1>1. CASE Section(p, "seek", fd_lock, {"user"})
  BY <1>1
<1>2. CASE /\ At(p, "seek")
           /\ Hold(p, fd_lock) /\ Goto(p, {"seek size"})
           /\ UNCHANGED <<left, holeRead>>
  BY <1>2, KeepStep
<1>3. CASE Section(p, "seek size", inode_lock, {"seek end"})
  BY <1>3
<1>4. CASE Section(p, "seek end", fd_lock, {"user"})
  BY <1>4
<1>. QED BY <1>1, <1>2, <1>3, <1>4 DEF FileSeek

LEMMA InitIInv == Init => IInv
<1>. SUFFICES ASSUME Init PROVE IInv
  OBVIOUS
<1>1. <<>> \in Seq(Processes) /\ IsInjective(<<>>)
  BY DEF IsInjective
<1>2. PICK p \in Processes : pc = [q \in Processes |-> IF q = p THEN "user" ELSE "free"]
  BY DEF Init
<1>3. TypeOK
  BY <1>1, <1>2 DEF Init, TypeOK, Steps
<1>4. LocksAndWaiters /\ AsleepAtAcquisition
  BY EmptyQueue DEF Init, LocksAndWaiters, AsleepAtAcquisition
<1>5. HoldersAreInside
  BY LockFacts DEF Init, HoldersAreInside
<1>6. OneInside
  BY <1>2, LockFacts DEF Init, OneInside
<1>. QED BY <1>3, <1>4, <1>5, <1>6 DEF IInv

LEMMA NextIInv == IInv /\ [Next]_vars => IInv'
<1>. SUFFICES ASSUME IInv, [Next]_vars PROVE IInv'
  OBVIOUS
<1>1. ASSUME NEW p \in Processes, Call(p) \/ Exit(p) \/ Fork(p) PROVE IInv'
  BY <1>1, OutsideStep, OpenStep, CloseOrDeleteStep, ReadStep, WriteStep, SeekStep DEF Call
<1>2. CASE UNCHANGED vars
  BY <1>2
  DEF vars, IInv, TypeOK, LocksAndWaiters, AsleepAtAcquisition, HoldersAreInside, OneInside
<1>. QED BY <1>1, <1>2 DEF Next

-----------------------------------------------------------------------------
(* The theorems *)

\* IInv is inductive: no call of os/files.c and no end of a process breaks it.
THEOREM CallsKeepIInv == Spec => []IInv
<1>1. Init => IInv
  BY InitIInv
<1>2. IInv /\ [Next]_vars => IInv'
  BY NextIInv
<1>. QED BY <1>1, <1>2, PTL DEF Spec

\* The state has its types: no process is in the queue of a lock twice.
THEOREM TypeCorrect == Spec => []TypeOK
<1>1. IInv => TypeOK
  BY DEF IInv
<1>. QED BY <1>1, CallsKeepIInv, PTL

\* LocksAndWaiters for every number of processes: who sleeps on a lock of the
\* file system waits for another process, in one queue, inside a call.
THEOREM WaitersAreWoken == Spec => []LocksAndWaiters
<1>1. IInv => LocksAndWaiters
  BY DEF IInv
<1>. QED BY <1>1, CallsKeepIInv, PTL

\* AtomicWithoutHole for every number of processes: until DfsInodeReadBytes
\* has met a hole in the direct blocks, nobody waits for a lock.
THEOREM CallsAreAtomic == Spec => []AtomicWithoutHole
<1>1. IInv => AtomicWithoutHole
  BY DEF IInv, OneInside, AtomicWithoutHole
<1>. QED BY <1>1, CallsKeepIInv, PTL

\* DeadlockNeedsSeekAndHole for every number of processes: two processes wait
\* for each other only if one is in FileSeek and the other kept inode_lock.
THEOREM DeadlockIsSeekAndHole == Spec => []DeadlockNeedsSeekAndHole
<1>1. ASSUME IInv PROVE DeadlockNeedsSeekAndHole
  <2>. SUFFICES ASSUME NEW p \in Processes, NEW q \in Processes,
                       WaitsFor(p, fd_lock, q), WaitsFor(q, inode_lock, p)
                PROVE  pc[q] = "seek size" /\ left
    BY DEF DeadlockNeedsSeekAndHole
  <2>1. pc[p] \in FdSteps /\ pc[q] \in InodeSteps
    BY <1>1, LockFacts DEF IInv, AsleepAtAcquisition, WaitsFor
  <2>2. pc[q] \in FdSteps \cup {"seek size"} /\ (left \/ pc[p] \in InodeSteps)
    BY <1>1 DEF IInv, HoldersAreInside, WaitsFor
  <2>. QED BY <2>1, <2>2 DEF FdSteps, InodeSteps
<1>. QED BY <1>1, CallsKeepIInv, PTL
=============================================================================
