----------------------------- MODULE Processes ------------------------------
(***************************************************************************)
(* Processes: the queues of os/process.c, the quantum of os/clock.c, the   *)
(* page allocator of os/memory.c under them and the semaphores of          *)
(* lib/synch.o, by which processes put each other to sleep.                *)
(*                                                                         *)
(* Every action is a trap of the running process or a timer interrupt,     *)
(* from its entry to the return into the process that is current then:     *)
(* interrupts are off in between.  A queue is the sequence of its PCBs.    *)
(***************************************************************************)
EXTENDS Integers, SequencesExt

CONSTANTS
  NumProcs,    \* PROCESS_MAX_PROCS
  FirstPage,   \* the first page after the OS
  NumPages,    \* the pages of the machine
  WordBits,    \* pages per word of the bitmap
  Quantum,     \* CLOCK_PROCESS_JIFFIES
  Sems,        \* semaphores
  Counts,      \* bound: the counts they are created with
  MaxCount     \* bound: the count a signal may reach

PCBs == 0 .. NumProcs - 1
Pages == FirstPage .. NumPages - 1     \* page 0 is the OS: 0 means failure
NumWords == (NumPages + WordBits - 1) \div WordBits
Statuses == {"FREE", "RUNNABLE", "WAITING", "ZOMBIE"}

ASSUME ProcessesAssumption ==
  /\ NumProcs \in Nat \ {0}
  /\ FirstPage \in Nat \ {0} /\ NumPages \in Nat /\ FirstPage + 2 <= NumPages
  /\ WordBits \in Nat \ {0}
  /\ Quantum \in Nat \ {0}
  /\ Counts \subseteq Int
  /\ MaxCount \in Nat

VARIABLES
  status,      \* of each PCB
  freepcbs, runQueue, waitQueue, zombieQueue,
  currentPCB,
  pages,       \* the pages of each PCB: pagetable[0] and sysStackArea
  freepages,   \* the pages whose bit is set
  nfreepages,  \* the counter beside the bitmap
  mapnum,      \* the word the last page came from
  jiffies,     \* curtime - last_trigger_jiffies
  count,       \* of each semaphore
  waiting,     \* the queue of each semaphore
  halted       \* why GracefulExit was called, or "no"

queues == <<status, freepcbs, runQueue, waitQueue, zombieQueue>>
memory == <<pages, freepages, nfreepages, mapnum>>
sync == <<count, waiting>>
vars == <<queues, currentPCB, memory, jiffies, sync, halted>>

-----------------------------------------------------------------------------
(* Memory.                                                                 *)

WordOf(page) == page \div WordBits
FreeIn(free, w) == {p \in free : WordOf(p) = w}
Least(S) == CHOOSE x \in S : \A y \in S : x <= y

\* The search starts at the word of the last allocation and wraps around.
NextWord(free, from) ==
  (from + Least({k \in 0 .. NumWords - 1 : FreeIn(free, (from + k) % NumWords) # {}}))
    % NumWords

\* Two pages in turn: the process's own, then its system stack.
FirstWord == NextWord(freepages, mapnum)
UserPage == Least(FreeIn(freepages, FirstWord))
SecondWord == NextWord(freepages \ {UserPage}, FirstWord)
StackPage == Least(FreeIn(freepages \ {UserPage}, SecondWord))

-----------------------------------------------------------------------------
(* Scheduling.                                                             *)

Without(q, p) == RemoveAt(q, CHOOSE i \in 1 .. Len(q) : q[i] = p)

\* Wrong variant: the front of the queue stays where it is.
RotateNothing(q) == q

\* AQueueMoveAfter(&runQueue, AQueueLast(&runQueue), AQueueFirst(&runQueue))
Rotate(q) == IF Len(q) > 1 THEN Append(Tail(q), Head(q)) ELSE q

\* Wrong variant: the process to run is taken before the queue is rotated.
TakenBefore(rq) == Head(rq)

NextToRun(rq) == Head(Rotate(rq))

\* Wrong variant: only one of the two pages is freed.
FreedOne(p) == {Least(pages[p])}

\* MemoryFreePte for the process's page, MemoryFreePage for its stack.
Freed(p) == pages[p]

Stop(why) == halted' = why

\* ProcessSchedule after the caller has left the queues rq, wq and zq and the
\* status st: the first of rq goes to the end, the new first becomes current,
\* and the zombies become free.
ProcessSchedule(rq, wq, zq, st) ==
  /\ waitQueue' = wq
  /\ UNCHANGED mapnum
  /\ IF rq = <<>>
     THEN /\ Stop(IF wq # <<>> THEN "all asleep" ELSE "all done")
          /\ runQueue' = rq
          /\ zombieQueue' = zq
          /\ status' = st
          /\ UNCHANGED <<currentPCB, freepcbs, pages, freepages, nfreepages>>
     ELSE /\ runQueue' = Rotate(rq)
          /\ currentPCB' = NextToRun(rq)
          /\ zombieQueue' = <<>>
          /\ freepcbs' = freepcbs \o zq
          /\ LET dead == Range(zq)
             IN /\ status' = [p \in PCBs |-> IF p \in dead THEN "FREE" ELSE st[p]]
                /\ pages' = [p \in PCBs |-> IF p \in dead THEN {} ELSE pages[p]]
                /\ freepages' = freepages \cup UNION {Freed(p) : p \in dead}
                /\ nfreepages' = nfreepages + 2 * Len(zq)
          /\ UNCHANGED halted

\* ProcessSuspend and ProcessSchedule: TRAP_PROCESS_SLEEP.
ProcessSleep ==
  /\ ProcessSchedule(Without(runQueue, currentPCB), Append(waitQueue, currentPCB),
                     zombieQueue, [status EXCEPT ![currentPCB] = "WAITING"])
  /\ jiffies' = 0

\* Wrong variant: the process stays in the queue of those that sleep.
WakeupStaysLinked(p) ==
  /\ status' = [status EXCEPT ![p] = "RUNNABLE"]
  /\ runQueue' = Append(runQueue, p)
  /\ UNCHANGED <<freepcbs, waitQueue, zombieQueue>>

ProcessWakeup(p) ==
  /\ status' = [status EXCEPT ![p] = "RUNNABLE"]
  /\ waitQueue' = Without(waitQueue, p)
  /\ runQueue' = Append(runQueue, p)
  /\ UNCHANGED <<freepcbs, zombieQueue>>

-----------------------------------------------------------------------------
(* The handlers.                                                           *)

\* TRAP_EXIT: ProcessDestroy and ProcessSchedule.
Exit ==
  /\ ProcessSchedule(Without(runQueue, currentPCB), waitQueue,
                     <<currentPCB>> \o zombieQueue,
                     [status EXCEPT ![currentPCB] = "ZOMBIE"])
  /\ jiffies' = 0
  /\ UNCHANGED sync

\* TRAP_CONTEXT_SWITCH
ContextSwitch ==
  /\ ProcessSchedule(runQueue, waitQueue, zombieQueue, status)
  /\ jiffies' = 0
  /\ UNCHANGED sync

\* TRAP_TIMER: ClkInterrupt decides whether the quantum is over.
TimerInterrupt ==
  /\ UNCHANGED sync
  /\ IF jiffies + 1 > Quantum
     THEN /\ jiffies' = 0
          /\ ProcessSchedule(runQueue, waitQueue, zombieQueue, status)
     ELSE /\ jiffies' = jiffies + 1
          /\ UNCHANGED <<queues, currentPCB, memory, halted>>

\* ProcessFork without a free PCB or without two free pages.
ForkStops ==
  /\ freepcbs = <<>> \/ nfreepages < 2
  /\ Stop("out of resources")
  /\ UNCHANGED <<queues, currentPCB, memory, jiffies, sync>>

\* ProcessFork of a program that exists.
ProcessFork ==
  /\ freepcbs # <<>> /\ nfreepages >= 2
  /\ LET p == Head(freepcbs)
     IN /\ freepcbs' = Tail(freepcbs)
        /\ status' = [status EXCEPT ![p] = "RUNNABLE"]
        /\ pages' = [pages EXCEPT ![p] = {UserPage, StackPage}]
        /\ runQueue' = Append(runQueue, p)
  /\ freepages' = freepages \ {UserPage, StackPage}
  /\ nfreepages' = nfreepages - 2
  /\ mapnum' = SecondWord
  /\ UNCHANGED <<waitQueue, zombieQueue, currentPCB, jiffies, sync, halted>>

\* ProcessFork of a program that does not exist: ProcessFreeResources gives
\* everything back, the PCB to the end of its queue.
ForkFails ==
  /\ freepcbs # <<>> /\ nfreepages >= 2
  /\ freepcbs' = Append(Tail(freepcbs), Head(freepcbs))
  /\ mapnum' = SecondWord
  /\ UNCHANGED <<status, runQueue, waitQueue, zombieQueue, currentPCB, pages,
                 freepages, nfreepages, jiffies, sync, halted>>

\* Wrong variant: the count is taken also by those that sleep, as if the signal
\* that wakes them did not take it.
SemWaitAlwaysTakes(s) ==
  /\ count' = [count EXCEPT ![s] = @ - 1]
  /\ IF count[s] <= 0
     THEN /\ waiting' = [waiting EXCEPT ![s] = Append(@, currentPCB)]
          /\ ProcessSleep
     ELSE UNCHANGED <<queues, currentPCB, memory, jiffies, waiting, halted>>

SemWait(s) ==
  IF count[s] <= 0
  THEN /\ waiting' = [waiting EXCEPT ![s] = Append(@, currentPCB)]
       /\ ProcessSleep
       /\ UNCHANGED count
  ELSE /\ count' = [count EXCEPT ![s] = @ - 1]
       /\ UNCHANGED <<queues, currentPCB, memory, jiffies, waiting, halted>>

\* Wrong variant: the count is left for the next wait as well.
SemSignalTwice(s) ==
  /\ count[s] < MaxCount
  /\ count' = [count EXCEPT ![s] = @ + 1]
  /\ IF count[s] + 1 > 0 /\ waiting[s] # <<>>
     THEN /\ waiting' = [waiting EXCEPT ![s] = Tail(@)]
          /\ ProcessWakeup(Head(waiting[s]))
     ELSE UNCHANGED <<queues, waiting>>
  /\ UNCHANGED <<currentPCB, memory, jiffies, halted>>

SemSignal(s) ==
  /\ count[s] < MaxCount
  /\ IF count[s] + 1 > 0 /\ waiting[s] # <<>>
     THEN /\ waiting' = [waiting EXCEPT ![s] = Tail(@)]
          /\ ProcessWakeup(Head(waiting[s]))
          /\ UNCHANGED count        \* incremented, then decremented
     ELSE /\ count' = [count EXCEPT ![s] = @ + 1]
          /\ UNCHANGED <<queues, waiting>>
  /\ UNCHANGED <<currentPCB, memory, jiffies, halted>>

-----------------------------------------------------------------------------

\* ProcessModuleInit links each PCB in front of the last one, and main forks
\* the first program.
Init ==
  /\ status = [p \in PCBs |-> IF p = NumProcs - 1 THEN "RUNNABLE" ELSE "FREE"]
  /\ freepcbs = Reverse([i \in 1 .. NumProcs - 1 |-> i - 1])
  /\ runQueue = <<NumProcs - 1>>
  /\ waitQueue = <<>>
  /\ zombieQueue = <<>>
  /\ currentPCB = NumProcs - 1
  /\ pages = [p \in PCBs |-> IF p = NumProcs - 1 THEN {FirstPage, FirstPage + 1} ELSE {}]
  /\ freepages = Pages \ {FirstPage, FirstPage + 1}
  /\ nfreepages = NumPages - FirstPage - 2
  /\ mapnum = WordOf(FirstPage + 1)
  /\ jiffies = 0
  /\ count \in [Sems -> Counts]
  /\ waiting = [s \in Sems |-> <<>>]
  /\ halted = "no"

Next ==
  /\ halted = "no"
  /\ \/ Exit
     \/ ContextSwitch
     \/ TimerInterrupt
     \/ ForkStops
     \/ ProcessFork
     \/ ForkFails
     \/ \E s \in Sems : SemWait(s)
     \/ \E s \in Sems : SemSignal(s)

\* The timer is started by main and set again by every interrupt
\* (process.c:849, clock.c:56).
Spec == Init /\ [][Next]_vars /\ WF_vars(halted = "no" /\ TimerInterrupt)

-----------------------------------------------------------------------------
(* Properties.                                                             *)

\* The types: queues of PCBs, pages of the machine, a quantum that is never
\* exceeded, and counts that no wait takes below their start
\* (process.c:64-91, memory.c:111-136).
TypeOK ==
  /\ status \in [PCBs -> Statuses]
  /\ freepcbs \in Seq(PCBs) /\ runQueue \in Seq(PCBs)
  /\ waitQueue \in Seq(PCBs) /\ zombieQueue \in Seq(PCBs)
  /\ currentPCB \in PCBs
  /\ pages \in [PCBs -> SUBSET Pages]
  /\ freepages \subseteq Pages
  /\ nfreepages \in 0 .. NumPages - FirstPage
  /\ mapnum \in 0 .. NumWords - 1
  /\ jiffies \in 0 .. Quantum
  /\ DOMAIN count = Sems
  /\ \A s \in Sems : /\ count[s] \in Int
                     /\ count[s] < 0 => \E c \in Counts : c <= count[s]
  /\ waiting \in [Sems -> Seq(PCBs)]

HasStatus(st) == {p \in PCBs : status[p] = st}
HoldsOnce(q, S) == IsInjective(q) /\ Range(q) = S

\* Every PCB is in exactly one queue, once, and its status says which: none is
\* lost and none can be run, woken or handed out twice, over any sequence of
\* forks, sleeps, wakeups and exits (process.c:238-322, 372, 539).
QueuesMatchStatus ==
  /\ HoldsOnce(freepcbs, HasStatus("FREE"))
  /\ HoldsOnce(runQueue, HasStatus("RUNNABLE"))
  /\ HoldsOnce(waitQueue, HasStatus("WAITING"))
  /\ HoldsOnce(zombieQueue, HasStatus("ZOMBIE"))

\* While the system runs the current process is the first of the run queue,
\* and so is runnable: it can be suspended (the assertion of process.c:241),
\* and nothing is left of those that ended (process.c:204-223).
CurrentRunsFirst ==
  halted = "no" => /\ runQueue # <<>> /\ currentPCB = Head(runQueue)
                   /\ zombieQueue = <<>>

\* Pages are neither lost nor shared: the free ones and those of the processes
\* are all there are, each live process has two of its own, and the counter
\* that MemoryAllocPage trusts before it searches the bitmap is the number of
\* its bits, so that the search ends (memory.c:117-126, process.c:130-135).
PagesConserved ==
  /\ freepages \cup UNION {pages[p] : p \in PCBs} = Pages
  /\ \A p \in PCBs : pages[p] \cap freepages = {}
  /\ \A p, q \in PCBs : p # q => pages[p] \cap pages[q] = {}
  /\ \A p \in PCBs : Cardinality(pages[p]) = IF status[p] = "FREE" THEN 0 ELSE 2
  /\ nfreepages = Cardinality(freepages)

\* No wakeup is lost: whoever sleeps is in the queue of one semaphore, once,
\* whoever is in such a queue sleeps (the assertion of process.c:275 holds),
\* and nobody sleeps on a semaphore that has a count (synch.o, SemWait and
\* SemSignal).
SleepersAccounted ==
  /\ \A s \in Sems : IsInjective(waiting[s]) /\ (count[s] > 0 => waiting[s] = <<>>)
  /\ \A s, t \in Sems : s # t => Range(waiting[s]) \cap Range(waiting[t]) = {}
  /\ HasStatus("WAITING") = UNION {Range(waiting[s]) : s \in Sems}

\* The processor is shared: if from some time on it only changes hands because
\* a quantum is over, every runnable process gets its turn
\* (clock.c:53-70, traps.c:781-788, process.c:204-208).
QuantumSwitches == currentPCB' # currentPCB => jiffies = Quantum /\ status' = status
TimeShared ==
  <>[][QuantumSwitches]_vars =>
    \A p \in PCBs : status[p] = "RUNNABLE" ~> (currentPCB = p \/ halted # "no")

\* What process.c:203-206 says of a switch: the process in front of the queue,
\* which goes to the end, was the running one, so that the one behind it is the
\* one that runs next.
NextInLineRuns ==
  [][currentPCB' # currentPCB => currentPCB' = runQueue[2]]_vars
=============================================================================
