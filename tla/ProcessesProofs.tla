-------------------------- MODULE ProcessesProofs --------------------------
(***************************************************************************)
(* Proofs about Processes for every number of PCBs, pages and semaphores:  *)
(* each PCB is in the queue of its status, the current process is first in *)
(* the run queue, pages are neither lost nor shared, and no wakeup is      *)
(* lost.                                                                   *)
(***************************************************************************)
EXTENDS Processes, QueueTheorems

\* While the system runs there are no zombies, so that a switch frees the
\* process that has just ended and no other.
IInv ==
  TypeOK /\ QueuesMatchStatus /\ CurrentRunsFirst /\ PagesConserved /\ SleepersAccounted
-----------------------------------------------------------------------------
(* The search of MemoryAllocPage *)

LEMMA WordFacts ==
  /\ NumWords \in Nat \ {0}
  /\ \A p \in Pages : WordOf(p) \in 0 .. NumWords - 1
  /\ Pages \subseteq Nat
<1>1. /\ NumPages \in Nat /\ WordBits \in Nat /\ WordBits > 0
      /\ FirstPage \in Nat /\ FirstPage > 0 /\ NumPages > 0
  BY ProcessesAssumption
<1>2. NumWords \in Nat
  BY <1>1 DEF NumWords
<1>3. Pages \subseteq Nat /\ \A p \in Pages : p < NumPages
  BY <1>1 DEF Pages
<1>4. ASSUME NEW p \in Nat, p < NumPages PROVE WordOf(p) \in Nat /\ WordOf(p) < NumWords
  BY <1>1, <1>4 DEF WordOf, NumWords
<1>5. 0 \in Nat /\ 0 < NumPages
  BY <1>1
<1>6. NumWords # 0
  BY <1>2, <1>4, <1>5
<1>. QED BY <1>2, <1>3, <1>4, <1>6

\* The word k places behind the word from, around the end.
LEMMA WrapsAround ==
  ASSUME NEW n \in Nat \ {0}, NEW from \in 0 .. n - 1, NEW w \in 0 .. n - 1
  PROVE  \E k \in 0 .. n - 1 : (from + k) % n = w
<1>1. CASE from <= w
  <2>1. w - from \in 0 .. n - 1 /\ from + (w - from) = w /\ w % n = w
    BY <1>1
  <2>. QED BY <2>1
<1>2. CASE w < from
  <2>. DEFINE k == n + w - from
  <2>1. k \in 0 .. n - 1 /\ from + k = n + w
    BY <1>2
  <2>2. (n + w) % n = w
    OBVIOUS
  <2>. QED BY <2>1, <2>2
<1>. QED BY <1>1, <1>2

\* As long as a page is free, the search ends at a word with a free page.
LEMMA SearchEnds ==
  ASSUME NEW free \in SUBSET Pages, free # {}, NEW from \in 0 .. NumWords - 1
  PROVE  /\ NextWord(free, from) \in 0 .. NumWords - 1
         /\ Least(FreeIn(free, NextWord(free, from))) \in free
<1>. DEFINE Full == {k \in 0 .. NumWords - 1 : FreeIn(free, (from + k) % NumWords) # {}}
<1>1. PICK p \in free : TRUE
  OBVIOUS
<1>2. NumWords \in Nat \ {0} /\ WordOf(p) \in 0 .. NumWords - 1 /\ free \subseteq Nat
  BY WordFacts
<1>3. PICK k \in 0 .. NumWords - 1 : (from + k) % NumWords = WordOf(p)
  BY <1>2, WrapsAround
<1>4. k \in Full
  BY <1>3 DEF FreeIn
<1>5. Full \in SUBSET Nat /\ Full # {}
  <2>1. Full \subseteq 0 .. NumWords - 1
    OBVIOUS
  <2>. HIDE DEF Full
  <2>. QED BY <1>2, <1>4, <2>1
<1>6. Least(Full) \in Full
  BY <1>5, LeastIsChosen DEF Least
<1>7. NextWord(free, from) = (from + Least(Full)) % NumWords
  BY DEF NextWord
<1>8. FreeIn(free, NextWord(free, from)) # {}
  BY <1>6, <1>7
<1>9. NextWord(free, from) \in 0 .. NumWords - 1
  <2>1. Least(Full) \in Nat
    BY <1>2, <1>6
  <2>. HIDE DEF Full
  <2>. QED BY <1>2, <1>7, <2>1
<1>10. FreeIn(free, NextWord(free, from)) \in SUBSET Nat
  BY <1>2 DEF FreeIn
<1>11. Least(FreeIn(free, NextWord(free, from))) \in FreeIn(free, NextWord(free, from))
  BY <1>8, <1>10, LeastIsChosen DEF Least
<1>. QED BY <1>9, <1>11 DEF FreeIn

LEMMA PagesFinite ==
  /\ IsFiniteSet(Pages) /\ Cardinality(Pages) = NumPages - FirstPage
  /\ \A S \in SUBSET Pages : /\ IsFiniteSet(S) /\ Cardinality(S) \in Nat
                             /\ Cardinality(S) <= NumPages - FirstPage
                             /\ Cardinality(S) = 0 <=> S = {}
<1>1. FirstPage \in Int /\ NumPages - 1 \in Int /\ FirstPage <= NumPages - 1
  BY ProcessesAssumption
<1>2. IsFiniteSet(Pages) /\ Cardinality(Pages) = NumPages - 1 - FirstPage + 1
  BY <1>1, FS_Interval DEF Pages
<1>3. ASSUME NEW S \in SUBSET Pages
      PROVE  /\ IsFiniteSet(S) /\ Cardinality(S) \in Nat
             /\ Cardinality(S) <= Cardinality(Pages)
             /\ Cardinality(S) = 0 <=> S = {}
  BY <1>2, FS_Subset, FS_CardinalityType, FS_EmptySet
<1>4. NumPages - 1 - FirstPage + 1 = NumPages - FirstPage
  BY ProcessesAssumption
<1>. QED BY <1>2, <1>3, <1>4

\* Two pages that are free are what ProcessFork takes.
LEMMA TwoPages ==
  ASSUME TypeOK, PagesConserved, nfreepages >= 2
  PROVE  /\ UserPage \in freepages /\ StackPage \in freepages \ {UserPage}
         /\ SecondWord \in 0 .. NumWords - 1
         /\ Cardinality({UserPage, StackPage}) = 2
         /\ Cardinality(freepages \ {UserPage, StackPage}) = nfreepages - 2
<1>1. /\ freepages \in SUBSET Pages /\ mapnum \in 0 .. NumWords - 1
      /\ nfreepages = Cardinality(freepages)
  BY DEF TypeOK, PagesConserved
<1>2. IsFiniteSet(freepages) /\ Cardinality(freepages) \in Nat
  BY <1>1, PagesFinite
<1>3. freepages # {}
  BY <1>1, <1>2, FS_EmptySet
<1>4. UserPage \in freepages /\ FirstWord \in 0 .. NumWords - 1
  BY <1>1, <1>3, SearchEnds DEF UserPage, FirstWord
<1>5. /\ IsFiniteSet(freepages \ {UserPage})
      /\ Cardinality(freepages \ {UserPage}) = nfreepages - 1
  BY <1>1, <1>2, <1>4, FS_RemoveElement
<1>6. freepages \ {UserPage} # {}
  BY <1>1, <1>2, <1>5, FS_EmptySet
<1>7. StackPage \in freepages \ {UserPage} /\ SecondWord \in 0 .. NumWords - 1
  BY <1>1, <1>4, <1>6, SearchEnds DEF StackPage, SecondWord
<1>8. Cardinality((freepages \ {UserPage}) \ {StackPage}) = nfreepages - 2
  <2>1. Cardinality((freepages \ {UserPage}) \ {StackPage})
          = Cardinality(freepages \ {UserPage}) - 1
    BY <1>5, <1>7, FS_RemoveElement
  <2>. QED BY <1>1, <1>2, <1>5, <2>1
<1>9. (freepages \ {UserPage}) \ {StackPage} = freepages \ {UserPage, StackPage}
  OBVIOUS
<1>10. Cardinality({UserPage, StackPage}) = 2
  <2>1. IsFiniteSet({UserPage}) /\ Cardinality({UserPage}) = 1 /\ StackPage \notin {UserPage}
    BY <1>7, FS_Singleton
  <2>2. Cardinality({UserPage} \cup {StackPage}) = 1 + 1
    BY <2>1, FS_AddElement
  <2>3. {UserPage} \cup {StackPage} = {UserPage, StackPage}
    OBVIOUS
  <2>. QED BY <2>2, <2>3
<1>. QED BY <1>4, <1>7, <1>8, <1>9, <1>10

-----------------------------------------------------------------------------
(* The queues *)

LEMMA EmptyQueue ==
  /\ <<>> \in Seq(PCBs) /\ Range(<<>>) = {} /\ IsInjective(<<>>) /\ Len(<<>>) = 0
  /\ \A q \in Seq(PCBs) : Range(q) = {} <=> q = <<>>
<1>1. <<>> \in Seq(PCBs) /\ Len(<<>>) = 0 /\ DOMAIN <<>> = {}
  BY EmptySeq
<1>2. Range(<<>>) = {} /\ IsInjective(<<>>)
  BY <1>1 DEF Range, IsInjective
<1>3. ASSUME NEW q \in Seq(PCBs), Range(q) = {} PROVE q = <<>>
  <2>1. Range(q) = {q[i] : i \in 1 .. Len(q)} /\ Len(q) \in Nat
    BY RangeEquality, LenProperties
  <2>2. Len(q) = 0
    <3>1. Len(q) > 0 => 1 \in 1 .. Len(q)
      BY <2>1
    <3>2. Len(q) > 0 => q[1] \in Range(q)
      BY <2>1, <3>1
    <3>. QED BY <1>3, <2>1, <3>2
  <2>. QED BY <2>2, EmptySeq
<1>. QED BY <1>1, <1>2, <1>3

LEMMA SingleQueue ==
  ASSUME NEW p \in PCBs
  PROVE  /\ <<p>> \in Seq(PCBs) /\ Range(<<p>>) = {p} /\ IsInjective(<<p>>)
         /\ <<p>> # <<>> /\ Head(<<p>>) = p /\ Len(<<p>>) = 1
         /\ <<p>> \o <<>> = <<p>>
<1>1. <<p>> = Append(<<>>, p)
  OBVIOUS
<1>2. /\ <<p>> \in Seq(PCBs) /\ Range(<<p>>) = {p} /\ IsInjective(<<p>>)
  <2>1. <<>> \in Seq(PCBs) /\ Range(<<>>) = {} /\ IsInjective(<<>>) /\ p \notin Range(<<>>)
    BY EmptyQueue
  <2>2. /\ Append(<<>>, p) \in Seq(PCBs) /\ IsInjective(Append(<<>>, p))
        /\ Range(Append(<<>>, p)) = Range(<<>>) \cup {p}
    BY <2>1, AppendToQueue
  <2>. QED BY <1>1, <2>1, <2>2
<1>3. <<p>> # <<>> /\ Head(<<p>>) = p /\ Len(<<p>>) = 1
  OBVIOUS
<1>4. <<p>> \o <<>> = <<p>>
  BY <1>2, ConcatEmptySeq
<1>. QED BY <1>2, <1>3, <1>4

LEMMA WithoutFacts ==
  ASSUME NEW q \in Seq(PCBs), IsInjective(q), NEW p \in Range(q)
  PROVE  /\ Without(q, p) \in Seq(PCBs)
         /\ Range(Without(q, p)) = Range(q) \ {p}
         /\ IsInjective(Without(q, p))
<1>. DEFINE i == CHOOSE k \in 1 .. Len(q) : q[k] = p
<1>1. \E k \in 1 .. Len(q) : q[k] = p
  BY RangeEquality
<1>2. i \in 1 .. Len(q) /\ q[i] = p
  BY <1>1
<1>. HIDE DEF i
<1>3. Without(q, p) = RemoveAt(q, i)
  BY DEF Without, i
<1>. QED BY <1>2, <1>3, RemoveFromQueue

LEMMA RotateFacts ==
  ASSUME NEW q \in Seq(PCBs), IsInjective(q)
  PROVE  /\ Rotate(q) \in Seq(PCBs)
         /\ Range(Rotate(q)) = Range(q)
         /\ IsInjective(Rotate(q))
         /\ q # <<>> => /\ Rotate(q) # <<>> /\ Head(Rotate(q)) \in PCBs
                        /\ NextToRun(q) = Head(Rotate(q))
<1>1. CASE Len(q) > 1
  <2>1. q # <<>> /\ Rotate(q) = Append(Tail(q), Head(q))
    BY <1>1, EmptySeq DEF Rotate
  <2>2. /\ Head(q) \in PCBs /\ Head(q) \in Range(q)
        /\ Tail(q) \in Seq(PCBs) /\ Range(Tail(q)) = Range(q) \ {Head(q)}
        /\ IsInjective(Tail(q))
    BY <2>1, TailOfQueue
  <2>3. /\ Rotate(q) \in Seq(PCBs) /\ Range(Rotate(q)) = Range(q)
        /\ IsInjective(Rotate(q))
    <3>. DEFINE h == Head(q)
                t == Tail(q)
    <3>1. h \in PCBs /\ t \in Seq(PCBs) /\ IsInjective(t) /\ h \notin Range(t)
      BY <2>2
    <3>. HIDE DEF h, t
    <3>2. /\ Append(t, h) \in Seq(PCBs) /\ Range(Append(t, h)) = Range(t) \cup {h}
          /\ IsInjective(Append(t, h))
      BY <3>1, AppendToQueue
    <3>. QED BY <2>1, <2>2, <3>2 DEF h, t
  <2>4. Rotate(q) # <<>>
    BY <2>2, <2>3, EmptyQueue
  <2>. QED BY <2>3, <2>4, HeadTailProperties DEF NextToRun
<1>2. CASE ~(Len(q) > 1)
  <2>1. Rotate(q) = q
    BY <1>2 DEF Rotate
  <2>. QED BY <2>1, HeadTailProperties DEF NextToRun
<1>. QED BY <1>1, <1>2

-----------------------------------------------------------------------------
(* The scheduler *)

\* QueuesMatchStatus and PagesConserved between the steps of a trap, where the
\* queues and the status have changed and the variables have not.
With(st, x) == {p \in PCBs : st[p] = x}
Match(fq, rq, wq, zq, st) ==
  /\ HoldsOnce(fq, With(st, "FREE"))
  /\ HoldsOnce(rq, With(st, "RUNNABLE"))
  /\ HoldsOnce(wq, With(st, "WAITING"))
  /\ HoldsOnce(zq, With(st, "ZOMBIE"))
Conserved(st) ==
  /\ freepages \cup UNION {pages[p] : p \in PCBs} = Pages
  /\ \A p \in PCBs : pages[p] \cap freepages = {}
  /\ \A p, q \in PCBs : p # q => pages[p] \cap pages[q] = {}
  /\ \A p \in PCBs : Cardinality(pages[p]) = IF st[p] = "FREE" THEN 0 ELSE 2
  /\ nfreepages = Cardinality(freepages)
QueueTypes ==
  /\ status \in [PCBs -> Statuses]
  /\ freepcbs \in Seq(PCBs) /\ runQueue \in Seq(PCBs)
  /\ waitQueue \in Seq(PCBs) /\ zombieQueue \in Seq(PCBs)
  /\ currentPCB \in PCBs
PageTypes ==
  /\ pages \in [PCBs -> SUBSET Pages]
  /\ freepages \subseteq Pages
  /\ nfreepages \in 0 .. NumPages - FirstPage
  /\ mapnum \in 0 .. NumWords - 1

\* The switch when nobody has ended.
LEMMA ScheduleWithoutZombie ==
  ASSUME QueueTypes, PageTypes,
         NEW rq \in Seq(PCBs), NEW wq \in Seq(PCBs), NEW st \in [PCBs -> Statuses],
         Match(freepcbs, rq, wq, <<>>, st), Conserved(st),
         ProcessSchedule(rq, wq, <<>>, st), halted = "no"
  PROVE  /\ QueueTypes' /\ PageTypes' /\ QueuesMatchStatus' /\ CurrentRunsFirst'
         /\ PagesConserved' /\ status' = st
<1>1. waitQueue' = wq /\ mapnum' = mapnum
  BY DEF ProcessSchedule
<1>2. CASE rq = <<>>
  <2>1. /\ runQueue' = rq /\ zombieQueue' = <<>> /\ status' = st
        /\ currentPCB' = currentPCB /\ freepcbs' = freepcbs /\ pages' = pages
        /\ freepages' = freepages /\ nfreepages' = nfreepages /\ halted' # "no"
    BY <1>2 DEF ProcessSchedule, Stop
  <2>2. QueueTypes' /\ PageTypes'
    BY <1>1, <2>1, EmptyQueue DEF QueueTypes, PageTypes
  <2>3. QueuesMatchStatus'
    BY <1>1, <2>1 DEF QueuesMatchStatus, Match, With, HasStatus, HoldsOnce
  <2>4. CurrentRunsFirst' /\ PagesConserved'
    BY <2>1 DEF CurrentRunsFirst, PagesConserved, Conserved
  <2>. QED BY <2>1, <2>2, <2>3, <2>4
<1>3. CASE rq # <<>>
  <2>1. /\ runQueue' = Rotate(rq) /\ currentPCB' = NextToRun(rq)
        /\ zombieQueue' = <<>> /\ freepcbs' = freepcbs \o <<>>
        /\ status' = [p \in PCBs |-> IF p \in Range(<<>>) THEN "FREE" ELSE st[p]]
        /\ pages' = [p \in PCBs |-> IF p \in Range(<<>>) THEN {} ELSE pages[p]]
        /\ freepages' = freepages \cup UNION {Freed(p) : p \in Range(<<>>)}
        /\ nfreepages' = nfreepages + 2 * Len(<<>>) /\ halted' = halted
    BY <1>3 DEF ProcessSchedule
  <2>2. freepcbs' = freepcbs
    BY <2>1, ConcatEmptySeq DEF QueueTypes
  <2>3. status' = st /\ pages' = pages
    BY <2>1, EmptyQueue DEF PageTypes
  <2>4. freepages' = freepages
    BY <2>1, EmptyQueue
  <2>5. nfreepages' = nfreepages
    <3>1. nfreepages \in Int
      BY DEF PageTypes
    <3>. QED BY <2>1, <3>1, EmptyQueue
  <2>6. IsInjective(rq) /\ Range(rq) = With(st, "RUNNABLE")
    BY DEF Match, HoldsOnce
  <2>7. /\ runQueue' \in Seq(PCBs) /\ Range(runQueue') = Range(rq)
        /\ IsInjective(runQueue') /\ runQueue' # <<>>
        /\ currentPCB' = Head(runQueue') /\ currentPCB' \in PCBs
    BY <1>3, <2>1, <2>6, RotateFacts
  <2>8. QueueTypes' /\ PageTypes'
    BY <1>1, <2>1, <2>2, <2>3, <2>4, <2>5, <2>7, EmptyQueue DEF QueueTypes, PageTypes
  <2>9. QueuesMatchStatus'
    BY <1>1, <2>1, <2>2, <2>3, <2>6, <2>7
       DEF QueuesMatchStatus, Match, With, HasStatus, HoldsOnce
  <2>10. CurrentRunsFirst'
    BY <2>1, <2>7 DEF CurrentRunsFirst
  <2>11. PagesConserved'
    BY <2>3, <2>4, <2>5 DEF PagesConserved, Conserved
  <2>. QED BY <2>3, <2>8, <2>9, <2>10, <2>11
<1>. QED BY <1>2, <1>3

\* The switch from a process that has ended: its PCB and its two pages become
\* free, unless no process is left to run.
LEMMA ScheduleWithZombie ==
  ASSUME QueueTypes, PageTypes,
         NEW rq \in Seq(PCBs), NEW wq \in Seq(PCBs), NEW st \in [PCBs -> Statuses],
         NEW z \in PCBs,
         Match(freepcbs, rq, wq, <<z>>, st), Conserved(st),
         ProcessSchedule(rq, wq, <<z>>, st), halted = "no"
  PROVE  /\ QueueTypes' /\ PageTypes' /\ QueuesMatchStatus' /\ CurrentRunsFirst'
         /\ PagesConserved' /\ HasStatus("WAITING")' = With(st, "WAITING")
<1>1. waitQueue' = wq /\ mapnum' = mapnum
  BY DEF ProcessSchedule
<1>z. /\ <<z>> \in Seq(PCBs) /\ Range(<<z>>) = {z} /\ Len(<<z>>) = 1
  BY SingleQueue
<1>s. st[z] = "ZOMBIE" /\ \A p \in PCBs : st[p] = "ZOMBIE" => p = z
  BY <1>z DEF Match, HoldsOnce, With
<1>2. CASE rq = <<>>
  <2>1. /\ runQueue' = rq /\ zombieQueue' = <<z>> /\ status' = st
        /\ currentPCB' = currentPCB /\ freepcbs' = freepcbs /\ pages' = pages
        /\ freepages' = freepages /\ nfreepages' = nfreepages /\ halted' # "no"
    BY <1>2 DEF ProcessSchedule, Stop
  <2>2. QueueTypes' /\ PageTypes'
    BY <1>1, <1>z, <2>1 DEF QueueTypes, PageTypes
  <2>3. QueuesMatchStatus'
    BY <1>1, <2>1 DEF QueuesMatchStatus, Match, With, HasStatus, HoldsOnce
  <2>4. CurrentRunsFirst' /\ PagesConserved'
    BY <2>1 DEF CurrentRunsFirst, PagesConserved, Conserved
  <2>. QED BY <2>1, <2>2, <2>3, <2>4 DEF HasStatus, With
<1>3. CASE rq # <<>>
  <2>1. /\ runQueue' = Rotate(rq) /\ currentPCB' = NextToRun(rq)
        /\ zombieQueue' = <<>> /\ freepcbs' = freepcbs \o <<z>>
        /\ status' = [p \in PCBs |-> IF p \in Range(<<z>>) THEN "FREE" ELSE st[p]]
        /\ pages' = [p \in PCBs |-> IF p \in Range(<<z>>) THEN {} ELSE pages[p]]
        /\ freepages' = freepages \cup UNION {Freed(p) : p \in Range(<<z>>)}
        /\ nfreepages' = nfreepages + 2 * Len(<<z>>) /\ halted' = halted
    BY <1>3 DEF ProcessSchedule
  <2>2. /\ freepcbs' \in Seq(PCBs) /\ IsInjective(freepcbs')
        /\ Range(freepcbs') = With(st, "FREE") \cup {z}
    <3>1. freepcbs' = Append(freepcbs, z)
      BY <2>1, AppendIsConcat DEF QueueTypes
    <3>2. IsInjective(freepcbs) /\ Range(freepcbs) = With(st, "FREE") /\ z \notin Range(freepcbs)
      BY <1>s DEF Match, HoldsOnce, With
    <3>. QED BY <3>1, <3>2, AppendToQueue DEF QueueTypes
  <2>3. /\ status' = [p \in PCBs |-> IF p = z THEN "FREE" ELSE st[p]]
        /\ pages' = [p \in PCBs |-> IF p = z THEN {} ELSE pages[p]]
        /\ freepages' = freepages \cup pages[z]
    BY <1>z, <2>1 DEF Freed
  <2>4. nfreepages' = nfreepages + 2
    BY <1>z, <2>1
  <2>5. IsInjective(rq) /\ Range(rq) = With(st, "RUNNABLE")
    BY DEF Match, HoldsOnce
  <2>6. /\ runQueue' \in Seq(PCBs) /\ Range(runQueue') = Range(rq)
        /\ IsInjective(runQueue') /\ runQueue' # <<>>
        /\ currentPCB' = Head(runQueue') /\ currentPCB' \in PCBs
    BY <1>3, <2>1, <2>5, RotateFacts
  <2>7. /\ HasStatus("FREE")' = With(st, "FREE") \cup {z}
        /\ HasStatus("RUNNABLE")' = With(st, "RUNNABLE")
        /\ HasStatus("WAITING")' = With(st, "WAITING")
        /\ HasStatus("ZOMBIE")' = {}
    BY <1>s, <2>3 DEF HasStatus, With
  <2>8. QueuesMatchStatus'
    BY <1>1, <2>1, <2>2, <2>5, <2>6, <2>7, EmptyQueue
       DEF QueuesMatchStatus, Match, HoldsOnce
  <2>9. CurrentRunsFirst'
    BY <2>1, <2>6 DEF CurrentRunsFirst
  <2>10. pages' \in [PCBs -> SUBSET Pages] /\ freepages' \in SUBSET Pages
    BY <2>3 DEF PageTypes
  <2>11. nfreepages' = Cardinality(freepages')
    <3>1. /\ IsFiniteSet(freepages) /\ IsFiniteSet(pages[z])
          /\ Cardinality(freepages) \in Nat
      BY PagesFinite DEF PageTypes
    <3>2. Cardinality(pages[z]) = 2 /\ nfreepages = Cardinality(freepages)
      BY <1>s DEF Conserved
    <3>3. Cardinality(freepages \cap pages[z]) = 0
      <4>1. freepages \cap pages[z] = {}
        BY DEF Conserved
      <4>. QED BY <4>1, FS_EmptySet
    <3>4. Cardinality(freepages \cup pages[z])
            = Cardinality(freepages) + Cardinality(pages[z])
              - Cardinality(freepages \cap pages[z])
      BY <3>1, FS_Union
    <3>5. Cardinality(freepages \cup pages[z]) = Cardinality(freepages) + 2
      BY <3>1, <3>2, <3>3, <3>4
    <3>. QED BY <2>3, <2>4, <3>2, <3>5
  <2>12. PagesConserved'
    <3>1. freepages' \cup UNION {pages'[p] : p \in PCBs} = Pages
      <4>1. freepages \cup UNION {pages[p] : p \in PCBs} = Pages
        BY DEF Conserved
      <4>. QED BY <2>3, <4>1
    <3>2. /\ \A p \in PCBs : pages'[p] \cap freepages' = {}
          /\ \A p, q \in PCBs : p # q => pages'[p] \cap pages'[q] = {}
      BY <2>3 DEF Conserved
    <3>3. ASSUME NEW p \in PCBs
          PROVE  Cardinality(pages'[p]) = IF status'[p] = "FREE" THEN 0 ELSE 2
      BY <2>3, FS_EmptySet DEF Conserved
    <3>. QED BY <2>11, <3>1, <3>2, <3>3 DEF PagesConserved
  <2>13. QueueTypes'
    <3>1. status' \in [PCBs -> Statuses]
      BY <2>3 DEF Statuses
    <3>. QED BY <1>1, <2>1, <2>2, <2>6, <3>1, EmptyQueue DEF QueueTypes
  <2>14. PageTypes'
    <3>1. nfreepages' \in 0 .. NumPages - FirstPage
      BY <2>10, <2>11, PagesFinite, ProcessesAssumption
    <3>. QED BY <1>1, <2>10, <3>1 DEF PageTypes
  <2>. QED BY <2>7, <2>8, <2>9, <2>12, <2>13, <2>14
<1>. QED BY <1>2, <1>3

-----------------------------------------------------------------------------
(* The handlers *)

SyncTypes ==
  /\ DOMAIN count = Sems
  /\ \A s \in Sems : /\ count[s] \in Int
                     /\ count[s] < 0 => \E c \in Counts : c <= count[s]
  /\ waiting \in [Sems -> Seq(PCBs)]

LEMMA TypesInParts ==
  TypeOK <=> QueueTypes /\ PageTypes /\ jiffies \in 0 .. Quantum /\ SyncTypes
BY DEF TypeOK, QueueTypes, PageTypes, SyncTypes

LEMMA Running ==
  ASSUME IInv, halted = "no"
  PROVE  /\ QueueTypes /\ PageTypes /\ SyncTypes /\ jiffies \in 0 .. Quantum
         /\ zombieQueue = <<>>
         /\ Match(freepcbs, runQueue, waitQueue, <<>>, status) /\ Conserved(status)
         /\ currentPCB \in Range(runQueue) /\ status[currentPCB] = "RUNNABLE"
         /\ HasStatus("ZOMBIE") = {}
<1>1. QueueTypes /\ PageTypes /\ SyncTypes /\ jiffies \in 0 .. Quantum
  BY TypesInParts DEF IInv
<1>2. zombieQueue = <<>> /\ runQueue # <<>> /\ currentPCB = Head(runQueue)
  BY DEF IInv, CurrentRunsFirst
<1>3. Match(freepcbs, runQueue, waitQueue, <<>>, status) /\ Conserved(status)
  BY <1>2 DEF IInv, QueuesMatchStatus, PagesConserved, Match, With, HasStatus, Conserved
<1>4. currentPCB \in Range(runQueue)
  BY <1>1, <1>2, <1>3, TailOfQueue DEF QueueTypes, Match, HoldsOnce
<1>5. status[currentPCB] = "RUNNABLE"
  BY <1>3, <1>4 DEF Match, HoldsOnce, With
<1>6. HasStatus("ZOMBIE") = {}
  BY <1>3, EmptyQueue DEF Match, HoldsOnce, With, HasStatus
<1>. QED BY <1>1, <1>2, <1>3, <1>4, <1>5, <1>6

LEMMA SleepersStay ==
  ASSUME SyncTypes, SleepersAccounted, UNCHANGED sync,
         HasStatus("WAITING")' = HasStatus("WAITING")
  PROVE  SyncTypes' /\ SleepersAccounted'
<1>1. count' = count /\ waiting' = waiting
  BY DEF sync
<1>. QED BY <1>1 DEF SyncTypes, SleepersAccounted

LEMMA SwitchPreserves ==
  ASSUME IInv, halted = "no", UNCHANGED sync, jiffies' \in 0 .. Quantum,
         ProcessSchedule(runQueue, waitQueue, zombieQueue, status)
  PROVE  IInv'
<1>1. /\ QueueTypes /\ PageTypes /\ SyncTypes /\ zombieQueue = <<>>
      /\ Match(freepcbs, runQueue, waitQueue, <<>>, status) /\ Conserved(status)
  BY Running
<1>2. /\ runQueue \in Seq(PCBs) /\ waitQueue \in Seq(PCBs)
      /\ status \in [PCBs -> Statuses]
  BY <1>1 DEF QueueTypes
<1>3. ProcessSchedule(runQueue, waitQueue, <<>>, status)
  BY <1>1
<1>4. /\ QueueTypes' /\ PageTypes' /\ QueuesMatchStatus' /\ CurrentRunsFirst'
      /\ PagesConserved' /\ status' = status
  BY <1>1, <1>2, <1>3, ScheduleWithoutZombie
<1>5. SyncTypes' /\ SleepersAccounted'
  BY <1>1, <1>4, SleepersStay DEF IInv, HasStatus
<1>6. TypeOK'
  BY <1>4, <1>5 DEF TypeOK, QueueTypes, PageTypes, SyncTypes
<1>. QED BY <1>4, <1>5, <1>6 DEF IInv

LEMMA ExitPreserves ==
  ASSUME IInv, halted = "no", Exit
  PROVE  IInv'
<1>. DEFINE rq == Without(runQueue, currentPCB)
            st == [status EXCEPT ![currentPCB] = "ZOMBIE"]
<1>1. /\ QueueTypes /\ PageTypes /\ SyncTypes /\ zombieQueue = <<>>
      /\ Match(freepcbs, runQueue, waitQueue, <<>>, status) /\ Conserved(status)
      /\ currentPCB \in Range(runQueue) /\ status[currentPCB] = "RUNNABLE"
      /\ HasStatus("ZOMBIE") = {}
  BY Running
<1>2. /\ status \in [PCBs -> Statuses] /\ currentPCB \in PCBs
      /\ runQueue \in Seq(PCBs) /\ waitQueue \in Seq(PCBs)
  BY <1>1 DEF QueueTypes
<1>3. IsInjective(runQueue)
  BY <1>1 DEF Match, HoldsOnce
<1>4. /\ rq \in Seq(PCBs) /\ Range(rq) = Range(runQueue) \ {currentPCB}
      /\ IsInjective(rq)
  BY <1>1, <1>2, <1>3, WithoutFacts
<1>5. st \in [PCBs -> Statuses]
      /\ \A p \in PCBs : st[p] = IF p = currentPCB THEN "ZOMBIE" ELSE status[p]
  BY <1>2 DEF Statuses
<1>6. ProcessSchedule(rq, waitQueue, <<currentPCB>>, st) /\ jiffies' = 0 /\ UNCHANGED sync
  BY <1>1, <1>2, SingleQueue DEF Exit
<1>. HIDE DEF rq, st
<1>7. /\ With(st, "FREE") = With(status, "FREE")
      /\ With(st, "RUNNABLE") = With(status, "RUNNABLE") \ {currentPCB}
      /\ With(st, "WAITING") = With(status, "WAITING")
      /\ With(st, "ZOMBIE") = {currentPCB}
  BY <1>1, <1>2, <1>5 DEF With, HasStatus
<1>8. Match(freepcbs, rq, waitQueue, <<currentPCB>>, st)
  BY <1>1, <1>2, <1>4, <1>7, SingleQueue DEF Match, HoldsOnce
<1>9. Conserved(st)
  BY <1>1, <1>5 DEF Conserved
<1>10. /\ QueueTypes' /\ PageTypes' /\ QueuesMatchStatus' /\ CurrentRunsFirst'
       /\ PagesConserved' /\ HasStatus("WAITING")' = With(st, "WAITING")
  BY <1>1, <1>2, <1>4, <1>5, <1>6, <1>8, <1>9, ScheduleWithZombie
<1>11. HasStatus("WAITING")' = HasStatus("WAITING")
  BY <1>7, <1>10 DEF With, HasStatus
<1>12. SyncTypes' /\ SleepersAccounted'
  BY <1>1, <1>6, <1>11, SleepersStay DEF IInv
<1>13. jiffies' \in 0 .. Quantum
  BY <1>6, ProcessesAssumption
<1>14. TypeOK'
  BY <1>10, <1>12, <1>13 DEF TypeOK, QueueTypes, PageTypes, SyncTypes
<1>. QED BY <1>10, <1>12, <1>14 DEF IInv

LEMMA TimerPreserves ==
  ASSUME IInv, halted = "no", TimerInterrupt
  PROVE  IInv'
<1>1. jiffies \in 0 .. Quantum /\ UNCHANGED sync
  BY DEF TimerInterrupt, IInv, TypeOK
<1>2. CASE jiffies + 1 > Quantum
  <2>1. jiffies' = 0 /\ ProcessSchedule(runQueue, waitQueue, zombieQueue, status)
    BY <1>2 DEF TimerInterrupt
  <2>2. jiffies' \in 0 .. Quantum
    BY <2>1, ProcessesAssumption
  <2>. QED BY <1>1, <2>1, <2>2, SwitchPreserves
<1>3. CASE ~(jiffies + 1 > Quantum)
  <2>1. jiffies' = jiffies + 1 /\ UNCHANGED <<queues, currentPCB, memory, halted>>
    BY <1>3 DEF TimerInterrupt
  <2>2. jiffies' \in 0 .. Quantum
    BY <1>1, <1>3, <2>1, ProcessesAssumption
  <2>. QED BY <1>1, <2>1, <2>2 DEF IInv, TypeOK, QueuesMatchStatus, CurrentRunsFirst,
         PagesConserved, SleepersAccounted, HasStatus, queues, memory, sync
<1>. QED BY <1>2, <1>3

LEMMA ForkStopsPreserves ==
  ASSUME IInv, halted = "no", ForkStops
  PROVE  IInv'
<1>1. halted' # "no" /\ UNCHANGED <<queues, currentPCB, memory, jiffies, sync>>
  BY DEF ForkStops, Stop
<1>. QED BY <1>1 DEF IInv, TypeOK, QueuesMatchStatus, CurrentRunsFirst, PagesConserved,
       SleepersAccounted, HasStatus, queues, memory, sync

\* ProcessFork: the first free PCB, with two pages, goes to the end of the run
\* queue.
LEMMA ForkPreserves ==
  ASSUME IInv, halted = "no", ProcessFork
  PROVE  IInv'
<1>. DEFINE p == Head(freepcbs)
<1>1. /\ QueueTypes /\ PageTypes /\ SyncTypes /\ jiffies \in 0 .. Quantum
      /\ zombieQueue = <<>> /\ HasStatus("ZOMBIE") = {}
      /\ Match(freepcbs, runQueue, waitQueue, <<>>, status)
  BY Running
<1>2. /\ status \in [PCBs -> Statuses] /\ freepcbs \in Seq(PCBs) /\ freepcbs # <<>>
      /\ runQueue \in Seq(PCBs) /\ pages \in [PCBs -> SUBSET Pages]
      /\ freepages \in SUBSET Pages
  BY <1>1 DEF QueueTypes, PageTypes, ProcessFork
<1>3. /\ p \in PCBs /\ p \in With(status, "FREE")
      /\ Tail(freepcbs) \in Seq(PCBs) /\ IsInjective(Tail(freepcbs))
      /\ Range(Tail(freepcbs)) = With(status, "FREE") \ {p}
  BY <1>1, <1>2, TailOfQueue DEF Match, HoldsOnce
<1>4. /\ UserPage \in freepages /\ StackPage \in freepages \ {UserPage}
      /\ SecondWord \in 0 .. NumWords - 1
      /\ Cardinality({UserPage, StackPage}) = 2
      /\ Cardinality(freepages \ {UserPage, StackPage}) = nfreepages - 2
  BY TwoPages DEF IInv, ProcessFork
<1>5. /\ freepcbs' = Tail(freepcbs) /\ status' = [status EXCEPT ![p] = "RUNNABLE"]
      /\ pages' = [pages EXCEPT ![p] = {UserPage, StackPage}]
      /\ runQueue' = Append(runQueue, p)
      /\ freepages' = freepages \ {UserPage, StackPage}
      /\ nfreepages' = nfreepages - 2 /\ mapnum' = SecondWord
      /\ waitQueue' = waitQueue /\ zombieQueue' = zombieQueue
      /\ currentPCB' = currentPCB /\ jiffies' = jiffies /\ UNCHANGED sync
      /\ halted' = halted
  BY DEF ProcessFork
<1>. HIDE DEF p
<1>6. status' \in [PCBs -> Statuses]
      /\ \A q \in PCBs : status'[q] = IF q = p THEN "RUNNABLE" ELSE status[q]
  BY <1>2, <1>3, <1>5 DEF Statuses
<1>7. pages' \in [PCBs -> SUBSET Pages]
      /\ \A q \in PCBs : pages'[q] = IF q = p THEN {UserPage, StackPage} ELSE pages[q]
  BY <1>2, <1>3, <1>4, <1>5
<1>8. /\ IsInjective(runQueue) /\ Range(runQueue) = With(status, "RUNNABLE")
      /\ p \notin Range(runQueue)
  BY <1>1, <1>3 DEF Match, HoldsOnce, With
<1>9. /\ runQueue' \in Seq(PCBs) /\ IsInjective(runQueue')
      /\ Range(runQueue') = With(status, "RUNNABLE") \cup {p}
  BY <1>2, <1>3, <1>5, <1>8, AppendToQueue
<1>10. /\ HasStatus("FREE")' = With(status, "FREE") \ {p}
       /\ HasStatus("RUNNABLE")' = With(status, "RUNNABLE") \cup {p}
       /\ HasStatus("WAITING")' = With(status, "WAITING")
       /\ HasStatus("ZOMBIE")' = {}
  BY <1>1, <1>3, <1>6 DEF HasStatus, With
<1>11. QueuesMatchStatus'
  BY <1>1, <1>3, <1>5, <1>9, <1>10, EmptyQueue DEF QueuesMatchStatus, Match, HoldsOnce
<1>12. CurrentRunsFirst'
  <2>1. runQueue # <<>> /\ currentPCB = Head(runQueue) /\ zombieQueue = <<>>
    BY DEF IInv, CurrentRunsFirst
  <2>2. runQueue' # <<>> /\ Head(runQueue') = Head(runQueue)
    BY <1>2, <1>3, <1>5, <1>9, <2>1, HeadTailAppend, AppendProperties, EmptySeq
  <2>. QED BY <1>5, <2>1, <2>2 DEF CurrentRunsFirst
<1>13. PagesConserved'
  <2>1. /\ freepages \cup UNION {pages[q] : q \in PCBs} = Pages
        /\ \A q \in PCBs : pages[q] \cap freepages = {}
        /\ \A q, r \in PCBs : q # r => pages[q] \cap pages[r] = {}
        /\ \A q \in PCBs : Cardinality(pages[q]) = IF status[q] = "FREE" THEN 0 ELSE 2
    BY DEF IInv, PagesConserved
  <2>2. pages[p] = {}
    BY <1>2, <1>3, <2>1, PagesFinite DEF With
  <2>3. freepages' \cup UNION {pages'[q] : q \in PCBs} = Pages
    <3>1. \A x \in freepages : x \in freepages' \/ x \in pages'[p]
      BY <1>3, <1>5, <1>7
    <3>2. \A q \in PCBs : pages[q] \subseteq pages'[q]
      BY <1>7, <2>2
    <3>3. Pages \subseteq freepages' \cup UNION {pages'[q] : q \in PCBs}
      BY <1>3, <2>1, <3>1, <3>2
    <3>4. freepages' \subseteq Pages /\ \A q \in PCBs : pages'[q] \subseteq Pages
      BY <1>2, <1>5, <1>7
    <3>. QED BY <3>3, <3>4
  <2>4. \A q \in PCBs : pages'[q] \cap freepages' = {}
    BY <1>5, <1>7, <2>1
  <2>5. \A q, r \in PCBs : q # r => pages'[q] \cap pages'[r] = {}
    BY <1>4, <1>7, <2>1
  <2>6. \A q \in PCBs : Cardinality(pages'[q]) = IF status'[q] = "FREE" THEN 0 ELSE 2
    BY <1>4, <1>6, <1>7, <2>1
  <2>7. nfreepages' = Cardinality(freepages')
    BY <1>4, <1>5
  <2>. QED BY <2>3, <2>4, <2>5, <2>6, <2>7 DEF PagesConserved
<1>14. SyncTypes' /\ SleepersAccounted'
  BY <1>1, <1>5, <1>10, SleepersStay DEF IInv, HasStatus, With
<1>15. QueueTypes'
  BY <1>1, <1>3, <1>5, <1>6, <1>9 DEF QueueTypes
<1>16. PageTypes'
  <2>1. freepages' \in SUBSET Pages /\ nfreepages' = Cardinality(freepages')
    BY <1>2, <1>4, <1>5
  <2>2. nfreepages' \in 0 .. NumPages - FirstPage
    BY <2>1, PagesFinite, ProcessesAssumption
  <2>. QED BY <1>4, <1>5, <1>7, <2>1, <2>2 DEF PageTypes
<1>17. TypeOK'
  BY <1>1, <1>5, <1>14, <1>15, <1>16 DEF TypeOK, QueueTypes, PageTypes, SyncTypes
<1>. QED BY <1>11, <1>12, <1>13, <1>14, <1>17 DEF IInv

LEMMA ForkFailsPreserves ==
  ASSUME IInv, halted = "no", ForkFails
  PROVE  IInv'
<1>. DEFINE p == Head(freepcbs)
            t == Tail(freepcbs)
<1>1. /\ QueueTypes /\ PageTypes /\ SyncTypes /\ jiffies \in 0 .. Quantum
      /\ Match(freepcbs, runQueue, waitQueue, <<>>, status)
  BY Running
<1>2. freepcbs \in Seq(PCBs) /\ freepcbs # <<>>
  BY <1>1 DEF QueueTypes, ForkFails
<1>3. /\ p \in PCBs /\ p \in With(status, "FREE") /\ t \in Seq(PCBs)
      /\ IsInjective(t) /\ Range(t) = With(status, "FREE") \ {p}
  BY <1>1, <1>2, TailOfQueue DEF Match, HoldsOnce
<1>4. SecondWord \in 0 .. NumWords - 1
  BY TwoPages DEF IInv, ForkFails
<1>5. /\ freepcbs' = Append(t, p) /\ mapnum' = SecondWord
      /\ status' = status /\ runQueue' = runQueue /\ waitQueue' = waitQueue
      /\ zombieQueue' = zombieQueue /\ currentPCB' = currentPCB
      /\ pages' = pages /\ freepages' = freepages /\ nfreepages' = nfreepages
      /\ jiffies' = jiffies /\ UNCHANGED sync /\ halted' = halted
  BY DEF ForkFails
<1>. HIDE DEF p, t
<1>6. /\ freepcbs' \in Seq(PCBs) /\ IsInjective(freepcbs')
      /\ Range(freepcbs') = With(status, "FREE")
  <2>1. /\ Append(t, p) \in Seq(PCBs) /\ Range(Append(t, p)) = Range(t) \cup {p}
        /\ IsInjective(Append(t, p))
    BY <1>3, AppendToQueue
  <2>. QED BY <1>3, <1>5, <2>1
<1>7. QueuesMatchStatus' /\ CurrentRunsFirst' /\ PagesConserved'
  <2>1. QueuesMatchStatus'
    BY <1>5, <1>6 DEF IInv, QueuesMatchStatus, HoldsOnce, HasStatus, With
  <2>2. CurrentRunsFirst' /\ PagesConserved'
    BY <1>5 DEF IInv, CurrentRunsFirst, PagesConserved
  <2>. QED BY <2>1, <2>2
<1>8. SyncTypes' /\ SleepersAccounted'
  BY <1>1, <1>5, SleepersStay DEF IInv, HasStatus
<1>9. QueueTypes' /\ PageTypes'
  BY <1>1, <1>4, <1>5, <1>6 DEF QueueTypes, PageTypes
<1>10. TypeOK'
  BY <1>1, <1>5, <1>8, <1>9 DEF TypeOK, QueueTypes, PageTypes, SyncTypes
<1>. QED BY <1>7, <1>8, <1>10 DEF IInv

\* ProcessSuspend and the switch away from the process that sleeps.
LEMMA SleepPreserves ==
  ASSUME IInv, halted = "no", ProcessSleep
  PROVE  /\ QueueTypes' /\ PageTypes' /\ QueuesMatchStatus' /\ CurrentRunsFirst'
         /\ PagesConserved' /\ jiffies' \in 0 .. Quantum
         /\ HasStatus("WAITING")' = HasStatus("WAITING") \cup {currentPCB}
<1>. DEFINE rq == Without(runQueue, currentPCB)
            wq == Append(waitQueue, currentPCB)
            st == [status EXCEPT ![currentPCB] = "WAITING"]
<1>1. /\ QueueTypes /\ PageTypes /\ zombieQueue = <<>>
      /\ Match(freepcbs, runQueue, waitQueue, <<>>, status) /\ Conserved(status)
      /\ currentPCB \in Range(runQueue) /\ status[currentPCB] = "RUNNABLE"
      /\ HasStatus("ZOMBIE") = {}
  BY Running
<1>2. /\ status \in [PCBs -> Statuses] /\ currentPCB \in PCBs
      /\ runQueue \in Seq(PCBs) /\ waitQueue \in Seq(PCBs)
  BY <1>1 DEF QueueTypes
<1>3. /\ IsInjective(runQueue) /\ IsInjective(waitQueue)
      /\ currentPCB \notin Range(waitQueue)
  BY <1>1 DEF Match, HoldsOnce, With
<1>4. /\ rq \in Seq(PCBs) /\ Range(rq) = Range(runQueue) \ {currentPCB}
      /\ IsInjective(rq)
  BY <1>1, <1>2, <1>3, WithoutFacts
<1>5. /\ wq \in Seq(PCBs) /\ Range(wq) = Range(waitQueue) \cup {currentPCB}
      /\ IsInjective(wq)
  BY <1>2, <1>3, AppendToQueue
<1>6. st \in [PCBs -> Statuses]
      /\ \A p \in PCBs : st[p] = IF p = currentPCB THEN "WAITING" ELSE status[p]
  BY <1>2 DEF Statuses
<1>7. ProcessSchedule(rq, wq, <<>>, st) /\ jiffies' = 0
  BY <1>1 DEF ProcessSleep
<1>. HIDE DEF rq, wq, st
<1>8. /\ With(st, "FREE") = With(status, "FREE")
      /\ With(st, "RUNNABLE") = With(status, "RUNNABLE") \ {currentPCB}
      /\ With(st, "WAITING") = With(status, "WAITING") \cup {currentPCB}
      /\ With(st, "ZOMBIE") = {}
  BY <1>1, <1>2, <1>6 DEF With, HasStatus
<1>9. Match(freepcbs, rq, wq, <<>>, st)
  BY <1>1, <1>4, <1>5, <1>8, EmptyQueue DEF Match, HoldsOnce
<1>10. Conserved(st)
  BY <1>1, <1>6 DEF Conserved
<1>11. /\ QueueTypes' /\ PageTypes' /\ QueuesMatchStatus' /\ CurrentRunsFirst'
       /\ PagesConserved' /\ status' = st
  BY <1>1, <1>4, <1>5, <1>6, <1>7, <1>9, <1>10, ScheduleWithoutZombie
<1>12. HasStatus("WAITING")' = HasStatus("WAITING") \cup {currentPCB}
  BY <1>8, <1>11 DEF With, HasStatus
<1>13. jiffies' \in 0 .. Quantum
  BY <1>7, ProcessesAssumption
<1>. QED BY <1>11, <1>12, <1>13

LEMMA WaitPreserves ==
  ASSUME IInv, halted = "no", NEW s \in Sems, SemWait(s)
  PROVE  IInv'
<1>1. /\ QueueTypes /\ PageTypes /\ SyncTypes /\ jiffies \in 0 .. Quantum
      /\ status[currentPCB] = "RUNNABLE"
  BY Running
<1>2. waiting \in [Sems -> Seq(PCBs)] /\ currentPCB \in PCBs
  BY <1>1 DEF SyncTypes, QueueTypes
<1>a. /\ \A t \in Sems : IsInjective(waiting[t]) /\ (count[t] > 0 => waiting[t] = <<>>)
      /\ \A t, u \in Sems : t # u => Range(waiting[t]) \cap Range(waiting[u]) = {}
      /\ HasStatus("WAITING") = UNION {Range(waiting[t]) : t \in Sems}
  BY DEF IInv, SleepersAccounted
<1>b. \A x : x \in HasStatus("WAITING") <=> \E t \in Sems : x \in Range(waiting[t])
  BY <1>a
<1>c. /\ DOMAIN count = Sems /\ \A t \in Sems : count[t] \in Int
      /\ \A t \in Sems : count[t] < 0 => \E c \in Counts : c <= count[t]
  BY <1>1 DEF SyncTypes
<1>3. CASE count[s] <= 0
  <2>1. /\ waiting' = [waiting EXCEPT ![s] = Append(@, currentPCB)]
        /\ ProcessSleep /\ count' = count
    BY <1>3 DEF SemWait
  <2>2. /\ QueueTypes' /\ PageTypes' /\ QueuesMatchStatus' /\ CurrentRunsFirst'
        /\ PagesConserved' /\ jiffies' \in 0 .. Quantum
        /\ HasStatus("WAITING")' = HasStatus("WAITING") \cup {currentPCB}
    BY <2>1, SleepPreserves
  <2>3. currentPCB \notin HasStatus("WAITING")
    BY <1>1 DEF HasStatus
  <2>4. \A t \in Sems : currentPCB \notin Range(waiting[t])
    BY <1>a, <2>3
  <2>5. /\ Append(waiting[s], currentPCB) \in Seq(PCBs)
        /\ Range(Append(waiting[s], currentPCB)) = Range(waiting[s]) \cup {currentPCB}
        /\ IsInjective(Append(waiting[s], currentPCB))
    BY <1>2, <1>a, <2>4, AppendToQueue
  <2>6. /\ waiting' \in [Sems -> Seq(PCBs)]
        /\ waiting'[s] = Append(waiting[s], currentPCB)
        /\ \A t \in Sems : t # s => waiting'[t] = waiting[t]
    BY <1>2, <2>1, <2>5
  <2>7. SyncTypes'
    BY <1>1, <2>1, <2>6 DEF SyncTypes
  <2>8. /\ Range(waiting'[s]) = Range(waiting[s]) \cup {currentPCB}
        /\ \A t \in Sems : t # s => Range(waiting'[t]) = Range(waiting[t])
    BY <2>5, <2>6
  <2>9. SleepersAccounted'
    <3>1. \A t \in Sems : IsInjective(waiting'[t]) /\ (count'[t] > 0 => waiting'[t] = <<>>)
      <4>1. ~(count[s] > 0)
        BY <1>3, <1>c
      <4>. QED BY <1>a, <2>1, <2>5, <2>6, <4>1
    <3>2. \A t, u \in Sems : t # u => Range(waiting'[t]) \cap Range(waiting'[u]) = {}
      BY <1>a, <2>4, <2>8
    <3>3. ASSUME NEW x
          PROVE  x \in HasStatus("WAITING")' <=> \E t \in Sems : x \in Range(waiting'[t])
      BY <1>b, <2>2, <2>8
    <3>4. HasStatus("WAITING")' = UNION {Range(waiting'[t]) : t \in Sems}
      BY <3>3
    <3>. QED BY <3>1, <3>2, <3>4 DEF SleepersAccounted
  <2>10. TypeOK'
    BY <2>2, <2>7 DEF TypeOK, QueueTypes, PageTypes, SyncTypes
  <2>. QED BY <2>2, <2>9, <2>10 DEF IInv
<1>4. CASE ~(count[s] <= 0)
  <2>1. /\ count' = [count EXCEPT ![s] = @ - 1]
        /\ UNCHANGED <<queues, currentPCB, memory, jiffies, waiting, halted>>
    BY <1>4 DEF SemWait
  <2>2. /\ DOMAIN count' = Sems /\ count'[s] = count[s] - 1
        /\ \A t \in Sems : t # s => count'[t] = count[t]
    BY <1>c, <2>1
  <2>3. count[s] \in Int /\ count[s] > 0
    BY <1>4, <1>c
  <2>4. ASSUME NEW t \in Sems
        PROVE  /\ count'[t] \in Int
               /\ count'[t] < 0 => \E c \in Counts : c <= count'[t]
               /\ count'[t] > 0 => count[t] > 0
    BY <1>c, <2>2, <2>3
  <2>5. SyncTypes'
    BY <1>2, <2>1, <2>2, <2>4 DEF SyncTypes
  <2>6. SleepersAccounted'
    BY <1>a, <2>1, <2>4 DEF SleepersAccounted, HasStatus, queues
  <2>7. TypeOK'
    BY <1>1, <2>1, <2>5 DEF TypeOK, QueueTypes, PageTypes, SyncTypes, queues, memory
  <2>8. QueuesMatchStatus' /\ CurrentRunsFirst' /\ PagesConserved'
    BY <2>1 DEF IInv, QueuesMatchStatus, HasStatus, CurrentRunsFirst, PagesConserved,
         queues, memory
  <2>. QED BY <2>6, <2>7, <2>8 DEF IInv
<1>. QED BY <1>3, <1>4

\* The wakeup of the first process that sleeps on a semaphore.
LEMMA WakeupPreserves ==
  ASSUME IInv, halted = "no", NEW p \in HasStatus("WAITING"), ProcessWakeup(p),
         UNCHANGED <<currentPCB, halted>>
  PROVE  /\ QueueTypes' /\ QueuesMatchStatus' /\ CurrentRunsFirst'
         /\ HasStatus("WAITING")' = HasStatus("WAITING") \ {p}
         /\ \A q \in PCBs : status'[q] = "FREE" <=> status[q] = "FREE"
<1>1. /\ QueueTypes /\ zombieQueue = <<>> /\ HasStatus("ZOMBIE") = {}
      /\ Match(freepcbs, runQueue, waitQueue, <<>>, status)
  BY Running
<1>2. /\ status \in [PCBs -> Statuses] /\ p \in PCBs /\ status[p] = "WAITING"
      /\ runQueue \in Seq(PCBs) /\ waitQueue \in Seq(PCBs)
  BY <1>1 DEF QueueTypes, HasStatus
<1>3. /\ IsInjective(runQueue) /\ IsInjective(waitQueue)
      /\ p \notin Range(runQueue) /\ p \in Range(waitQueue)
  BY <1>1, <1>2 DEF Match, HoldsOnce, With
<1>4. /\ status' = [status EXCEPT ![p] = "RUNNABLE"]
      /\ waitQueue' = Without(waitQueue, p) /\ runQueue' = Append(runQueue, p)
      /\ freepcbs' = freepcbs /\ zombieQueue' = zombieQueue
  BY DEF ProcessWakeup
<1>5. status' \in [PCBs -> Statuses]
      /\ \A q \in PCBs : status'[q] = IF q = p THEN "RUNNABLE" ELSE status[q]
  BY <1>2, <1>4 DEF Statuses
<1>6. /\ waitQueue' \in Seq(PCBs) /\ Range(waitQueue') = Range(waitQueue) \ {p}
      /\ IsInjective(waitQueue')
  BY <1>2, <1>3, <1>4, WithoutFacts
<1>7. /\ runQueue' \in Seq(PCBs) /\ Range(runQueue') = Range(runQueue) \cup {p}
      /\ IsInjective(runQueue')
  BY <1>2, <1>3, <1>4, AppendToQueue
<1>8. /\ HasStatus("FREE")' = With(status, "FREE")
      /\ HasStatus("RUNNABLE")' = With(status, "RUNNABLE") \cup {p}
      /\ HasStatus("WAITING")' = With(status, "WAITING") \ {p}
      /\ HasStatus("ZOMBIE")' = {}
  BY <1>1, <1>2, <1>5 DEF HasStatus, With
<1>9. QueuesMatchStatus'
  BY <1>1, <1>4, <1>6, <1>7, <1>8, EmptyQueue DEF QueuesMatchStatus, Match, HoldsOnce
<1>10. CurrentRunsFirst'
  <2>1. runQueue # <<>> /\ currentPCB = Head(runQueue) /\ zombieQueue = <<>>
    BY DEF IInv, CurrentRunsFirst
  <2>2. runQueue' # <<>> /\ Head(runQueue') = Head(runQueue)
    BY <1>2, <1>4, <1>7, <2>1, HeadTailAppend, AppendProperties, EmptySeq
  <2>. QED BY <1>4, <2>1, <2>2 DEF CurrentRunsFirst
<1>11. QueueTypes'
  BY <1>1, <1>4, <1>5, <1>6, <1>7 DEF QueueTypes
<1>. QED BY <1>2, <1>5, <1>8, <1>9, <1>10, <1>11 DEF HasStatus, With

LEMMA SignalPreserves ==
  ASSUME IInv, halted = "no", NEW s \in Sems, SemSignal(s)
  PROVE  IInv'
<1>1. /\ QueueTypes /\ PageTypes /\ SyncTypes /\ jiffies \in 0 .. Quantum
  BY Running
<1>2. waiting \in [Sems -> Seq(PCBs)]
  BY <1>1 DEF SyncTypes
<1>3. /\ DOMAIN count = Sems /\ \A t \in Sems : count[t] \in Int
      /\ \A t \in Sems : count[t] < 0 => \E c \in Counts : c <= count[t]
  BY <1>1 DEF SyncTypes
<1>4. /\ \A t \in Sems : IsInjective(waiting[t]) /\ (count[t] > 0 => waiting[t] = <<>>)
      /\ \A t, u \in Sems : t # u => Range(waiting[t]) \cap Range(waiting[u]) = {}
      /\ HasStatus("WAITING") = UNION {Range(waiting[t]) : t \in Sems}
  BY DEF IInv, SleepersAccounted
<1>5. \A x : x \in HasStatus("WAITING") <=> \E t \in Sems : x \in Range(waiting[t])
  BY <1>4
<1>6. UNCHANGED <<currentPCB, memory, jiffies, halted>>
  BY DEF SemSignal
<1>7. CASE count[s] + 1 > 0 /\ waiting[s] # <<>>
  <2>. DEFINE p == Head(waiting[s])
              t == Tail(waiting[s])
  <2>1. /\ waiting' = [waiting EXCEPT ![s] = t]
        /\ ProcessWakeup(p) /\ count' = count
    BY <1>7 DEF SemSignal
  <2>2. /\ p \in Range(waiting[s]) /\ t \in Seq(PCBs) /\ IsInjective(t)
        /\ Range(t) = Range(waiting[s]) \ {p}
    BY <1>2, <1>4, <1>7, TailOfQueue
  <2>. HIDE DEF p, t
  <2>3. p \in HasStatus("WAITING")
    BY <1>5, <2>2
  <2>4. /\ QueueTypes' /\ QueuesMatchStatus' /\ CurrentRunsFirst'
        /\ HasStatus("WAITING")' = HasStatus("WAITING") \ {p}
        /\ \A q \in PCBs : status'[q] = "FREE" <=> status[q] = "FREE"
    BY <1>6, <2>1, <2>3, WakeupPreserves
  <2>5. /\ waiting' \in [Sems -> Seq(PCBs)] /\ waiting'[s] = t
        /\ \A u \in Sems : u # s => waiting'[u] = waiting[u]
    BY <1>2, <2>1, <2>2
  <2>6. SyncTypes'
    BY <1>1, <2>1, <2>5 DEF SyncTypes
  <2>7. /\ Range(waiting'[s]) = Range(waiting[s]) \ {p}
        /\ \A u \in Sems : u # s => Range(waiting'[u]) = Range(waiting[u])
    BY <2>2, <2>5
  <2>8. SleepersAccounted'
    <3>1. \A u \in Sems : IsInjective(waiting'[u]) /\ (count'[u] > 0 => waiting'[u] = <<>>)
      BY <1>4, <1>7, <2>1, <2>2, <2>5
    <3>2. \A u, v \in Sems : u # v => Range(waiting'[u]) \cap Range(waiting'[v]) = {}
      BY <1>4, <2>7
    <3>3. ASSUME NEW x
          PROVE  x \in HasStatus("WAITING")' <=> \E u \in Sems : x \in Range(waiting'[u])
      <4>1. \A u \in Sems : x \in Range(waiting'[u]) => x # p
        BY <1>4, <2>2, <2>7
      <4>2. \A u \in Sems : x # p => (x \in Range(waiting'[u]) <=> x \in Range(waiting[u]))
        BY <2>7
      <4>. QED BY <1>5, <2>4, <4>1, <4>2
    <3>4. HasStatus("WAITING")' = UNION {Range(waiting'[u]) : u \in Sems}
      BY <3>3
    <3>. QED BY <3>1, <3>2, <3>4 DEF SleepersAccounted
  <2>9. PagesConserved' /\ PageTypes'
    <3>1. /\ pages' = pages /\ freepages' = freepages /\ nfreepages' = nfreepages
          /\ mapnum' = mapnum
      BY <1>6 DEF memory
    <3>. QED BY <1>1, <2>4, <3>1 DEF IInv, PagesConserved, PageTypes
  <2>10. TypeOK'
    BY <1>1, <1>6, <2>4, <2>6, <2>9 DEF TypeOK, QueueTypes, PageTypes, SyncTypes
  <2>. QED BY <2>4, <2>8, <2>9, <2>10 DEF IInv
<1>8. CASE ~(count[s] + 1 > 0 /\ waiting[s] # <<>>)
  <2>1. count' = [count EXCEPT ![s] = @ + 1] /\ UNCHANGED <<queues, waiting>>
    BY <1>8 DEF SemSignal
  <2>2. /\ DOMAIN count' = Sems /\ count'[s] = count[s] + 1
        /\ \A t \in Sems : t # s => count'[t] = count[t]
    BY <1>3, <2>1
  <2>3. ASSUME NEW t \in Sems
        PROVE  /\ count'[t] \in Int
               /\ count'[t] < 0 => \E c \in Counts : c <= count'[t]
               /\ count'[t] > 0 => waiting[t] = <<>>
    <3>1. CASE t = s
      <4>1. count[s] \in Int /\ count'[t] = count[s] + 1
        BY <1>3, <2>2, <3>1
      <4>2. count'[t] < 0 => \E c \in Counts : c <= count'[t]
        <5>1. SUFFICES ASSUME count'[t] < 0 PROVE \E c \in Counts : c <= count'[t]
          OBVIOUS
        <5>2. PICK c \in Counts : c <= count[s]
          BY <1>3, <4>1, <5>1
        <5>3. c \in Int
          BY ProcessesAssumption
        <5>. QED BY <4>1, <5>2, <5>3
      <4>. QED BY <1>8, <3>1, <4>1, <4>2
    <3>2. CASE t # s
      BY <1>3, <1>4, <2>2, <3>2
    <3>. QED BY <3>1, <3>2
  <2>4. SyncTypes'
    BY <1>2, <2>1, <2>2, <2>3 DEF SyncTypes
  <2>5. SleepersAccounted'
    BY <1>4, <2>1, <2>3 DEF SleepersAccounted, HasStatus, queues
  <2>6. TypeOK'
    BY <1>1, <1>6, <2>1, <2>4 DEF TypeOK, QueueTypes, PageTypes, SyncTypes, queues, memory
  <2>7. QueuesMatchStatus' /\ CurrentRunsFirst' /\ PagesConserved'
    BY <1>6, <2>1 DEF IInv, QueuesMatchStatus, HasStatus, CurrentRunsFirst, PagesConserved,
         queues, memory
  <2>. QED BY <2>5, <2>6, <2>7 DEF IInv
<1>. QED BY <1>7, <1>8

-----------------------------------------------------------------------------
(* The initial state *)

\* ProcessModuleInit: the free PCBs, the last one first.
LEMMA FreeAtFirst ==
  LET q == Reverse([i \in 1 .. NumProcs - 1 |-> i - 1])
  IN  q \in Seq(PCBs) /\ IsInjective(q) /\ Range(q) = PCBs \ {NumProcs - 1}
<1>. DEFINE n == NumProcs - 1
            f == [i \in 1 .. n |-> i - 1]
            q == Reverse(f)
<1>1. n \in Nat /\ PCBs = 0 .. n
  BY ProcessesAssumption DEF PCBs
<1>. HIDE DEF n
<1>2. f \in Seq(PCBs) /\ Len(f) = n
  <2>1. f \in [1 .. n -> PCBs]
    BY <1>1
  <2>2. f \in Seq(PCBs)
    BY <1>1, <2>1, SeqDef
  <2>. QED BY <1>1, <2>1, <2>2, LenProperties
<1>3. q = [i \in 1 .. n |-> n - i]
  BY <1>1, <1>2 DEF Reverse
<1>4. q \in Seq(PCBs) /\ DOMAIN q = 1 .. n
  <2>1. q \in [1 .. n -> PCBs]
    BY <1>1, <1>3
  <2>. QED BY <1>1, <1>3, <2>1, SeqDef
<1>5. IsInjective(q)
  BY <1>1, <1>3, <1>4 DEF IsInjective
<1>6. Range(q) = {n - i : i \in 1 .. n}
  BY <1>3, <1>4 DEF Range
<1>7. {n - i : i \in 1 .. n} = PCBs \ {n}
  <2>1. ASSUME NEW x \in PCBs \ {n} PROVE n - x \in 1 .. n /\ n - (n - x) = x
    BY <1>1
  <2>2. ASSUME NEW i \in 1 .. n PROVE n - i \in PCBs \ {n}
    BY <1>1
  <2>. QED BY <2>1, <2>2
<1>. QED BY <1>4, <1>5, <1>6, <1>7 DEF n

LEMMA InitEstablishes == Init => IInv
<1>. SUFFICES ASSUME Init PROVE IInv
  OBVIOUS
<1>. DEFINE z == NumProcs - 1
            a == FirstPage
            b == FirstPage + 1
<1>1. z \in PCBs /\ PCBs = 0 .. z /\ z \in Nat
  BY ProcessesAssumption DEF PCBs
<1>2. a \in Pages /\ b \in Pages /\ a # b
  BY ProcessesAssumption DEF Pages
<1>3. /\ status = [p \in PCBs |-> IF p = z THEN "RUNNABLE" ELSE "FREE"]
      /\ runQueue = <<z>> /\ waitQueue = <<>> /\ zombieQueue = <<>> /\ currentPCB = z
      /\ pages = [p \in PCBs |-> IF p = z THEN {a, b} ELSE {}]
      /\ freepages = Pages \ {a, b} /\ nfreepages = NumPages - FirstPage - 2
      /\ mapnum = WordOf(b) /\ jiffies = 0
      /\ count \in [Sems -> Counts] /\ waiting = [s \in Sems |-> <<>>]
  BY DEF Init
<1>4. freepcbs \in Seq(PCBs) /\ IsInjective(freepcbs) /\ Range(freepcbs) = PCBs \ {z}
  BY FreeAtFirst DEF Init
<1>. HIDE DEF z, a, b
<1>5. /\ HasStatus("FREE") = PCBs \ {z} /\ HasStatus("RUNNABLE") = {z}
      /\ HasStatus("WAITING") = {} /\ HasStatus("ZOMBIE") = {}
  BY <1>1, <1>3 DEF HasStatus
<1>6. QueuesMatchStatus
  BY <1>1, <1>3, <1>4, <1>5, SingleQueue, EmptyQueue DEF QueuesMatchStatus, HoldsOnce
<1>7. CurrentRunsFirst
  BY <1>1, <1>3, SingleQueue DEF CurrentRunsFirst
<1>8. Cardinality({a, b}) = 2
  <2>1. IsFiniteSet({a}) /\ Cardinality({a}) = 1 /\ b \notin {a}
    BY <1>2, FS_Singleton
  <2>2. Cardinality({a} \cup {b}) = 1 + 1
    BY <2>1, FS_AddElement
  <2>3. {a} \cup {b} = {a, b}
    OBVIOUS
  <2>. QED BY <2>2, <2>3
<1>9. Cardinality(freepages) = nfreepages
  <2>1. IsFiniteSet(Pages) /\ Cardinality(Pages) = NumPages - FirstPage
    BY PagesFinite
  <2>2. Cardinality(Pages \ {a, b}) = Cardinality(Pages) - Cardinality(Pages \cap {a, b})
    BY <2>1, FS_Difference
  <2>3. Pages \cap {a, b} = {a, b}
    BY <1>2
  <2>. QED BY <1>3, <1>8, <2>1, <2>2, <2>3
<1>10. PagesConserved
  <2>1. freepages \cup UNION {pages[p] : p \in PCBs} = Pages
    <3>1. pages[z] = {a, b} /\ \A p \in PCBs : pages[p] \subseteq {a, b}
      BY <1>1, <1>3
    <3>. QED BY <1>1, <1>2, <1>3, <3>1
  <2>2. \A p \in PCBs : pages[p] \cap freepages = {}
    BY <1>3
  <2>3. \A p, q \in PCBs : p # q => pages[p] \cap pages[q] = {}
    BY <1>3
  <2>4. \A p \in PCBs : Cardinality(pages[p]) = IF status[p] = "FREE" THEN 0 ELSE 2
    BY <1>3, <1>8, FS_EmptySet
  <2>. QED BY <1>9, <2>1, <2>2, <2>3, <2>4 DEF PagesConserved
<1>11. SleepersAccounted
  BY <1>3, <1>5, EmptyQueue DEF SleepersAccounted
<1>12. QueueTypes
  BY <1>1, <1>3, <1>4, SingleQueue, EmptyQueue DEF QueueTypes, Statuses
<1>13. PageTypes
  <2>1. pages \in [PCBs -> SUBSET Pages] /\ freepages \in SUBSET Pages
    BY <1>2, <1>3
  <2>2. nfreepages \in 0 .. NumPages - FirstPage
    BY <1>9, <2>1, PagesFinite, ProcessesAssumption
  <2>. QED BY <1>2, <1>3, <2>1, <2>2, WordFacts DEF PageTypes
<1>14. SyncTypes
  <2>1. \A s \in Sems : count[s] \in Counts /\ count[s] \in Int
    BY <1>3, ProcessesAssumption
  <2>2. \A s \in Sems : count[s] <= count[s]
    BY <2>1
  <2>3. waiting \in [Sems -> Seq(PCBs)] /\ DOMAIN count = Sems
    BY <1>3, EmptyQueue
  <2>. QED BY <2>1, <2>2, <2>3 DEF SyncTypes
<1>15. jiffies \in 0 .. Quantum
  BY <1>3, ProcessesAssumption
<1>16. TypeOK
  BY <1>12, <1>13, <1>14, <1>15, TypesInParts
<1>. QED BY <1>6, <1>7, <1>10, <1>11, <1>16 DEF IInv

-----------------------------------------------------------------------------
(* The theorems *)

\* The invariant is inductive: every trap and every timer interrupt of
\* process.c, clock.c and synch.o leaves the queues, the pages and the
\* semaphores as they must be.
THEOREM Invariant == Spec => []IInv
<1>1. IInv /\ [Next]_vars => IInv'
  <2>. SUFFICES ASSUME IInv, [Next]_vars PROVE IInv'
    OBVIOUS
  <2>1. CASE UNCHANGED vars
    BY <2>1 DEF IInv, TypeOK, QueuesMatchStatus, CurrentRunsFirst, PagesConserved,
         SleepersAccounted, HasStatus, vars, queues, memory, sync
  <2>2. CASE Next
    <3>1. halted = "no"
      BY <2>2 DEF Next
    <3>2. CASE Exit
      BY <3>1, <3>2, ExitPreserves
    <3>3. CASE ContextSwitch
      <4>1. /\ ProcessSchedule(runQueue, waitQueue, zombieQueue, status)
            /\ UNCHANGED sync /\ jiffies' \in 0 .. Quantum
        BY <3>3, ProcessesAssumption DEF ContextSwitch
      <4>. QED BY <3>1, <4>1, SwitchPreserves
    <3>4. CASE TimerInterrupt
      BY <3>1, <3>4, TimerPreserves
    <3>5. CASE ForkStops
      BY <3>1, <3>5, ForkStopsPreserves
    <3>6. CASE ProcessFork
      BY <3>1, <3>6, ForkPreserves
    <3>7. CASE ForkFails
      BY <3>1, <3>7, ForkFailsPreserves
    <3>8. CASE \E s \in Sems : SemWait(s)
      BY <3>1, <3>8, WaitPreserves
    <3>9. CASE \E s \in Sems : SemSignal(s)
      BY <3>1, <3>9, SignalPreserves
    <3>. QED BY <2>2, <3>2, <3>3, <3>4, <3>5, <3>6, <3>7, <3>8, <3>9 DEF Next
  <2>. QED BY <2>1, <2>2
<1>. QED BY <1>1, InitEstablishes, PTL DEF Spec

\* Types: no queue holds anything but PCBs, the page counter and the quantum
\* stay in their ranges (process.c:64-91, memory.c:111-136, clock.c:53-70).
THEOREM TypesHold == Spec => []TypeOK
BY Invariant, PTL DEF IInv

\* Every PCB is in the queue of its status, once, and in no other: what
\* ProcessDestroy, ProcessSuspend, ProcessWakeup, ProcessFork and
\* ProcessSchedule do to the queues never loses or doubles one
\* (process.c:203-322, 372, 539).
THEOREM QueuesAlwaysMatchStatus == Spec => []QueuesMatchStatus
BY Invariant, PTL DEF IInv

\* While the system runs the current process is the first that can run, so
\* that it is runnable when ProcessSuspend asserts it is (process.c:241).
THEOREM CurrentAlwaysRunsFirst == Spec => []CurrentRunsFirst
BY Invariant, PTL DEF IInv

\* The pages of the machine are the free ones and those of the processes, two
\* each, no page belongs to two, and the counter of MemoryAllocPage is right
\* (memory.c:117-126, process.c:130-135).
THEOREM PagesAlwaysConserved == Spec => []PagesConserved
BY Invariant, PTL DEF IInv

\* Whoever sleeps is in the queue of exactly one semaphore, and nobody sleeps
\* on one that has a count: the wakeup of a signal is never lost (synch.o,
\* process.c:238-285).
THEOREM SleepersAlwaysAccounted == Spec => []SleepersAccounted
BY Invariant, PTL DEF IInv
=============================================================================
