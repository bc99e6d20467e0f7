----------------------------- MODULE LinkQueue -----------------------------
(***************************************************************************)
(* os/queue.c: queues as doubly linked lists through a fixed pool of       *)
(* links.  The free links form a queue themselves, freeLinks.  Callers     *)
(* (the scheduler, the locks, the buffer cache) allocate a link for an     *)
(* object, insert it, move it, and remove it, which frees it.              *)
(*                                                                         *)
(* An operation is an operator from the heap to the heap, so that a        *)
(* removal can be followed by the insertion into freeLinks as in the code. *)
(***************************************************************************)
EXTENDS Integers

CONSTANTS
  QUEUE_MAX_LINKS,
  Queues,     \* the queues of the callers
  freeLinks,
  Objects,    \* what is queued
  NULL

Links == 1 .. QUEUE_MAX_LINKS  \* linkpool

ASSUME LinkAssumption ==
  /\ QUEUE_MAX_LINKS \in Nat \ {0}
  /\ NULL \notin Links \cup Queues \cup Objects \cup {freeLinks}
  /\ freeLinks \notin Queues

QUEUE_FAIL == 0
QUEUE_SUCCESS == 1

AllQueues == Queues \cup {freeLinks}
Pointers == Links \cup {NULL}

VARIABLES
  heap,  \* the fields of the links and of the queues
  l,     \* the pointer each object keeps to its link
  ret,   \* what the last call returned
  call   \* that call and its arguments, for ImplementsSequences

vars == <<heap, l, ret, call>>

Set(f, p, v) == IF p = NULL THEN f ELSE [f EXCEPT ![p] = v]

AQueueEmpty(h, q) == h.nitems[q] = 0

-----------------------------------------------------------------------------
(* Insertion *)

\* Wrong variant: a link inserted behind another is not counted.
InsertedUncounted(h, q, after, k) ==
  LET nxt == IF after = NULL THEN NULL ELSE h.next[after] IN
  [h EXCEPT
     !.queue[k] = q,
     !.prev = Set([@ EXCEPT ![k] = after], nxt, k),
     !.next = Set([@ EXCEPT ![k] = nxt], after, k),
     !.first[q] = IF after = NULL THEN k ELSE @,
     !.last[q] = IF after = NULL \/ @ = after THEN k ELSE @,
     !.nitems[q] = IF after = NULL THEN 1 ELSE @]

\* Wrong variant: the link behind keeps its old prev.
InsertedHalf(h, q, after, k) ==
  LET nxt == IF after = NULL THEN NULL ELSE h.next[after] IN
  [h EXCEPT
     !.queue[k] = q,
     !.prev[k] = after,
     !.next = Set([@ EXCEPT ![k] = nxt], after, k),
     !.first[q] = IF after = NULL THEN k ELSE @,
     !.last[q] = IF after = NULL \/ @ = after THEN k ELSE @,
     !.nitems[q] = IF after = NULL THEN 1 ELSE @ + 1]

InsertedAfter(h, q, after, k) ==
  LET nxt == IF after = NULL THEN NULL ELSE h.next[after] IN
  [h EXCEPT
     !.queue[k] = q,
     !.prev = Set([@ EXCEPT ![k] = after], nxt, k),
     !.next = Set([@ EXCEPT ![k] = nxt], after, k),
     !.first[q] = IF after = NULL THEN k ELSE @,
     !.last[q] = IF after = NULL \/ @ = after THEN k ELSE @,
     !.nitems[q] = IF after = NULL THEN 1 ELSE @ + 1]

InsertedBefore(h, q, before, k) ==
  LET prv == IF before = NULL THEN NULL ELSE h.prev[before] IN
  [h EXCEPT
     !.queue[k] = q,
     !.next = Set([@ EXCEPT ![k] = before], prv, k),
     !.prev = Set([@ EXCEPT ![k] = prv], before, k),
     !.first[q] = IF before = NULL \/ @ = before THEN k ELSE @,
     !.last[q] = IF before = NULL THEN k ELSE @,
     !.nitems[q] = IF before = NULL THEN 1 ELSE @ + 1]

\* The link that is passed to insert next to is on q, or q is empty.
Place(h, q, p) ==
  IF p # NULL THEN h.queue[p] = q
  ELSE h.first[q] = NULL /\ h.last[q] = NULL /\ AQueueEmpty(h, q)

-----------------------------------------------------------------------------
(* Removal *)

Unlinked(h, k) ==
  [h EXCEPT
     !.first[h.queue[k]] = IF @ = k THEN h.next[k] ELSE @,
     !.last[h.queue[k]] = IF @ = k THEN h.prev[k] ELSE @,
     !.next = Set(@, h.prev[k], h.next[k]),
     !.prev = Set(@, h.next[k], h.prev[k]),
     !.nitems[h.queue[k]] = @ - 1]

\* AQueueInsertLast(&freeLinks, l), whose result the code ignores.
Freed(h, k) ==
  IF Place(h, freeLinks, h.last[freeLinks])
    THEN InsertedAfter(h, freeLinks, h.last[freeLinks], k)
    ELSE h

MovedAfter(h, q, after, k) ==
  LET nxt == Set(h.next, h.prev[k], h.next[k])
      prv == Set(h.prev, h.next[k], h.prev[k]) IN
  [h EXCEPT
     !.first[q] = IF @ = k THEN h.next[k] ELSE @,
     !.last[q] = IF @ = after THEN k ELSE @,
     !.next = [nxt EXCEPT ![k] = nxt[after], ![after] = k],
     !.prev = Set([prv EXCEPT ![k] = after], nxt[after], k)]

-----------------------------------------------------------------------------
(* The calls *)

\* AQueueModuleInit: every link of the pool, one after the other, is inserted
\* last into freeLinks.
Init ==
  /\ heap = [next |-> [k \in Links |-> IF k < QUEUE_MAX_LINKS THEN k + 1 ELSE NULL],
             prev |-> [k \in Links |-> IF k > 1 THEN k - 1 ELSE NULL],
             queue |-> [k \in Links |-> freeLinks],
             object |-> [k \in Links |-> NULL],
             first |-> [q \in AllQueues |-> IF q = freeLinks THEN 1 ELSE NULL],
             last |-> [q \in AllQueues |->
                         IF q = freeLinks THEN QUEUE_MAX_LINKS ELSE NULL],
             nitems |-> [q \in AllQueues |->
                           IF q = freeLinks THEN QUEUE_MAX_LINKS ELSE 0]]
  /\ l = [o \in Objects |-> NULL]
  /\ ret = QUEUE_SUCCESS
  /\ call = <<"AQueueModuleInit">>

Fail == ret' = QUEUE_FAIL /\ UNCHANGED <<heap, l>>

\* The first free link, taken out by hand and cleared.
AQueueAllocLink(o) ==
  LET k == heap.first[freeLinks] IN
  /\ l[o] = NULL
  /\ IF AQueueEmpty(heap, freeLinks) \/ k = NULL
       THEN ret' = NULL /\ UNCHANGED <<heap, l>>
       ELSE /\ heap' = [Unlinked(heap, k) EXCEPT
                          !.next[k] = NULL, !.prev[k] = NULL,
                          !.queue[k] = NULL, !.object[k] = o]
            /\ l' = [l EXCEPT ![o] = k]
            /\ ret' = k

\* Callers insert a link they have just allocated.
Unqueued(o) == l[o] # NULL /\ heap.queue[l[o]] = NULL

AQueueInsertAfter(q, after, o) ==
  /\ Unqueued(o)
  /\ IF Place(heap, q, after)
       THEN /\ heap' = InsertedAfter(heap, q, after, l[o])
            /\ ret' = QUEUE_SUCCESS
            /\ UNCHANGED l
       ELSE Fail

AQueueInsertBefore(q, before, o) ==
  /\ Unqueued(o)
  /\ IF Place(heap, q, before)
       THEN /\ heap' = InsertedBefore(heap, q, before, l[o])
            /\ ret' = QUEUE_SUCCESS
            /\ UNCHANGED l
       ELSE Fail

\* Wrong variant: the link goes behind the first one.
InsertFirstBehind(q, o) == AQueueInsertAfter(q, heap.first[q], o)

AQueueInsertFirst(q, o) == AQueueInsertBefore(q, heap.first[q], o)

AQueueInsertLast(q, o) == AQueueInsertAfter(q, heap.last[q], o)

AQueueRemove(o) ==
  /\ l[o] # NULL
  /\ IF heap.queue[l[o]] = NULL
       THEN Fail
       ELSE /\ heap' = Freed(Unlinked(heap, l[o]), l[o])
            /\ l' = [l EXCEPT ![o] = NULL]
            /\ ret' = QUEUE_SUCCESS

AQueueMoveAfter(q, after, k) ==
  IF \/ heap.queue[k] # q
     \/ after = NULL /\ (heap.nitems[q] # 1 \/ heap.first[q] # heap.last[q])
     \/ after # NULL /\ heap.queue[after] # q
     \/ after \notin {NULL, k} /\ heap.last[q] = k
    THEN Fail
    ELSE /\ heap' = IF after \in {NULL, k} THEN heap
                    ELSE MovedAfter(heap, q, after, k)
         /\ ret' = QUEUE_SUCCESS
         /\ UNCHANGED l

\* The links callers have hold of.
InUse == {k \in Links : heap.queue[k] # freeLinks}

Next ==
  \/ \E o \in Objects :
       \/ AQueueAllocLink(o) /\ call' = <<"AQueueAllocLink", o>>
       \/ AQueueRemove(o) /\ call' = <<"AQueueRemove", o>>
  \/ \E q \in Queues, o \in Objects :
       \/ AQueueInsertFirst(q, o) /\ call' = <<"AQueueInsertFirst", q, o>>
       \/ AQueueInsertLast(q, o) /\ call' = <<"AQueueInsertLast", q, o>>
       \/ \E after \in InUse \cup {NULL} :
            /\ after # l[o]
            /\ AQueueInsertAfter(q, after, o)
            /\ call' = <<"AQueueInsertAfter", q, after, o>>
  \/ \E q \in Queues, k \in InUse, after \in InUse \cup {NULL} :
       AQueueMoveAfter(q, after, k) /\ call' = <<"AQueueMoveAfter", q, after, k>>

Spec == Init /\ [][Next]_vars

-----------------------------------------------------------------------------
(* Properties *)

Calls ==
  {<<"AQueueModuleInit">>}
    \cup {<<f, o>> : f \in {"AQueueAllocLink", "AQueueRemove"}, o \in Objects}
    \cup {<<f, q, o>> : f \in {"AQueueInsertFirst", "AQueueInsertLast"},
                       q \in Queues, o \in Objects}
    \cup {<<"AQueueInsertAfter", q, p, o>> : q \in Queues, p \in Pointers, o \in Objects}
    \cup {<<"AQueueMoveAfter", q, p, k>> : q \in Queues, p \in Pointers, k \in Links}

LinksTyped ==
  /\ heap \in [next : [Links -> Pointers], prev : [Links -> Pointers],
               queue : [Links -> AllQueues \cup {NULL}],
               object : [Links -> Objects \cup {NULL}],
               first : [AllQueues -> Pointers], last : [AllQueues -> Pointers],
               nitems : [AllQueues -> Nat]]
  /\ l \in [Objects -> Pointers]
  /\ ret \in {QUEUE_FAIL, QUEUE_SUCCESS} \cup Pointers

TypeOK == LinksTyped /\ call \in Calls

\* The two directions of every list agree: neighbours point at each other and
\* are on the same queue, and the ends are where the queue says.
Mirrored(h) ==
  /\ \A j, k \in Links : h.next[j] = k <=> h.prev[k] = j
  /\ \A j \in Links : h.next[j] # NULL => h.queue[j] = h.queue[h.next[j]]
  /\ \A j \in Links, q \in AllQueues :
       /\ h.first[q] = j <=> h.queue[j] = q /\ h.prev[j] = NULL
       /\ h.last[q] = j <=> h.queue[j] = q /\ h.next[j] = NULL
  /\ \A j \in Links :
       h.queue[j] = NULL => h.next[j] = NULL /\ h.prev[j] = NULL

PointersMirror == Mirrored(heap)

\* The links met when the next pointers are followed nitems times from first.
Walk(h, q) ==
  LET at[i \in Nat] == IF i <= 1 THEN h.first[q]
                       ELSE IF at[i - 1] = NULL THEN NULL ELSE h.next[at[i - 1]]
  IN  [i \in 1 .. h.nitems[q] |-> at[i]]

OnWalk(h, q) == {Walk(h, q)[i] : i \in 1 .. h.nitems[q]}

\* Seen through Walk, the pointers implement the sequences, call by call:
\* AQueueInsertFirst(q, o) makes the link of o the first of q and changes no
\* other queue, a move takes the link where the call says, a call fails only
\* when its arguments are refused, and none loses a link or has it twice.
Sequences == INSTANCE LinkSequences
  WITH seq <- [q \in Queues |-> Walk(heap, q)], free <- OnWalk(heap, freeLinks),
       obj <- heap.object
ImplementsSequences == Sequences!SeqSpec
=============================================================================
