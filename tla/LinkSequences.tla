--------------------------- MODULE LinkSequences ---------------------------
(***************************************************************************)
(* What os/queue.c promises, with no pointers: a queue is a sequence of    *)
(* links, the free list is a pool, and every call changes the sequences as *)
(* its name says, or is refused and changes nothing.  A step is the answer *)
(* to one call, the one the variable call names with its arguments.        *)
(***************************************************************************)
EXTENDS Integers, Sequences, SequencesExt

CONSTANTS
  Links,    \* linkpool
  Queues,   \* the queues of the modules that use links
  Objects,  \* what is queued: PCBs, cache slots
  NULL

QUEUE_FAIL == 0
QUEUE_SUCCESS == 1

VARIABLES
  seq,   \* the links of each queue
  free,  \* the links nobody has
  l,     \* the field l of each object: its link, or NULL
  obj,   \* the field object of each link
  ret,   \* what the last call returned
  call   \* that call and its arguments

seqVars == <<seq, free, l, obj, ret, call>>

SeqInit ==
  /\ seq = [q \in Queues |-> <<>>]
  /\ free = Links
  /\ l = [o \in Objects |-> NULL]
  /\ obj = [k \in Links |-> NULL]
  /\ ret = QUEUE_SUCCESS
  /\ call = <<"AQueueModuleInit">>

On(q) == Range(seq[q])
Queued(k) == \E q \in Queues : k \in On(q)

Fail == ret' = QUEUE_FAIL /\ UNCHANGED <<seq, free, l, obj>>

Become(q, s) ==
  /\ seq' = [seq EXCEPT ![q] = s]
  /\ ret' = QUEUE_SUCCESS

After(s, a, k) == InsertAt(s, SelectInSeq(s, LAMBDA e : e = a) + 1, k)

-----------------------------------------------------------------------------

Alloc(o) ==
  \/ /\ free = {}
     /\ ret' = NULL /\ UNCHANGED <<seq, free, l, obj>>
  \/ \E k \in free :
       /\ free' = free \ {k}
       /\ l' = [l EXCEPT ![o] = k]
       /\ obj' = [obj EXCEPT ![k] = o]
       /\ ret' = k
       /\ UNCHANGED seq

\* The link of o joins q in front, behind, or after the link a.
InsertFirst(q, o) == Become(q, <<l[o]>> \o seq[q]) /\ UNCHANGED <<free, l, obj>>
InsertLast(q, o) == Become(q, Append(seq[q], l[o])) /\ UNCHANGED <<free, l, obj>>

InsertAfter(q, a, o) ==
  \/ /\ a \in On(q)
     /\ Become(q, After(seq[q], a, l[o])) /\ UNCHANGED <<free, l, obj>>
  \/ /\ a = NULL /\ seq[q] = <<>>
     /\ InsertLast(q, o)
  \/ /\ a \notin On(q) /\ (a # NULL \/ seq[q] # <<>>)
     /\ Fail

RemoveLink(o) ==
  \/ \E q \in Queues :
       /\ l[o] \in On(q)
       /\ Become(q, RemoveFirst(seq[q], l[o]))
       /\ free' = free \cup {l[o]}
       /\ l' = [l EXCEPT ![o] = NULL]
       /\ UNCHANGED obj
  \/ ~Queued(l[o]) /\ Fail

\* The last link of a queue cannot be moved; without a link to move it after,
\* only the one link of a queue stays where it is.
MoveAfter(q, a, k) ==
  \/ /\ a \in On(q) /\ k \in On(q) /\ a # k /\ Last(seq[q]) # k
     /\ Become(q, After(RemoveFirst(seq[q], k), a, k)) /\ UNCHANGED <<free, l, obj>>
  \/ /\ k \in On(q)
     /\ a = k \/ (a = NULL /\ Len(seq[q]) = 1)
     /\ ret' = QUEUE_SUCCESS /\ UNCHANGED <<seq, free, l, obj>>
  \/ /\ \/ k \notin On(q)
        \/ a = NULL /\ Len(seq[q]) # 1
        \/ a # NULL /\ a \notin On(q)
        \/ a \in On(q) /\ a # k /\ Last(seq[q]) = k
     /\ Fail

SeqNext ==
  \/ \E o \in Objects :
       \/ Alloc(o) /\ call' = <<"AQueueAllocLink", o>>
       \/ RemoveLink(o) /\ call' = <<"AQueueRemove", o>>
  \/ \E q \in Queues, o \in Objects :
       \/ InsertFirst(q, o) /\ call' = <<"AQueueInsertFirst", q, o>>
       \/ InsertLast(q, o) /\ call' = <<"AQueueInsertLast", q, o>>
       \/ \E a \in Links \cup {NULL} :
            InsertAfter(q, a, o) /\ call' = <<"AQueueInsertAfter", q, a, o>>
  \/ \E q \in Queues, k \in Links, a \in Links \cup {NULL} :
       MoveAfter(q, a, k) /\ call' = <<"AQueueMoveAfter", q, a, k>>

SeqSpec == SeqInit /\ [][SeqNext]_seqVars
=============================================================================
