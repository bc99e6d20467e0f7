-------------------------- MODULE LinkQueueProofs --------------------------
(***************************************************************************)
(* Proofs about LinkQueue for every size of the pool and every number of   *)
(* queues and objects.  What makes pointers a list is that the links can   *)
(* be numbered: each link on a queue has a place from 1 to nitems, no two  *)
(* have the same, none is missing, and next and prev are the places behind *)
(* and in front.  No variable of the code holds the numbers, so that the   *)
(* invariant says they exist, and each operation is followed by how it     *)
(* renumbers the links.  The numbers also say that Walk, which follows     *)
(* next from first, meets every link of a queue once, in their order: a    *)
(* call is then followed by what it makes of these lists, which is what    *)
(* LinkSequences asks of it.  For that the link an object has hold of must *)
(* not be free (Held).                                                     *)
(***************************************************************************)
EXTENDS LinkQueue, QueueTheorems

HeapOK(h) ==
  h \in [next : [Links -> Pointers], prev : [Links -> Pointers],
         queue : [Links -> AllQueues \cup {NULL}],
         object : [Links -> Objects \cup {NULL}],
         first : [AllQueues -> Pointers], last : [AllQueues -> Pointers],
         nitems : [AllQueues -> Nat]]

Numberings == [Links -> Int]

\* pos numbers the links of L; links outside L are on no list.
PlacesTaken(h, pos, L) ==
  /\ \A j \in L, q \in AllQueues :
       h.queue[j] = q => 1 <= pos[j] /\ pos[j] <= h.nitems[q]
  /\ \A j, k \in L, q \in AllQueues :
       h.queue[j] = q /\ h.queue[k] = q /\ pos[j] = pos[k] => j = k
  /\ \A q \in AllQueues, i \in Int :
       1 <= i /\ i <= h.nitems[q] => \E j \in L : h.queue[j] = q /\ pos[j] = i

Behind(h, pos, j, k) ==
  h.queue[j] \in AllQueues /\ h.queue[k] = h.queue[j] /\ pos[k] = pos[j] + 1

Chained(h, pos, L) ==
  /\ \A j \in L : h.next[j] \in L \cup {NULL} /\ h.prev[j] \in L \cup {NULL}
  /\ \A j, k \in L : h.next[j] = k <=> Behind(h, pos, j, k)
  /\ \A j, k \in L : h.prev[k] = j <=> Behind(h, pos, j, k)

EndsFound(h, pos, L) ==
  /\ \A q \in AllQueues : h.first[q] \in L \cup {NULL} /\ h.last[q] \in L \cup {NULL}
  /\ \A j \in L, q \in AllQueues :
       /\ h.first[q] = j <=> h.queue[j] = q /\ pos[j] = 1
       /\ h.last[q] = j <=> h.queue[j] = q /\ pos[j] = h.nitems[q]

Numbered(h, pos, L) ==
  PlacesTaken(h, pos, L) /\ Chained(h, pos, L) /\ EndsFound(h, pos, L)

Shape == LinksTyped /\ \E pos \in Numberings : Numbered(heap, pos, Links)

\* The link an object has hold of is its own, and not free.
Held ==
  \A o \in Objects :
    l[o] # NULL => heap.queue[l[o]] # freeLinks /\ heap.object[l[o]] = o

IInv == Shape /\ Held
-----------------------------------------------------------------------------
(* A link is taken off its queue *)

LEMMA NullIsNoLink == NULL \notin Links /\ NULL \notin AllQueues /\ Links \subseteq Int
BY LinkAssumption DEF AllQueues, Links

LEMMA HeapFields ==
  ASSUME NEW h, HeapOK(h)
  PROVE  /\ h.next \in [Links -> Pointers] /\ h.prev \in [Links -> Pointers]
         /\ h.queue \in [Links -> AllQueues \cup {NULL}]
         /\ h.object \in [Links -> Objects \cup {NULL}]
         /\ h.first \in [AllQueues -> Pointers] /\ h.last \in [AllQueues -> Pointers]
         /\ h.nitems \in [AllQueues -> Nat]
BY DEF HeapOK

LEMMA UnlinkedFields ==
  ASSUME NEW h, HeapOK(h), NEW k \in Links, h.queue[k] \in AllQueues,
         NEW u, u = Unlinked(h, k)
  PROVE  /\ u.next \in [Links -> Pointers] /\ u.prev \in [Links -> Pointers]
         /\ u.queue = h.queue /\ u.object = h.object
         /\ u.first \in [AllQueues -> Pointers] /\ u.last \in [AllQueues -> Pointers]
         /\ u.nitems \in [AllQueues -> Int]
         /\ \A j \in Links :
              /\ u.next[j] = IF j = h.prev[k] THEN h.next[k] ELSE h.next[j]
              /\ u.prev[j] = IF j = h.next[k] THEN h.prev[k] ELSE h.prev[j]
         /\ \A q \in AllQueues :
              /\ u.first[q] = IF q = h.queue[k] /\ h.first[q] = k THEN h.next[k] ELSE h.first[q]
              /\ u.last[q] = IF q = h.queue[k] /\ h.last[q] = k THEN h.prev[k] ELSE h.last[q]
              /\ u.nitems[q] = IF q = h.queue[k] THEN h.nitems[q] - 1 ELSE h.nitems[q]
         /\ u = [next |-> u.next, prev |-> u.prev, queue |-> u.queue, object |-> u.object,
                 first |-> u.first, last |-> u.last, nitems |-> u.nitems]
<1>1. /\ h.next \in [Links -> Pointers] /\ h.prev \in [Links -> Pointers]
      /\ h.first \in [AllQueues -> Pointers] /\ h.last \in [AllQueues -> Pointers]
      /\ h.nitems \in [AllQueues -> Nat]
      /\ h.next[k] \in Pointers /\ h.prev[k] \in Pointers
  BY HeapFields
<1>2. h = [next |-> h.next, prev |-> h.prev, queue |-> h.queue, object |-> h.object,
           first |-> h.first, last |-> h.last, nitems |-> h.nitems]
  BY DEF HeapOK
<1>3. /\ u.next = Set(h.next, h.prev[k], h.next[k])
      /\ u.prev = Set(h.prev, h.next[k], h.prev[k])
      /\ u.queue = h.queue /\ u.object = h.object
      /\ u.first = [h.first EXCEPT ![h.queue[k]] = IF @ = k THEN h.next[k] ELSE @]
      /\ u.last = [h.last EXCEPT ![h.queue[k]] = IF @ = k THEN h.prev[k] ELSE @]
      /\ u.nitems = [h.nitems EXCEPT ![h.queue[k]] = @ - 1]
  <2>1. u.next = Set(h.next, h.prev[k], h.next[k])
    BY <1>2 DEF Unlinked
  <2>2. u.prev = Set(h.prev, h.next[k], h.prev[k])
    BY <1>2 DEF Unlinked
  <2>3. u.queue = h.queue /\ u.object = h.object
    BY <1>2 DEF Unlinked
  <2>4. u.first = [h.first EXCEPT ![h.queue[k]] = IF @ = k THEN h.next[k] ELSE @]
    BY <1>2 DEF Unlinked
  <2>5. u.last = [h.last EXCEPT ![h.queue[k]] = IF @ = k THEN h.prev[k] ELSE @]
    BY <1>2 DEF Unlinked
  <2>6. u.nitems = [h.nitems EXCEPT ![h.queue[k]] = @ - 1]
    BY <1>2 DEF Unlinked
  <2>. QED BY <2>1, <2>2, <2>3, <2>4, <2>5, <2>6
<1>4. /\ u.next \in [Links -> Pointers] /\ u.prev \in [Links -> Pointers]
      /\ \A j \in Links :
           /\ u.next[j] = IF j = h.prev[k] THEN h.next[k] ELSE h.next[j]
           /\ u.prev[j] = IF j = h.next[k] THEN h.prev[k] ELSE h.prev[j]
  <2>1. /\ u.next \in [Links -> Pointers]
        /\ \A j \in Links : u.next[j] = IF j = h.prev[k] THEN h.next[k] ELSE h.next[j]
    BY <1>1, <1>3, NullIsNoLink DEF Set, Pointers
  <2>2. /\ u.prev \in [Links -> Pointers]
        /\ \A j \in Links : u.prev[j] = IF j = h.next[k] THEN h.prev[k] ELSE h.prev[j]
    BY <1>1, <1>3, NullIsNoLink DEF Set, Pointers
  <2>. QED BY <2>1, <2>2
<1>5. /\ u.first \in [AllQueues -> Pointers] /\ u.last \in [AllQueues -> Pointers]
      /\ u.nitems \in [AllQueues -> Int]
  BY <1>1, <1>3
<1>6. \A q \in AllQueues :
        /\ u.first[q] = IF q = h.queue[k] /\ h.first[q] = k THEN h.next[k] ELSE h.first[q]
        /\ u.last[q] = IF q = h.queue[k] /\ h.last[q] = k THEN h.prev[k] ELSE h.last[q]
        /\ u.nitems[q] = IF q = h.queue[k] THEN h.nitems[q] - 1 ELSE h.nitems[q]
  BY <1>1, <1>3
<1>7. u = [next |-> u.next, prev |-> u.prev, queue |-> u.queue, object |-> u.object,
           first |-> u.first, last |-> u.last, nitems |-> u.nitems]
  <2>1. DOMAIN u = {"next", "prev", "queue", "object", "first", "last", "nitems"}
    BY <1>2 DEF Unlinked
  <2>2. u = [f \in DOMAIN u |-> u[f]]
    BY <1>2 DEF Unlinked
  <2>. QED BY <2>1, <2>2
<1>. QED BY <1>3, <1>4, <1>5, <1>6, <1>7

LEMMA UnlinkRenumbers ==
  ASSUME NEW h, HeapOK(h), NEW pos \in Numberings, Numbered(h, pos, Links),
         NEW k \in Links, h.queue[k] \in AllQueues
  PROVE  \E p \in Numberings : Numbered(Unlinked(h, k), p, Links \ {k})
<1>. DEFINE u == Unlinked(h, k)
            L == Links \ {k}
            p == [j \in Links |-> IF h.queue[j] = h.queue[k] /\ pos[j] > pos[k]
                                    THEN pos[j] - 1 ELSE pos[j]]
<1>1. /\ \A j \in Links : pos[j] \in Int /\ p[j] \in Int
      /\ \A j \in Links : p[j] = IF h.queue[j] = h.queue[k] /\ pos[j] > pos[k]
                                   THEN pos[j] - 1 ELSE pos[j]
      /\ p \in Numberings
  BY DEF Numberings
<1>2. /\ u.queue = h.queue
      /\ \A j \in Links :
           /\ u.next[j] = IF j = h.prev[k] THEN h.next[k] ELSE h.next[j]
           /\ u.prev[j] = IF j = h.next[k] THEN h.prev[k] ELSE h.prev[j]
      /\ \A q \in AllQueues :
           /\ u.first[q] = IF q = h.queue[k] /\ h.first[q] = k THEN h.next[k] ELSE h.first[q]
           /\ u.last[q] = IF q = h.queue[k] /\ h.last[q] = k THEN h.prev[k] ELSE h.last[q]
           /\ u.nitems[q] = IF q = h.queue[k] THEN h.nitems[q] - 1 ELSE h.nitems[q]
  BY UnlinkedFields
<1>3. /\ PlacesTaken(h, pos, Links) /\ Chained(h, pos, Links) /\ EndsFound(h, pos, Links)
      /\ \A q \in AllQueues : h.nitems[q] \in Int
      /\ NULL \notin Links
  BY HeapFields, NullIsNoLink DEF Numbered
<1>. HIDE DEF u, p
<1>4. PlacesTaken(u, p, L)
  <2>1. ASSUME NEW j \in L, NEW q \in AllQueues, u.queue[j] = q
        PROVE  1 <= p[j] /\ p[j] <= u.nitems[q]
    BY <1>1, <1>2, <1>3, <2>1 DEF PlacesTaken
  <2>2. ASSUME NEW j \in L, NEW m \in L, NEW q \in AllQueues, u.queue[j] = q, u.queue[m] = q,
               p[j] = p[m]
        PROVE  j = m
    BY <1>1, <1>2, <1>3, <2>2 DEF PlacesTaken
  <2>3. ASSUME NEW q \in AllQueues, NEW i \in Int, 1 <= i, i <= u.nitems[q]
        PROVE  \E j \in L : u.queue[j] = q /\ p[j] = i
    <3>1. CASE q # h.queue[k] \/ i < pos[k]
      <4>1. PICK j \in Links : h.queue[j] = q /\ pos[j] = i
        BY <1>2, <1>3, <2>3 DEF PlacesTaken
      <4>. QED BY <1>1, <1>2, <3>1, <4>1
    <3>2. CASE q = h.queue[k] /\ i >= pos[k]
      <4>1. PICK j \in Links : h.queue[j] = q /\ pos[j] = i + 1
        <5>1. 1 <= i + 1 /\ i + 1 <= h.nitems[q]
          BY <1>2, <1>3, <2>3, <3>2
        <5>. QED BY <1>3, <5>1 DEF PlacesTaken
      <4>. QED BY <1>1, <1>2, <3>2, <4>1
    <3>. QED BY <1>1, <3>1, <3>2
  <2>. QED BY <2>1, <2>2, <2>3 DEF PlacesTaken
<1>5. Chained(u, p, L)
  <2>1. ASSUME NEW j \in L
        PROVE  u.next[j] \in L \cup {NULL} /\ u.prev[j] \in L \cup {NULL}
    BY <1>1, <1>2, <1>3 DEF Chained, Behind
  <2>2. ASSUME NEW j \in L, NEW m \in L
        PROVE  u.next[j] = m <=> Behind(u, p, j, m)
    BY <1>1, <1>2, <1>3 DEF Chained, Behind, PlacesTaken
  <2>3. ASSUME NEW j \in L, NEW m \in L
        PROVE  u.prev[m] = j <=> Behind(u, p, j, m)
    BY <1>1, <1>2, <1>3 DEF Chained, Behind, PlacesTaken
  <2>. QED BY <2>1, <2>2, <2>3 DEF Chained
<1>6. EndsFound(u, p, L)
  <2>1. ASSUME NEW q \in AllQueues
        PROVE  u.first[q] \in L \cup {NULL} /\ u.last[q] \in L \cup {NULL}
    BY <1>1, <1>2, <1>3 DEF Chained, Behind, EndsFound
  <2>2. ASSUME NEW j \in L, NEW q \in AllQueues
        PROVE  u.first[q] = j <=> u.queue[j] = q /\ p[j] = 1
    <3>1. CASE q = h.queue[k] /\ h.first[q] = k
      <4>1. pos[k] = 1 /\ u.first[q] = h.next[k]
        BY <1>2, <1>3, <3>1 DEF EndsFound
      <4>2. h.next[k] = j <=> h.queue[j] = q /\ pos[j] = 2
        BY <1>1, <1>3, <3>1, <4>1 DEF Chained, Behind
      <4>3. h.queue[j] = q => pos[j] # 1 /\ pos[j] >= 1
        BY <1>1, <1>3, <3>1, <4>1 DEF PlacesTaken
      <4>. QED BY <1>1, <1>2, <3>1, <4>1, <4>2, <4>3
    <3>2. CASE q = h.queue[k] /\ h.first[q] # k
      <4>1. h.queue[j] = q => pos[j] >= 1
        BY <1>3 DEF PlacesTaken
      <4>2. pos[k] > 1
        BY <1>1, <1>3, <3>2 DEF PlacesTaken, EndsFound
      <4>. QED BY <1>1, <1>2, <1>3, <3>2, <4>1, <4>2 DEF EndsFound
    <3>3. CASE q # h.queue[k]
      BY <1>1, <1>2, <1>3, <3>3 DEF EndsFound
    <3>. QED BY <3>1, <3>2, <3>3
  <2>3. ASSUME NEW j \in L, NEW q \in AllQueues
        PROVE  u.last[q] = j <=> u.queue[j] = q /\ p[j] = u.nitems[q]
    BY <1>1, <1>2, <1>3 DEF Chained, Behind, PlacesTaken, EndsFound
  <2>. QED BY <2>1, <2>2, <2>3 DEF EndsFound
<1>. QED BY <1>1, <1>4, <1>5, <1>6 DEF Numbered, u

LEMMA UnlinkedOK ==
  ASSUME NEW h, HeapOK(h), NEW pos \in Numberings, Numbered(h, pos, Links),
         NEW k \in Links, h.queue[k] \in AllQueues
  PROVE  HeapOK(Unlinked(h, k))
<1>. DEFINE u == Unlinked(h, k)
<1>1. /\ u.next \in [Links -> Pointers] /\ u.prev \in [Links -> Pointers]
      /\ u.queue = h.queue /\ u.object = h.object
      /\ u.first \in [AllQueues -> Pointers] /\ u.last \in [AllQueues -> Pointers]
      /\ u.nitems \in [AllQueues -> Int]
      /\ \A q \in AllQueues :
           u.nitems[q] = IF q = h.queue[k] THEN h.nitems[q] - 1 ELSE h.nitems[q]
      /\ u = [next |-> u.next, prev |-> u.prev, queue |-> u.queue, object |-> u.object,
              first |-> u.first, last |-> u.last, nitems |-> u.nitems]
  BY UnlinkedFields
<1>. HIDE DEF u
<1>2. h.nitems \in [AllQueues -> Nat] /\ h.nitems[h.queue[k]] >= 1
  <2>1. pos[k] \in Int /\ 1 <= pos[k] /\ pos[k] <= h.nitems[h.queue[k]]
    BY DEF Numbered, PlacesTaken, Numberings
  <2>. QED BY <2>1, HeapFields
<1>3. u.nitems \in [AllQueues -> Nat]
  BY <1>1, <1>2
<1>4. HeapOK(u)
  BY <1>1, <1>3, HeapFields DEF HeapOK
<1>. QED BY <1>4 DEF u

-----------------------------------------------------------------------------
(* A link joins a queue between its neighbours a and b, in place n *)

Joined(h, x, q, a, b, k) ==
  /\ \A j \in Links :
       /\ x.next[j] = IF j = a THEN k ELSE IF j = k THEN b ELSE h.next[j]
       /\ x.prev[j] = IF j = b THEN k ELSE IF j = k THEN a ELSE h.prev[j]
       /\ x.queue[j] = IF j = k THEN q ELSE h.queue[j]
  /\ \A r \in AllQueues :
       /\ x.first[r] = IF r = q /\ a = NULL THEN k ELSE h.first[r]
       /\ x.last[r] = IF r = q /\ b = NULL THEN k ELSE h.last[r]
       /\ x.nitems[r] = IF r = q THEN h.nitems[r] + 1 ELSE h.nitems[r]

Gap(h, pos, L, q, a, b, n) ==
  /\ n \in Int /\ 1 <= n /\ n <= h.nitems[q] + 1
  /\ \/ a = NULL /\ n = 1
     \/ a \in L /\ h.queue[a] = q /\ pos[a] + 1 = n
  /\ \/ b = NULL /\ n = h.nitems[q] + 1
     \/ b \in L /\ h.queue[b] = q /\ pos[b] = n

LEMMA JoinRenumbers ==
  ASSUME NEW h, HeapOK(h), NEW pos \in Numberings, NEW k \in Links,
         Numbered(h, pos, Links \ {k}),
         NEW q \in AllQueues, NEW a, NEW b, NEW n, Gap(h, pos, Links \ {k}, q, a, b, n),
         NEW x, Joined(h, x, q, a, b, k)
  PROVE  \E p \in Numberings : Numbered(x, p, Links)
<1>. DEFINE L == Links \ {k}
            p == [j \in Links |-> IF j = k THEN n
                                  ELSE IF h.queue[j] = q /\ pos[j] >= n THEN pos[j] + 1
                                  ELSE pos[j]]
<1>1. /\ \A j \in Links : pos[j] \in Int /\ p[j] \in Int
      /\ \A j \in Links : p[j] = IF j = k THEN n
                                 ELSE IF h.queue[j] = q /\ pos[j] >= n THEN pos[j] + 1
                                 ELSE pos[j]
      /\ p \in Numberings
      /\ n \in Int
  BY DEF Numberings, Gap
<1>2. Joined(h, x, q, a, b, k) /\ Gap(h, pos, L, q, a, b, n)
  OBVIOUS
<1>3. /\ PlacesTaken(h, pos, L) /\ Chained(h, pos, L) /\ EndsFound(h, pos, L)
      /\ \A r \in AllQueues : h.nitems[r] \in Nat
      /\ NULL \notin Links /\ NULL \notin AllQueues
  BY HeapFields, NullIsNoLink DEF Numbered
<1>. HIDE DEF p
<1>4. PlacesTaken(x, p, Links)
  <2>1. ASSUME NEW j \in Links, NEW r \in AllQueues, x.queue[j] = r
        PROVE  1 <= p[j] /\ p[j] <= x.nitems[r]
    BY <1>1, <1>2, <1>3, <2>1 DEF PlacesTaken, Joined, Gap
  <2>2. ASSUME NEW j \in Links, NEW m \in Links, NEW r \in AllQueues,
               x.queue[j] = r, x.queue[m] = r, p[j] = p[m]
        PROVE  j = m
    BY <1>1, <1>2, <1>3, <2>2 DEF PlacesTaken, Joined
  <2>3. ASSUME NEW r \in AllQueues, NEW i \in Int, 1 <= i, i <= x.nitems[r]
        PROVE  \E j \in Links : x.queue[j] = r /\ p[j] = i
    <3>1. CASE r # q \/ i < n
      <4>1. i <= h.nitems[r]
        BY <1>2, <1>3, <2>3, <3>1 DEF Joined, Gap
      <4>2. PICK j \in L : h.queue[j] = r /\ pos[j] = i
        BY <1>3, <2>3, <4>1 DEF PlacesTaken
      <4>. QED BY <1>1, <1>2, <3>1, <4>2 DEF Joined
    <3>2. CASE r = q /\ i = n
      BY <1>1, <1>2, <3>2 DEF Joined
    <3>3. CASE r = q /\ i > n
      <4>1. 1 <= i - 1 /\ i - 1 <= h.nitems[r] /\ i - 1 \in Int
        BY <1>2, <1>3, <2>3, <3>3 DEF Joined, Gap
      <4>2. PICK j \in L : h.queue[j] = r /\ pos[j] = i - 1
        BY <1>3, <4>1 DEF PlacesTaken
      <4>. QED BY <1>1, <1>2, <3>3, <4>2 DEF Joined
    <3>. QED BY <1>1, <3>1, <3>2, <3>3
  <2>. QED BY <2>1, <2>2, <2>3 DEF PlacesTaken
<1>5. Chained(x, p, Links)
  <2>1. ASSUME NEW j \in Links
        PROVE  x.next[j] \in Links \cup {NULL} /\ x.prev[j] \in Links \cup {NULL}
    BY <1>2, <1>3 DEF Chained, Joined, Gap
  <2>2. ASSUME NEW j \in Links, NEW m \in Links
        PROVE  x.next[j] = m <=> Behind(x, p, j, m)
    BY <1>1, <1>2, <1>3 DEF Chained, Behind, PlacesTaken, Joined, Gap
  <2>3. ASSUME NEW j \in Links, NEW m \in Links
        PROVE  x.prev[m] = j <=> Behind(x, p, j, m)
    BY <1>1, <1>2, <1>3 DEF Chained, Behind, PlacesTaken, Joined, Gap
  <2>. QED BY <2>1, <2>2, <2>3 DEF Chained
<1>6. EndsFound(x, p, Links)
  <2>1. ASSUME NEW r \in AllQueues
        PROVE  x.first[r] \in Links \cup {NULL} /\ x.last[r] \in Links \cup {NULL}
    BY <1>2, <1>3 DEF EndsFound, Joined
  <2>2. ASSUME NEW j \in Links, NEW r \in AllQueues
        PROVE  x.first[r] = j <=> x.queue[j] = r /\ p[j] = 1
    BY <1>1, <1>2, <1>3 DEF PlacesTaken, EndsFound, Joined, Gap
  <2>3. ASSUME NEW j \in Links, NEW r \in AllQueues
        PROVE  x.last[r] = j <=> x.queue[j] = r /\ p[j] = x.nitems[r]
    BY <1>1, <1>2, <1>3 DEF PlacesTaken, EndsFound, Joined, Gap
  <2>. QED BY <2>1, <2>2, <2>3 DEF EndsFound
<1>. QED BY <1>1, <1>4, <1>5, <1>6 DEF Numbered

Follower(h, j) == IF j = NULL THEN NULL ELSE h.next[j]
Leader(h, j) == IF j = NULL THEN NULL ELSE h.prev[j]

\* The gap behind a link, or in an empty queue.
LEMMA GapBehind ==
  ASSUME NEW h, HeapOK(h), NEW pos \in Numberings, NEW k \in Links,
         Numbered(h, pos, Links \ {k}),
         NEW q \in AllQueues, NEW after \in Pointers \ {k}, Place(h, q, after)
  PROVE  /\ \E n : Gap(h, pos, Links \ {k}, q, after, Follower(h, after), n)
         /\ Follower(h, after) = NULL <=> after = NULL \/ h.last[q] = after
<1>. DEFINE nxt == Follower(h, after)
            n == IF after = NULL THEN 1 ELSE pos[after] + 1
            L == Links \ {k}
<1>0. nxt = IF after = NULL THEN NULL ELSE h.next[after]
  BY DEF Follower
<1>. HIDE DEF nxt
<1>1. Gap(h, pos, L, q, after, nxt, n)
  <2>1. CASE after = NULL
    BY <1>0, <2>1 DEF Gap, Place, AQueueEmpty
  <2>2. CASE after # NULL
    <3>1. after \in L /\ h.queue[after] = q /\ pos[after] \in Int /\ h.nitems[q] \in Nat
      BY <2>2, HeapFields DEF Place, Pointers, Numberings
    <3>2. 1 <= pos[after] /\ pos[after] <= h.nitems[q]
      BY <3>1 DEF Numbered, PlacesTaken
    <3>3. nxt \in L => h.queue[nxt] = q /\ pos[nxt] = n
      BY <1>0, <2>2, <3>1 DEF Numbered, Chained, Behind
    <3>4. nxt = NULL => n = h.nitems[q] + 1
      <4>1. ASSUME n # h.nitems[q] + 1, nxt = NULL PROVE FALSE
        <5>1. 1 <= n /\ n <= h.nitems[q] /\ n \in Int
          BY <2>2, <3>1, <3>2, <4>1
        <5>2. PICK j \in L : h.queue[j] = q /\ pos[j] = n
          BY <5>1 DEF Numbered, PlacesTaken
        <5>3. h.next[after] = j
          BY <2>2, <3>1, <5>2 DEF Numbered, Chained, Behind
        <5>. QED BY <1>0, <2>2, <4>1, <5>2, <5>3, NullIsNoLink
      <4>. QED BY <4>1
    <3>5. nxt \in L \cup {NULL}
      BY <1>0, <2>2, <3>1 DEF Numbered, Chained
    <3>. QED BY <2>2, <3>1, <3>2, <3>3, <3>4, <3>5 DEF Gap
  <2>. QED BY <2>1, <2>2
<1>2. nxt = NULL <=> after = NULL \/ h.last[q] = after
  <2>1. CASE after = NULL
    BY <1>0, <2>1
  <2>2. CASE after # NULL
    <3>1. after \in L /\ h.queue[after] = q /\ pos[after] \in Int /\ h.nitems[q] \in Nat
      BY <2>2, HeapFields DEF Place, Pointers, Numberings
    <3>2. h.last[q] = after <=> pos[after] = h.nitems[q]
      BY <3>1 DEF Numbered, EndsFound
    <3>3. nxt \in L => pos[nxt] \in Int /\ pos[nxt] <= h.nitems[q]
      BY <1>1, <3>1, NullIsNoLink DEF Gap, Numbered, PlacesTaken, Numberings
    <3>. QED BY <1>1, <2>2, <3>1, <3>2, <3>3, NullIsNoLink DEF Gap
  <2>. QED BY <2>1, <2>2
<1>. QED BY <1>1, <1>2 DEF nxt

\* The operations of the code that join a link to a queue.
LEMMA InsertedAfterJoins ==
  ASSUME NEW h, HeapOK(h), NEW pos \in Numberings, NEW k \in Links,
         Numbered(h, pos, Links \ {k}),
         NEW q \in AllQueues, NEW after \in Pointers \ {k}, Place(h, q, after)
  PROVE  /\ HeapOK(InsertedAfter(h, q, after, k))
         /\ \E p \in Numberings : Numbered(InsertedAfter(h, q, after, k), p, Links)
         /\ Joined(h, InsertedAfter(h, q, after, k), q, after, Follower(h, after), k)
         /\ InsertedAfter(h, q, after, k).object = h.object
<1>. DEFINE x == InsertedAfter(h, q, after, k)
            nxt == Follower(h, after)
            L == Links \ {k}
<1>1. /\ h = [next |-> h.next, prev |-> h.prev, queue |-> h.queue, object |-> h.object,
              first |-> h.first, last |-> h.last, nitems |-> h.nitems]
      /\ nxt \in Pointers
  BY HeapFields DEF HeapOK, Pointers, Follower
<1>2. /\ \E n : Gap(h, pos, L, q, after, nxt, n)
      /\ nxt = NULL <=> after = NULL \/ h.last[q] = after
  BY GapBehind
<1>3. h.nitems[q] = 0 \/ after # NULL
  BY DEF Place, AQueueEmpty
<1>. HIDE DEF nxt
<1>4. /\ x.queue = [h.queue EXCEPT ![k] = q] /\ x.object = h.object
      /\ x.prev = Set([h.prev EXCEPT ![k] = after], nxt, k)
      /\ x.next = Set([h.next EXCEPT ![k] = nxt], after, k)
      /\ x.first = [h.first EXCEPT ![q] = IF after = NULL THEN k ELSE @]
      /\ x.last = [h.last EXCEPT ![q] = IF after = NULL \/ @ = after THEN k ELSE @]
      /\ x.nitems = [h.nitems EXCEPT ![q] = IF after = NULL THEN 1 ELSE @ + 1]
  <2>1. x.queue = [h.queue EXCEPT ![k] = q] /\ x.object = h.object
    BY <1>1 DEF InsertedAfter, nxt, Follower
  <2>2. x.prev = Set([h.prev EXCEPT ![k] = after], nxt, k)
    BY <1>1 DEF InsertedAfter, nxt, Follower
  <2>3. x.next = Set([h.next EXCEPT ![k] = nxt], after, k)
    BY <1>1 DEF InsertedAfter, nxt, Follower
  <2>4. x.first = [h.first EXCEPT ![q] = IF after = NULL THEN k ELSE @]
    BY <1>1 DEF InsertedAfter
  <2>5. x.last = [h.last EXCEPT ![q] = IF after = NULL \/ @ = after THEN k ELSE @]
    BY <1>1 DEF InsertedAfter
  <2>6. x.nitems = [h.nitems EXCEPT ![q] = IF after = NULL THEN 1 ELSE @ + 1]
    BY <1>1 DEF InsertedAfter
  <2>. QED BY <2>1, <2>2, <2>3, <2>4, <2>5, <2>6
<1>5. x = [next |-> x.next, prev |-> x.prev, queue |-> x.queue, object |-> x.object,
           first |-> x.first, last |-> x.last, nitems |-> x.nitems]
  <2>1. DOMAIN x = {"next", "prev", "queue", "object", "first", "last", "nitems"}
    BY <1>1 DEF InsertedAfter
  <2>2. x = [f \in DOMAIN x |-> x[f]]
    BY <1>1 DEF InsertedAfter
  <2>. QED BY <2>1, <2>2
<1>. HIDE DEF x
<1>6. /\ x.prev \in [Links -> Pointers]
      /\ \A j \in Links : x.prev[j] = IF j = nxt THEN k ELSE IF j = k THEN after ELSE h.prev[j]
  BY <1>1, <1>4, HeapFields, NullIsNoLink DEF Set, Pointers
<1>7. /\ x.next \in [Links -> Pointers]
      /\ \A j \in Links : x.next[j] = IF j = after THEN k ELSE IF j = k THEN nxt ELSE h.next[j]
  BY <1>1, <1>4, HeapFields, NullIsNoLink DEF Set, Pointers
<1>8. /\ x.first \in [AllQueues -> Pointers] /\ x.last \in [AllQueues -> Pointers]
      /\ x.nitems \in [AllQueues -> Nat] /\ x.queue \in [Links -> AllQueues \cup {NULL}]
      /\ \A j \in Links : x.queue[j] = IF j = k THEN q ELSE h.queue[j]
      /\ \A r \in AllQueues :
           /\ x.first[r] = IF r = q /\ after = NULL THEN k ELSE h.first[r]
           /\ x.last[r] = IF r = q /\ nxt = NULL THEN k ELSE h.last[r]
           /\ x.nitems[r] = IF r = q THEN h.nitems[r] + 1 ELSE h.nitems[r]
  BY <1>2, <1>3, <1>4, HeapFields DEF Pointers
<1>9. HeapOK(x)
  BY <1>4, <1>5, <1>6, <1>7, <1>8, HeapFields DEF HeapOK
<1>10. Joined(h, x, q, after, nxt, k)
  BY <1>6, <1>7, <1>8 DEF Joined
<1>11. \E p \in Numberings : Numbered(x, p, Links)
  BY <1>2, <1>10, JoinRenumbers
<1>. QED BY <1>4, <1>9, <1>10, <1>11 DEF x, nxt

LEMMA GapBefore ==
  ASSUME NEW h, HeapOK(h), NEW pos \in Numberings, NEW k \in Links,
         Numbered(h, pos, Links \ {k}),
         NEW q \in AllQueues, NEW before \in Pointers \ {k}, Place(h, q, before)
  PROVE  /\ \E n : Gap(h, pos, Links \ {k}, q, Leader(h, before), before, n)
         /\ Leader(h, before) = NULL <=> before = NULL \/ h.first[q] = before
<1>. DEFINE prv == Leader(h, before)
            n == IF before = NULL THEN 1 ELSE pos[before]
            L == Links \ {k}
<1>0. prv = IF before = NULL THEN NULL ELSE h.prev[before]
  BY DEF Leader
<1>. HIDE DEF prv
<1>1. Gap(h, pos, L, q, prv, before, n)
  <2>1. CASE before = NULL
    BY <1>0, <2>1 DEF Gap, Place, AQueueEmpty
  <2>2. CASE before # NULL
    <3>1. before \in L /\ h.queue[before] = q /\ pos[before] \in Int /\ h.nitems[q] \in Nat
      BY <2>2, HeapFields DEF Place, Pointers, Numberings
    <3>2. 1 <= pos[before] /\ pos[before] <= h.nitems[q]
      BY <3>1 DEF Numbered, PlacesTaken
    <3>3. prv \in L => h.queue[prv] = q /\ pos[prv] + 1 = n
      BY <1>0, <2>2, <3>1 DEF Numbered, Chained, Behind
    <3>4. prv = NULL => n = 1
      <4>1. ASSUME n # 1, prv = NULL PROVE FALSE
        <5>1. 1 <= n - 1 /\ n - 1 <= h.nitems[q] /\ n - 1 \in Int
          BY <2>2, <3>1, <3>2, <4>1
        <5>2. PICK j \in L : h.queue[j] = q /\ pos[j] = n - 1
          BY <5>1 DEF Numbered, PlacesTaken
        <5>3. h.prev[before] = j
          BY <2>2, <3>1, <5>2 DEF Numbered, Chained, Behind
        <5>. QED BY <1>0, <2>2, <4>1, <5>2, <5>3, NullIsNoLink
      <4>. QED BY <4>1
    <3>5. prv \in L \cup {NULL}
      BY <1>0, <2>2, <3>1 DEF Numbered, Chained
    <3>. QED BY <2>2, <3>1, <3>2, <3>3, <3>4, <3>5 DEF Gap
  <2>. QED BY <2>1, <2>2
<1>2. prv = NULL <=> before = NULL \/ h.first[q] = before
  <2>1. CASE before = NULL
    BY <1>0, <2>1
  <2>2. CASE before # NULL
    <3>1. before \in L /\ h.queue[before] = q /\ pos[before] \in Int /\ h.nitems[q] \in Nat
      BY <2>2, HeapFields DEF Place, Pointers, Numberings
    <3>2. h.first[q] = before <=> pos[before] = 1
      BY <3>1 DEF Numbered, EndsFound
    <3>3. prv \in L => pos[prv] \in Int /\ pos[prv] >= 1
      BY <1>1, <3>1, NullIsNoLink DEF Gap, Numbered, PlacesTaken, Numberings
    <3>. QED BY <1>1, <2>2, <3>1, <3>2, <3>3, NullIsNoLink DEF Gap
  <2>. QED BY <2>1, <2>2
<1>. QED BY <1>1, <1>2 DEF prv

LEMMA InsertedBeforeJoins ==
  ASSUME NEW h, HeapOK(h), NEW pos \in Numberings, NEW k \in Links,
         Numbered(h, pos, Links \ {k}),
         NEW q \in AllQueues, NEW before \in Pointers \ {k}, Place(h, q, before)
  PROVE  /\ HeapOK(InsertedBefore(h, q, before, k))
         /\ \E p \in Numberings : Numbered(InsertedBefore(h, q, before, k), p, Links)
         /\ Joined(h, InsertedBefore(h, q, before, k), q, Leader(h, before), before, k)
         /\ InsertedBefore(h, q, before, k).object = h.object
<1>. DEFINE x == InsertedBefore(h, q, before, k)
            prv == Leader(h, before)
            L == Links \ {k}
<1>1. /\ h = [next |-> h.next, prev |-> h.prev, queue |-> h.queue, object |-> h.object,
              first |-> h.first, last |-> h.last, nitems |-> h.nitems]
      /\ prv \in Pointers
  BY HeapFields DEF HeapOK, Pointers, Leader
<1>2. /\ \E n : Gap(h, pos, L, q, prv, before, n)
      /\ prv = NULL <=> before = NULL \/ h.first[q] = before
  BY GapBefore
<1>3. h.nitems[q] = 0 \/ before # NULL
  BY DEF Place, AQueueEmpty
<1>. HIDE DEF prv
<1>4. /\ x.queue = [h.queue EXCEPT ![k] = q] /\ x.object = h.object
      /\ x.next = Set([h.next EXCEPT ![k] = before], prv, k)
      /\ x.prev = Set([h.prev EXCEPT ![k] = prv], before, k)
      /\ x.first = [h.first EXCEPT ![q] = IF before = NULL \/ @ = before THEN k ELSE @]
      /\ x.last = [h.last EXCEPT ![q] = IF before = NULL THEN k ELSE @]
      /\ x.nitems = [h.nitems EXCEPT ![q] = IF before = NULL THEN 1 ELSE @ + 1]
  <2>1. x.queue = [h.queue EXCEPT ![k] = q] /\ x.object = h.object
    BY <1>1 DEF InsertedBefore, prv, Leader
  <2>2. x.next = Set([h.next EXCEPT ![k] = before], prv, k)
    BY <1>1 DEF InsertedBefore, prv, Leader
  <2>3. x.prev = Set([h.prev EXCEPT ![k] = prv], before, k)
    BY <1>1 DEF InsertedBefore, prv, Leader
  <2>4. x.first = [h.first EXCEPT ![q] = IF before = NULL \/ @ = before THEN k ELSE @]
    BY <1>1 DEF InsertedBefore
  <2>5. x.last = [h.last EXCEPT ![q] = IF before = NULL THEN k ELSE @]
    BY <1>1 DEF InsertedBefore
  <2>6. x.nitems = [h.nitems EXCEPT ![q] = IF before = NULL THEN 1 ELSE @ + 1]
    BY <1>1 DEF InsertedBefore
  <2>. QED BY <2>1, <2>2, <2>3, <2>4, <2>5, <2>6
<1>5. x = [next |-> x.next, prev |-> x.prev, queue |-> x.queue, object |-> x.object,
           first |-> x.first, last |-> x.last, nitems |-> x.nitems]
  <2>1. DOMAIN x = {"next", "prev", "queue", "object", "first", "last", "nitems"}
    BY <1>1 DEF InsertedBefore
  <2>2. x = [f \in DOMAIN x |-> x[f]]
    BY <1>1 DEF InsertedBefore
  <2>. QED BY <2>1, <2>2
<1>. HIDE DEF x
<1>6. /\ x.prev \in [Links -> Pointers]
      /\ \A j \in Links : x.prev[j] = IF j = before THEN k ELSE IF j = k THEN prv ELSE h.prev[j]
  BY <1>1, <1>4, HeapFields, NullIsNoLink DEF Set, Pointers
<1>7. /\ x.next \in [Links -> Pointers]
      /\ \A j \in Links : x.next[j] = IF j = prv THEN k ELSE IF j = k THEN before ELSE h.next[j]
  BY <1>1, <1>4, HeapFields, NullIsNoLink DEF Set, Pointers
<1>8. /\ x.first \in [AllQueues -> Pointers] /\ x.last \in [AllQueues -> Pointers]
      /\ x.nitems \in [AllQueues -> Nat] /\ x.queue \in [Links -> AllQueues \cup {NULL}]
      /\ \A j \in Links : x.queue[j] = IF j = k THEN q ELSE h.queue[j]
      /\ \A r \in AllQueues :
           /\ x.first[r] = IF r = q /\ prv = NULL THEN k ELSE h.first[r]
           /\ x.last[r] = IF r = q /\ before = NULL THEN k ELSE h.last[r]
           /\ x.nitems[r] = IF r = q THEN h.nitems[r] + 1 ELSE h.nitems[r]
  BY <1>2, <1>3, <1>4, HeapFields DEF Pointers
<1>9. HeapOK(x)
  BY <1>4, <1>5, <1>6, <1>7, <1>8, HeapFields DEF HeapOK
<1>10. Joined(h, x, q, prv, before, k)
  BY <1>6, <1>7, <1>8 DEF Joined
<1>11. \E p \in Numberings : Numbered(x, p, Links)
  BY <1>2, <1>10, JoinRenumbers
<1>. QED BY <1>4, <1>9, <1>10, <1>11 DEF x, prv

\* A move is a removal and an insertion, without the count.
LEMMA MovedAfterJoins ==
  ASSUME NEW h, HeapOK(h), NEW pos \in Numberings, Numbered(h, pos, Links),
         NEW k \in Links, NEW after \in Links \ {k}, NEW q \in AllQueues,
         h.queue[k] = q, h.queue[after] = q, h.last[q] # k
  PROVE  /\ HeapOK(MovedAfter(h, q, after, k))
         /\ \E p \in Numberings : Numbered(MovedAfter(h, q, after, k), p, Links)
         /\ Joined(Unlinked(h, k), MovedAfter(h, q, after, k), q, after,
                   Unlinked(h, k).next[after], k)
         /\ MovedAfter(h, q, after, k).object = h.object
         /\ MovedAfter(h, q, after, k).queue = h.queue
<1>. DEFINE x == MovedAfter(h, q, after, k)
            u == Unlinked(h, k)
            nxt == u.next[after]
            L == Links \ {k}
<1>1. /\ h = [next |-> h.next, prev |-> h.prev, queue |-> h.queue, object |-> h.object,
              first |-> h.first, last |-> h.last, nitems |-> h.nitems]
      /\ u.next = Set(h.next, h.prev[k], h.next[k])
      /\ u.prev = Set(h.prev, h.next[k], h.prev[k])
  <2>1. h = [next |-> h.next, prev |-> h.prev, queue |-> h.queue, object |-> h.object,
             first |-> h.first, last |-> h.last, nitems |-> h.nitems]
    BY DEF HeapOK
  <2>2. u.next = Set(h.next, h.prev[k], h.next[k])
    BY <2>1 DEF Unlinked
  <2>3. u.prev = Set(h.prev, h.next[k], h.prev[k])
    BY <2>1 DEF Unlinked
  <2>. QED BY <2>1, <2>2, <2>3
<1>2. /\ u.next \in [Links -> Pointers] /\ u.prev \in [Links -> Pointers]
      /\ u.queue = h.queue /\ u.object = h.object
      /\ \A r \in AllQueues :
           /\ u.first[r] = IF r = q /\ h.first[r] = k THEN h.next[k] ELSE h.first[r]
           /\ u.last[r] = h.last[r]
           /\ u.nitems[r] = IF r = q THEN h.nitems[r] - 1 ELSE h.nitems[r]
  BY UnlinkedFields
<1>3. PICK p \in Numberings : Numbered(u, p, L)
  BY UnlinkRenumbers
<1>4. HeapOK(u)
  BY UnlinkedOK
<1>. HIDE DEF u
<1>5. nxt \in Pointers /\ Place(u, q, after) /\ after # NULL
  BY <1>2, NullIsNoLink DEF Place
<1>6. /\ \E n : Gap(u, p, L, q, after, nxt, n)
      /\ nxt = NULL <=> u.last[q] = after
  <2>1. after \in Pointers \ {k} /\ nxt = Follower(u, after)
    BY <1>5 DEF Pointers, Follower
  <2>2. /\ \E n : Gap(u, p, L, q, after, Follower(u, after), n)
        /\ Follower(u, after) = NULL <=> after = NULL \/ u.last[q] = after
    BY <1>3, <1>4, <1>5, <2>1, GapBehind
  <2>. QED BY <1>5, <2>1, <2>2
<1>. HIDE DEF nxt
<1>7. /\ x.queue = h.queue /\ x.object = h.object /\ x.nitems = h.nitems
      /\ x.next = [u.next EXCEPT ![k] = nxt, ![after] = k]
      /\ x.prev = Set([u.prev EXCEPT ![k] = after], nxt, k)
      /\ x.first = [h.first EXCEPT ![q] = IF @ = k THEN h.next[k] ELSE @]
      /\ x.last = [h.last EXCEPT ![q] = IF @ = after THEN k ELSE @]
  <2>1. x.queue = h.queue /\ x.object = h.object /\ x.nitems = h.nitems
    BY <1>1 DEF MovedAfter
  <2>2. x.next = [u.next EXCEPT ![k] = nxt, ![after] = k]
    BY <1>1 DEF MovedAfter, nxt
  <2>3. x.prev = Set([u.prev EXCEPT ![k] = after], nxt, k)
    BY <1>1 DEF MovedAfter, nxt
  <2>4. x.first = [h.first EXCEPT ![q] = IF @ = k THEN h.next[k] ELSE @]
    BY <1>1 DEF MovedAfter
  <2>5. x.last = [h.last EXCEPT ![q] = IF @ = after THEN k ELSE @]
    BY <1>1 DEF MovedAfter
  <2>. QED BY <2>1, <2>2, <2>3, <2>4, <2>5
<1>8. x = [next |-> x.next, prev |-> x.prev, queue |-> x.queue, object |-> x.object,
           first |-> x.first, last |-> x.last, nitems |-> x.nitems]
  <2>1. DOMAIN x = {"next", "prev", "queue", "object", "first", "last", "nitems"}
    BY <1>1 DEF MovedAfter
  <2>2. x = [f \in DOMAIN x |-> x[f]]
    BY <1>1 DEF MovedAfter
  <2>. QED BY <2>1, <2>2
<1>. HIDE DEF x
<1>9. /\ x.next \in [Links -> Pointers]
      /\ \A j \in Links : x.next[j] = IF j = after THEN k ELSE IF j = k THEN nxt ELSE u.next[j]
  BY <1>2, <1>5, <1>7 DEF Pointers
<1>10. /\ x.prev \in [Links -> Pointers]
       /\ \A j \in Links : x.prev[j] = IF j = nxt THEN k ELSE IF j = k THEN after ELSE u.prev[j]
  BY <1>2, <1>5, <1>7, NullIsNoLink DEF Set, Pointers
<1>11. /\ x.first \in [AllQueues -> Pointers] /\ x.last \in [AllQueues -> Pointers]
       /\ \A r \in AllQueues :
            /\ x.first[r] = u.first[r]
            /\ x.last[r] = IF r = q /\ nxt = NULL THEN k ELSE u.last[r]
            /\ x.nitems[r] = IF r = q THEN u.nitems[r] + 1 ELSE u.nitems[r]
  BY <1>2, <1>6, <1>7, HeapFields DEF Pointers
<1>12. HeapOK(x)
  BY <1>7, <1>8, <1>9, <1>10, <1>11, HeapFields DEF HeapOK
<1>13. Joined(u, x, q, after, nxt, k)
  BY <1>2, <1>5, <1>7, <1>9, <1>10, <1>11 DEF Joined
<1>14. \E r \in Numberings : Numbered(x, r, Links)
  BY <1>3, <1>4, <1>6, <1>13, JoinRenumbers
<1>. QED BY <1>7, <1>12, <1>13, <1>14 DEF x, nxt, u

-----------------------------------------------------------------------------
(* Links that are on no queue *)

LEMMA UnqueuedIsApart ==
  ASSUME NEW h, HeapOK(h), NEW pos \in Numberings, Numbered(h, pos, Links),
         NEW k \in Links, h.queue[k] = NULL
  PROVE  Numbered(h, pos, Links \ {k})
<1>. DEFINE L == Links \ {k}
<1>1. /\ PlacesTaken(h, pos, Links) /\ Chained(h, pos, Links) /\ EndsFound(h, pos, Links)
      /\ NULL \notin Links /\ NULL \notin AllQueues
  BY NullIsNoLink DEF Numbered
<1>2. PlacesTaken(h, pos, L)
  BY <1>1 DEF PlacesTaken
<1>3. Chained(h, pos, L)
  BY <1>1 DEF Chained, Behind
<1>4. EndsFound(h, pos, L)
  BY <1>1 DEF EndsFound
<1>. QED BY <1>2, <1>3, <1>4 DEF Numbered

\* The link that AQueueAllocLink hands out.
Cleared(h, k, o) ==
  [h EXCEPT !.next[k] = NULL, !.prev[k] = NULL, !.queue[k] = NULL, !.object[k] = o]

LEMMA ClearedFields ==
  ASSUME NEW h, HeapOK(h), NEW k \in Links, NEW o \in Objects, NEW x, x = Cleared(h, k, o)
  PROVE  /\ HeapOK(x)
         /\ x.object = [h.object EXCEPT ![k] = o]
         /\ x.first = h.first /\ x.last = h.last /\ x.nitems = h.nitems
         /\ \A j \in Links :
              /\ x.next[j] = IF j = k THEN NULL ELSE h.next[j]
              /\ x.prev[j] = IF j = k THEN NULL ELSE h.prev[j]
              /\ x.queue[j] = IF j = k THEN NULL ELSE h.queue[j]
<1>1. h = [next |-> h.next, prev |-> h.prev, queue |-> h.queue, object |-> h.object,
           first |-> h.first, last |-> h.last, nitems |-> h.nitems]
  BY DEF HeapOK
<1>2. /\ x.next = [h.next EXCEPT ![k] = NULL] /\ x.prev = [h.prev EXCEPT ![k] = NULL]
      /\ x.queue = [h.queue EXCEPT ![k] = NULL] /\ x.object = [h.object EXCEPT ![k] = o]
      /\ x.first = h.first /\ x.last = h.last /\ x.nitems = h.nitems
  BY <1>1 DEF Cleared
<1>3. x = [next |-> x.next, prev |-> x.prev, queue |-> x.queue, object |-> x.object,
           first |-> x.first, last |-> x.last, nitems |-> x.nitems]
  <2>1. DOMAIN x = {"next", "prev", "queue", "object", "first", "last", "nitems"}
    BY <1>1 DEF Cleared
  <2>2. x = [f \in DOMAIN x |-> x[f]]
    BY <1>1 DEF Cleared
  <2>. QED BY <2>1, <2>2
<1>4. /\ x.next \in [Links -> Pointers] /\ x.prev \in [Links -> Pointers]
      /\ x.queue \in [Links -> AllQueues \cup {NULL}]
      /\ x.object \in [Links -> Objects \cup {NULL}]
      /\ \A j \in Links :
           /\ x.next[j] = IF j = k THEN NULL ELSE h.next[j]
           /\ x.prev[j] = IF j = k THEN NULL ELSE h.prev[j]
           /\ x.queue[j] = IF j = k THEN NULL ELSE h.queue[j]
  BY <1>2, HeapFields DEF Pointers
<1>5. HeapOK(x)
  BY <1>2, <1>3, <1>4, HeapFields DEF HeapOK
<1>. QED BY <1>2, <1>4, <1>5

LEMMA ClearedIsUnqueued ==
  ASSUME NEW h, HeapOK(h), NEW pos \in Numberings, NEW k \in Links,
         Numbered(h, pos, Links \ {k}), NEW o \in Objects
  PROVE  Numbered(Cleared(h, k, o), pos, Links)
<1>. DEFINE x == Cleared(h, k, o)
            L == Links \ {k}
<1>0. x = Cleared(h, k, o)
  OBVIOUS
<1>. HIDE DEF x
<1>1. /\ x.first = h.first /\ x.last = h.last /\ x.nitems = h.nitems
      /\ \A j \in Links :
           /\ x.next[j] = IF j = k THEN NULL ELSE h.next[j]
           /\ x.prev[j] = IF j = k THEN NULL ELSE h.prev[j]
           /\ x.queue[j] = IF j = k THEN NULL ELSE h.queue[j]
  <2>1. /\ HeapOK(x)
        /\ x.object = [h.object EXCEPT ![k] = o]
        /\ x.first = h.first /\ x.last = h.last /\ x.nitems = h.nitems
        /\ \A j \in Links :
             /\ x.next[j] = IF j = k THEN NULL ELSE h.next[j]
             /\ x.prev[j] = IF j = k THEN NULL ELSE h.prev[j]
             /\ x.queue[j] = IF j = k THEN NULL ELSE h.queue[j]
    BY ONLY <1>0, ClearedFields, HeapOK(h), k \in Links, o \in Objects
  <2>. QED BY <2>1
<1>2. /\ PlacesTaken(h, pos, L) /\ Chained(h, pos, L) /\ EndsFound(h, pos, L)
      /\ NULL \notin Links /\ NULL \notin AllQueues
  BY NullIsNoLink DEF Numbered
<1>3. PlacesTaken(x, pos, Links)
  BY <1>1, <1>2 DEF PlacesTaken
<1>4. Chained(x, pos, Links)
  BY <1>1, <1>2 DEF Chained, Behind
<1>5. EndsFound(x, pos, Links)
  BY <1>1, <1>2 DEF EndsFound
<1>. QED BY <1>3, <1>4, <1>5 DEF Numbered, x

\* A queue without a last link is empty: what AQueueInsertFirst and
\* AQueueInsertLast pass always names a place.
LEMMA EndIsPlace ==
  ASSUME NEW h, HeapOK(h), NEW pos \in Numberings, NEW L \in SUBSET Links,
         Numbered(h, pos, L), NEW q \in AllQueues
  PROVE  /\ Place(h, q, h.last[q]) /\ h.last[q] \in L \cup {NULL}
         /\ Place(h, q, h.first[q]) /\ h.first[q] \in L \cup {NULL}
<1>1. /\ PlacesTaken(h, pos, L) /\ EndsFound(h, pos, L) /\ h.nitems[q] \in Nat
      /\ NULL \notin L
  BY HeapFields, NullIsNoLink DEF Numbered
<1>2. h.first[q] \in L \cup {NULL} /\ h.last[q] \in L \cup {NULL}
  BY <1>1 DEF EndsFound
<1>3. h.nitems[q] # 0 => h.first[q] # NULL /\ h.last[q] # NULL
  <2>. SUFFICES ASSUME h.nitems[q] # 0 PROVE h.first[q] # NULL /\ h.last[q] # NULL
    OBVIOUS
  <2>1. PICK j \in L : h.queue[j] = q /\ pos[j] = 1
    BY <1>1 DEF PlacesTaken
  <2>2. PICK m \in L : h.queue[m] = q /\ pos[m] = h.nitems[q]
    BY <1>1 DEF PlacesTaken
  <2>. QED BY <1>1, <2>1, <2>2 DEF EndsFound
<1>4. h.nitems[q] = 0 => h.first[q] = NULL /\ h.last[q] = NULL
  BY <1>1, <1>2 DEF EndsFound, PlacesTaken
<1>5. /\ h.first[q] \in L => h.queue[h.first[q]] = q
      /\ h.last[q] \in L => h.queue[h.last[q]] = q
  BY <1>1 DEF EndsFound
<1>. QED BY <1>1, <1>2, <1>3, <1>4, <1>5 DEF Place, AQueueEmpty

-----------------------------------------------------------------------------
(* The calls *)

LEMMA InitShape == Init => Shape
<1>. SUFFICES ASSUME Init PROVE Shape
  OBVIOUS
<1>. DEFINE pos == [k \in Links |-> k]
<1>1. /\ QUEUE_MAX_LINKS \in Links /\ 1 \in Links /\ NULL \notin Links
      /\ freeLinks \in AllQueues /\ QUEUE_MAX_LINKS \in Nat
      /\ \A k \in Links : k \in Int /\ 1 <= k /\ k <= QUEUE_MAX_LINKS
      /\ \A k \in Int : 1 <= k /\ k <= QUEUE_MAX_LINKS => k \in Links
  BY LinkAssumption DEF Links, AllQueues
<1>2. LinksTyped
  <2>1. \A k \in Links :
          /\ (IF k < QUEUE_MAX_LINKS THEN k + 1 ELSE NULL) \in Pointers
          /\ (IF k > 1 THEN k - 1 ELSE NULL) \in Pointers
    BY <1>1 DEF Pointers
  <2>. QED BY <1>1, <2>1 DEF Init, LinksTyped, Pointers
<1>3. pos \in Numberings /\ \A k \in Links : pos[k] = k
  BY <1>1 DEF Numberings
<1>4. /\ \A k \in Links :
           /\ heap.queue[k] = freeLinks
           /\ heap.next[k] = IF k < QUEUE_MAX_LINKS THEN k + 1 ELSE NULL
           /\ heap.prev[k] = IF k > 1 THEN k - 1 ELSE NULL
      /\ \A q \in AllQueues :
           /\ heap.first[q] = IF q = freeLinks THEN 1 ELSE NULL
           /\ heap.last[q] = IF q = freeLinks THEN QUEUE_MAX_LINKS ELSE NULL
           /\ heap.nitems[q] = IF q = freeLinks THEN QUEUE_MAX_LINKS ELSE 0
  BY DEF Init
<1>. HIDE DEF pos
<1>5. PlacesTaken(heap, pos, Links)
  BY <1>1, <1>3, <1>4 DEF PlacesTaken
<1>6. Chained(heap, pos, Links)
  BY <1>1, <1>3, <1>4 DEF Chained, Behind
<1>7. EndsFound(heap, pos, Links)
  BY <1>1, <1>3, <1>4 DEF EndsFound
<1>. QED BY <1>2, <1>3, <1>5, <1>6, <1>7 DEF Shape, Numbered

LEMMA AllocStep ==
  ASSUME Shape, NEW o \in Objects, AQueueAllocLink(o)
  PROVE  Shape'
<1>. DEFINE k == heap.first[freeLinks]
<1>1. CASE UNCHANGED <<heap, l>> /\ ret' = NULL
  BY <1>1 DEF Shape, LinksTyped, Pointers
<1>2. CASE k # NULL /\ heap' = Cleared(Unlinked(heap, k), k, o)
           /\ l' = [l EXCEPT ![o] = k] /\ ret' = k
  <2>1. PICK pos \in Numberings : Numbered(heap, pos, Links)
    BY DEF Shape
  <2>2. HeapOK(heap) /\ freeLinks \in AllQueues
    BY DEF Shape, LinksTyped, HeapOK, AllQueues
  <2>3. k \in Links /\ heap.queue[k] \in AllQueues
    BY <1>2, <2>1, <2>2, NullIsNoLink DEF Numbered, EndsFound
  <2>4. HeapOK(Unlinked(heap, k))
    BY <2>1, <2>2, <2>3, UnlinkedOK
  <2>5. PICK p \in Numberings : Numbered(Unlinked(heap, k), p, Links \ {k})
    BY <2>1, <2>2, <2>3, UnlinkRenumbers
  <2>6. HeapOK(heap') /\ Numbered(heap', p, Links)
    BY <1>2, <2>3, <2>4, <2>5, ClearedFields, ClearedIsUnqueued
  <2>7. LinksTyped'
    BY <1>2, <2>3, <2>6 DEF Shape, LinksTyped, HeapOK, Pointers
  <2>. QED BY <2>5, <2>6, <2>7 DEF Shape
<1>. QED BY <1>1, <1>2 DEF AQueueAllocLink, Cleared

LEMMA InsertStep ==
  ASSUME Shape, NEW q \in Queues, NEW o \in Objects, NEW p \in Pointers, p # l[o],
         AQueueInsertAfter(q, p, o) \/ AQueueInsertBefore(q, p, o)
  PROVE  Shape'
<1>1. CASE Fail
  BY <1>1 DEF Fail, Shape, LinksTyped
<1>2. CASE Place(heap, q, p) /\ Unqueued(o) /\ ret' = QUEUE_SUCCESS /\ UNCHANGED l
  <2>1. PICK pos \in Numberings : Numbered(heap, pos, Links)
    BY DEF Shape
  <2>2. HeapOK(heap) /\ q \in AllQueues
    BY DEF Shape, LinksTyped, HeapOK, AllQueues
  <2>3. l[o] \in Links /\ heap.queue[l[o]] = NULL
    BY <1>2 DEF Shape, LinksTyped, Unqueued, Pointers
  <2>4. Numbered(heap, pos, Links \ {l[o]})
    BY <2>1, <2>2, <2>3, UnqueuedIsApart
  <2>5. HeapOK(heap') /\ \E r \in Numberings : Numbered(heap', r, Links)
    <3>1. CASE heap' = InsertedAfter(heap, q, p, l[o])
      BY <1>2, <2>2, <2>3, <2>4, <3>1, InsertedAfterJoins
    <3>2. CASE heap' = InsertedBefore(heap, q, p, l[o])
      BY <1>2, <2>2, <2>3, <2>4, <3>2, InsertedBeforeJoins
    <3>. QED BY <1>2, <3>1, <3>2, NullIsNoLink DEF AQueueInsertAfter, AQueueInsertBefore
  <2>6. LinksTyped'
    BY <1>2, <2>5 DEF Shape, LinksTyped, HeapOK
  <2>. QED BY <2>5, <2>6 DEF Shape
<1>. QED BY <1>1, <1>2 DEF AQueueInsertAfter, AQueueInsertBefore

\* What AQueueInsertFirst and AQueueInsertLast insert next to.
LEMMA EndsAreOthers ==
  ASSUME Shape, NEW q \in Queues, NEW o \in Objects, Unqueued(o)
  PROVE  /\ l[o] \in Links /\ heap.queue[l[o]] = NULL
         /\ heap.first[q] \in Pointers /\ heap.first[q] # l[o]
         /\ heap.last[q] \in Pointers /\ heap.last[q] # l[o]
<1>1. PICK pos \in Numberings : Numbered(heap, pos, Links)
  BY DEF Shape
<1>2. HeapOK(heap) /\ q \in AllQueues
  BY DEF Shape, LinksTyped, HeapOK, AllQueues
<1>3. l[o] \in Links /\ heap.queue[l[o]] = NULL
  BY DEF Shape, LinksTyped, Unqueued, Pointers
<1>4. heap.first[q] \in Pointers /\ heap.last[q] \in Pointers /\ q # NULL
  BY <1>2, HeapFields, NullIsNoLink
<1>5. /\ heap.first[q] = l[o] => heap.queue[l[o]] = q
      /\ heap.last[q] = l[o] => heap.queue[l[o]] = q
  BY <1>1, <1>2, <1>3 DEF Numbered, EndsFound
<1>. QED BY <1>3, <1>4, <1>5

LEMMA InsertEndStep ==
  ASSUME Shape, NEW q \in Queues, NEW o \in Objects,
         AQueueInsertFirst(q, o) \/ AQueueInsertLast(q, o)
  PROVE  Shape'
<1>1. Unqueued(o)
  BY DEF AQueueInsertFirst, AQueueInsertLast, AQueueInsertAfter, AQueueInsertBefore
<1>2. /\ heap.first[q] \in Pointers /\ heap.first[q] # l[o]
      /\ heap.last[q] \in Pointers /\ heap.last[q] # l[o]
  BY <1>1, EndsAreOthers
<1>3. CASE AQueueInsertFirst(q, o)
  BY <1>2, <1>3, InsertStep DEF AQueueInsertFirst
<1>4. CASE AQueueInsertLast(q, o)
  BY <1>2, <1>4, InsertStep DEF AQueueInsertLast
<1>. QED BY <1>3, <1>4

\* What a removal makes of the heap: the insertion into freeLinks, whose result
\* AQueueRemove ignores, succeeds.
LEMMA RemovedJoinsFree ==
  ASSUME Shape, NEW k \in Links, heap.queue[k] \in AllQueues
  PROVE  /\ Joined(Unlinked(heap, k), Freed(Unlinked(heap, k), k), freeLinks,
                   Unlinked(heap, k).last[freeLinks],
                   Follower(Unlinked(heap, k), Unlinked(heap, k).last[freeLinks]), k)
         /\ Freed(Unlinked(heap, k), k).object = heap.object
         /\ HeapOK(Freed(Unlinked(heap, k), k))
         /\ \E r \in Numberings : Numbered(Freed(Unlinked(heap, k), k), r, Links)
<1>. DEFINE u == Unlinked(heap, k)
<1>1. PICK pos \in Numberings : Numbered(heap, pos, Links)
  BY DEF Shape
<1>2. HeapOK(heap) /\ freeLinks \in AllQueues
  BY DEF Shape, LinksTyped, HeapOK, AllQueues
<1>3. HeapOK(u) /\ u.object = heap.object
  BY <1>1, <1>2, UnlinkedOK, UnlinkedFields
<1>4. PICK p \in Numberings : Numbered(u, p, Links \ {k})
  BY <1>1, <1>2, UnlinkRenumbers
<1>. HIDE DEF u
<1>5. Place(u, freeLinks, u.last[freeLinks]) /\ u.last[freeLinks] \in (Links \ {k}) \cup {NULL}
  BY <1>2, <1>3, <1>4, EndIsPlace
<1>6. u.last[freeLinks] \in Pointers \ {k}
  BY <1>5, NullIsNoLink DEF Pointers
<1>7. Freed(u, k) = InsertedAfter(u, freeLinks, u.last[freeLinks], k)
  BY <1>5 DEF Freed
<1>8. /\ HeapOK(Freed(u, k)) /\ \E r \in Numberings : Numbered(Freed(u, k), r, Links)
      /\ Joined(u, Freed(u, k), freeLinks, u.last[freeLinks],
                Follower(u, u.last[freeLinks]), k)
      /\ Freed(u, k).object = u.object
  BY <1>2, <1>3, <1>4, <1>5, <1>6, <1>7, InsertedAfterJoins
<1>. QED BY <1>3, <1>8 DEF u

LEMMA RemoveStep ==
  ASSUME Shape, NEW o \in Objects, AQueueRemove(o)
  PROVE  Shape'
<1>1. CASE Fail
  BY <1>1 DEF Fail, Shape, LinksTyped
<1>2. CASE heap.queue[l[o]] # NULL /\ heap' = Freed(Unlinked(heap, l[o]), l[o])
           /\ l' = [l EXCEPT ![o] = NULL] /\ ret' = QUEUE_SUCCESS
  <2>1. l[o] \in Links /\ HeapOK(heap)
    BY DEF AQueueRemove, Shape, LinksTyped, HeapOK, Pointers
  <2>2. heap.queue[l[o]] \in AllQueues
    BY <1>2, <2>1, HeapFields
  <2>3. HeapOK(heap') /\ \E r \in Numberings : Numbered(heap', r, Links)
    BY <1>2, <2>1, <2>2, RemovedJoinsFree
  <2>4. LinksTyped'
    BY <1>2, <2>3 DEF Shape, LinksTyped, HeapOK, Pointers
  <2>. QED BY <2>3, <2>4 DEF Shape
<1>. QED BY <1>1, <1>2 DEF AQueueRemove

LEMMA MoveStep ==
  ASSUME Shape, NEW q \in Queues, NEW k \in Links, NEW after \in Pointers,
         AQueueMoveAfter(q, after, k)
  PROVE  Shape'
<1>1. CASE Fail \/ (heap' = heap /\ ret' = QUEUE_SUCCESS /\ UNCHANGED l)
  BY <1>1 DEF Fail, Shape, LinksTyped
<1>2. CASE /\ after \notin {NULL, k} /\ heap.queue[k] = q /\ heap.queue[after] = q
           /\ heap.last[q] # k
           /\ heap' = MovedAfter(heap, q, after, k) /\ ret' = QUEUE_SUCCESS /\ UNCHANGED l
  <2>1. PICK pos \in Numberings : Numbered(heap, pos, Links)
    BY DEF Shape
  <2>2. HeapOK(heap) /\ q \in AllQueues /\ after \in Links \ {k}
    BY <1>2 DEF Shape, LinksTyped, HeapOK, AllQueues, Pointers
  <2>3. HeapOK(heap') /\ \E r \in Numberings : Numbered(heap', r, Links)
    BY <1>2, <2>1, <2>2, MovedAfterJoins
  <2>4. LinksTyped'
    BY <1>2, <2>3 DEF Shape, LinksTyped, HeapOK
  <2>. QED BY <2>3, <2>4 DEF Shape
<1>. QED BY <1>1, <1>2 DEF AQueueMoveAfter

LEMMA NextShape == Shape /\ [Next]_vars => Shape'
<1>. SUFFICES ASSUME Shape, [Next]_vars PROVE Shape'
  OBVIOUS
<1>1. ASSUME NEW o \in Objects, AQueueAllocLink(o) \/ AQueueRemove(o) PROVE Shape'
  BY <1>1, AllocStep, RemoveStep
<1>2. ASSUME NEW q \in Queues, NEW o \in Objects,
             AQueueInsertFirst(q, o) \/ AQueueInsertLast(q, o)
      PROVE  Shape'
  BY <1>2, InsertEndStep
<1>3. ASSUME NEW q \in Queues, NEW o \in Objects, NEW after \in InUse \cup {NULL},
             after # l[o], AQueueInsertAfter(q, after, o)
      PROVE  Shape'
  <2>1. after \in Pointers
    BY DEF InUse, Pointers
  <2>. QED BY <1>3, <2>1, InsertStep
<1>4. ASSUME NEW q \in Queues, NEW k \in InUse, NEW after \in InUse \cup {NULL},
             AQueueMoveAfter(q, after, k)
      PROVE  Shape'
  <2>1. k \in Links /\ after \in Pointers
    BY DEF InUse, Pointers
  <2>. QED BY <1>4, <2>1, MoveStep
<1>5. CASE UNCHANGED vars
  BY <1>5 DEF vars, Shape, LinksTyped
<1>. QED BY <1>1, <1>2, <1>3, <1>4, <1>5 DEF Next

-----------------------------------------------------------------------------
(* Who has hold of a link *)

LEMMA InitHeld == Init => Held
BY DEF Init, Held

LEMMA AllocHeld ==
  ASSUME Shape, Held, NEW o \in Objects, AQueueAllocLink(o)
  PROVE  Held'
<1>. DEFINE k == heap.first[freeLinks]
<1>1. CASE UNCHANGED <<heap, l>>
  BY <1>1 DEF Held
<1>2. CASE k # NULL /\ heap' = Cleared(Unlinked(heap, k), k, o) /\ l' = [l EXCEPT ![o] = k]
  <2>1. PICK pos \in Numberings : Numbered(heap, pos, Links)
    BY DEF Shape
  <2>2. HeapOK(heap) /\ freeLinks \in AllQueues /\ l \in [Objects -> Pointers]
    BY DEF Shape, LinksTyped, HeapOK, AllQueues
  <2>3. k \in Links /\ heap.queue[k] = freeLinks
    BY <1>2, <2>1, <2>2, NullIsNoLink DEF Numbered, EndsFound
  <2>. HIDE DEF k
  <2>4. HeapOK(Unlinked(heap, k))
    BY <2>1, <2>2, <2>3, UnlinkedOK
  <2>5. Unlinked(heap, k).queue = heap.queue /\ Unlinked(heap, k).object = heap.object
    BY <2>2, <2>3, UnlinkedFields
  <2>6. /\ heap'.object = [heap.object EXCEPT ![k] = o]
        /\ \A j \in Links : heap'.queue[j] = IF j = k THEN NULL ELSE heap.queue[j]
    BY <1>2, <2>3, <2>4, <2>5, ClearedFields
  <2>7. heap.object \in [Links -> Objects \cup {NULL}] /\ NULL # freeLinks
    BY <2>2, HeapFields, NullIsNoLink
  <2>8. ASSUME NEW m \in Objects, l'[m] # NULL
        PROVE  heap'.queue[l'[m]] # freeLinks /\ heap'.object[l'[m]] = m
    <3>1. CASE m = o
      BY <1>2, <2>2, <2>3, <2>6, <2>7, <3>1
    <3>2. CASE m # o
      <4>1. l'[m] = l[m] /\ l[m] \in Links
        BY <1>2, <2>2, <2>8, <3>2 DEF Pointers
      <4>2. heap.queue[l[m]] # freeLinks /\ heap.object[l[m]] = m /\ l[m] # k
        BY <2>3, <2>8, <4>1 DEF Held
      <4>. QED BY <2>6, <2>7, <4>1, <4>2
    <3>. QED BY <3>1, <3>2
  <2>. QED BY <2>8 DEF Held
<1>. QED BY <1>1, <1>2 DEF AQueueAllocLink, Cleared

\* A call that puts the link of an object on a queue or moves one.
LEMMA RequeuedHeld ==
  ASSUME Shape, Held, NEW k \in Links, NEW q \in Queues, UNCHANGED l,
         heap'.object = heap.object,
         \A j \in Links : heap'.queue[j] = IF j = k THEN q ELSE heap.queue[j]
  PROVE  Held'
<1>1. q # freeLinks /\ \A o \in Objects : l[o] # NULL => l[o] \in Links
  BY LinkAssumption DEF Shape, LinksTyped, Pointers
<1>. QED BY <1>1 DEF Held

LEMMA InsertHeld ==
  ASSUME Shape, Held, NEW q \in Queues, NEW o \in Objects, NEW p \in Pointers, p # l[o],
         AQueueInsertAfter(q, p, o) \/ AQueueInsertBefore(q, p, o)
  PROVE  Held'
<1>1. CASE Fail
  BY <1>1 DEF Fail, Held
<1>2. CASE Place(heap, q, p) /\ Unqueued(o) /\ UNCHANGED l
  <2>1. PICK pos \in Numberings : Numbered(heap, pos, Links)
    BY DEF Shape
  <2>2. HeapOK(heap) /\ q \in AllQueues
    BY DEF Shape, LinksTyped, HeapOK, AllQueues
  <2>3. l[o] \in Links /\ heap.queue[l[o]] = NULL
    BY <1>2 DEF Shape, LinksTyped, Unqueued, Pointers
  <2>4. Numbered(heap, pos, Links \ {l[o]})
    BY <2>1, <2>2, <2>3, UnqueuedIsApart
  <2>5. /\ heap'.object = heap.object
        /\ \E a, b : Joined(heap, heap', q, a, b, l[o])
    <3>1. CASE heap' = InsertedAfter(heap, q, p, l[o])
      BY <1>2, <2>2, <2>3, <2>4, <3>1, InsertedAfterJoins
    <3>2. CASE heap' = InsertedBefore(heap, q, p, l[o])
      BY <1>2, <2>2, <2>3, <2>4, <3>2, InsertedBeforeJoins
    <3>. QED BY <1>2, <3>1, <3>2, NullIsNoLink DEF AQueueInsertAfter, AQueueInsertBefore
  <2>6. \A j \in Links : heap'.queue[j] = IF j = l[o] THEN q ELSE heap.queue[j]
    BY <2>5 DEF Joined
  <2>. QED BY <1>2, <2>3, <2>5, <2>6, RequeuedHeld
<1>. QED BY <1>1, <1>2 DEF AQueueInsertAfter, AQueueInsertBefore

LEMMA InsertEndHeld ==
  ASSUME Shape, Held, NEW q \in Queues, NEW o \in Objects,
         AQueueInsertFirst(q, o) \/ AQueueInsertLast(q, o)
  PROVE  Held'
<1>1. Unqueued(o)
  BY DEF AQueueInsertFirst, AQueueInsertLast, AQueueInsertAfter, AQueueInsertBefore
<1>2. /\ heap.first[q] \in Pointers /\ heap.first[q] # l[o]
      /\ heap.last[q] \in Pointers /\ heap.last[q] # l[o]
  BY <1>1, EndsAreOthers
<1>3. CASE AQueueInsertFirst(q, o)
  BY <1>2, <1>3, InsertHeld DEF AQueueInsertFirst
<1>4. CASE AQueueInsertLast(q, o)
  BY <1>2, <1>4, InsertHeld DEF AQueueInsertLast
<1>. QED BY <1>3, <1>4

LEMMA RemoveHeld ==
  ASSUME Shape, Held, NEW o \in Objects, AQueueRemove(o)
  PROVE  Held'
<1>1. CASE Fail
  BY <1>1 DEF Fail, Held
<1>2. CASE heap.queue[l[o]] # NULL /\ heap' = Freed(Unlinked(heap, l[o]), l[o])
           /\ l' = [l EXCEPT ![o] = NULL]
  <2>1. HeapOK(heap) /\ l \in [Objects -> Pointers] /\ l[o] \in Links
    BY DEF AQueueRemove, Shape, LinksTyped, HeapOK, Pointers
  <2>2. heap.queue[l[o]] \in AllQueues
    BY <1>2, <2>1, HeapFields
  <2>3. Unlinked(heap, l[o]).queue = heap.queue
    BY <2>1, <2>2, UnlinkedFields
  <2>4. /\ heap'.object = heap.object
        /\ \A j \in Links : heap'.queue[j] = IF j = l[o] THEN freeLinks ELSE heap.queue[j]
    BY <1>2, <2>1, <2>2, <2>3, RemovedJoinsFree DEF Joined
  <2>5. ASSUME NEW m \in Objects, l'[m] # NULL
        PROVE  heap'.queue[l'[m]] # freeLinks /\ heap'.object[l'[m]] = m
    <3>1. m # o /\ l'[m] = l[m] /\ l[m] \in Links
      BY <1>2, <2>1, <2>5 DEF Pointers
    <3>2. heap.object[l[o]] = o /\ heap.object[l[m]] = m /\ heap.queue[l[m]] # freeLinks
      BY <2>1, <2>5, <3>1, NullIsNoLink DEF Held
    <3>. QED BY <2>4, <3>1, <3>2
  <2>. QED BY <2>5 DEF Held
<1>. QED BY <1>1, <1>2 DEF AQueueRemove

LEMMA MoveHeld ==
  ASSUME Shape, Held, NEW q \in Queues, NEW k \in Links, NEW after \in Pointers,
         AQueueMoveAfter(q, after, k)
  PROVE  Held'
<1>1. CASE Fail \/ (heap' = heap /\ UNCHANGED l)
  BY <1>1 DEF Fail, Held
<1>2. CASE /\ after \notin {NULL, k} /\ heap.queue[k] = q /\ heap.queue[after] = q
           /\ heap.last[q] # k
           /\ heap' = MovedAfter(heap, q, after, k) /\ UNCHANGED l
  <2>1. PICK pos \in Numberings : Numbered(heap, pos, Links)
    BY DEF Shape
  <2>2. HeapOK(heap) /\ q \in AllQueues /\ after \in Links \ {k}
    BY <1>2 DEF Shape, LinksTyped, HeapOK, AllQueues, Pointers
  <2>3. heap'.object = heap.object /\ heap'.queue = heap.queue
    BY <1>2, <2>1, <2>2, MovedAfterJoins
  <2>4. \A j \in Links : heap'.queue[j] = IF j = k THEN q ELSE heap.queue[j]
    BY <1>2, <2>3
  <2>. QED BY <1>2, <2>3, <2>4, RequeuedHeld
<1>. QED BY <1>1, <1>2 DEF AQueueMoveAfter

LEMMA NextHeld == Shape /\ Held /\ [Next]_vars => Held'
<1>. SUFFICES ASSUME Shape, Held, [Next]_vars PROVE Held'
  OBVIOUS
<1>1. ASSUME NEW o \in Objects, AQueueAllocLink(o) \/ AQueueRemove(o) PROVE Held'
  BY <1>1, AllocHeld, RemoveHeld
<1>2. ASSUME NEW q \in Queues, NEW o \in Objects,
             AQueueInsertFirst(q, o) \/ AQueueInsertLast(q, o)
      PROVE  Held'
  BY <1>2, InsertEndHeld
<1>3. ASSUME NEW q \in Queues, NEW o \in Objects, NEW after \in InUse \cup {NULL},
             after # l[o], AQueueInsertAfter(q, after, o)
      PROVE  Held'
  <2>1. after \in Pointers
    BY DEF InUse, Pointers
  <2>. QED BY <1>3, <2>1, InsertHeld
<1>4. ASSUME NEW q \in Queues, NEW k \in InUse, NEW after \in InUse \cup {NULL},
             AQueueMoveAfter(q, after, k)
      PROVE  Held'
  <2>1. k \in Links /\ after \in Pointers
    BY DEF InUse, Pointers
  <2>. QED BY <1>4, <2>1, MoveHeld
<1>5. CASE UNCHANGED vars
  BY <1>5 DEF vars, Held
<1>. QED BY <1>1, <1>2, <1>3, <1>4, <1>5 DEF Next

-----------------------------------------------------------------------------
(* The queues as sequences *)

\* s is the list of q: what is met from first on along next, until NULL.
Lists(h, q, s) ==
  /\ s \in Seq(Links) /\ Len(s) = h.nitems[q]
  /\ h.first[q] = IF Len(s) = 0 THEN NULL ELSE s[1]
  /\ \A i \in 1 .. Len(s) : h.next[s[i]] = IF i < Len(s) THEN s[i + 1] ELSE NULL

\* Walk follows the list: its recursive function exists, and a place where two
\* such functions differ would be a least one.
LEMMA WalkIsList ==
  ASSUME NEW h, NEW q, NEW s, Lists(h, q, s), NULL \notin Links
  PROVE  Walk(h, q) = s
<1>. DEFINE step(g) == [i \in Nat |-> IF i <= 1 THEN h.first[q]
                                      ELSE IF g[i - 1] = NULL THEN NULL
                                      ELSE h.next[g[i - 1]]]
            at == CHOOSE g : g = step(g)
            f == [i \in Nat |-> IF i <= 1 THEN h.first[q]
                                ELSE IF i <= Len(s) THEN s[i] ELSE NULL]
<1>1. /\ s \in Seq(Links) /\ Len(s) = h.nitems[q] /\ Len(s) \in Nat
      /\ \A i \in 1 .. Len(s) : s[i] \in Links /\ s[i] # NULL
      /\ h.first[q] = IF Len(s) = 0 THEN NULL ELSE s[1]
      /\ \A i \in 1 .. Len(s) : h.next[s[i]] = IF i < Len(s) THEN s[i + 1] ELSE NULL
  BY LenProperties DEF Lists
<1>2. \A i \in Nat : f[i] = IF i <= 1 THEN h.first[q]
                            ELSE IF i <= Len(s) THEN s[i] ELSE NULL
  OBVIOUS
<1>3. f = [i \in Nat |-> f[i]]
  OBVIOUS
<1>. HIDE DEF f
<1>4. f = step(f)
  <2>1. ASSUME NEW i \in Nat
        PROVE  f[i] = IF i <= 1 THEN h.first[q]
                      ELSE IF f[i - 1] = NULL THEN NULL ELSE h.next[f[i - 1]]
    <3>1. CASE i <= 1
      BY <1>2, <3>1
    <3>2. CASE i > 1 /\ i - 1 <= Len(s)
      <4>1. i - 1 \in 1 .. Len(s) /\ i - 1 \in Nat
        BY <1>1, <3>2
      <4>2. f[i - 1] = s[i - 1]
        BY <1>1, <1>2, <3>2, <4>1
      <4>3. h.next[s[i - 1]] = IF i - 1 < Len(s) THEN s[i - 1 + 1] ELSE NULL
        BY <1>1, <4>1
      <4>4. i - 1 + 1 = i /\ (i - 1 < Len(s) <=> i <= Len(s))
        BY <1>1
      <4>. QED BY <1>1, <1>2, <3>2, <4>1, <4>2, <4>3, <4>4
    <3>3. CASE i > 1 /\ ~(i - 1 <= Len(s))
      BY <1>1, <1>2, <3>3
    <3>. QED BY <3>1, <3>2, <3>3
  <2>. QED BY <1>3, <2>1
<1>5. at = step(at)
  BY <1>4
<1>. HIDE DEF at
<1>6. ASSUME NEW i \in Nat
      PROVE  at[i] = IF i <= 1 THEN h.first[q]
                     ELSE IF at[i - 1] = NULL THEN NULL ELSE h.next[at[i - 1]]
  BY <1>5
<1>7. ASSUME NEW i \in Nat
      PROVE  f[i] = IF i <= 1 THEN h.first[q]
                    ELSE IF f[i - 1] = NULL THEN NULL ELSE h.next[f[i - 1]]
  BY <1>4
<1>8. \A i \in Nat : at[i] = f[i]
  <2>. DEFINE S == {i \in Nat : at[i] # f[i]}
  <2>. SUFFICES ASSUME S # {} PROVE FALSE
    OBVIOUS
  <2>1. PICK x \in S : \A y \in S : x <= y
    BY LeastExists
  <2>2. x \in Nat /\ at[x] # f[x] /\ x > 1
    BY <1>6, <1>7, <2>1
  <2>3. x - 1 \in Nat /\ x - 1 \notin S
    BY <2>1, <2>2
  <2>. QED BY <1>6, <1>7, <2>2, <2>3
<1>9. Walk(h, q) = [i \in 1 .. h.nitems[q] |-> at[i]]
  BY DEF Walk, at
<1>10. \A i \in 1 .. Len(s) : at[i] = s[i]
  BY <1>1, <1>2, <1>8
<1>11. s = [i \in 1 .. Len(s) |-> s[i]]
  BY <1>1
<1>. QED BY <1>1, <1>9, <1>10, <1>11

\* The list of a queue that can be numbered: its links are those on the queue,
\* each once, and prev leads back.
Runs(h, q, s) ==
  /\ Lists(h, q, s)
  /\ \A i, j \in 1 .. Len(s) : s[i] = s[j] => i = j
  /\ \A j \in Links : h.queue[j] = q <=> \E i \in 1 .. Len(s) : s[i] = j
  /\ \A i \in 1 .. Len(s) : h.prev[s[i]] = IF i > 1 THEN s[i - 1] ELSE NULL
  /\ h.last[q] = IF Len(s) = 0 THEN NULL ELSE s[Len(s)]

LEMMA NumberedRuns ==
  ASSUME NEW h, HeapOK(h), NEW pos \in Numberings, Numbered(h, pos, Links),
         NEW q \in AllQueues
  PROVE  Runs(h, q, Walk(h, q))
<1>. DEFINE n == h.nitems[q]
            s == [i \in 1 .. n |-> CHOOSE j \in Links : h.queue[j] = q /\ pos[j] = i]
<1>1. /\ PlacesTaken(h, pos, Links) /\ Chained(h, pos, Links) /\ EndsFound(h, pos, Links)
      /\ n \in Nat /\ NULL \notin Links /\ \A j \in Links : pos[j] \in Int
  BY HeapFields, NullIsNoLink DEF Numbered, Numberings
<1>2. ASSUME NEW i \in 1 .. n PROVE s[i] \in Links /\ h.queue[s[i]] = q /\ pos[s[i]] = i
  <2>1. \E j \in Links : h.queue[j] = q /\ pos[j] = i
    BY <1>1 DEF PlacesTaken
  <2>. QED BY <2>1
<1>3. s \in Seq(Links) /\ Len(s) = n
  <2>1. s \in [1 .. n -> Links]
    BY <1>2
  <2>. HIDE DEF s, n
  <2>. QED BY <1>1, <2>1
<1>. HIDE DEF s
<1>4. \A j \in Links : h.queue[j] = q => pos[j] \in 1 .. n /\ s[pos[j]] = j
  BY <1>1, <1>2 DEF PlacesTaken
<1>5. \A i, j \in 1 .. n : s[i] = s[j] => i = j
  BY <1>2
<1>6. ASSUME NEW i \in 1 .. n
      PROVE  h.next[s[i]] = IF i < n THEN s[i + 1] ELSE NULL
  <2>1. CASE i < n
    <3>1. i + 1 \in 1 .. n
      BY <1>1, <2>1
    <3>2. Behind(h, pos, s[i], s[i + 1])
      BY <1>2, <3>1 DEF Behind
    <3>. QED BY <1>1, <1>2, <2>1, <3>1, <3>2 DEF Chained
  <2>2. CASE ~(i < n)
    <3>1. \A k \in Links : ~Behind(h, pos, s[i], k)
      BY <1>1, <1>2, <1>4, <2>2 DEF Behind
    <3>. QED BY <1>1, <1>2, <2>2, <3>1 DEF Chained
  <2>. QED BY <2>1, <2>2
<1>7. ASSUME NEW i \in 1 .. n
      PROVE  h.prev[s[i]] = IF i > 1 THEN s[i - 1] ELSE NULL
  <2>1. CASE i > 1
    <3>1. i - 1 \in 1 .. n /\ i - 1 + 1 = i
      BY <1>1, <2>1
    <3>2. Behind(h, pos, s[i - 1], s[i])
      BY <1>2, <3>1 DEF Behind
    <3>. QED BY <1>1, <1>2, <2>1, <3>1, <3>2 DEF Chained
  <2>2. CASE ~(i > 1)
    <3>1. \A k \in Links : ~Behind(h, pos, k, s[i])
      BY <1>1, <1>2, <1>4, <2>2 DEF Behind
    <3>. QED BY <1>1, <1>2, <2>2, <3>1 DEF Chained
  <2>. QED BY <2>1, <2>2
<1>8. h.first[q] = IF n = 0 THEN NULL ELSE s[1]
  BY <1>1, <1>2, <1>4 DEF EndsFound
<1>9. h.last[q] = IF n = 0 THEN NULL ELSE s[n]
  BY <1>1, <1>2, <1>4 DEF EndsFound
<1>10. Lists(h, q, s)
  BY <1>3, <1>6, <1>8 DEF Lists
<1>11. Walk(h, q) = s
  BY <1>1, <1>10, WalkIsList
<1>12. \A j \in Links : h.queue[j] = q <=> \E i \in 1 .. n : s[i] = j
  BY <1>2, <1>4
<1>. QED BY <1>3, <1>5, <1>7, <1>9, <1>10, <1>11, <1>12 DEF Runs

\* A link joins another list.
LEMMA JoinElsewhere ==
  ASSUME NEW h, NEW x, NEW q \in AllQueues, NEW a, NEW b, NEW k \in Links,
         Joined(h, x, q, a, b, k),
         NEW r \in AllQueues \ {q}, NEW s, Lists(h, r, s),
         \A i \in 1 .. Len(s) : s[i] # a /\ s[i] # k
  PROVE  Lists(x, r, s)
<1>1. \A i \in 1 .. Len(s) : s[i] \in Links
  BY DEF Lists
<1>. QED BY <1>1 DEF Lists, Joined

\* A link joins the list behind its first n links.
LEMMA JoinInto ==
  ASSUME NEW h, NEW x, NEW q \in AllQueues, NEW a, NEW b, NEW k \in Links,
         Joined(h, x, q, a, b, k), NEW s, Lists(h, q, s),
         \A i, j \in 1 .. Len(s) : s[i] = s[j] => i = j,
         \A i \in 1 .. Len(s) : s[i] # k,
         NEW n \in 0 .. Len(s),
         n = 0 => a = NULL /\ b = h.first[q],
         n > 0 => a = s[n] /\ b = h.next[s[n]]
  PROVE  Lists(x, q, InsertAt(s, n + 1, k))
<1>. DEFINE t == InsertAt(s, n + 1, k)
<1>1. /\ s \in Seq(Links) /\ Len(s) = h.nitems[q] /\ Len(s) \in Nat
      /\ h.first[q] = IF Len(s) = 0 THEN NULL ELSE s[1]
      /\ \A i \in 1 .. Len(s) :
           s[i] \in Links /\ h.next[s[i]] = IF i < Len(s) THEN s[i + 1] ELSE NULL
      /\ NULL \notin Links
      /\ n \in Nat /\ n <= Len(s)
  BY NullIsNoLink DEF Lists
<1>2. /\ t \in Seq(Links) /\ Len(t) = Len(s) + 1
      /\ \A i \in 1 .. Len(s) + 1 :
           t[i] = IF i < n + 1 THEN s[i] ELSE IF i = n + 1 THEN k ELSE s[i - 1]
  <2>1. n + 1 \in 1 .. Len(s) + 1
    BY <1>1
  <2>. QED BY <1>1, <2>1, InsertIsAt
<1>. HIDE DEF t
<1>3. /\ \A j \in Links : x.next[j] = IF j = a THEN k ELSE IF j = k THEN b ELSE h.next[j]
      /\ x.first[q] = IF a = NULL THEN k ELSE h.first[q]
      /\ x.nitems[q] = h.nitems[q] + 1
  BY DEF Joined
<1>4. x.first[q] = t[1]
  <2>1. 1 \in 1 .. Len(s) + 1
    BY <1>1
  <2>2. CASE n = 0
    BY <1>2, <1>3, <2>1, <2>2
  <2>3. CASE n > 0
    <3>1. n \in 1 .. Len(s) /\ 1 < n + 1 /\ Len(s) # 0
      BY <1>1, <2>3
    <3>2. a # NULL
      BY <1>1, <2>3, <3>1
    <3>. QED BY <1>1, <1>2, <1>3, <2>1, <3>1, <3>2
  <2>. QED BY <1>1, <2>2, <2>3
<1>5. ASSUME NEW i \in 1 .. Len(s) + 1
      PROVE  x.next[t[i]] = IF i < Len(s) + 1 THEN t[i + 1] ELSE NULL
  <2>1. CASE i < n
    <3>1. i \in 1 .. Len(s) /\ n \in 1 .. Len(s) /\ i + 1 \in 1 .. Len(s) + 1 /\ i < Len(s)
      BY <1>1, <2>1
    <3>2. t[i] = s[i] /\ t[i + 1] = s[i + 1]
      BY <1>1, <1>2, <2>1, <3>1
    <3>3. s[i] # a /\ s[i] # k
      BY <1>1, <2>1, <3>1
    <3>. QED BY <1>1, <1>3, <3>1, <3>2, <3>3
  <2>2. CASE i = n
    <3>1. i \in 1 .. Len(s) /\ i + 1 \in 1 .. Len(s) + 1 /\ n > 0
      BY <1>1, <2>2
    <3>2. t[i] = a /\ t[i + 1] = k /\ a \in Links
      BY <1>1, <1>2, <2>2, <3>1
    <3>. QED BY <1>1, <1>3, <3>1, <3>2
  <2>3. CASE i = n + 1
    <3>1. t[i] = k /\ k # a
      BY <1>1, <1>2, <2>3
    <3>2. x.next[t[i]] = b
      BY <1>3, <3>1
    <3>3. b = IF n < Len(s) THEN s[n + 1] ELSE NULL
      <4>1. CASE n = 0
        BY <1>1, <4>1
      <4>2. CASE n > 0
        <5>1. n \in 1 .. Len(s)
          BY <1>1, <4>2
        <5>. QED BY <1>1, <4>2, <5>1
      <4>. QED BY <1>1, <4>1, <4>2
    <3>4. i < Len(s) + 1 => t[i + 1] = s[n + 1]
      <4>1. ASSUME i < Len(s) + 1 PROVE t[i + 1] = s[n + 1]
        <5>1. i + 1 \in 1 .. Len(s) + 1 /\ i + 1 - 1 = n + 1
          BY <1>1, <2>3, <4>1
        <5>. QED BY <1>1, <1>2, <2>3, <5>1
      <4>. QED BY <4>1
    <3>. QED BY <1>1, <2>3, <3>2, <3>3, <3>4
  <2>4. CASE i > n + 1
    <3>1. i - 1 \in 1 .. Len(s) /\ i - 1 # n
      BY <1>1, <2>4
    <3>2. t[i] = s[i - 1] /\ s[i - 1] # k /\ s[i - 1] \in Links
      BY <1>1, <1>2, <2>4, <3>1
    <3>3. s[i - 1] # a
      <4>1. CASE n = 0
        BY <1>1, <3>2, <4>1
      <4>2. CASE n > 0
        <5>1. n \in 1 .. Len(s)
          BY <1>1, <4>2
        <5>. QED BY <3>1, <4>2, <5>1
      <4>. QED BY <1>1, <4>1, <4>2
    <3>4. x.next[t[i]] = h.next[s[i - 1]]
      BY <1>3, <3>2, <3>3
    <3>5. h.next[s[i - 1]] = IF i - 1 < Len(s) THEN s[i - 1 + 1] ELSE NULL
      BY <1>1, <3>1
    <3>6. i < Len(s) + 1 => t[i + 1] = s[i]
      <4>1. ASSUME i < Len(s) + 1 PROVE t[i + 1] = s[i]
        <5>1. i + 1 \in 1 .. Len(s) + 1 /\ i + 1 - 1 = i
          BY <1>1, <4>1
        <5>. QED BY <1>1, <1>2, <2>4, <5>1
      <4>. QED BY <4>1
    <3>7. i - 1 + 1 = i /\ (i - 1 < Len(s) <=> i < Len(s) + 1)
      BY <1>1
    <3>. QED BY <3>4, <3>5, <3>6, <3>7
  <2>. QED BY <1>1, <2>1, <2>2, <2>3, <2>4
<1>. QED BY <1>1, <1>2, <1>3, <1>4, <1>5 DEF Lists, t

\* A link leaves its list, and no other list changes.
LEMMA UnlinkFrom ==
  ASSUME NEW h, HeapOK(h), NEW k \in Links, NEW q \in AllQueues, h.queue[k] = q,
         NEW s, Runs(h, q, s), NEW n \in 1 .. Len(s), s[n] = k
  PROVE  Lists(Unlinked(h, k), q, RemoveAt(s, n))
<1>. DEFINE u == Unlinked(h, k)
            t == RemoveAt(s, n)
<1>1. /\ s \in Seq(Links) /\ Len(s) = h.nitems[q] /\ Len(s) \in Nat
      /\ h.first[q] = IF Len(s) = 0 THEN NULL ELSE s[1]
      /\ \A i \in 1 .. Len(s) :
           /\ s[i] \in Links /\ s[i] # NULL
           /\ h.next[s[i]] = IF i < Len(s) THEN s[i + 1] ELSE NULL
           /\ h.prev[s[i]] = IF i > 1 THEN s[i - 1] ELSE NULL
      /\ \A i, j \in 1 .. Len(s) : s[i] = s[j] => i = j
      /\ n \in Nat /\ 1 <= n /\ n <= Len(s)
  BY NullIsNoLink DEF Lists, Runs
<1>2. /\ \A j \in Links : u.next[j] = IF j = h.prev[k] THEN h.next[k] ELSE h.next[j]
      /\ u.first[q] = IF h.first[q] = k THEN h.next[k] ELSE h.first[q]
      /\ u.nitems[q] = h.nitems[q] - 1
  BY UnlinkedFields
<1>3. /\ t \in Seq(Links) /\ Len(t) = Len(s) - 1
      /\ \A i \in 1 .. Len(s) - 1 : t[i] = IF i < n THEN s[i] ELSE s[i + 1]
  BY <1>1, RemoveIsAt
<1>. HIDE DEF u, t
<1>4. u.first[q] = IF Len(t) = 0 THEN NULL ELSE t[1]
  <2>1. CASE n = 1
    <3>1. u.first[q] = h.next[s[1]]
      BY <1>1, <1>2, <2>1
    <3>2. 1 \in 1 .. Len(s)
      BY <1>1
    <3>3. Len(s) > 1 => 1 \in 1 .. Len(s) - 1
      BY <1>1
    <3>. QED BY <1>1, <1>3, <2>1, <3>1, <3>2, <3>3
  <2>2. CASE n > 1
    <3>1. 1 \in 1 .. Len(s) /\ 1 \in 1 .. Len(s) - 1 /\ Len(t) # 0
      BY <1>1, <1>3, <2>2
    <3>2. h.first[q] = s[1] /\ s[1] # k
      <4>1. 1 # n /\ Len(s) # 0
        BY <1>1, <2>2
      <4>. QED BY <1>1, <3>1, <4>1
    <3>3. t[1] = s[1]
      BY <1>3, <2>2, <3>1
    <3>. QED BY <1>2, <3>1, <3>2, <3>3
  <2>. QED BY <1>1, <2>1, <2>2
<1>5. ASSUME NEW i \in 1 .. Len(s) - 1
      PROVE  u.next[t[i]] = IF i < Len(s) - 1 THEN t[i + 1] ELSE NULL
  <2>0. i \in 1 .. Len(s) /\ i + 1 \in 1 .. Len(s) /\ i \in Nat /\ i + 1 > 1 /\ i + 1 - 1 = i
    BY <1>1
  <2>1. i < Len(s) - 1 => t[i + 1] = IF i + 1 < n THEN s[i + 1] ELSE s[i + 1 + 1]
    <3>1. ASSUME i < Len(s) - 1 PROVE i + 1 \in 1 .. Len(s) - 1
      BY <1>1, <2>0, <3>1
    <3>. QED BY <1>3, <3>1
  <2>2. CASE i + 1 < n
    <3>1. t[i] = s[i] /\ i < Len(s) - 1 /\ i < Len(s)
      BY <1>1, <1>3, <2>0, <2>2
    <3>2. h.prev[k] = s[n - 1] /\ n - 1 \in 1 .. Len(s) /\ n - 1 # i
      <4>1. n > 1 /\ n - 1 \in 1 .. Len(s) /\ n - 1 # i
        BY <1>1, <2>0, <2>2
      <4>. QED BY <1>1, <4>1
    <3>3. u.next[s[i]] = h.next[s[i]]
      BY <1>1, <1>2, <2>0, <3>2
    <3>. QED BY <1>1, <2>0, <2>1, <2>2, <3>1, <3>3
  <2>3. CASE i + 1 = n
    <3>1. t[i] = s[i]
      BY <1>1, <1>3, <2>0, <2>3
    <3>2. h.prev[k] = s[i]
      BY <1>1, <2>0, <2>3
    <3>3. u.next[s[i]] = h.next[k]
      BY <1>1, <1>2, <2>0, <3>2
    <3>4. h.next[k] = IF n < Len(s) THEN s[n + 1] ELSE NULL
      BY <1>1
    <3>5. n < Len(s) <=> i < Len(s) - 1
      BY <1>1, <2>0, <2>3
    <3>. QED BY <1>1, <2>0, <2>1, <2>3, <3>1, <3>3, <3>4, <3>5
  <2>4. CASE i >= n
    <3>1. t[i] = s[i + 1]
      BY <1>1, <1>3, <2>0, <2>4
    <3>2. s[i + 1] # h.prev[k]
      <4>1. CASE n > 1
        <5>1. h.prev[k] = s[n - 1] /\ n - 1 \in 1 .. Len(s) /\ n - 1 # i + 1
          BY <1>1, <2>0, <2>4, <4>1
        <5>. QED BY <1>1, <2>0, <5>1
      <4>2. CASE n = 1
        <5>1. h.prev[k] = NULL
          BY <1>1, <4>2
        <5>. QED BY <1>1, <2>0, <5>1
      <4>. QED BY <1>1, <4>1, <4>2
    <3>3. u.next[s[i + 1]] = h.next[s[i + 1]]
      BY <1>1, <1>2, <2>0, <3>2
    <3>4. h.next[s[i + 1]] = IF i + 1 < Len(s) THEN s[i + 1 + 1] ELSE NULL
      BY <1>1, <2>0
    <3>5. i + 1 < Len(s) <=> i < Len(s) - 1
      BY <1>1, <2>0
    <3>6. ~(i + 1 < n)
      BY <1>1, <2>0, <2>4
    <3>. QED BY <2>1, <3>1, <3>3, <3>4, <3>5, <3>6
  <2>. QED BY <1>1, <2>0, <2>2, <2>3, <2>4
<1>. QED BY <1>1, <1>2, <1>3, <1>4, <1>5 DEF Lists, u, t

LEMMA UnlinkElsewhere ==
  ASSUME NEW h, HeapOK(h), NEW k \in Links, NEW q \in AllQueues, h.queue[k] = q,
         NEW s, Runs(h, q, s), NEW r \in AllQueues \ {q}, NEW t, Runs(h, r, t)
  PROVE  Lists(Unlinked(h, k), r, t)
<1>. DEFINE u == Unlinked(h, k)
<1>1. /\ \A j \in Links : u.next[j] = IF j = h.prev[k] THEN h.next[k] ELSE h.next[j]
      /\ u.first[r] = h.first[r] /\ u.nitems[r] = h.nitems[r]
  BY UnlinkedFields
<1>. HIDE DEF u
<1>2. h.prev[k] = NULL \/ (h.prev[k] \in Links /\ h.queue[h.prev[k]] = q)
  <2>1. PICK n \in 1 .. Len(s) : s[n] = k
    BY DEF Runs
  <2>2. /\ h.prev[s[n]] = IF n > 1 THEN s[n - 1] ELSE NULL
        /\ Len(s) \in Nat /\ \A i \in 1 .. Len(s) : s[i] \in Links /\ h.queue[s[i]] = q
    BY DEF Runs, Lists
  <2>3. n > 1 => n - 1 \in 1 .. Len(s)
    BY <2>2
  <2>. QED BY <2>1, <2>2, <2>3
<1>3. \A i \in 1 .. Len(t) : t[i] \in Links /\ t[i] # NULL /\ h.queue[t[i]] = r
  <2>1. t \in Seq(Links)
    BY DEF Runs, Lists
  <2>2. \A i \in 1 .. Len(t) : t[i] \in Links /\ t[i] # NULL
    BY <2>1, NullIsNoLink
  <2>3. \A j \in Links : h.queue[j] = r <=> \E i \in 1 .. Len(t) : t[i] = j
    BY DEF Runs
  <2>. QED BY <2>2, <2>3
<1>4. \A i \in 1 .. Len(t) : u.next[t[i]] = h.next[t[i]]
  <2>1. \A i \in 1 .. Len(t) : t[i] # h.prev[k]
    BY <1>2, <1>3
  <2>. QED BY <1>1, <1>3, <2>1
<1>5. Lists(u, r, t)
  BY <1>1, <1>4 DEF Lists, Runs
<1>. QED BY <1>5 DEF u

\* A heap whose queues are lists, whatever the numbers of their links.
Listed(h) == HeapOK(h) /\ \E pos \in Numberings : Numbered(h, pos, Links)

LEMMA ListedRuns ==
  ASSUME NEW h, Listed(h)
  PROVE  /\ \A q \in AllQueues :
              /\ Runs(h, q, Walk(h, q))
              /\ Range(Walk(h, q)) = {j \in Links : h.queue[j] = q}
         /\ OnWalk(h, freeLinks) = {j \in Links : h.queue[j] = freeLinks}
<1>1. PICK pos \in Numberings : HeapOK(h) /\ Numbered(h, pos, Links)
  BY DEF Listed
<1>2. ASSUME NEW q \in AllQueues
      PROVE  /\ Runs(h, q, Walk(h, q))
             /\ Range(Walk(h, q)) = {j \in Links : h.queue[j] = q}
             /\ {Walk(h, q)[i] : i \in 1 .. h.nitems[q]} = {j \in Links : h.queue[j] = q}
  <2>. DEFINE s == Walk(h, q)
  <2>1. Runs(h, q, s)
    BY <1>1, NumberedRuns
  <2>. HIDE DEF s
  <2>2. /\ s \in Seq(Links) /\ Len(s) = h.nitems[q]
        /\ \A j \in Links : h.queue[j] = q <=> \E i \in 1 .. Len(s) : s[i] = j
    BY <2>1 DEF Runs, Lists
  <2>3. \A i \in 1 .. Len(s) : s[i] \in Links
    BY <2>2
  <2>4. {s[i] : i \in 1 .. Len(s)} = {j \in Links : h.queue[j] = q}
    BY <2>2, <2>3
  <2>5. Range(s) = {s[i] : i \in 1 .. Len(s)}
    BY <2>2, RangeEquality
  <2>. QED BY <2>1, <2>2, <2>4, <2>5 DEF s
<1>3. freeLinks \in AllQueues
  BY DEF AllQueues
<1>. QED BY <1>2, <1>3 DEF OnWalk

\* A queue of callers becomes s, and the others stay as they are.
LEMMA BecomesWhen ==
  ASSUME NEW h, NEW x, NEW q \in Queues, NEW s, Lists(x, q, s),
         \A r \in Queues \ {q} : Lists(x, r, Walk(h, r))
  PROVE  [r \in Queues |-> Walk(x, r)] = [[r \in Queues |-> Walk(h, r)] EXCEPT ![q] = s]
<1>1. Walk(x, q) = s
  BY WalkIsList, NullIsNoLink
<1>2. \A r \in Queues \ {q} : Walk(x, r) = Walk(h, r)
  BY WalkIsList, NullIsNoLink
<1>. HIDE DEF Walk
<1>. QED BY <1>1, <1>2

LEMMA StayWhen ==
  ASSUME NEW h, NEW x, \A r \in Queues : Lists(x, r, Walk(h, r))
  PROVE  [r \in Queues |-> Walk(x, r)] = [r \in Queues |-> Walk(h, r)]
<1>1. \A r \in Queues : Walk(x, r) = Walk(h, r)
  BY WalkIsList, NullIsNoLink
<1>. QED BY <1>1

LEMMA ClearedElsewhere ==
  ASSUME NEW u, HeapOK(u), NEW k \in Links, NEW o \in Objects,
         NEW r \in AllQueues, NEW t, Lists(u, r, t), \A i \in 1 .. Len(t) : t[i] # k
  PROVE  Lists(Cleared(u, k, o), r, t)
<1>. DEFINE x == Cleared(u, k, o)
<1>0. x = Cleared(u, k, o)
  OBVIOUS
<1>. HIDE DEF x
<1>1. /\ HeapOK(x)
      /\ x.object = [u.object EXCEPT ![k] = o]
      /\ x.first = u.first /\ x.last = u.last /\ x.nitems = u.nitems
      /\ \A j \in Links :
           /\ x.next[j] = IF j = k THEN NULL ELSE u.next[j]
           /\ x.prev[j] = IF j = k THEN NULL ELSE u.prev[j]
           /\ x.queue[j] = IF j = k THEN NULL ELSE u.queue[j]
  BY ONLY <1>0, ClearedFields, HeapOK(u), k \in Links, o \in Objects
<1>2. \A i \in 1 .. Len(t) : t[i] \in Links
  BY DEF Lists
<1>3. Lists(x, r, t)
  BY <1>1, <1>2 DEF Lists
<1>. QED BY <1>3 DEF x

\* An unqueued link joins a queue of callers behind its first n links.
LEMMA JoinBecomes ==
  ASSUME NEW h, Listed(h), NEW x, NEW q \in Queues, NEW k \in Links, h.queue[k] = NULL,
         NEW a, NEW b, Joined(h, x, q, a, b, k),
         NEW n \in 0 .. Len(Walk(h, q)),
         n = 0 => a = NULL /\ b = h.first[q],
         n > 0 => a = Walk(h, q)[n] /\ b = h.next[a]
  PROVE  [r \in Queues |-> Walk(x, r)] =
           [[r \in Queues |-> Walk(h, r)] EXCEPT ![q] = InsertAt(Walk(h, q), n + 1, k)]
<1>1. \A r \in AllQueues : Runs(h, r, Walk(h, r))
  BY ListedRuns
<1>2. q \in AllQueues /\ Queues \subseteq AllQueues /\ NULL \notin AllQueues /\ NULL \notin Links
  BY NullIsNoLink DEF AllQueues
<1>3. ASSUME NEW r \in AllQueues
      PROVE  /\ Lists(h, r, Walk(h, r))
             /\ \A i, j \in 1 .. Len(Walk(h, r)) : Walk(h, r)[i] = Walk(h, r)[j] => i = j
             /\ \A i \in 1 .. Len(Walk(h, r)) :
                  /\ Walk(h, r)[i] # k /\ Walk(h, r)[i] \in Links
                  /\ h.queue[Walk(h, r)[i]] = r
  <2>. DEFINE s == Walk(h, r)
  <2>1. Runs(h, r, s)
    BY <1>1
  <2>. HIDE DEF s
  <2>2. s \in Seq(Links) /\ Lists(h, r, s) /\ \A i \in 1 .. Len(s) : s[i] \in Links
    BY <2>1 DEF Runs, Lists
  <2>3. \A i \in 1 .. Len(s) : h.queue[s[i]] = r
    BY <2>1, <2>2 DEF Runs
  <2>4. \A i, j \in 1 .. Len(s) : s[i] = s[j] => i = j
    BY <2>1 DEF Runs
  <2>. QED BY <1>2, <2>2, <2>3, <2>4 DEF s
<1>4. n > 0 => a \in Links /\ h.queue[a] = q
  <2>1. Len(Walk(h, q)) \in Nat
    BY <1>2, <1>3 DEF Lists
  <2>. QED BY <1>2, <1>3, <2>1
<1>5. ASSUME NEW r \in Queues \ {q} PROVE Lists(x, r, Walk(h, r))
  <2>1. r \in AllQueues \ {q}
    BY <1>2
  <2>2. n = 0 \/ n > 0
    BY <1>2, <1>3 DEF Lists
  <2>3. \A i \in 1 .. Len(Walk(h, r)) : Walk(h, r)[i] # a /\ Walk(h, r)[i] # k
    BY <1>2, <1>3, <1>4, <2>1, <2>2
  <2>. QED BY <1>2, <1>3, <2>1, <2>3, JoinElsewhere
<1>6. Lists(x, q, InsertAt(Walk(h, q), n + 1, k))
  <2>. DEFINE s == Walk(h, q)
  <2>1. /\ Lists(h, q, s) /\ \A i, j \in 1 .. Len(s) : s[i] = s[j] => i = j
        /\ \A i \in 1 .. Len(s) : s[i] # k
        /\ n \in 0 .. Len(s)
        /\ n = 0 => a = NULL /\ b = h.first[q]
        /\ n > 0 => a = s[n] /\ b = h.next[s[n]]
    BY <1>2, <1>3
  <2>. HIDE DEF s
  <2>2. Lists(x, q, InsertAt(s, n + 1, k))
    BY <1>2, <2>1, JoinInto
  <2>. QED BY <2>2 DEF s
<1>. QED BY <1>5, <1>6, BecomesWhen

\* Where the calls of LinkSequences insert and remove.
LEMMA PlaceOf ==
  ASSUME NEW s \in Seq(Links), NEW n \in 1 .. Len(s), NEW k,
         \A i, j \in 1 .. Len(s) : s[i] = s[j] => i = j
  PROVE  /\ Sequences!After(s, s[n], k) = InsertAt(s, n + 1, k)
         /\ Sequences!RemoveFirst(s, s[n]) = RemoveAt(s, n)
<1>. DEFINE a == s[n]
<1>1. {i \in 1 .. Len(s) : s[i] = a} = {n}
  OBVIOUS
<1>2. Sequences!Min({n}) = n
  BY DEF Sequences!Min
<1>. HIDE DEF a
<1>3. Sequences!SelectInSeq(s, LAMBDA e : e = a) = n
  BY <1>1, <1>2 DEF Sequences!SelectInSeq
<1>4. Sequences!After(s, a, k) = InsertAt(s, n + 1, k)
  BY <1>3 DEF Sequences!After, Sequences!InsertAt, InsertAt
<1>5. Sequences!RemoveFirst(s, a) = RemoveAt(s, n)
  BY <1>1, <1>2, <1>3 DEF Sequences!RemoveFirst, Sequences!RemoveAt, RemoveAt
<1>. QED BY <1>4, <1>5 DEF a

LEMMA EndsOf ==
  ASSUME NEW s \in Seq(Links), NEW k \in Links
  PROVE  /\ <<k>> \o s = InsertAt(s, 1, k)
         /\ Append(s, k) = InsertAt(s, Len(s) + 1, k)
<1>. DEFINE z == <<k>>
            c == z \o s
            d == Append(s, k)
<1>1. Len(s) \in Nat
  BY LenProperties
<1>2. z \in Seq(Links) /\ Len(z) = 1 /\ z[1] = k
  OBVIOUS
<1>3. /\ d \in Seq(Links) /\ Len(d) = Len(s) + 1
      /\ \A i \in 1 .. Len(s) : d[i] = s[i]
      /\ d[Len(s) + 1] = k
  BY AppendProperties
<1>. HIDE DEF z, d
<1>4. /\ c \in Seq(Links) /\ Len(c) = Len(z) + Len(s)
      /\ \A i \in 1 .. Len(z) + Len(s) : c[i] = IF i <= Len(z) THEN z[i] ELSE s[i - Len(z)]
  BY <1>2, ConcatProperties
<1>. HIDE DEF c
<1>5. ASSUME NEW m \in 1 .. Len(s) + 1
      PROVE  /\ InsertAt(s, m, k) \in Seq(Links) /\ Len(InsertAt(s, m, k)) = Len(s) + 1
             /\ \A i \in 1 .. Len(s) + 1 :
                  InsertAt(s, m, k)[i] = IF i < m THEN s[i] ELSE IF i = m THEN k ELSE s[i - 1]
  BY InsertIsAt
<1>6. c = InsertAt(s, 1, k)
  <2>. DEFINE r == InsertAt(s, 1, k)
  <2>1. 1 \in 1 .. Len(s) + 1
    BY <1>1
  <2>2. /\ r \in Seq(Links) /\ Len(r) = Len(s) + 1
        /\ \A i \in 1 .. Len(s) + 1 : r[i] = IF i < 1 THEN s[i] ELSE IF i = 1 THEN k ELSE s[i - 1]
    BY <1>5, <2>1
  <2>. HIDE DEF r
  <2>3. Len(c) = Len(s) + 1
    BY <1>1, <1>2, <1>4
  <2>4. ASSUME NEW i \in 1 .. Len(s) + 1 PROVE c[i] = r[i]
    <3>1. i \in 1 .. Len(z) + Len(s) /\ (i <= Len(z) <=> i = 1) /\ i - Len(z) = i - 1 /\ ~(i < 1)
      BY <1>1, <1>2
    <3>2. c[i] = IF i = 1 THEN z[i] ELSE s[i - 1]
      BY <1>4, <3>1
    <3>3. r[i] = IF i = 1 THEN k ELSE s[i - 1]
      BY <2>2, <3>1
    <3>. QED BY <1>2, <3>2, <3>3
  <2>5. c \in Seq(Links) /\ r \in Seq(Links) /\ Len(c) = Len(r)
    BY <1>4, <2>2, <2>3
  <2>6. \A i \in 1 .. Len(c) : c[i] = r[i]
    BY <2>3, <2>4
  <2>7. c = r
    BY <2>5, <2>6, SeqEqual
  <2>. QED BY <2>7 DEF r
<1>7. d = InsertAt(s, Len(s) + 1, k)
  <2>. DEFINE r == InsertAt(s, Len(s) + 1, k)
  <2>1. Len(s) + 1 \in 1 .. Len(s) + 1
    BY <1>1
  <2>2. /\ r \in Seq(Links) /\ Len(r) = Len(s) + 1
        /\ \A i \in 1 .. Len(s) + 1 :
             r[i] = IF i < Len(s) + 1 THEN s[i] ELSE IF i = Len(s) + 1 THEN k ELSE s[i - 1]
    BY <1>5, <2>1
  <2>. HIDE DEF r
  <2>3. \A i \in 1 .. Len(s) + 1 : d[i] = r[i]
    BY <1>1, <1>3, <2>2
  <2>4. d = r
    BY <1>3, <2>2, <2>3, SeqEqual
  <2>. QED BY <2>4 DEF r
<1>. QED BY <1>6, <1>7 DEF c, d, z

-----------------------------------------------------------------------------
(* The calls on sequences *)

LEMMA ListedBoth ==
  ASSUME IInv, IInv'
  PROVE  /\ Listed(heap) /\ Listed(heap')
         /\ OnWalk(heap, freeLinks) = {j \in Links : heap.queue[j] = freeLinks}
         /\ OnWalk(heap', freeLinks) = {j \in Links : heap'.queue[j] = freeLinks}
         /\ l \in [Objects -> Pointers] /\ freeLinks \notin Queues
<1>1. Listed(heap)
  BY DEF IInv, Shape, Listed, LinksTyped, HeapOK
<1>2. Listed(heap')
  BY DEF IInv, Shape, Listed, LinksTyped, HeapOK
<1>3. l \in [Objects -> Pointers]
  BY DEF IInv, Shape, LinksTyped
<1>. QED BY <1>1, <1>2, <1>3, ListedRuns, LinkAssumption

LEMMA OnIs ==
  ASSUME Listed(heap), NEW q \in Queues
  PROVE  Sequences!On(q) = {j \in Links : heap.queue[j] = q}
<1>1. Range(Walk(heap, q)) = {j \in Links : heap.queue[j] = q}
  BY ListedRuns DEF AllQueues
<1>2. Sequences!Range(Walk(heap, q)) = Range(Walk(heap, q))
  BY DEF Sequences!Range, Range
<1>. QED BY <1>1, <1>2 DEF Sequences!On

LEMMA AllocOnSequences ==
  ASSUME IInv, IInv', NEW o \in Objects, AQueueAllocLink(o)
  PROVE  Sequences!Alloc(o)
<1>. DEFINE k == heap.first[freeLinks]
            s == Walk(heap, freeLinks)
<1>1. /\ Listed(heap) /\ Listed(heap')
      /\ OnWalk(heap, freeLinks) = {j \in Links : heap.queue[j] = freeLinks}
      /\ OnWalk(heap', freeLinks) = {j \in Links : heap'.queue[j] = freeLinks}
  BY ListedBoth
<1>2. freeLinks \in AllQueues /\ NULL \notin Links /\ NULL # freeLinks
  BY NullIsNoLink DEF AllQueues
<1>3. Runs(heap, freeLinks, s)
  BY <1>1, <1>2, ListedRuns
<1>. HIDE DEF s
<1>4. CASE /\ AQueueEmpty(heap, freeLinks) \/ k = NULL
           /\ ret' = NULL /\ UNCHANGED <<heap, l>>
  <2>1. Len(s) = 0
    <3>1. /\ s \in Seq(Links) /\ Len(s) \in Nat /\ Len(s) = heap.nitems[freeLinks]
          /\ k = IF Len(s) = 0 THEN NULL ELSE s[1]
      BY <1>3 DEF Runs, Lists
    <3>2. Len(s) # 0 => s[1] \in Links
      BY <3>1
    <3>. QED BY <1>2, <1>4, <3>1, <3>2 DEF AQueueEmpty
  <2>2. {j \in Links : heap.queue[j] = freeLinks} = {}
    BY <1>3, <2>1 DEF Runs
  <2>3. OnWalk(heap, freeLinks) = {}
    BY <1>1, <2>2
  <2>. QED BY <1>4, <2>3 DEF Sequences!Alloc
<1>5. CASE /\ k # NULL
           /\ heap' = Cleared(Unlinked(heap, k), k, o)
           /\ l' = [l EXCEPT ![o] = k] /\ ret' = k
  <2>. DEFINE u == Unlinked(heap, k)
  <2>1. HeapOK(heap) /\ \E pos \in Numberings : Numbered(heap, pos, Links)
    BY <1>1 DEF Listed
  <2>2. k \in Links /\ heap.queue[k] = freeLinks
    BY <1>2, <1>5, <2>1 DEF Numbered, EndsFound
  <2>. HIDE DEF k
  <2>3. HeapOK(u)
    BY <1>2, <2>1, <2>2, UnlinkedOK
  <2>4. u.queue = heap.queue /\ u.object = heap.object
    BY <1>2, <2>1, <2>2, UnlinkedFields
  <2>5. /\ heap'.object = [heap.object EXCEPT ![k] = o]
        /\ \A j \in Links : heap'.queue[j] = IF j = k THEN NULL ELSE heap.queue[j]
    BY <1>5, <2>2, <2>3, <2>4, ClearedFields
  <2>6. ASSUME NEW r \in Queues PROVE Lists(heap', r, Walk(heap, r))
    <3>1. r \in AllQueues \ {freeLinks} /\ r # freeLinks
      BY LinkAssumption DEF AllQueues
    <3>. DEFINE t == Walk(heap, r)
    <3>2. Runs(heap, r, t)
      BY <1>1, <3>1, ListedRuns
    <3>. HIDE DEF t
    <3>3. Lists(u, r, t)
      BY <1>2, <1>3, <2>1, <2>2, <3>1, <3>2, UnlinkElsewhere
    <3>4. \A i \in 1 .. Len(t) : t[i] \in Links /\ heap.queue[t[i]] = r
      BY <3>2 DEF Runs, Lists
    <3>5. \A i \in 1 .. Len(t) : t[i] # k
      BY <2>2, <3>1, <3>4
    <3>6. Lists(heap', r, t)
      BY <1>5, <2>2, <2>3, <3>1, <3>3, <3>5, ClearedElsewhere
    <3>. QED BY <3>6 DEF t
  <2>7. [r \in Queues |-> Walk(heap', r)] = [r \in Queues |-> Walk(heap, r)]
    BY <2>6, StayWhen
  <2>8. OnWalk(heap', freeLinks) = OnWalk(heap, freeLinks) \ {k} /\ k \in OnWalk(heap, freeLinks)
    BY <1>1, <1>2, <2>2, <2>5
  <2>. QED BY <1>5, <2>5, <2>7, <2>8 DEF Sequences!Alloc
<1>. QED BY <1>4, <1>5 DEF AQueueAllocLink, Cleared

\* The link of an object joins a queue: what the three insertions share.
LEMMA InsertOnSequences ==
  ASSUME IInv, IInv', NEW q \in Queues, NEW k \in Links, heap.queue[k] = NULL,
         NEW a, NEW b, Joined(heap, heap', q, a, b, k),
         heap'.object = heap.object, UNCHANGED l, ret' = QUEUE_SUCCESS,
         NEW n \in 0 .. Len(Walk(heap, q)),
         n = 0 => a = NULL /\ b = heap.first[q],
         n > 0 => a = Walk(heap, q)[n] /\ b = heap.next[a]
  PROVE  /\ Sequences!Become(q, InsertAt(Walk(heap, q), n + 1, k))
         /\ OnWalk(heap', freeLinks) = OnWalk(heap, freeLinks)
         /\ heap'.object = heap.object /\ UNCHANGED l
<1>1. /\ Listed(heap)
      /\ OnWalk(heap, freeLinks) = {j \in Links : heap.queue[j] = freeLinks}
      /\ OnWalk(heap', freeLinks) = {j \in Links : heap'.queue[j] = freeLinks}
      /\ freeLinks \notin Queues /\ freeLinks # NULL
  BY ListedBoth, LinkAssumption
<1>2. [r \in Queues |-> Walk(heap', r)] =
        [[r \in Queues |-> Walk(heap, r)] EXCEPT ![q] = InsertAt(Walk(heap, q), n + 1, k)]
  BY <1>1, JoinBecomes
<1>3. \A j \in Links : heap'.queue[j] = IF j = k THEN q ELSE heap.queue[j]
  BY DEF Joined
<1>4. OnWalk(heap', freeLinks) = OnWalk(heap, freeLinks)
  BY <1>1, <1>3
<1>. QED BY <1>2, <1>4 DEF Sequences!Become, Sequences!QUEUE_SUCCESS, QUEUE_SUCCESS

LEMMA FailOnSequences == Fail => Sequences!Fail
BY DEF Fail, Sequences!Fail, Sequences!QUEUE_FAIL, QUEUE_FAIL

\* What an insertion finds: k on no queue, and the list s of q.
Insertable(q, s, k) ==
  /\ k \in Links /\ heap.queue[k] = NULL /\ HeapOK(heap) /\ q \in AllQueues
  /\ \E pos \in Numberings : Numbered(heap, pos, Links \ {k})
  /\ Runs(heap, q, s) /\ s \in Seq(Links) /\ Len(s) \in Nat /\ Len(s) = heap.nitems[q]
  /\ Sequences!On(q) = {j \in Links : heap.queue[j] = q}
  /\ heap.first[q] = IF Len(s) = 0 THEN NULL ELSE s[1]
  /\ heap.last[q] = IF Len(s) = 0 THEN NULL ELSE s[Len(s)]
  /\ heap.first[q] \in Pointers \ {k} /\ heap.last[q] \in Pointers \ {k}
  /\ Place(heap, q, heap.first[q]) /\ Place(heap, q, heap.last[q])

LEMMA InsertFacts ==
  ASSUME IInv, NEW q \in Queues, NEW o \in Objects, Unqueued(o)
  PROVE  Insertable(q, Walk(heap, q), l[o])
<1>. DEFINE s == Walk(heap, q)
<1>1. Listed(heap) /\ HeapOK(heap) /\ q \in AllQueues
  BY DEF IInv, Shape, Listed, LinksTyped, HeapOK, AllQueues
<1>2. PICK pos \in Numberings : Numbered(heap, pos, Links)
  BY <1>1 DEF Listed
<1>3. /\ l[o] \in Links /\ heap.queue[l[o]] = NULL
      /\ heap.first[q] \in Pointers \ {l[o]} /\ heap.last[q] \in Pointers \ {l[o]}
  BY EndsAreOthers DEF IInv
<1>4. Numbered(heap, pos, Links \ {l[o]})
  BY <1>1, <1>2, <1>3, UnqueuedIsApart
<1>5. Runs(heap, q, s)
  BY <1>1, ListedRuns
<1>6. Sequences!On(q) = {j \in Links : heap.queue[j] = q}
  BY <1>1, OnIs
<1>7. Place(heap, q, heap.first[q]) /\ Place(heap, q, heap.last[q])
  BY <1>1, <1>2, EndIsPlace
<1>. HIDE DEF s
<1>8. /\ s \in Seq(Links) /\ Len(s) \in Nat /\ Len(s) = heap.nitems[q]
      /\ heap.first[q] = IF Len(s) = 0 THEN NULL ELSE s[1]
      /\ heap.last[q] = IF Len(s) = 0 THEN NULL ELSE s[Len(s)]
  BY <1>5 DEF Runs, Lists
<1>9. Insertable(q, s, l[o])
  BY <1>1, <1>3, <1>4, <1>5, <1>6, <1>7, <1>8 DEF Insertable
<1>. QED BY <1>9 DEF s

LEMMA InsertFirstOnSequences ==
  ASSUME IInv, IInv', NEW q \in Queues, NEW o \in Objects, AQueueInsertFirst(q, o)
  PROVE  Sequences!InsertFirst(q, o)
<1>. DEFINE s == Walk(heap, q)
            k == l[o]
            p == heap.first[q]
<1>0. Unqueued(o)
  BY DEF AQueueInsertFirst, AQueueInsertBefore
<1>1. Insertable(q, s, k)
  BY <1>0, InsertFacts
<1>2. heap' = InsertedBefore(heap, q, p, k) /\ ret' = QUEUE_SUCCESS /\ UNCHANGED l
  BY <1>1 DEF Insertable, AQueueInsertFirst, AQueueInsertBefore
<1>3. Joined(heap, heap', q, Leader(heap, p), p, k) /\ heap'.object = heap.object
  BY <1>1, <1>2, InsertedBeforeJoins DEF Insertable
<1>4. Leader(heap, p) = NULL
  <2>1. Len(s) # 0 => 1 \in 1 .. Len(s)
    BY <1>1 DEF Insertable
  <2>. QED BY <1>1, <2>1 DEF Insertable, Runs, Leader
<1>5. 0 \in 0 .. Len(s)
  BY <1>1 DEF Insertable
<1>6. /\ Sequences!Become(q, InsertAt(s, 0 + 1, k))
      /\ OnWalk(heap', freeLinks) = OnWalk(heap, freeLinks)
      /\ heap'.object = heap.object /\ UNCHANGED l
  BY <1>1, <1>2, <1>3, <1>4, <1>5, InsertOnSequences DEF Insertable
<1>7. <<k>> \o s = InsertAt(s, 0 + 1, k)
  BY <1>1, EndsOf DEF Insertable
<1>. QED BY <1>6, <1>7 DEF Sequences!InsertFirst

LEMMA InsertLastOnSequences ==
  ASSUME IInv, IInv', NEW q \in Queues, NEW o \in Objects, AQueueInsertLast(q, o)
  PROVE  Sequences!InsertLast(q, o)
<1>. DEFINE s == Walk(heap, q)
            k == l[o]
            p == heap.last[q]
<1>0. Unqueued(o)
  BY DEF AQueueInsertLast, AQueueInsertAfter
<1>1. Insertable(q, s, k)
  BY <1>0, InsertFacts
<1>2. heap' = InsertedAfter(heap, q, p, k) /\ ret' = QUEUE_SUCCESS /\ UNCHANGED l
  BY <1>1 DEF Insertable, AQueueInsertLast, AQueueInsertAfter
<1>3. Joined(heap, heap', q, p, Follower(heap, p), k) /\ heap'.object = heap.object
  BY <1>1, <1>2, InsertedAfterJoins DEF Insertable
<1>4. /\ Len(s) = 0 => p = NULL /\ Follower(heap, p) = heap.first[q]
      /\ Len(s) > 0 => p = s[Len(s)] /\ Follower(heap, p) = heap.next[p]
      /\ Len(s) \in 0 .. Len(s)
  <2>1. Len(s) > 0 => s[Len(s)] \in Links
    BY <1>1 DEF Insertable
  <2>. QED BY <1>1, <2>1, NullIsNoLink DEF Insertable, Follower
<1>5. /\ Sequences!Become(q, InsertAt(s, Len(s) + 1, k))
      /\ OnWalk(heap', freeLinks) = OnWalk(heap, freeLinks)
      /\ heap'.object = heap.object /\ UNCHANGED l
  BY <1>1, <1>2, <1>3, <1>4, InsertOnSequences DEF Insertable
<1>6. Append(s, k) = InsertAt(s, Len(s) + 1, k)
  BY <1>1, EndsOf DEF Insertable
<1>. QED BY <1>5, <1>6 DEF Sequences!InsertLast

LEMMA InsertAfterOnSequences ==
  ASSUME IInv, IInv', NEW q \in Queues, NEW o \in Objects,
         NEW after \in Pointers, after # l[o], AQueueInsertAfter(q, after, o)
  PROVE  Sequences!InsertAfter(q, after, o)
<1>. DEFINE s == Walk(heap, q)
            k == l[o]
<1>0. Unqueued(o)
  BY DEF AQueueInsertAfter
<1>1. Insertable(q, s, k)
  BY <1>0, InsertFacts
<1>2. /\ k \in Links /\ HeapOK(heap) /\ q \in AllQueues /\ NULL \notin Links
      /\ s \in Seq(Links) /\ Len(s) \in Nat /\ Len(s) = heap.nitems[q]
      /\ Sequences!On(q) = {j \in Links : heap.queue[j] = q}
      /\ heap.first[q] = IF Len(s) = 0 THEN NULL ELSE s[1]
      /\ heap.last[q] = IF Len(s) = 0 THEN NULL ELSE s[Len(s)]
      /\ \A i, j \in 1 .. Len(s) : s[i] = s[j] => i = j
      /\ \A j \in Links : heap.queue[j] = q <=> \E i \in 1 .. Len(s) : s[i] = j
      /\ s = <<>> <=> Len(s) = 0
  BY <1>1, NullIsNoLink DEF Insertable, Runs
<1>3. CASE after # NULL /\ heap.queue[after] = q
  <2>1. after \in Links
    BY <1>3 DEF Pointers
  <2>2. PICK n \in 1 .. Len(s) : s[n] = after
    BY <1>2, <1>3, <2>1
  <2>3. heap' = InsertedAfter(heap, q, after, k) /\ ret' = QUEUE_SUCCESS /\ UNCHANGED l
    BY <1>3 DEF AQueueInsertAfter, Place
  <2>4. after \in Pointers \ {k} /\ Place(heap, q, after)
    BY <1>3 DEF Place
  <2>5. /\ Joined(heap, heap', q, after, Follower(heap, after), k)
        /\ heap'.object = heap.object
    BY <1>1, <2>3, <2>4, InsertedAfterJoins DEF Insertable
  <2>6. /\ n \in 0 .. Len(s) /\ n # 0 /\ n > 0
        /\ Follower(heap, after) = heap.next[after]
    BY <1>2, <1>3, <2>2 DEF Follower
  <2>. HIDE DEF s
  <2>7. /\ Sequences!Become(q, InsertAt(s, n + 1, k))
        /\ OnWalk(heap', freeLinks) = OnWalk(heap, freeLinks)
        /\ heap'.object = heap.object /\ UNCHANGED l
    BY <1>1, <2>2, <2>3, <2>5, <2>6, InsertOnSequences DEF Insertable, s
  <2>8. Sequences!After(s, after, k) = InsertAt(s, n + 1, k)
    BY <1>2, <2>2, PlaceOf
  <2>9. after \in Sequences!On(q)
    BY <1>2, <1>3, <2>1
  <2>. QED BY <2>7, <2>8, <2>9 DEF Sequences!InsertAfter, s
<1>4. CASE after = NULL /\ Len(s) = 0
  <2>1. AQueueInsertLast(q, o)
    BY <1>2, <1>4 DEF AQueueInsertLast
  <2>2. Sequences!InsertLast(q, o)
    BY <2>1, InsertLastOnSequences
  <2>. QED BY <1>2, <1>4, <2>2 DEF Sequences!InsertAfter
<1>5. CASE IF after = NULL THEN Len(s) # 0 ELSE heap.queue[after] # q
  <2>1. after \notin Sequences!On(q) /\ (after # NULL \/ s # <<>>)
    BY <1>2, <1>5
  <2>2. ~Place(heap, q, after)
    BY <1>2, <1>5 DEF Place, AQueueEmpty
  <2>3. Sequences!Fail
    BY <2>2, FailOnSequences DEF AQueueInsertAfter
  <2>. QED BY <2>1, <2>3 DEF Sequences!InsertAfter
<1>. QED BY <1>3, <1>4, <1>5

\* The links of t are those of q but k, each once.
Rest(q, k, t) ==
  /\ \A i \in 1 .. Len(t) : t[i] \in Links \ {k} /\ heap.queue[t[i]] = q
  /\ \A i, j \in 1 .. Len(t) : t[i] = t[j] => i = j
  /\ \A j \in Links \ {k} : heap.queue[j] = q => \E i \in 1 .. Len(t) : t[i] = j

\* A link on a queue of callers: where it is on the list.
LEMMA PlaceOnList ==
  ASSUME Listed(heap), NEW q \in Queues, NEW k \in Links, heap.queue[k] = q
  PROVE  /\ k \in Sequences!On(q) /\ HeapOK(heap)
         /\ \E n \in 1 .. Len(Walk(heap, q)) :
              /\ Walk(heap, q)[n] = k
              /\ Lists(Unlinked(heap, k), q, RemoveAt(Walk(heap, q), n))
              /\ Sequences!RemoveFirst(Walk(heap, q), k) = RemoveAt(Walk(heap, q), n)
              /\ Rest(q, k, RemoveAt(Walk(heap, q), n))
         /\ \A r \in AllQueues \ {q} :
              Lists(Unlinked(heap, k), r, Walk(heap, r)) /\ Rest(r, k, Walk(heap, r))
<1>. DEFINE s == Walk(heap, q)
<1>1. HeapOK(heap) /\ q \in AllQueues
  BY DEF Listed, AllQueues
<1>2. Runs(heap, q, s)
  BY <1>1, ListedRuns
<1>3. k \in Sequences!On(q)
  BY OnIs
<1>4. ASSUME NEW r \in AllQueues \ {q}
      PROVE  Lists(Unlinked(heap, k), r, Walk(heap, r)) /\ Rest(r, k, Walk(heap, r))
  <2>. DEFINE t == Walk(heap, r)
  <2>1. Runs(heap, r, t)
    BY ListedRuns
  <2>. HIDE DEF s, t
  <2>2. Lists(Unlinked(heap, k), r, t)
    BY <1>1, <1>2, <2>1, UnlinkElsewhere
  <2>3. t \in Seq(Links) /\ \A i \in 1 .. Len(t) : t[i] \in Links
    BY <2>1 DEF Runs, Lists
  <2>4. Rest(r, k, t)
    BY <2>1, <2>3 DEF Runs, Rest
  <2>. QED BY <2>2, <2>4 DEF t
<1>. HIDE DEF s
<1>5. /\ s \in Seq(Links) /\ \A i, j \in 1 .. Len(s) : s[i] = s[j] => i = j
      /\ \E n \in 1 .. Len(s) : s[n] = k
  BY <1>2 DEF Runs, Lists
<1>6. PICK n \in 1 .. Len(s) : s[n] = k
  BY <1>5
<1>7. Lists(Unlinked(heap, k), q, RemoveAt(s, n))
  BY <1>1, <1>2, <1>6, UnlinkFrom
<1>8. Sequences!RemoveFirst(s, k) = RemoveAt(s, n)
  BY <1>5, <1>6, PlaceOf
<1>9. Rest(q, k, RemoveAt(s, n))
  <2>. DEFINE t == RemoveAt(s, n)
  <2>1. /\ Len(s) \in Nat /\ n \in Nat /\ Len(t) = Len(s) - 1
        /\ \A i \in 1 .. Len(s) - 1 : t[i] = IF i < n THEN s[i] ELSE s[i + 1]
        /\ \A i \in 1 .. Len(s) : s[i] \in Links /\ heap.queue[s[i]] = q
    <3>1. Len(t) = Len(s) - 1 /\ \A i \in 1 .. Len(s) - 1 : t[i] = IF i < n THEN s[i] ELSE s[i + 1]
      BY <1>5, RemoveIsAt
    <3>2. \A i \in 1 .. Len(s) : s[i] \in Links
      BY <1>5
    <3>3. \A i \in 1 .. Len(s) : heap.queue[s[i]] = q
      BY <1>2, <3>2 DEF Runs
    <3>. QED BY <1>5, <3>1, <3>2, <3>3
  <2>. HIDE DEF t
  <2>2. ASSUME NEW i \in 1 .. Len(t)
        PROVE  /\ i \in 1 .. Len(s) /\ i + 1 \in 1 .. Len(s)
               /\ t[i] = IF i < n THEN s[i] ELSE s[i + 1]
    BY <2>1
  <2>3. ASSUME NEW i \in 1 .. Len(t)
        PROVE  t[i] \in Links \ {k} /\ heap.queue[t[i]] = q
    <3>1. PICK m \in 1 .. Len(s) : m # n /\ t[i] = s[m]
      <4>1. CASE i < n
        BY <2>1, <2>2, <4>1
      <4>2. CASE ~(i < n)
        <5>1. i + 1 # n
          BY <2>1, <4>2
        <5>. QED BY <2>2, <4>2, <5>1
      <4>. QED BY <4>1, <4>2
    <3>. QED BY <1>5, <1>6, <2>1, <3>1
  <2>4. ASSUME NEW i \in 1 .. Len(t), NEW j \in 1 .. Len(t), t[i] = t[j] PROVE i = j
    <3>1. /\ (IF i < n THEN i ELSE i + 1) \in 1 .. Len(s)
          /\ (IF j < n THEN j ELSE j + 1) \in 1 .. Len(s)
      BY <2>2
    <3>2. s[IF i < n THEN i ELSE i + 1] = s[IF j < n THEN j ELSE j + 1]
      BY <2>2, <2>4
    <3>3. (IF i < n THEN i ELSE i + 1) = (IF j < n THEN j ELSE j + 1)
      BY <1>5, <3>1, <3>2
    <3>. QED BY <2>1, <3>3
  <2>5. ASSUME NEW j \in Links \ {k}, heap.queue[j] = q
        PROVE  \E i \in 1 .. Len(t) : t[i] = j
    <3>1. PICK i \in 1 .. Len(s) : s[i] = j
      BY <1>2, <2>5 DEF Runs
    <3>2. CASE i < n
      <4>1. i \in 1 .. Len(t)
        BY <2>1, <3>2
      <4>. QED BY <2>2, <3>1, <3>2, <4>1
    <3>3. CASE i > n
      <4>1. i - 1 \in 1 .. Len(t) /\ ~(i - 1 < n) /\ (i - 1) + 1 = i
        BY <2>1, <3>3
      <4>. QED BY <2>2, <3>1, <4>1
    <3>. QED BY <1>6, <2>1, <2>5, <3>1, <3>2, <3>3
  <2>6. Rest(q, k, t)
    BY <2>3, <2>4, <2>5 DEF Rest
  <2>. QED BY <2>6 DEF t
<1>. QED BY <1>1, <1>3, <1>4, <1>6, <1>7, <1>8, <1>9 DEF s

LEMMA RemoveOnSequences ==
  ASSUME IInv, IInv', NEW o \in Objects, AQueueRemove(o)
  PROVE  Sequences!RemoveLink(o)
<1>. DEFINE k == l[o]
<1>1. /\ Listed(heap) /\ Listed(heap')
      /\ OnWalk(heap, freeLinks) = {j \in Links : heap.queue[j] = freeLinks}
      /\ OnWalk(heap', freeLinks) = {j \in Links : heap'.queue[j] = freeLinks}
      /\ l \in [Objects -> Pointers] /\ freeLinks \notin Queues
  BY ListedBoth
<1>2. k \in Links /\ heap.queue[k] \in Queues \cup {NULL} /\ HeapOK(heap)
  <2>1. k # NULL /\ k \in Links
    BY <1>1 DEF AQueueRemove, Pointers
  <2>2. heap.queue[k] # freeLinks
    BY <2>1 DEF IInv, Held
  <2>3. HeapOK(heap)
    BY <1>1 DEF Listed
  <2>. QED BY <2>1, <2>2, <2>3, HeapFields DEF AllQueues
<1>. HIDE DEF k
<1>3. CASE heap.queue[k] = NULL
  <2>1. \A q \in Queues : Sequences!On(q) = {j \in Links : heap.queue[j] = q}
    BY <1>1, OnIs
  <2>2. ~Sequences!Queued(k)
    BY <1>3, <2>1, LinkAssumption DEF Sequences!Queued
  <2>3. Sequences!Fail
    BY <1>3, FailOnSequences DEF AQueueRemove, k
  <2>. QED BY <2>2, <2>3 DEF Sequences!RemoveLink, k
<1>4. CASE heap.queue[k] \in Queues
  <2>. DEFINE u == Unlinked(heap, k)
              q == heap.queue[k]
              s == Walk(heap, q)
  <2>1. /\ heap' = Freed(u, k) /\ l' = [l EXCEPT ![o] = NULL] /\ ret' = QUEUE_SUCCESS
    BY <1>4, LinkAssumption DEF AQueueRemove, k
  <2>2. q \in AllQueues /\ freeLinks \in AllQueues
    BY <1>4 DEF AllQueues
  <2>3. /\ Joined(u, heap', freeLinks, u.last[freeLinks], Follower(u, u.last[freeLinks]), k)
        /\ heap'.object = heap.object
    BY <1>2, <2>1, <2>2, RemovedJoinsFree DEF IInv
  <2>4. PICK n \in 1 .. Len(s) :
          /\ Lists(u, q, RemoveAt(s, n)) /\ Rest(q, k, RemoveAt(s, n))
          /\ Sequences!RemoveFirst(s, k) = RemoveAt(s, n)
    BY <1>1, <1>2, <1>4, PlaceOnList
  <2>5. /\ k \in Sequences!On(q)
        /\ \A r \in AllQueues \ {q} : Lists(u, r, Walk(heap, r)) /\ Rest(r, k, Walk(heap, r))
    BY <1>1, <1>2, <1>4, PlaceOnList
  <2>6. u.last[freeLinks] # NULL =>
          u.last[freeLinks] \in Links /\ heap.queue[u.last[freeLinks]] = freeLinks
    <3>1. \E pos \in Numberings : Numbered(heap, pos, Links)
      BY <1>1 DEF Listed
    <3>2. HeapOK(u) /\ u.queue = heap.queue
      BY <1>2, <2>2, <3>1, UnlinkedOK, UnlinkedFields
    <3>3. \E p \in Numberings : Numbered(u, p, Links \ {k})
      BY <1>2, <2>2, <3>1, UnlinkRenumbers
    <3>. HIDE DEF u
    <3>4. /\ Place(u, freeLinks, u.last[freeLinks])
          /\ u.last[freeLinks] \in (Links \ {k}) \cup {NULL}
      BY <2>2, <3>2, <3>3, EndIsPlace
    <3>. QED BY <3>2, <3>4 DEF Place
  <2>7. q \in Queues /\ q # freeLinks /\ NULL \notin Links /\ Queues \subseteq AllQueues
    BY <1>1, <1>4, NullIsNoLink DEF AllQueues
  <2>. HIDE DEF u, q, s
  <2>8. ASSUME NEW r \in Queues, NEW t, Lists(u, r, t), Rest(r, k, t)
        PROVE  Lists(heap', r, t)
    <3>1. r \in AllQueues \ {freeLinks}
      BY <1>1, <2>7
    <3>2. \A i \in 1 .. Len(t) : t[i] # u.last[freeLinks] /\ t[i] # k
      BY <2>6, <2>7, <2>8, <3>1 DEF Rest
    <3>. QED BY <1>2, <2>2, <2>3, <2>8, <3>1, <3>2, JoinElsewhere
  <2>9. [r \in Queues |-> Walk(heap', r)] =
          [[r \in Queues |-> Walk(heap, r)] EXCEPT ![q] = RemoveAt(s, n)]
    <3>1. Lists(heap', q, RemoveAt(s, n))
      BY <2>4, <2>7, <2>8
    <3>2. \A r \in Queues \ {q} : Lists(heap', r, Walk(heap, r))
      BY <2>5, <2>7, <2>8
    <3>. QED BY <2>7, <3>1, <3>2, BecomesWhen
  <2>10. OnWalk(heap', freeLinks) = OnWalk(heap, freeLinks) \cup {k}
    <3>1. u.queue = heap.queue
      BY <1>2, <2>2, UnlinkedFields DEF u, q
    <3>2. \A j \in Links : heap'.queue[j] = IF j = k THEN freeLinks ELSE u.queue[j]
      BY <2>3 DEF Joined
    <3>. QED BY <1>1, <1>2, <3>1, <3>2
  <2>11. Sequences!Become(q, Sequences!RemoveFirst(s, k))
    BY <2>1, <2>4, <2>9 DEF Sequences!Become, Sequences!QUEUE_SUCCESS, QUEUE_SUCCESS
  <2>. QED BY <2>1, <2>3, <2>5, <2>7, <2>10, <2>11 DEF Sequences!RemoveLink, k, s
<1>. QED BY <1>2, <1>3, <1>4

LEMMA MoveOnSequences ==
  ASSUME IInv, IInv', NEW q \in Queues, NEW k \in Links, NEW after \in Pointers,
         AQueueMoveAfter(q, after, k)
  PROVE  Sequences!MoveAfter(q, after, k)
<1>. DEFINE s == Walk(heap, q)
<1>1. /\ Listed(heap) /\ Listed(heap')
      /\ OnWalk(heap, freeLinks) = {j \in Links : heap.queue[j] = freeLinks}
      /\ OnWalk(heap', freeLinks) = {j \in Links : heap'.queue[j] = freeLinks}
      /\ Sequences!On(q) = {j \in Links : heap.queue[j] = q}
      /\ q \in AllQueues /\ NULL \notin Links
  BY ListedBoth, OnIs, NullIsNoLink DEF AllQueues
<1>2. Runs(heap, q, s)
  BY <1>1, ListedRuns
<1>. HIDE DEF s
<1>3. /\ s \in Seq(Links) /\ Len(s) \in Nat /\ Len(s) = heap.nitems[q]
      /\ heap.first[q] = IF Len(s) = 0 THEN NULL ELSE s[1]
      /\ heap.last[q] = IF Len(s) = 0 THEN NULL ELSE s[Len(s)]
      /\ k \in Sequences!On(q) => Len(s) # 0
  BY <1>1, <1>2 DEF Runs, Lists
<1>4. Sequences!Last(s) = s[Len(s)]
  BY DEF Sequences!Last
<1>5. CASE /\ heap.queue[k] = q /\ heap' = heap /\ ret' = QUEUE_SUCCESS /\ UNCHANGED l
           /\ after = k \/ (after = NULL /\ heap.nitems[q] = 1)
  BY <1>1, <1>3, <1>5
     DEF Sequences!MoveAfter, Sequences!QUEUE_SUCCESS, QUEUE_SUCCESS, s
<1>6. CASE /\ Fail
           /\ \/ heap.queue[k] # q
              \/ after = NULL /\ (heap.nitems[q] # 1 \/ heap.first[q] # heap.last[q])
              \/ after # NULL /\ heap.queue[after] # q
              \/ after \notin {NULL, k} /\ heap.last[q] = k
  <2>1. Sequences!Fail
    BY <1>6, FailOnSequences
  <2>2. \/ k \notin Sequences!On(q)
        \/ after = NULL /\ Len(s) # 1
        \/ after # NULL /\ after \notin Sequences!On(q)
        \/ after \in Sequences!On(q) /\ after # k /\ Sequences!Last(s) = k
    BY <1>1, <1>3, <1>4, <1>6 DEF Pointers
  <2>. QED BY <2>1, <2>2 DEF Sequences!MoveAfter, s
<1>7. CASE /\ after \notin {NULL, k} /\ heap.queue[k] = q /\ heap.queue[after] = q
           /\ heap.last[q] # k
           /\ heap' = MovedAfter(heap, q, after, k) /\ ret' = QUEUE_SUCCESS /\ UNCHANGED l
  <2>. DEFINE u == Unlinked(heap, k)
  <2>1. /\ HeapOK(heap) /\ \E pos \in Numberings : Numbered(heap, pos, Links)
        /\ after \in Links \ {k}
    BY <1>1, <1>7 DEF Listed, Pointers
  <2>2. /\ Joined(u, heap', q, after, u.next[after], k)
        /\ heap'.object = heap.object /\ heap'.queue = heap.queue
    BY <1>1, <1>7, <2>1, MovedAfterJoins
  <2>3. PICK n \in 1 .. Len(s) :
          /\ Lists(u, q, RemoveAt(s, n)) /\ Rest(q, k, RemoveAt(s, n))
          /\ Sequences!RemoveFirst(s, k) = RemoveAt(s, n)
    BY <1>1, <1>7, PlaceOnList DEF s
  <2>4. \A r \in AllQueues \ {q} : Lists(u, r, Walk(heap, r)) /\ Rest(r, k, Walk(heap, r))
    BY <1>1, <1>7, PlaceOnList
  <2>. DEFINE t == RemoveAt(s, n)
  <2>. HIDE DEF u, t
  <2>5. /\ Lists(u, q, t) /\ t \in Seq(Links) /\ Len(t) \in Nat
        /\ \A i, j \in 1 .. Len(t) : t[i] = t[j] => i = j
        /\ \A i \in 1 .. Len(t) : t[i] # k
        /\ \E m \in 1 .. Len(t) : t[m] = after
    <3>1. Lists(u, q, t) /\ Rest(q, k, t)
      BY <2>3 DEF t
    <3>2. \E m \in 1 .. Len(t) : t[m] = after
      BY <1>7, <2>1, <3>1 DEF Rest
    <3>3. /\ \A i, j \in 1 .. Len(t) : t[i] = t[j] => i = j
          /\ \A i \in 1 .. Len(t) : t[i] # k
      BY <3>1 DEF Rest
    <3>4. t \in Seq(Links)
      BY <3>1 DEF Lists
    <3>. QED BY <3>1, <3>2, <3>3, <3>4, LenProperties
  <2>6. PICK m \in 1 .. Len(t) : t[m] = after
    BY <2>5
  <2>7. m \in 0 .. Len(t) /\ m # 0
    BY <2>5
  <2>8. Lists(heap', q, InsertAt(t, m + 1, k))
    BY <1>1, <2>2, <2>5, <2>6, <2>7, JoinInto
  <2>9. ASSUME NEW r \in Queues \ {q} PROVE Lists(heap', r, Walk(heap, r))
    <3>. DEFINE w == Walk(heap, r)
    <3>. HIDE DEF w
    <3>1. r \in AllQueues \ {q} /\ Lists(u, r, w) /\ Rest(r, k, w)
      BY <2>4 DEF AllQueues, w
    <3>2. \A i \in 1 .. Len(w) : w[i] # after /\ w[i] # k
      BY <1>7, <3>1 DEF Rest
    <3>3. Lists(heap', r, w)
      BY <1>1, <2>2, <3>1, <3>2, JoinElsewhere
    <3>. QED BY <3>3 DEF w
  <2>10. [r \in Queues |-> Walk(heap', r)] =
           [[r \in Queues |-> Walk(heap, r)] EXCEPT ![q] = InsertAt(t, m + 1, k)]
    BY <2>8, <2>9, BecomesWhen
  <2>11. Sequences!After(t, after, k) = InsertAt(t, m + 1, k)
    BY <2>5, <2>6, PlaceOf
  <2>12. Sequences!Become(q, Sequences!After(Sequences!RemoveFirst(s, k), after, k))
    BY <1>7, <2>3, <2>10, <2>11
       DEF Sequences!Become, Sequences!QUEUE_SUCCESS, QUEUE_SUCCESS, t
  <2>13. OnWalk(heap', freeLinks) = OnWalk(heap, freeLinks)
    BY <1>1, <2>2
  <2>14. /\ after \in Sequences!On(q) /\ k \in Sequences!On(q) /\ after # k
         /\ Sequences!Last(s) # k
    BY <1>1, <1>3, <1>4, <1>7, <2>1
  <2>. QED BY <1>7, <2>2, <2>12, <2>13, <2>14 DEF Sequences!MoveAfter, s
<1>. QED BY <1>5, <1>6, <1>7 DEF AQueueMoveAfter

LEMMA InitOnSequences == Init => Sequences!SeqInit
<1>. SUFFICES ASSUME Init PROVE Sequences!SeqInit
  OBVIOUS
<1>1. Listed(heap)
  BY InitShape DEF Shape, Listed, LinksTyped, HeapOK
<1>2. OnWalk(heap, freeLinks) = Links
  <2>1. \A j \in Links : heap.queue[j] = freeLinks
    BY DEF Init
  <2>. QED BY <1>1, <2>1, ListedRuns
<1>3. ASSUME NEW q \in Queues PROVE Walk(heap, q) = <<>>
  <2>1. q \in AllQueues /\ q # freeLinks
    BY LinkAssumption DEF AllQueues
  <2>2. heap.first[q] = NULL /\ heap.nitems[q] = 0
    BY <2>1 DEF Init
  <2>3. Lists(heap, q, <<>>)
    BY <2>2 DEF Lists
  <2>. QED BY <2>3, WalkIsList, NullIsNoLink
<1>4. [q \in Queues |-> Walk(heap, q)] = [q \in Queues |-> <<>>]
  BY <1>3
<1>. QED BY <1>2, <1>4 DEF Init, Sequences!SeqInit, Sequences!QUEUE_SUCCESS, QUEUE_SUCCESS

LEMMA NextOnSequences ==
  IInv /\ IInv' /\ [Next]_vars => [Sequences!SeqNext]_Sequences!seqVars
<1>. SUFFICES ASSUME IInv, IInv', [Next]_vars
              PROVE  Sequences!SeqNext \/ UNCHANGED Sequences!seqVars
  OBVIOUS
<1>1. ASSUME NEW o \in Objects,
             \/ AQueueAllocLink(o) /\ call' = <<"AQueueAllocLink", o>>
             \/ AQueueRemove(o) /\ call' = <<"AQueueRemove", o>>
      PROVE  Sequences!SeqNext
  BY <1>1, AllocOnSequences, RemoveOnSequences DEF Sequences!SeqNext
<1>2. ASSUME NEW q \in Queues, NEW o \in Objects,
             \/ AQueueInsertFirst(q, o) /\ call' = <<"AQueueInsertFirst", q, o>>
             \/ AQueueInsertLast(q, o) /\ call' = <<"AQueueInsertLast", q, o>>
      PROVE  Sequences!SeqNext
  BY <1>2, InsertFirstOnSequences, InsertLastOnSequences DEF Sequences!SeqNext
<1>3. ASSUME NEW q \in Queues, NEW o \in Objects, NEW after \in InUse \cup {NULL},
             after # l[o], AQueueInsertAfter(q, after, o),
             call' = <<"AQueueInsertAfter", q, after, o>>
      PROVE  Sequences!SeqNext
  <2>1. after \in Pointers
    BY DEF InUse, Pointers
  <2>2. Sequences!InsertAfter(q, after, o)
    BY <1>3, <2>1, InsertAfterOnSequences
  <2>. QED BY <1>3, <2>1, <2>2 DEF Sequences!SeqNext, Pointers
<1>4. ASSUME NEW q \in Queues, NEW k \in InUse, NEW after \in InUse \cup {NULL},
             AQueueMoveAfter(q, after, k), call' = <<"AQueueMoveAfter", q, after, k>>
      PROVE  Sequences!SeqNext
  <2>1. k \in Links /\ after \in Pointers
    BY DEF InUse, Pointers
  <2>2. Sequences!MoveAfter(q, after, k)
    BY <1>4, <2>1, MoveOnSequences
  <2>. QED BY <1>4, <2>1, <2>2 DEF Sequences!SeqNext, Pointers
<1>5. CASE UNCHANGED vars
  BY <1>5 DEF vars, Sequences!seqVars
<1>. QED BY <1>1, <1>2, <1>3, <1>4, <1>5 DEF Next

-----------------------------------------------------------------------------
(* The theorems *)

\* IInv is inductive: after every call of os/queue.c the links can be numbered.
THEOREM CallsKeepIInv == Spec => []IInv
<1>1. Init => IInv
  BY InitShape, InitHeld DEF IInv
<1>2. IInv /\ [Next]_vars => IInv'
  BY NextShape, NextHeld DEF IInv
<1>. QED BY <1>1, <1>2, PTL DEF Spec

\* Pointers and counts have their types; no count falls below 0.
THEOREM TypeCorrect == Spec => []TypeOK
<1>1. Init => TypeOK
  <2>1. Init => call \in Calls
    BY DEF Init, Calls
  <2>. QED BY <2>1, InitShape DEF Shape, TypeOK
<1>2. TypeOK /\ IInv' /\ [Next]_vars => TypeOK'
  <2>1. call \in Calls /\ [Next]_vars => call' \in Calls
    BY DEF Next, Calls, InUse, Pointers, vars
  <2>. QED BY <2>1 DEF IInv, Shape, TypeOK
<1>. QED BY <1>1, <1>2, CallsKeepIInv, PTL DEF Spec

\* PointersMirror for every pool: whatever is inserted, moved and removed
\* wherever, both directions of every list agree.
THEOREM ListsMirror == Spec => []PointersMirror
<1>1. ASSUME IInv PROVE PointersMirror
  <2>1. PICK pos \in Numberings : Numbered(heap, pos, Links)
    BY <1>1 DEF IInv, Shape
  <2>2. /\ PlacesTaken(heap, pos, Links) /\ Chained(heap, pos, Links)
        /\ EndsFound(heap, pos, Links)
        /\ NULL \notin Links /\ NULL \notin AllQueues
        /\ \A j \in Links : pos[j] \in Int /\ heap.queue[j] \in AllQueues \cup {NULL}
        /\ \A q \in AllQueues : heap.nitems[q] \in Nat
    BY <1>1, <2>1, NullIsNoLink DEF Numbered, Numberings, IInv, Shape, LinksTyped
  <2>3. \A j, k \in Links : heap.next[j] = k <=> heap.prev[k] = j
    BY <2>2 DEF Chained
  <2>4. \A j \in Links : heap.next[j] # NULL => heap.queue[j] = heap.queue[heap.next[j]]
    BY <2>2 DEF Chained, Behind
  <2>5. ASSUME NEW j \in Links, NEW q \in AllQueues
        PROVE  heap.first[q] = j <=> heap.queue[j] = q /\ heap.prev[j] = NULL
    <3>1. heap.queue[j] = q /\ heap.prev[j] = NULL => pos[j] = 1
      <4>. SUFFICES ASSUME heap.queue[j] = q, heap.prev[j] = NULL, pos[j] # 1 PROVE FALSE
        OBVIOUS
      <4>1. PICK k \in Links : heap.queue[k] = q /\ pos[k] = pos[j] - 1
        BY <2>2 DEF PlacesTaken
      <4>2. heap.prev[j] = k
        BY <2>2, <4>1 DEF Chained, Behind
      <4>. QED BY <2>2, <4>1, <4>2
    <3>2. heap.queue[j] = q /\ pos[j] = 1 => heap.prev[j] = NULL
      BY <2>2 DEF Chained, Behind, PlacesTaken
    <3>. QED BY <2>2, <3>1, <3>2 DEF EndsFound
  <2>6. ASSUME NEW j \in Links, NEW q \in AllQueues
        PROVE  heap.last[q] = j <=> heap.queue[j] = q /\ heap.next[j] = NULL
    <3>1. heap.queue[j] = q /\ heap.next[j] = NULL => pos[j] = heap.nitems[q]
      <4>. SUFFICES ASSUME heap.queue[j] = q, heap.next[j] = NULL, pos[j] # heap.nitems[q]
                    PROVE  FALSE
        OBVIOUS
      <4>1. PICK k \in Links : heap.queue[k] = q /\ pos[k] = pos[j] + 1
        BY <2>2 DEF PlacesTaken
      <4>2. heap.next[j] = k
        BY <2>2, <4>1 DEF Chained, Behind
      <4>. QED BY <2>2, <4>1, <4>2
    <3>2. heap.queue[j] = q /\ pos[j] = heap.nitems[q] => heap.next[j] = NULL
      BY <2>2 DEF Chained, Behind, PlacesTaken
    <3>. QED BY <2>2, <3>1, <3>2 DEF EndsFound
  <2>7. \A j \in Links : heap.queue[j] = NULL => heap.next[j] = NULL /\ heap.prev[j] = NULL
    BY <2>2 DEF Chained, Behind
  <2>. QED BY <2>3, <2>4, <2>5, <2>6, <2>7 DEF PointersMirror, Mirrored
<1>. QED BY <1>1, CallsKeepIInv, PTL

\* ImplementsSequences for every pool: followed from first along next, each
\* queue is a sequence; AQueueInsertFirst(q, o) puts the link of o in front of
\* q, AQueueInsertLast behind, AQueueInsertAfter and AQueueMoveAfter right after
\* the link they name, AQueueRemove takes it out, no other queue changes, and a
\* call is refused exactly when its arguments do not fit.
THEOREM QueuesAreSequences == Spec => ImplementsSequences
<1>1. Init => Sequences!SeqInit
  BY InitOnSequences
<1>2. IInv /\ IInv' /\ [Next]_vars => [Sequences!SeqNext]_Sequences!seqVars
  BY NextOnSequences
<1>. QED BY <1>1, <1>2, CallsKeepIInv, PTL
     DEF Spec, ImplementsSequences, Sequences!SeqSpec
=============================================================================
