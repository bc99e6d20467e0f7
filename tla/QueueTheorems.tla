--------------------------- MODULE QueueTheorems ---------------------------
(***************************************************************************)
(* Facts about sequences without duplicates, the way the slot queues of    *)
(* os/dfs.c and the run queues of os/process.c are modelled: linking at    *)
(* the end, unlinking the first and unlinking any element.  And the least  *)
(* number of a set, by which the code's loops find what is free: a slot, a *)
(* page, an inode or a descriptor.                                         *)
(***************************************************************************)
EXTENDS Integers, SequencesExt, SequenceTheorems, FiniteSetTheorems, TLAPS

-----------------------------------------------------------------------------
(* Queues without duplicates *)

\* Linking a new element at the end.
LEMMA AppendToQueue ==
  ASSUME NEW S, NEW q \in Seq(S), NEW e \in S
  PROVE  /\ Append(q, e) \in Seq(S)
         /\ Range(Append(q, e)) = Range(q) \cup {e}
         /\ IsInjective(q) /\ e \notin Range(q) => IsInjective(Append(q, e))
<1>. DEFINE r == Append(q, e)
<1>1. /\ r \in Seq(S)
      /\ Len(r) = Len(q) + 1
      /\ \A i \in 1 .. Len(q) : r[i] = q[i]
      /\ r[Len(q) + 1] = e
  BY AppendProperties
<1>2. Len(q) \in Nat
  BY LenProperties
<1>3. DOMAIN q = 1 .. Len(q) /\ DOMAIN r = 1 .. Len(q) + 1
  BY <1>1, LenProperties
<1>4. Range(q) = {q[i] : i \in 1 .. Len(q)}
  BY RangeEquality
<1>5. Range(r) = {r[i] : i \in 1 .. Len(q) + 1}
  BY <1>1, RangeEquality
<1>. HIDE DEF r
<1>6. Range(r) = Range(q) \cup {e}
  <2>1. ASSUME NEW x \in Range(r) PROVE x \in Range(q) \cup {e}
    BY <1>1, <1>2, <1>4, <1>5
  <2>2. ASSUME NEW x \in Range(q) PROVE x \in Range(r)
    BY <1>1, <1>2, <1>4, <1>5
  <2>3. e \in Range(r)
    BY <1>1, <1>2, <1>5
  <2>. QED BY <2>1, <2>2, <2>3
<1>7. ASSUME IsInjective(q), e \notin Range(q) PROVE IsInjective(r)
  BY <1>1, <1>2, <1>3, <1>4, <1>7 DEF IsInjective
<1>. QED BY <1>1, <1>6, <1>7 DEF r

\* The elements in front of the i-th, and those behind it.
LEMMA CutQueue ==
  ASSUME NEW S, NEW q \in Seq(S), NEW i \in 1 .. Len(q) + 1
  PROVE  /\ SubSeq(q, 1, i - 1) \in Seq(S) /\ Len(SubSeq(q, 1, i - 1)) = i - 1
         /\ \A k \in 1 .. i - 1 : SubSeq(q, 1, i - 1)[k] = q[k]
         /\ SubSeq(q, i, Len(q)) \in Seq(S) /\ Len(SubSeq(q, i, Len(q))) = (Len(q) - i) + 1
         /\ \A k \in 1 .. (Len(q) - i) + 1 : SubSeq(q, i, Len(q))[k] = q[(i + k) - 1]
<1>. DEFINE n == Len(q)
            a == SubSeq(q, 1, i - 1)
            c == SubSeq(q, i, n)
<1>1. n \in Nat /\ i \in Nat /\ 1 <= i /\ i <= n + 1 /\ q \in [1 .. n -> S]
  BY LenProperties
<1>2. /\ \A k \in 1 .. i - 1 : q[k] \in S
      /\ \A k \in i .. n : q[k] \in S
  BY <1>1
<1>3. /\ a \in Seq(S)
      /\ Len(a) = IF 1 <= i - 1 THEN i - 1 - 1 + 1 ELSE 0
      /\ \A k \in 1 .. i - 1 - 1 + 1 : a[k] = q[1 + k - 1]
  BY <1>1, <1>2, SubSeqProperties
<1>4. /\ c \in Seq(S)
      /\ Len(c) = IF i <= n THEN n - i + 1 ELSE 0
      /\ \A k \in 1 .. n - i + 1 : c[k] = q[i + k - 1]
  BY <1>1, <1>2, SubSeqProperties
<1>. HIDE DEF a, c, n
<1>5. Len(a) = i - 1 /\ \A k \in 1 .. i - 1 : a[k] = q[k]
  BY <1>1, <1>3
<1>6. Len(c) = (n - i) + 1 /\ \A k \in 1 .. (n - i) + 1 : c[k] = q[(i + k) - 1]
  BY <1>1, <1>4
<1>. QED BY <1>3, <1>4, <1>5, <1>6 DEF a, c, n

\* Linking an element in the i-th place.
LEMMA InsertIsAt ==
  ASSUME NEW S, NEW q \in Seq(S), NEW i \in 1 .. Len(q) + 1, NEW e \in S
  PROVE  /\ InsertAt(q, i, e) \in Seq(S) /\ Len(InsertAt(q, i, e)) = Len(q) + 1
         /\ \A k \in 1 .. Len(q) + 1 :
              InsertAt(q, i, e)[k] = IF k < i THEN q[k] ELSE IF k = i THEN e ELSE q[k - 1]
<1>. DEFINE n == Len(q)
            a == SubSeq(q, 1, i - 1)
            c == SubSeq(q, i, n)
            z == <<e>>
            ae == a \o z
            r == InsertAt(q, i, e)
<1>1. n \in Nat /\ i \in Nat /\ 1 <= i /\ i <= n + 1
  BY LenProperties
<1>2. /\ a \in Seq(S) /\ Len(a) = i - 1 /\ \A k \in 1 .. i - 1 : a[k] = q[k]
      /\ c \in Seq(S) /\ Len(c) = (n - i) + 1
      /\ \A k \in 1 .. (n - i) + 1 : c[k] = q[(i + k) - 1]
  BY CutQueue
<1>3. r = ae \o c
  BY DEF InsertAt
<1>4. z \in Seq(S) /\ Len(z) = 1 /\ z[1] = e
  OBVIOUS
<1>. HIDE DEF a, c, n, z
<1>5. /\ ae \in Seq(S) /\ Len(ae) = Len(a) + 1
      /\ \A k \in 1 .. Len(a) + 1 : ae[k] = IF k <= Len(a) THEN a[k] ELSE z[k - Len(a)]
  <2>1. ae \in Seq(S) /\ Len(ae) = Len(a) + Len(z)
    BY <1>2, <1>4, ConcatProperties
  <2>2. \A k \in 1 .. Len(a) + Len(z) : ae[k] = IF k <= Len(a) THEN a[k] ELSE z[k - Len(a)]
    BY <1>2, <1>4, ConcatProperties
  <2>. QED BY <1>4, <2>1, <2>2
<1>. HIDE DEF ae, r
<1>6. Len(ae) = i /\ \A k \in 1 .. i : ae[k] = IF k < i THEN q[k] ELSE e
  <2>1. Len(a) + 1 = i
    BY <1>1, <1>2
  <2>2. ASSUME NEW k \in 1 .. i PROVE ae[k] = IF k < i THEN q[k] ELSE e
    <3>1. k <= Len(a) <=> k < i
      BY <1>1, <1>2
    <3>2. k < i => k \in 1 .. i - 1
      BY <1>1
    <3>3. ~(k < i) => k - Len(a) = 1
      BY <1>1, <1>2
    <3>. QED BY <1>2, <1>4, <1>5, <2>1, <3>1, <3>2, <3>3
  <2>. QED BY <1>5, <2>1, <2>2
<1>7. /\ ae \o c \in Seq(S) /\ Len(ae \o c) = Len(ae) + Len(c)
      /\ \A k \in 1 .. Len(ae) + Len(c) :
           (ae \o c)[k] = IF k <= Len(ae) THEN ae[k] ELSE c[k - Len(ae)]
  BY <1>2, <1>5, ConcatProperties
<1>8. ASSUME NEW k \in 1 .. n + 1
      PROVE  r[k] = IF k < i THEN q[k] ELSE IF k = i THEN e ELSE q[k - 1]
  <2>1. CASE k <= i
    BY <1>1, <1>2, <1>3, <1>6, <1>7, <2>1
  <2>2. CASE k > i
    <3>1. k - i \in 1 .. (n - i) + 1 /\ (i + (k - i)) - 1 = k - 1
      BY <1>1, <2>2
    <3>2. k \in 1 .. Len(ae) + Len(c) /\ ~(k <= Len(ae))
      BY <1>1, <1>2, <1>6, <2>2
    <3>3. r[k] = c[k - i]
      BY <1>3, <1>6, <1>7, <3>2
    <3>. QED BY <1>1, <1>2, <2>2, <3>1, <3>3
  <2>. QED BY <1>1, <2>1, <2>2
<1>9. r \in Seq(S) /\ Len(r) = n + 1
  BY <1>1, <1>2, <1>3, <1>6, <1>7
<1>. QED BY <1>8, <1>9 DEF r, n

\* Unlinking the i-th element.
LEMMA RemoveIsAt ==
  ASSUME NEW S, NEW q \in Seq(S), NEW i \in 1 .. Len(q)
  PROVE  /\ RemoveAt(q, i) \in Seq(S) /\ Len(RemoveAt(q, i)) = Len(q) - 1
         /\ \A k \in 1 .. Len(q) - 1 : RemoveAt(q, i)[k] = IF k < i THEN q[k] ELSE q[k + 1]
<1>. DEFINE n == Len(q)
            a == SubSeq(q, 1, i - 1)
            c == SubSeq(q, i + 1, n)
            r == RemoveAt(q, i)
<1>1. n \in Nat /\ i \in Nat /\ 1 <= i /\ i <= n
  BY LenProperties
<1>2. /\ i \in 1 .. n + 1 /\ i + 1 \in 1 .. n + 1
      /\ \A k \in Int : (i + 1 + k) - 1 = i + k
      /\ (n - (i + 1)) + 1 = n - i
  BY <1>1
<1>3. a \in Seq(S) /\ Len(a) = i - 1 /\ \A k \in 1 .. i - 1 : a[k] = q[k]
  BY <1>2, CutQueue
<1>4. /\ c \in Seq(S) /\ Len(c) = (n - (i + 1)) + 1
      /\ \A k \in 1 .. (n - (i + 1)) + 1 : c[k] = q[(i + 1 + k) - 1]
  BY <1>2, CutQueue
<1>. HIDE DEF a, c, n
<1>5. Len(c) = n - i /\ \A k \in 1 .. n - i : c[k] = q[i + k]
  BY <1>1, <1>2, <1>4
<1>6. r = a \o c
  BY DEF RemoveAt, a, c, n
<1>7. /\ a \o c \in Seq(S) /\ Len(a \o c) = Len(a) + Len(c)
      /\ \A k \in 1 .. Len(a) + Len(c) :
           (a \o c)[k] = IF k <= Len(a) THEN a[k] ELSE c[k - Len(a)]
  BY <1>3, <1>4, ConcatProperties
<1>. HIDE DEF r
<1>8. ASSUME NEW k \in 1 .. n - 1
      PROVE  r[k] = IF k < i THEN q[k] ELSE q[k + 1]
  <2>1. CASE k < i
    BY <1>1, <1>3, <1>5, <1>6, <1>7, <2>1
  <2>2. CASE ~(k < i)
    <3>1. k - (i - 1) \in 1 .. n - i /\ i + (k - (i - 1)) = k + 1
      BY <1>1, <2>2
    <3>2. r[k] = c[k - (i - 1)]
      BY <1>1, <1>3, <1>5, <1>6, <1>7, <2>2
    <3>. QED BY <1>5, <2>2, <3>1, <3>2
  <2>. QED BY <2>1, <2>2
<1>9. r \in Seq(S) /\ Len(r) = n - 1
  BY <1>1, <1>3, <1>5, <1>6, <1>7
<1>. QED BY <1>8, <1>9 DEF r, n

LEMMA RemoveFromQueue ==
  ASSUME NEW S, NEW q \in Seq(S), NEW i \in 1 .. Len(q), IsInjective(q)
  PROVE  /\ RemoveAt(q, i) \in Seq(S)
         /\ Range(RemoveAt(q, i)) = Range(q) \ {q[i]}
         /\ IsInjective(RemoveAt(q, i))
<1>. DEFINE n == Len(q)
            r == RemoveAt(q, i)
<1>1. n \in Nat /\ i \in Nat /\ DOMAIN q = 1 .. n /\ q \in [1 .. n -> S]
  BY LenProperties
<1>4. /\ r \in Seq(S) /\ Len(r) = n - 1
      /\ \A k \in 1 .. n - 1 : r[k] = IF k < i THEN q[k] ELSE q[k + 1]
  BY RemoveIsAt
<1>5. DOMAIN r = 1 .. n - 1
  BY <1>4, LenProperties
<1>6. Range(q) = {q[k] : k \in 1 .. n} /\ Range(r) = {r[k] : k \in 1 .. n - 1}
  BY <1>4, RangeEquality
<1>. HIDE DEF r, n
<1>7. IsInjective(r)
  BY <1>1, <1>4, <1>5 DEF IsInjective
<1>8. ASSUME NEW x \in Range(r) PROVE x \in Range(q) \ {q[i]}
  <2>1. PICK k \in 1 .. n - 1 : x = r[k]
    BY <1>6
  <2>. QED BY <1>1, <1>4, <1>6, <2>1 DEF IsInjective
<1>9. ASSUME NEW x \in Range(q) \ {q[i]} PROVE x \in Range(r)
  <2>1. PICK k \in 1 .. n : x = q[k]
    BY <1>6
  <2>2. CASE k < i
    BY <1>1, <1>4, <1>6, <2>1, <2>2 DEF n
  <2>3. CASE k > i
    <3>1. k - 1 \in 1 .. n - 1 /\ r[k - 1] = q[k]
      BY <1>1, <1>4, <2>3 DEF n
    <3>. QED BY <1>6, <2>1, <3>1
  <2>. QED BY <1>1, <2>1, <2>2, <2>3
<1>. QED BY <1>4, <1>7, <1>8, <1>9 DEF r

\* Unlinking the first element.
LEMMA TailOfQueue ==
  ASSUME NEW S, NEW q \in Seq(S), q # <<>>, IsInjective(q)
  PROVE  /\ Head(q) \in S
         /\ Head(q) \in Range(q)
         /\ Tail(q) \in Seq(S)
         /\ Range(Tail(q)) = Range(q) \ {Head(q)}
         /\ IsInjective(Tail(q))
<1>. DEFINE n == Len(q)
            t == Tail(q)
<1>1. n \in Nat \ {0} /\ DOMAIN q = 1 .. n
  BY EmptySeq, LenProperties
<1>2. /\ Head(q) \in S /\ t \in Seq(S) /\ Len(t) = n - 1
      /\ \A k \in 1 .. n - 1 : t[k] = q[k + 1]
  BY HeadTailProperties
<1>3. Head(q) = q[1]
  OBVIOUS
<1>4. DOMAIN t = 1 .. n - 1
  BY <1>2, LenProperties
<1>5. Range(q) = {q[k] : k \in 1 .. n} /\ Range(t) = {t[k] : k \in 1 .. n - 1}
  BY <1>2, RangeEquality
<1>. HIDE DEF t, n
<1>6. IsInjective(t)
  BY <1>1, <1>2, <1>4 DEF IsInjective
<1>7. ASSUME NEW x \in Range(t) PROVE x \in Range(q) \ {q[1]}
  <2>1. PICK k \in 1 .. n - 1 : x = t[k]
    BY <1>5
  <2>2. k + 1 \in 1 .. n /\ 1 \in 1 .. n /\ k + 1 # 1 /\ x = q[k + 1]
    BY <1>1, <1>2, <2>1
  <2>3. q[k + 1] # q[1]
    BY <1>1, <2>2 DEF IsInjective
  <2>. QED BY <1>5, <2>2, <2>3
<1>8. ASSUME NEW x \in Range(q) \ {q[1]} PROVE x \in Range(t)
  <2>1. PICK k \in 1 .. n : x = q[k] /\ k # 1
    BY <1>5
  <2>2. k - 1 \in 1 .. n - 1 /\ t[k - 1] = q[k]
    BY <1>1, <1>2, <2>1
  <2>. QED BY <1>5, <2>1, <2>2
<1>9. q[1] \in Range(q)
  BY <1>1, <1>5
<1>10. Range(t) = Range(q) \ {Head(q)}
  BY <1>3, <1>7, <1>8
<1>. QED BY <1>2, <1>3, <1>6, <1>9, <1>10 DEF t

-----------------------------------------------------------------------------
(* Least numbers *)

\* Every set of numbers that is not empty has a least one: the intervals from
\* 0 to its elements are finite sets, and some of them contains no other.
LEMMA LeastExists ==
  ASSUME NEW S \in SUBSET Nat, S # {}
  PROVE  \E x \in S : \A y \in S : x <= y
<1>. DEFINE R == StrictSubsetOrdering(Nat)
            F == FiniteSubsetsOf(Nat)
            T == {0 .. n : n \in S}
<1>1. IsWellFoundedOn(R, F)
  BY FS_StrictSubsetOrderingWellFounded
<1>2. T \subseteq F /\ T # {}
  <2>1. ASSUME NEW n \in S PROVE 0 .. n \in F
    <3>1. 0 \in Int /\ n \in Int /\ 0 .. n \subseteq Nat
      OBVIOUS
    <3>2. IsFiniteSet(0 .. n)
      BY <3>1, FS_Interval
    <3>. QED BY <3>1, <3>2 DEF FiniteSubsetsOf
  <2>. QED BY <2>1
<1>. HIDE DEF R, F, T
<1>3. PICK t \in T : \A u \in T : ~(<<u, t>> \in R)
  BY <1>1, <1>2, WFMin
<1>4. PICK x \in S : t = 0 .. x
  BY DEF T
<1>5. ASSUME NEW y \in S, y < x PROVE FALSE
  <2>1. 0 .. y \in T
    BY DEF T
  <2>2. 0 .. y \subseteq t /\ 0 .. y # t
    BY <1>4, <1>5
  <2>3. 0 .. y \in SUBSET Nat /\ t \in SUBSET Nat
    BY <1>4
  <2>4. <<0 .. y, t>> \in R
    BY <2>2, <2>3 DEF R, StrictSubsetOrdering
  <2>. QED BY <1>3, <2>1, <2>4
<1>. QED BY <1>4, <1>5

\* What a CHOOSE for the least number is.
LEMMA LeastIsChosen ==
  ASSUME NEW S \in SUBSET Nat, S # {}
  PROVE  /\ (CHOOSE x \in S : \A y \in S : x <= y) \in S
         /\ \A z \in S : (CHOOSE x \in S : \A y \in S : x <= y) <= z
BY LeastExists
=============================================================================
