---------------------------- MODULE FilesProofs -----------------------------
(***************************************************************************)
(* Proofs about Files for every number of names, inodes and descriptors,   *)
(* every block size and every width of the machine word: a descriptor      *)
(* refers to the file it was opened under and nobody else's, its           *)
(* end-of-file flag is never stale, a read ends within the file, and what  *)
(* a reader has open does not change.                                      *)
(***************************************************************************)
EXTENDS Files, QueueTheorems

\* What the properties rest on besides each other: a file that is open has a
\* name, an inode that is not in use stores nothing, and only a read sets the
\* end-of-file flag.
OpenedHasName == \A h \in Fds : Opened(h) => fd[h].filename \in Names
UnusedEmpty == \A i \in Inodes : ~InUse(i) => extent[i] = 0
EofIsReaders == \A h \in Fds : fd[h].inuse /\ fd[h].eof => fd[h].mode = "r"

InodeInv ==
  /\ fname \in [Inodes -> Names \cup {NoName}]
  /\ size \in [Inodes -> Words]
  /\ extent \in [Inodes -> 0 .. MaxVirtual * BlockSize]
  /\ SizeCoversExtent /\ UnusedEmpty

FdInv ==
  /\ fd \in [Fds -> Descriptors]
  /\ DescriptorNamesItsFile /\ OneDescriptorPerFile /\ EofMeansEnd
  /\ OpenedHasName /\ EofIsReaders

RetType ==
  ret \in [call : {"boot", "open", "close", "read", "write", "seek", "delete"},
           h : Fds, asked : Int, val : Int]

IInv == InodeInv /\ FdInv /\ RetType

-----------------------------------------------------------------------------
(* Machine words *)

LEMMA Sizes ==
  /\ WordSize \in Nat /\ WordSize > 0 /\ BlockSize \in Nat /\ BlockSize > 0
  /\ MaxVirtual \in Nat /\ MaxVirtual > 0
  /\ WordSize \div 2 \in Nat /\ WordSize \div 2 > 0
  /\ WordSize = 2 * (WordSize \div 2)
  /\ MaxVirtual * BlockSize \in Nat
  /\ Inodes \subseteq Nat /\ 0 \in Inodes /\ NoInode \notin Inodes
  /\ Fds \subseteq Nat /\ 0 \in Fds
<1>1. /\ WordSize \in Nat /\ WordSize > 0 /\ WordSize % 2 = 0
      /\ BlockSize \in Nat /\ BlockSize > 0 /\ MaxVirtual \in Nat /\ MaxVirtual > 0
  BY FilesAssumption
<1>2. /\ WordSize \div 2 \in Nat /\ WordSize = 2 * (WordSize \div 2)
  BY <1>1
<1>3. WordSize \div 2 > 0
  BY <1>1, <1>2
<1>4. MaxVirtual * BlockSize \in Nat
  BY <1>1
<1>5. /\ Inodes \subseteq Nat /\ 0 \in Inodes /\ NoInode \notin Inodes
      /\ Fds \subseteq Nat /\ 0 \in Fds
  BY FilesAssumption DEF Inodes, Fds, NoInode
<1>. QED BY <1>1, <1>2, <1>3, <1>4, <1>5

LEMMA WordFacts ==
  /\ \A x \in Int : Word(x) \in Words
  /\ \A x \in Words : Word(x) = x /\ Word(x + WordSize) = x /\ Word(x - WordSize) = x
  /\ \A x \in Words : Signed(x) \in Int
  /\ Words = 0 .. WordSize - 1
<1>1. WordSize \in Nat /\ WordSize > 0
  BY Sizes
<1>2. ASSUME NEW x \in Int PROVE x % WordSize \in 0 .. WordSize - 1
  BY <1>1
<1>3. ASSUME NEW x \in 0 .. WordSize - 1
      PROVE  /\ x % WordSize = x /\ (x + WordSize) % WordSize = x
             /\ (x - WordSize) % WordSize = x
  BY <1>1
<1>4. \A x \in Words : Signed(x) \in Int
  BY <1>1 DEF Words, Signed
<1>. QED BY <1>2, <1>3, <1>4 DEF Word, Words

\* The length that FileRead cuts a read to leads to the end of the file, at
\* whatever distance before or behind it the position is.
LEMMA CutLeadsToEnd ==
  ASSUME NEW p \in Words, NEW s \in Words
  PROVE  Word(p + Signed(Word(s - p))) = s
<1>. DEFINE d == s - p
<1>1. /\ WordSize \in Nat /\ WordSize > 0 /\ p \in Nat /\ s \in Nat
      /\ p < WordSize /\ s < WordSize
  BY Sizes DEF Words
<1>2. Word(d) = d \/ Word(d) = d + WordSize
  <2>1. CASE d >= 0
    <3>1. d \in Words
      BY <1>1, <2>1 DEF Words
    <3>. QED BY <3>1, WordFacts
  <2>2. CASE d < 0
    <3>1. d + WordSize \in Words /\ (d + WordSize) - WordSize = d
      BY <1>1, <2>2 DEF Words
    <3>. HIDE DEF d
    <3>. QED BY <3>1, WordFacts
  <2>. QED BY <1>1, <2>1, <2>2
<1>3. Signed(Word(d)) = Word(d) \/ Signed(Word(d)) = Word(d) - WordSize
  BY DEF Signed
<1>4. p + Signed(Word(d)) \in {s, s + WordSize, s - WordSize}
  BY <1>1, <1>2, <1>3
<1>. QED BY <1>4, WordFacts

\* num_bytes is an int, not larger than the traps let through.
LEMMA CountFacts ==
  /\ \A n \in Counts : n \in Int /\ n < WordSize \div 2
  /\ Offsets \subseteq Int
<1>1. WordSize \div 2 \in Nat /\ FILE_MAX_READWRITE_BYTES \in Nat
      /\ FILE_MAX_READWRITE_BYTES < WordSize \div 2
  BY Sizes, FilesAssumption
<1>2. Counts \subseteq -(WordSize \div 2) .. FILE_MAX_READWRITE_BYTES
  BY FilesAssumption
<1>3. ASSUME NEW n \in Counts PROVE n \in Int /\ n < WordSize \div 2
  <2>1. n \in -(WordSize \div 2) .. FILE_MAX_READWRITE_BYTES
    BY <1>2
  <2>. QED BY <1>1, <2>1
<1>. QED BY <1>3, FilesAssumption

\* A transfer that takes a turn and stays in the buffers starts in the file.
LEMMA StartsAfterZero ==
  ASSUME NEW start \in Int, NEW n \in Int, -(WordSize \div 2) <= start,
         Turns(start, n), Defined(start, n)
  PROVE  start >= 0
<1>. SUFFICES ASSUME start < 0 PROVE FALSE
  OBVIOUS
<1>. DEFINE a == -start
            B == BlockSize
            half == WordSize \div 2
            k == a \div B
<1>1. /\ WordSize \in Nat /\ WordSize = 2 * half /\ half \in Nat /\ B \in Nat /\ B > 0
      /\ WordSize > 0
  BY Sizes
<1>2. a \in Nat /\ a >= 1 /\ a <= half
  BY <1>1
<1>3. k \in Nat /\ k <= a /\ Quotient(start, B) = -k
  BY <1>1, <1>2 DEF Quotient
<1>4. (-k) * B <= start
  BY <1>3 DEF Defined
<1>5. k >= 1
  <2>1. CASE k = 0
    <3>1. (-k) * B = 0
      BY <1>1, <2>1
    <3>. QED BY <1>4, <3>1
  <2>. QED BY <1>3, <2>1
<1>. HIDE DEF k, a, half, B
<1>6. WordSize - k \in Words /\ (WordSize - k) - WordSize = -k /\ WordSize - k >= half
  BY <1>1, <1>2, <1>3, <1>5 DEF Words
<1>7. StartBlock(start) = WordSize - k
  <2>1. Word(-k) = WordSize - k
    BY <1>6, WordFacts
  <2>. QED BY <1>3, <2>1 DEF StartBlock, B
<1>8. EndBlock(start, n) < half /\ StartBlock(start) < EndBlock(start, n)
  BY DEF Defined, Turns, half
<1>9. EndBlock(start, n) \in Int
  <2>. DEFINE e == Quotient(start + n, BlockSize)
                   + IF (start + n) % BlockSize # 0 THEN 1 ELSE 0
  <2>1. BlockSize \in Nat /\ BlockSize > 0
    BY Sizes
  <2>2. e \in Int
    BY <2>1 DEF Quotient
  <2>3. Word(e) \in Words
    BY <2>2, WordFacts
  <2>. QED BY <1>1, <2>3 DEF EndBlock, Words
<1>. QED BY <1>1, <1>3, <1>6, <1>7, <1>8, <1>9

\* A non-negative position before the end leaves the loop something to read.
LEMMA SomethingLeft ==
  ASSUME NEW p \in Nat, NEW s \in Nat, p < s, s < WordSize \div 2
  PROVE  Turns(p, s - p)
<1>. DEFINE B == BlockSize
            q == s \div B
            e == q + IF s % B # 0 THEN 1 ELSE 0
<1>1. /\ WordSize \in Nat /\ B \in Nat /\ B > 0 /\ WordSize \div 2 \in Nat
      /\ WordSize = 2 * (WordSize \div 2)
  BY Sizes
<1>. HIDE DEF B
<1>2. p \div B \in Nat /\ p \div B <= p /\ q \in Nat /\ q <= s
  BY <1>1
<1>3. s % B \in Nat /\ s = B * q + (s % B)
  BY <1>1
<1>4. p \div B < e
  <2>1. CASE s % B = 0
    <3>1. s = B * q
      BY <1>1, <1>2, <1>3, <2>1
    <3>2. B * (p \div B) <= p
      BY <1>1
    <3>3. B * (p \div B) < B * q
      BY <1>1, <1>2, <3>1, <3>2
    <3>. DEFINE d == p \div B
    <3>4. d \in Nat /\ B * d < B * q
      BY <1>2, <3>3
    <3>. HIDE DEF d, q
    <3>5. d < q
      BY <1>1, <1>2, <3>4
    <3>6. p \div B < q
      BY <3>5 DEF d
    <3>. QED BY <1>2, <2>1, <3>6
  <2>2. CASE s % B # 0
    <3>1. p \div B <= q
      BY <1>1
    <3>. QED BY <1>2, <2>2, <3>1
  <2>. QED BY <2>1, <2>2
<1>5. e \in Nat /\ e <= s + 1 /\ s + 1 < WordSize
  BY <1>1, <1>2
<1>6. p \div B \in Words /\ e \in Words
  BY <1>1, <1>2, <1>4, <1>5 DEF Words
<1>7. p + (s - p) = s /\ Quotient(p, B) = p \div B /\ Quotient(s, B) = q
  BY DEF Quotient
<1>. HIDE DEF q
<1>8. StartBlock(p) = p \div B /\ EndBlock(p, s - p) = e
  BY <1>6, <1>7, WordFacts DEF StartBlock, EndBlock, B
<1>. QED BY <1>4, <1>8 DEF Turns

LEMMA TransferType ==
  ASSUME NEW start \in Int, NEW n \in Int
  PROVE  Transferred(start, n) \in Int
BY DEF Transferred

-----------------------------------------------------------------------------
(* Sizes and extents *)

\* What a write stores ends where its size ends.
LEMMA WriteStays ==
  ASSUME InodeInv, NEW i \in Inodes, NEW start \in Int, NEW n \in Counts,
         start < WordSize \div 2
  PROVE  /\ NewSize(i, start, n) \in Words
         /\ NewExtent(i, start, n) \in 0 .. MaxVirtual * BlockSize
         /\ NewExtent(i, start, n) <= NewSize(i, start, n)
<1>. DEFINE limit == MaxVirtual * BlockSize
            stored == {b \in start .. start + n - 1 : 0 <= b /\ b < limit}
            end == Word(start + Transferred(start, n))
            top == IF start + n - 1 < limit THEN start + n - 1 ELSE limit - 1
<1>1. /\ WordSize \in Nat /\ WordSize = 2 * (WordSize \div 2)
      /\ WordSize \div 2 \in Nat /\ limit \in Nat
  BY Sizes
<1>2. n \in Int /\ n < WordSize \div 2
  BY CountFacts
<1>3. /\ size[i] \in Words /\ extent[i] \in 0 .. limit /\ extent[i] <= size[i]
  BY DEF InodeInv, SizeCoversExtent
<1>4. end \in Words
  <2>1. Transferred(start, n) \in Int
    BY <1>2, TransferType
  <2>2. start + Transferred(start, n) \in Int
    BY <2>1
  <2>. QED BY <2>2, WordFacts
<1>5. \A x \in Words : x \in Nat
  BY <1>1 DEF Words
<1>6. /\ NewSize(i, start, n) \in Words /\ NewSize(i, start, n) \in Nat
      /\ size[i] <= NewSize(i, start, n) /\ end <= NewSize(i, start, n)
  <2>1. NewSize(i, start, n) = IF size[i] < end THEN end ELSE size[i]
    BY DEF NewSize
  <2>2. size[i] \in Nat /\ end \in Nat
    BY <1>3, <1>4, <1>5
  <2>. HIDE DEF end
  <2>. QED BY <1>3, <1>4, <2>1, <2>2
<1>. HIDE DEF limit, end
<1>7. CASE Turns(start, n) /\ \E b \in stored : extent[i] <= b
  <2>1. NewExtent(i, start, n) = 1 + CHOOSE b \in stored : \A c \in stored : c <= b
    BY <1>7 DEF NewExtent, limit
  <2>2. PICK b \in stored : TRUE
    BY <1>7
  <2>3. /\ b \in Int /\ start <= b /\ b <= start + n - 1 /\ 0 <= b /\ b < limit
    BY <1>1, <1>2, <2>2
  <2>4. top \in Int /\ b <= top /\ top <= start + n - 1 /\ top < limit
    BY <1>1, <1>2, <2>3
  <2>5. top \in stored
    BY <1>1, <1>2, <2>3, <2>4
  <2>6. \A c \in stored : c \in Int /\ c <= top
    BY <1>1, <1>2
  <2>7. (CHOOSE c \in stored : \A d \in stored : d <= c) = top
    <3>. DEFINE m == CHOOSE c \in stored : \A d \in stored : d <= c
    <3>1. m \in stored /\ \A d \in stored : d <= m
      BY <2>5, <2>6
    <3>. HIDE DEF m, stored, top
    <3>2. m \in Int /\ m <= top /\ top <= m
      BY <2>5, <2>6, <3>1
    <3>3. m = top
      BY <2>4, <3>2
    <3>. QED BY <3>3 DEF m
  <2>8. end = start + n
    <3>1. Transferred(start, n) = n
      BY <1>7 DEF Transferred
    <3>2. start + n \in Words
      BY <1>1, <1>2, <2>3 DEF Words
    <3>. QED BY <3>1, <3>2, WordFacts DEF end
  <2>9. NewExtent(i, start, n) = 1 + top
    BY <2>1, <2>7
  <2>10. 1 + top \in 0 .. limit /\ 1 + top <= start + n
    BY <1>1, <1>2, <2>3, <2>4
  <2>11. NewExtent(i, start, n) <= NewSize(i, start, n)
    <3>. DEFINE new == NewSize(i, start, n)
    <3>1. new \in Int
      BY <1>6
    <3>2. start + n <= new
      BY <1>6, <2>8
    <3>. HIDE DEF top, new
    <3>3. 1 + top <= new
      BY <1>2, <2>4, <2>10, <3>1, <3>2
    <3>. QED BY <2>9, <3>3 DEF new
  <2>. QED BY <1>6, <2>9, <2>10, <2>11 DEF limit
<1>8. CASE ~(Turns(start, n) /\ \E b \in stored : extent[i] <= b)
  <2>1. NewExtent(i, start, n) = extent[i]
    BY <1>8 DEF NewExtent, limit
  <2>2. extent[i] <= NewSize(i, start, n)
    <3>. DEFINE new == NewSize(i, start, n)
    <3>1. new \in Nat
      BY <1>6
    <3>4. size[i] \in Nat /\ extent[i] \in Int
      BY <1>1, <1>3, <1>5
    <3>2. extent[i] <= size[i] /\ size[i] <= new
      BY <1>3, <1>6
    <3>. HIDE DEF new
    <3>3. extent[i] <= new
      BY <3>1, <3>2, <3>4
    <3>. QED BY <3>3 DEF new
  <2>. QED BY <1>3, <1>6, <2>1, <2>2 DEF limit
<1>. QED BY <1>7, <1>8

-----------------------------------------------------------------------------
(* Descriptors *)

LEMMA OpenIsInUse ==
  ASSUME FdInv, NEW h \in Fds, Opened(h)
  PROVE  /\ fd[h].inode \in Inodes /\ fname[fd[h].inode] = fd[h].filename
         /\ InUse(fd[h].inode) /\ fd[h].filename \in Names
<1>1. fd[h] \in Descriptors
  BY DEF FdInv
<1>2. fd[h].inode \in Inodes
  BY <1>1 DEF Descriptors, Opened
<1>3. fname[fd[h].inode] = fd[h].filename /\ fd[h].filename \in Names
  BY DEF FdInv, DescriptorNamesItsFile, OpenedHasName
<1>. QED BY <1>2, <1>3, FilesAssumption DEF InUse

\* What opening a file does to the descriptors.
Fresh(n, m, i) == [inuse |-> TRUE, filename |-> n, inode |-> i,
                   eof |-> FALSE, mode |-> m, pos |-> 0]

LEMMA DescriptorTaken ==
  ASSUME FdInv, NEW n \in Names, NEW m \in Modes, NEW i \in Inodes \cup {NoInode},
         Descriptor(n, m, i)
  PROVE  /\ RetType' /\ fd' \in [Fds -> Descriptors]
         /\ \/ fd' = fd
            \/ \E h \in Fds : /\ ~fd[h].inuse /\ fd'[h] = Fresh(n, m, i)
                              /\ \A k \in Fds \ {h} : fd'[k] = fd[k]
<1>1. fd \in [Fds -> Descriptors]
  BY DEF FdInv
<1>2. CASE Free = {}
  BY <1>1, <1>2, Sizes DEF Descriptor, Return, RetType, FILE_FAIL
<1>3. CASE Free # {}
  <2>. DEFINE h == First(Free)
  <2>1. h \in Fds /\ ~fd[h].inuse
    <3>1. Free \in SUBSET Nat
      BY Sizes DEF Free
    <3>2. h \in Free
      BY <1>3, <3>1, LeastIsChosen DEF First
    <3>. QED BY <3>2 DEF Free
  <2>2. fd' = [fd EXCEPT ![h] = Fresh(n, m, i)] /\ Return("open", h, h)
    BY <1>3 DEF Descriptor, Fresh
  <2>. HIDE DEF h
  <2>3. Fresh(n, m, i) \in Descriptors
    <3>1. 0 \in Words
      BY Sizes DEF Words
    <3>. QED BY <3>1 DEF Fresh, Descriptors
  <2>4. RetType'
    BY <2>1, <2>2, Sizes DEF Return, RetType
  <2>. QED BY <1>1, <2>1, <2>2, <2>3, <2>4
<1>. QED BY <1>2, <1>3

\* The files that are open stay as they are, and nobody has the file open that
\* the new descriptor is for.
LEMMA OpenKeepsFds ==
  ASSUME FdInv, NEW n \in Names, NEW m \in Modes, NEW i \in Inodes \cup {NoInode},
         Descriptor(n, m, i),
         i \in Inodes => fname'[i] = n,
         \A h \in Fds : Opened(h) => /\ fd[h].inode # i
                                     /\ fname'[fd[h].inode] = fname[fd[h].inode]
                                     /\ size'[fd[h].inode] = size[fd[h].inode]
  PROVE  FdInv' /\ RetType'
<1>1. /\ RetType' /\ fd' \in [Fds -> Descriptors]
      /\ \/ fd' = fd
         \/ \E h \in Fds : /\ ~fd[h].inuse /\ fd'[h] = Fresh(n, m, i)
                           /\ \A k \in Fds \ {h} : fd'[k] = fd[k]
  BY DescriptorTaken
<1>2. /\ DescriptorNamesItsFile /\ OneDescriptorPerFile /\ EofMeansEnd
      /\ OpenedHasName /\ EofIsReaders
  BY DEF FdInv
<1>3. CASE fd' = fd
  BY <1>1, <1>2, <1>3 DEF FdInv, DescriptorNamesItsFile, OneDescriptorPerFile,
       EofMeansEnd, OpenedHasName, EofIsReaders, Opened
<1>4. CASE \E h \in Fds : /\ ~fd[h].inuse /\ fd'[h] = Fresh(n, m, i)
                          /\ \A k \in Fds \ {h} : fd'[k] = fd[k]
  <2>1. PICK h \in Fds : /\ ~fd[h].inuse /\ fd'[h] = Fresh(n, m, i)
                         /\ \A k \in Fds \ {h} : fd'[k] = fd[k]
    BY <1>4
  <2>2. /\ fd'[h].inode = i /\ fd'[h].filename = n /\ ~fd'[h].eof
    BY <2>1 DEF Fresh
  <2>3. \A k \in Fds \ {h} : Opened(k)' <=> Opened(k)
    BY <2>1 DEF Opened
  <2>4. Opened(h)' => i \in Inodes
    BY <2>2 DEF Opened
  <2>5. DescriptorNamesItsFile'
    BY <1>2, <2>1, <2>2, <2>3, <2>4 DEF DescriptorNamesItsFile
  <2>6. OneDescriptorPerFile'
    BY <1>2, <2>1, <2>2, <2>3 DEF OneDescriptorPerFile
  <2>7. EofMeansEnd'
    BY <1>2, <2>1, <2>2, <2>3 DEF EofMeansEnd
  <2>8. OpenedHasName'
    BY <1>2, <2>1, <2>2, <2>3 DEF OpenedHasName
  <2>9. EofIsReaders'
    BY <1>2, <2>1, <2>2 DEF EofIsReaders
  <2>. QED BY <1>1, <2>5, <2>6, <2>7, <2>8, <2>9 DEF FdInv
<1>. QED BY <1>1, <1>3, <1>4

LEMMA OpenFailsPreserves ==
  ASSUME IInv, OpenFails
  PROVE  IInv'
<1>1. fname' = fname /\ size' = size /\ extent' = extent /\ fd' = fd /\ RetType'
  BY Sizes DEF OpenFails, Return, RetType, FILE_FAIL
<1>. QED BY <1>1 DEF IInv, InodeInv, FdInv, SizeCoversExtent, UnusedEmpty,
       DescriptorNamesItsFile, OneDescriptorPerFile, EofMeansEnd, OpenedHasName,
       EofIsReaders, Opened, InUse

LEMMA OpenNewPreserves ==
  ASSUME IInv, NEW n \in Names, NEW m \in Modes, OpenNew(n, m)
  PROVE  IInv'
<1>1. CASE m = "r"
  BY <1>1, OpenFailsPreserves DEF OpenNew
<1>2. CASE m # "r" /\ Unused = {}
  <2>1. Descriptor(n, m, NoInode) /\ UNCHANGED <<fname, size, extent>>
    BY <1>2 DEF OpenNew
  <2>2. FdInv' /\ RetType'
    BY <2>1, OpenIsInUse, OpenKeepsFds, Sizes DEF IInv
  <2>3. InodeInv'
    BY <2>1 DEF IInv, InodeInv, SizeCoversExtent, UnusedEmpty, InUse
  <2>. QED BY <2>2, <2>3 DEF IInv
<1>3. CASE m # "r" /\ Unused # {}
  <2>. DEFINE i == First(Unused)
  <2>1. i \in Inodes /\ ~InUse(i)
    <3>1. Unused \in SUBSET Nat
      BY Sizes DEF Unused
    <3>2. i \in Unused
      BY <1>3, <3>1, LeastIsChosen DEF First
    <3>. QED BY <3>2 DEF Unused
  <2>2. /\ fname' = [fname EXCEPT ![i] = n] /\ size' = [size EXCEPT ![i] = 0]
        /\ Descriptor(n, m, i) /\ extent' = extent
    BY <1>3 DEF OpenNew
  <2>. HIDE DEF i
  <2>3. /\ fname \in [Inodes -> Names \cup {NoName}] /\ size \in [Inodes -> Words]
        /\ extent \in [Inodes -> 0 .. MaxVirtual * BlockSize]
        /\ SizeCoversExtent /\ UnusedEmpty
    BY DEF IInv, InodeInv
  <2>4. FdInv' /\ RetType'
    <3>1. \A h \in Fds : Opened(h) => /\ fd[h].inode # i
                                      /\ fname'[fd[h].inode] = fname[fd[h].inode]
                                      /\ size'[fd[h].inode] = size[fd[h].inode]
      BY <2>1, <2>2, <2>3, OpenIsInUse DEF IInv
    <3>2. fname'[i] = n
      BY <2>1, <2>2, <2>3
    <3>. QED BY <2>1, <2>2, <3>1, <3>2, OpenKeepsFds DEF IInv
  <2>5. extent[i] = 0 /\ 0 \in Words
    BY <2>1, <2>3, Sizes DEF UnusedEmpty, Words
  <2>6. InodeInv'
    <3>1. /\ fname' \in [Inodes -> Names \cup {NoName}] /\ size' \in [Inodes -> Words]
          /\ extent' \in [Inodes -> 0 .. MaxVirtual * BlockSize]
      BY <2>2, <2>3, <2>5
    <3>2. SizeCoversExtent'
      BY <2>1, <2>2, <2>3, <2>5 DEF SizeCoversExtent
    <3>3. UnusedEmpty'
      BY <2>1, <2>2, <2>3, <2>5 DEF UnusedEmpty, InUse
    <3>. QED BY <3>1, <3>2, <3>3 DEF InodeInv
  <2>. QED BY <2>4, <2>6 DEF IInv
<1>. QED BY <1>1, <1>2, <1>3

LEMMA OpenExistingPreserves ==
  ASSUME IInv, NEW n \in Names, NEW m \in Modes, NEW i \in Inodes, fname[i] = n,
         OpenExisting(n, m, i)
  PROVE  IInv'
<1>0. /\ fname \in [Inodes -> Names \cup {NoName}] /\ size \in [Inodes -> Words]
      /\ extent \in [Inodes -> 0 .. MaxVirtual * BlockSize]
      /\ SizeCoversExtent /\ UnusedEmpty
  BY DEF IInv, InodeInv
<1>1. CASE UsedByAnother(i)
  BY <1>1, OpenFailsPreserves DEF OpenExisting
<1>2. CASE ~UsedByAnother(i) /\ m = "r"
  <2>1. Descriptor(n, m, i) /\ UNCHANGED <<fname, size, extent>>
    BY <1>2 DEF OpenExisting
  <2>2. \A h \in Fds : Opened(h) => fd[h].inode # i
    BY <1>2 DEF UsedByAnother, Opened
  <2>3. FdInv' /\ RetType'
    BY <2>1, <2>2, OpenKeepsFds DEF IInv
  <2>4. InodeInv'
    BY <2>1 DEF IInv, InodeInv, SizeCoversExtent, UnusedEmpty, InUse
  <2>. QED BY <2>3, <2>4 DEF IInv
<1>3. CASE ~UsedByAnother(i) /\ m # "r"
  <2>. DEFINE j == First(Unused \cup {i})
  <2>1. j \in Inodes /\ (j = i \/ ~InUse(j))
    <3>1. Unused \cup {i} \in SUBSET Nat
      BY Sizes DEF Unused
    <3>2. j \in Unused \cup {i}
      BY <3>1, LeastIsChosen DEF First
    <3>. QED BY <3>2 DEF Unused
  <2>2. /\ fname' = [fname EXCEPT ![i] = NoName, ![j] = n]
        /\ size' = [size EXCEPT ![i] = 0, ![j] = 0]
        /\ extent' = [extent EXCEPT ![i] = 0]
        /\ Descriptor(n, m, j)
    BY <1>3 DEF OpenExisting
  <2>. HIDE DEF j
  <2>3. 0 \in Words /\ 0 \in 0 .. MaxVirtual * BlockSize
    BY Sizes DEF Words
  <2>4. /\ fname' \in [Inodes -> Names \cup {NoName}] /\ size' \in [Inodes -> Words]
        /\ extent' \in [Inodes -> 0 .. MaxVirtual * BlockSize]
    BY <1>0, <2>2, <2>3
  <2>5. /\ fname'[j] = n /\ size'[i] = 0 /\ size'[j] = 0 /\ extent'[i] = 0
        /\ \A k \in Inodes : k # i => extent'[k] = extent[k]
        /\ \A k \in Inodes : k # i /\ k # j => fname'[k] = fname[k] /\ size'[k] = size[k]
    BY <1>0, <2>1, <2>2
  <2>6. extent'[j] = 0
    BY <1>0, <2>1, <2>5 DEF UnusedEmpty
  <2>7. \A h \in Fds : Opened(h) => fd[h].inode # i /\ fd[h].inode # j
    <3>1. \A h \in Fds : Opened(h) => fd[h].inode # i
      BY <1>3 DEF UsedByAnother, Opened
    <3>. QED BY <2>1, <3>1, OpenIsInUse DEF IInv
  <2>8. FdInv' /\ RetType'
    <3>1. \A h \in Fds : Opened(h) => /\ fd[h].inode # j
                                      /\ fname'[fd[h].inode] = fname[fd[h].inode]
                                      /\ size'[fd[h].inode] = size[fd[h].inode]
      BY <2>5, <2>7, OpenIsInUse DEF IInv
    <3>. QED BY <2>1, <2>2, <2>5, <3>1, OpenKeepsFds DEF IInv
  <2>9. InodeInv'
    <3>1. SizeCoversExtent'
      BY <1>0, <2>5, <2>6 DEF SizeCoversExtent
    <3>2. UnusedEmpty'
      BY <1>0, <2>5, <2>6 DEF UnusedEmpty, InUse
    <3>. QED BY <2>4, <3>1, <3>2 DEF InodeInv
  <2>. QED BY <2>8, <2>9 DEF IInv
<1>. QED BY <1>1, <1>2, <1>3

LEMMA FoundHasName ==
  ASSUME NEW n, DfsInodeFilenameExists(n) # DFS_FAIL
  PROVE  /\ DfsInodeFilenameExists(n) \in Inodes
         /\ fname[DfsInodeFilenameExists(n)] = n
<1>1. Named(n) # {} /\ DfsInodeFilenameExists(n) = First(Named(n))
  BY DEF DfsInodeFilenameExists
<1>2. Named(n) \in SUBSET Nat
  BY Sizes DEF Named
<1>3. First(Named(n)) \in Named(n)
  BY <1>1, <1>2, LeastIsChosen DEF First
<1>. QED BY <1>1, <1>3 DEF Named

LEMMA FileOpenPreserves ==
  ASSUME IInv, NEW n \in Names, NEW m \in Modes, FileOpen(n, m)
  PROVE  IInv'
<1>1. CASE DfsInodeFilenameExists(n) = DFS_FAIL
  BY <1>1, OpenNewPreserves DEF FileOpen
<1>2. CASE DfsInodeFilenameExists(n) # DFS_FAIL
  BY <1>2, FoundHasName, OpenExistingPreserves DEF FileOpen
<1>. QED BY <1>1, <1>2

-----------------------------------------------------------------------------
(* The other calls *)

\* A call that moves a descriptor, and says truly when the end is reached.
LEMMA MoveKeepsFds ==
  ASSUME FdInv, NEW h \in Fds, fd' \in [Fds -> Descriptors], fname' = fname,
         /\ fd'[h].inuse = fd[h].inuse /\ fd'[h].filename = fd[h].filename
         /\ fd'[h].inode = fd[h].inode /\ fd'[h].mode = fd[h].mode,
         \A k \in Fds \ {h} : /\ fd'[k] = fd[k]
                              /\ Opened(k) => size'[fd[k].inode] = size[fd[k].inode],
         fd'[h].eof => /\ fd[h].mode = "r"
                       /\ Opened(h) /\ Signed(size'[fd[h].inode]) >= 0
                            => fd'[h].pos >= size'[fd[h].inode]
  PROVE  FdInv'
<1>1. /\ DescriptorNamesItsFile /\ OneDescriptorPerFile /\ EofMeansEnd
      /\ OpenedHasName /\ EofIsReaders
  BY DEF FdInv
<1>2. \A k \in Fds : /\ Opened(k)' <=> Opened(k)
                     /\ fd'[k].inode = fd[k].inode
                     /\ fd'[k].filename = fd[k].filename
  BY DEF Opened
<1>3. DescriptorNamesItsFile' /\ OneDescriptorPerFile' /\ OpenedHasName'
  BY <1>1, <1>2 DEF DescriptorNamesItsFile, OneDescriptorPerFile, OpenedHasName
<1>4. EofMeansEnd'
  BY <1>1, <1>2 DEF EofMeansEnd
<1>5. EofIsReaders'
  BY <1>1 DEF EofIsReaders
<1>. QED BY <1>3, <1>4, <1>5 DEF FdInv

LEMMA FileClosePreserves ==
  ASSUME IInv, NEW h \in Fds, FileClose(h)
  PROVE  IInv'
<1>1. /\ fd' = [fd EXCEPT ![h].inuse = FALSE] /\ RetType'
      /\ fname' = fname /\ size' = size /\ extent' = extent
  BY DEF FileClose, Return, RetType, FILE_SUCCESS
<1>2. fd \in [Fds -> Descriptors] /\ fd[h] \in Descriptors
  BY DEF IInv, FdInv
<1>3. /\ fd' \in [Fds -> Descriptors] /\ ~fd'[h].inuse
      /\ \A k \in Fds \ {h} : fd'[k] = fd[k]
  BY <1>1, <1>2 DEF Descriptors
<1>4. /\ ~Opened(h)' /\ \A k \in Fds \ {h} : Opened(k)' <=> Opened(k)
  BY <1>3 DEF Opened
<1>5. FdInv'
  <2>1. DescriptorNamesItsFile' /\ OneDescriptorPerFile' /\ OpenedHasName'
    BY <1>1, <1>3, <1>4 DEF IInv, FdInv, DescriptorNamesItsFile, OneDescriptorPerFile,
         OpenedHasName
  <2>2. EofMeansEnd' /\ EofIsReaders'
    BY <1>1, <1>3, <1>4 DEF IInv, FdInv, EofMeansEnd, EofIsReaders
  <2>. QED BY <1>3, <2>1, <2>2 DEF FdInv
<1>6. InodeInv'
  BY <1>1 DEF IInv, InodeInv, SizeCoversExtent, UnusedEmpty, InUse
<1>. QED BY <1>1, <1>5, <1>6 DEF IInv

\* Where a read leads: never past the end when it delivers something, and to
\* the end when it sets the flag.
LEMMA ReadEnds ==
  ASSUME IInv, NEW h \in Fds, NEW n \in Counts, Opened(h)
  PROVE  LET s == size[fd[h].inode]
             start == Signed(fd[h].pos)
             total == Transferred(start, Clamped(h, n))
             to == Word(fd[h].pos + total)
         IN  /\ total \in Int /\ to \in Words
             /\ total > 0 => to <= s
             /\ AtEnd(h, n) /\ Signed(s) >= 0 => to >= s
<1>. DEFINE s == size[fd[h].inode]
            pos == fd[h].pos
            start == Signed(pos)
            cut == Clamped(h, n)
            total == Transferred(start, cut)
            to == Word(pos + total)
<1>1. /\ WordSize \in Nat /\ WordSize = 2 * (WordSize \div 2)
      /\ WordSize \div 2 \in Nat /\ WordSize \div 2 > 0
      /\ \A x \in Words : x \in Nat /\ x < WordSize
  BY Sizes DEF Words
<1>2. n \in Int
  BY CountFacts
<1>3. fd[h].inode \in Inodes /\ InUse(fd[h].inode)
  BY OpenIsInUse DEF IInv
<1>4. s \in Words /\ pos \in Words
  BY <1>3 DEF IInv, InodeInv, FdInv, Descriptors
<1>5. DfsInodeFilesize(fd[h].inode) = s
  BY <1>3 DEF DfsInodeFilesize
<1>. HIDE DEF s, pos
<1>6. /\ AtEnd(h, n) <=> Word(pos + n) >= s
      /\ cut = IF AtEnd(h, n) THEN Signed(Word(s - pos)) ELSE n
  BY <1>5 DEF AtEnd, Clamped, pos
<1>7. start \in Int /\ cut \in Int
  <2>1. s - pos \in Int
    BY <1>1, <1>4
  <2>2. Signed(Word(s - pos)) \in Int
    BY <2>1, WordFacts
  <2>. QED BY <1>2, <1>4, <1>6, <2>2, WordFacts
<1>8. total \in Int /\ to \in Words
  <2>1. total \in Int
    BY <1>7, TransferType
  <2>2. pos + total \in Int
    BY <1>1, <1>4, <2>1
  <2>. QED BY <2>1, <2>2, WordFacts
<1>9. total = cut \/ (~Turns(start, cut) /\ total = 0)
  BY DEF Transferred
<1>10. AtEnd(h, n) /\ total = cut => to = s
  BY <1>4, <1>6, CutLeadsToEnd
<1>. HIDE DEF start, cut, total, to
<1>11. ASSUME total > 0 PROVE to <= s
  <2>1. total = cut
    BY <1>9, <1>11
  <2>2. CASE AtEnd(h, n)
    BY <1>1, <1>4, <1>10, <2>1, <2>2
  <2>3. CASE ~AtEnd(h, n)
    <3>1. to = Word(pos + n)
      BY <1>6, <2>1, <2>3 DEF to
    <3>2. ~(Word(pos + n) >= s)
      BY <1>6, <2>3
    <3>. QED BY <1>1, <1>4, <1>8, <3>1, <3>2
  <2>. QED BY <2>2, <2>3
<1>12. ASSUME AtEnd(h, n), Signed(s) >= 0 PROVE to >= s
  <2>1. CASE total = cut
    BY <1>1, <1>4, <1>10, <1>12, <2>1
  <2>2. CASE ~Turns(start, cut) /\ total = 0
    <3>1. s < WordSize \div 2
      BY <1>1, <1>4, <1>12 DEF Signed
    <3>2. to = pos
      <4>1. pos + 0 = pos
        BY <1>1, <1>4
      <4>. QED BY <1>4, <2>2, <4>1, WordFacts DEF to
    <3>3. ASSUME pos < s PROVE FALSE
      <4>1. start = pos
        BY <1>1, <1>4, <3>1, <3>3 DEF Signed, start
      <4>2. s - pos \in Words /\ s - pos < WordSize \div 2
        BY <1>1, <1>4, <3>1, <3>3 DEF Words
      <4>3. Word(s - pos) = s - pos
        BY <4>2, WordFacts
      <4>4. Signed(s - pos) = s - pos
        BY <1>1, <4>2 DEF Signed
      <4>5. cut = s - pos
        BY <1>6, <1>12, <4>3, <4>4
      <4>6. pos \in Nat /\ s \in Nat
        BY <1>1, <1>4
      <4>7. Turns(pos, s - pos)
        BY <3>1, <3>3, <4>6, SomethingLeft
      <4>. QED BY <2>2, <4>1, <4>5, <4>7
    <3>. QED BY <1>1, <1>4, <3>2, <3>3
  <2>. QED BY <1>9, <2>1, <2>2
<1>. QED BY <1>8, <1>11, <1>12 DEF s, pos, start, cut, total, to

\* A read of a count that is not negative delivers no more than that.
LEMMA ReadBounded ==
  ASSUME IInv, NEW h \in Fds, NEW n \in Counts, Opened(h), n >= 0,
         Defined(Signed(fd[h].pos), Clamped(h, n)),
         Transferred(Signed(fd[h].pos), Clamped(h, n)) > 0
  PROVE  Transferred(Signed(fd[h].pos), Clamped(h, n)) <= n
<1>. DEFINE s == size[fd[h].inode]
            pos == fd[h].pos
            start == Signed(pos)
            cut == Clamped(h, n)
            half == WordSize \div 2
<1>1. /\ WordSize \in Nat /\ WordSize = 2 * half /\ half \in Nat /\ half > 0
      /\ \A x \in Words : x \in Nat /\ x < WordSize
  BY Sizes DEF Words
<1>2. n \in Nat /\ n < half
  BY CountFacts
<1>3. fd[h].inode \in Inodes /\ InUse(fd[h].inode)
  BY OpenIsInUse DEF IInv
<1>4. s \in Words /\ pos \in Words
  BY <1>3 DEF IInv, InodeInv, FdInv, Descriptors
<1>5. DfsInodeFilesize(fd[h].inode) = s
  BY <1>3 DEF DfsInodeFilesize
<1>6. Turns(start, cut) /\ Transferred(start, cut) = cut /\ cut > 0
  BY DEF Transferred
<1>. HIDE DEF s, pos
<1>7. /\ AtEnd(h, n) <=> Word(pos + n) >= s
      /\ cut = IF AtEnd(h, n) THEN Signed(Word(s - pos)) ELSE n
  BY <1>5 DEF AtEnd, Clamped, pos
<1>8. start \in Int /\ -half <= start
  BY <1>1, <1>4 DEF Signed
<1>9. cut \in Int
  <2>1. s - pos \in Int
    BY <1>1, <1>4
  <2>2. Signed(Word(s - pos)) \in Int
    BY <2>1, WordFacts
  <2>. QED BY <1>2, <1>7, <2>2
<1>10. start >= 0
  <2>1. Defined(start, cut)
    BY DEF pos
  <2>. QED BY <1>6, <1>8, <1>9, <2>1, StartsAfterZero
<1>11. pos < half /\ pos \in Nat /\ s \in Nat /\ s < WordSize
  BY <1>1, <1>4, <1>10 DEF Signed
<1>. HIDE DEF cut, start
<1>12. CASE AtEnd(h, n)
  <2>1. pos + n >= s
    <3>1. pos + n \in Words
      BY <1>1, <1>2, <1>11 DEF Words
    <3>2. Word(pos + n) = pos + n
      BY <3>1, WordFacts
    <3>. QED BY <1>7, <1>12, <3>2
  <2>2. cut = Signed(Word(s - pos))
    BY <1>7, <1>12
  <2>3. CASE s >= pos
    <3>1. s - pos \in Words
      BY <1>1, <1>11, <2>3 DEF Words
    <3>2. Word(s - pos) = s - pos
      BY <3>1, WordFacts
    <3>3. cut <= s - pos
      BY <1>1, <1>11, <2>2, <3>2 DEF Signed
    <3>. QED BY <1>2, <1>9, <1>11, <2>1, <3>3, <1>6 DEF cut, start, pos
  <2>4. CASE s < pos
    <3>. DEFINE w == s - pos + WordSize
    <3>1. w \in Words /\ w - WordSize = s - pos /\ w >= half
      BY <1>1, <1>11, <2>4 DEF Words
    <3>2. Word(s - pos) = w
      BY <3>1, WordFacts
    <3>3. Signed(w) = s - pos
      BY <1>1, <3>1 DEF Signed
    <3>. HIDE DEF w
    <3>. QED BY <1>6, <1>11, <2>2, <2>4, <3>2, <3>3
  <2>. QED BY <1>11, <2>3, <2>4
<1>13. CASE ~AtEnd(h, n)
  <2>1. cut = n
    BY <1>7, <1>13
  <2>. QED BY <1>2, <1>6, <2>1 DEF cut, start, pos
<1>. QED BY <1>12, <1>13

\* What FileRead does to the descriptor it was given.
LEMMA ReadMoves ==
  ASSUME IInv, NEW h \in Fds, NEW n \in Counts, FileRead(h, n), ~ReadRefused(h)
  PROVE  LET total == Transferred(Signed(fd[h].pos), Clamped(h, n))
         IN  /\ Opened(h) /\ ReturnBytes("read", h, n, total)
             /\ Defined(Signed(fd[h].pos), Clamped(h, n))
             /\ \/ fd' = fd /\ total = DFS_FAIL
                \/ fd' = [fd EXCEPT ![h].pos = Word(fd[h].pos + total),
                                    ![h].eof = AtEnd(h, n)]
BY DEF FileRead, ReadRefused, Opened, IInv, FdInv

LEMMA FileReadPreserves ==
  ASSUME IInv, NEW h \in Fds, NEW n \in Counts, FileRead(h, n)
  PROVE  IInv'
<1>1. fname' = fname /\ size' = size /\ extent' = extent
  BY DEF FileRead
<1>2. InodeInv'
  BY <1>1 DEF IInv, InodeInv, SizeCoversExtent, UnusedEmpty, InUse
<1>3. fd \in [Fds -> Descriptors] /\ fd[h] \in Descriptors
  BY DEF IInv, FdInv
<1>4. ASSUME fd' = fd PROVE FdInv'
  BY <1>1, <1>4 DEF IInv, FdInv, DescriptorNamesItsFile, OneDescriptorPerFile, EofMeansEnd,
       OpenedHasName, EofIsReaders, Opened
<1>5. CASE ReadRefused(h)
  <2>1. fd' = fd /\ ReturnBytes("read", h, n, FILE_FAIL)
    BY <1>5 DEF FileRead
  <2>2. RetType'
    BY <2>1, CountFacts DEF ReturnBytes, RetType, FILE_FAIL
  <2>. QED BY <1>2, <1>4, <2>1, <2>2 DEF IInv
<1>6. CASE ~ReadRefused(h)
  <2>. DEFINE s == size[fd[h].inode]
              total == Transferred(Signed(fd[h].pos), Clamped(h, n))
              to == Word(fd[h].pos + total)
  <2>1. /\ Opened(h) /\ ReturnBytes("read", h, n, total)
        /\ fd' = fd \/ fd' = [fd EXCEPT ![h].pos = to, ![h].eof = AtEnd(h, n)]
    BY <1>6, ReadMoves
  <2>2. /\ total \in Int /\ to \in Words
        /\ AtEnd(h, n) /\ Signed(s) >= 0 => to >= s
    BY <2>1, ReadEnds
  <2>3. fd[h].mode = "r"
    BY <1>6 DEF ReadRefused
  <2>. HIDE DEF s, total, to
  <2>4. RetType'
    BY <2>1, <2>2, CountFacts DEF ReturnBytes, RetType
  <2>5. CASE fd' = [fd EXCEPT ![h].pos = to, ![h].eof = AtEnd(h, n)]
    <3>1. /\ \A k \in Fds \ {h} : fd'[k] = fd[k]
          /\ fd'[h] = [fd[h] EXCEPT !.pos = to, !.eof = AtEnd(h, n)]
          /\ DOMAIN fd' = Fds /\ fd' = [k \in Fds |-> fd'[k]]
      BY <1>3, <2>5
    <3>2. /\ fd'[h].inuse = fd[h].inuse /\ fd'[h].filename = fd[h].filename
          /\ fd'[h].inode = fd[h].inode /\ fd'[h].mode = fd[h].mode
          /\ fd'[h].pos = to /\ (fd'[h].eof => AtEnd(h, n))
      BY <1>3, <3>1 DEF Descriptors
    <3>3. AtEnd(h, n) \in BOOLEAN
      BY DEF AtEnd
    <3>4. fd'[h] \in Descriptors
      BY <1>3, <2>2, <3>1, <3>3 DEF Descriptors
    <3>5. fd' \in [Fds -> Descriptors]
      BY <1>3, <3>1, <3>4
    <3>6. FdInv'
      <4>1. \A k \in Fds \ {h} : /\ fd'[k] = fd[k]
                                 /\ Opened(k) => size'[fd[k].inode] = size[fd[k].inode]
        BY <1>1, <3>1
      <4>2. fd'[h].eof => /\ fd[h].mode = "r"
                          /\ Opened(h) /\ Signed(size'[fd[h].inode]) >= 0
                               => fd'[h].pos >= size'[fd[h].inode]
        BY <1>1, <2>2, <2>3, <3>2 DEF s
      <4>3. FdInv
        BY DEF IInv
      <4>. QED BY <1>1, <3>2, <3>5, <4>1, <4>2, <4>3, MoveKeepsFds
    <3>. QED BY <1>2, <2>4, <3>6 DEF IInv
  <2>. QED BY <1>2, <1>4, <2>1, <2>4, <2>5 DEF IInv
<1>. QED BY <1>5, <1>6

LEMMA FileWritePreserves ==
  ASSUME IInv, NEW h \in Fds, NEW n \in Counts, FileWrite(h, n)
  PROVE  IInv'
<1>1. fd \in [Fds -> Descriptors] /\ fd[h] \in Descriptors
  BY DEF IInv, FdInv
<1>2. CASE WriteRefused(h)
  <2>1. /\ fname' = fname /\ size' = size /\ extent' = extent /\ fd' = fd
        /\ ReturnBytes("write", h, n, FILE_FAIL)
    BY <1>2 DEF FileWrite
  <2>2. RetType'
    BY <2>1, CountFacts DEF ReturnBytes, RetType, FILE_FAIL
  <2>. QED BY <2>1, <2>2 DEF IInv, InodeInv, FdInv, SizeCoversExtent, UnusedEmpty, InUse,
         DescriptorNamesItsFile, OneDescriptorPerFile, EofMeansEnd, OpenedHasName,
         EofIsReaders, Opened
<1>3. CASE ~WriteRefused(h)
  <2>. DEFINE i == fd[h].inode
              start == Signed(fd[h].pos)
              total == Transferred(start, n)
              to == IF total = DFS_FAIL THEN fd[h].pos ELSE Word(fd[h].pos + total)
  <2>1. /\ i # NoInode /\ size' = [size EXCEPT ![i] = NewSize(i, start, n)]
        /\ extent' = [extent EXCEPT ![i] = NewExtent(i, start, n)]
        /\ fd' = [fd EXCEPT ![h].pos = to] /\ ReturnBytes("write", h, n, total)
        /\ fname' = fname
    BY <1>3 DEF FileWrite
  <2>2. fd[h].inuse /\ fd[h].mode = "w" /\ Opened(h)
    BY <1>1, <1>3, <2>1 DEF WriteRefused, Opened
  <2>3. i \in Inodes /\ InUse(i)
    BY <2>2, OpenIsInUse DEF IInv
  <2>4. fd[h].pos \in Words /\ start \in Int /\ n \in Int
    <3>1. fd[h].pos \in Words
      BY <1>1 DEF Descriptors
    <3>2. start \in Int
      BY <3>1, WordFacts
    <3>3. n \in Int
      BY CountFacts
    <3>. QED BY <3>1, <3>2, <3>3
  <2>5. start < WordSize \div 2
    <3>1. fd[h].pos \in Nat /\ fd[h].pos < WordSize
      BY <2>4, Sizes DEF Words
    <3>. QED BY <3>1, Sizes DEF Signed
  <2>6. total \in Int /\ to \in Words
    <3>1. total \in Int
      BY <2>4, TransferType
    <3>2. fd[h].pos \in Int
      BY <2>4, Sizes DEF Words
    <3>3. fd[h].pos + total \in Int
      BY <3>1, <3>2
    <3>4. Word(fd[h].pos + total) \in Words
      BY <3>3, WordFacts
    <3>. QED BY <2>4, <3>1, <3>4
  <2>7. /\ NewSize(i, start, n) \in Words
        /\ NewExtent(i, start, n) \in 0 .. MaxVirtual * BlockSize
        /\ NewExtent(i, start, n) <= NewSize(i, start, n)
    BY <2>3, <2>4, <2>5, WriteStays DEF IInv
  <2>. HIDE DEF i, start, total, to
  <2>8. RetType'
    BY <2>1, <2>4, <2>6 DEF ReturnBytes, RetType
  <2>9. InodeInv'
    <3>1. /\ size \in [Inodes -> Words] /\ extent \in [Inodes -> 0 .. MaxVirtual * BlockSize]
          /\ fname \in [Inodes -> Names \cup {NoName}] /\ SizeCoversExtent /\ UnusedEmpty
      BY DEF IInv, InodeInv
    <3>2. /\ size' \in [Inodes -> Words] /\ extent' \in [Inodes -> 0 .. MaxVirtual * BlockSize]
      BY <2>1, <2>7, <3>1
    <3>3. /\ size'[i] = NewSize(i, start, n) /\ extent'[i] = NewExtent(i, start, n)
          /\ \A k \in Inodes \ {i} : size'[k] = size[k] /\ extent'[k] = extent[k]
      BY <2>1, <2>3, <3>1
    <3>4. SizeCoversExtent'
      BY <2>7, <3>1, <3>3 DEF SizeCoversExtent
    <3>5. UnusedEmpty'
      BY <2>1, <2>3, <3>1, <3>3 DEF UnusedEmpty, InUse
    <3>. QED BY <2>1, <3>1, <3>2, <3>4, <3>5 DEF InodeInv
  <2>10. FdInv'
    <3>1. /\ \A k \in Fds \ {h} : fd'[k] = fd[k]
          /\ fd'[h] = [fd[h] EXCEPT !.pos = to]
          /\ DOMAIN fd' = Fds /\ fd' = [k \in Fds |-> fd'[k]]
      BY <1>1, <2>1
    <3>2. /\ fd'[h].inuse = fd[h].inuse /\ fd'[h].filename = fd[h].filename
          /\ fd'[h].inode = fd[h].inode /\ fd'[h].mode = fd[h].mode
          /\ fd'[h].eof = fd[h].eof
      BY <1>1, <3>1 DEF Descriptors
    <3>3. fd'[h] \in Descriptors
      BY <1>1, <2>6, <3>1 DEF Descriptors
    <3>4. fd' \in [Fds -> Descriptors]
      BY <1>1, <3>1, <3>3
    <3>5. ASSUME NEW k \in Fds \ {h}, Opened(k)
          PROVE  size'[fd[k].inode] = size[fd[k].inode]
      <4>1. fd[k].inode # i
        BY <2>2, <3>5 DEF IInv, FdInv, OneDescriptorPerFile, i
      <4>2. fd[k].inode \in Inodes
        BY <3>5, OpenIsInUse DEF IInv
      <4>. QED BY <2>1, <4>1, <4>2 DEF IInv, InodeInv
    <3>6. \A k \in Fds \ {h} : /\ fd'[k] = fd[k]
                               /\ Opened(k) => size'[fd[k].inode] = size[fd[k].inode]
      BY <3>1, <3>5
    <3>7. ~fd[h].eof
      BY <2>2 DEF IInv, FdInv, EofIsReaders
    <3>8. FdInv
      BY DEF IInv
    <3>9. ~fd'[h].eof
      BY <3>2, <3>7
    <3>. QED BY <2>1, <3>2, <3>4, <3>6, <3>8, <3>9, MoveKeepsFds
  <2>. QED BY <2>8, <2>9, <2>10 DEF IInv
<1>. QED BY <1>2, <1>3

LEMMA FileSeekPreserves ==
  ASSUME IInv, NEW h \in Fds, NEW n \in Offsets, NEW w \in Whence, FileSeek(h, n, w)
  PROVE  IInv'
<1>1. fname' = fname /\ size' = size /\ extent' = extent
  BY DEF FileSeek
<1>2. InodeInv'
  BY <1>1 DEF IInv, InodeInv, SizeCoversExtent, UnusedEmpty, InUse
<1>3. fd \in [Fds -> Descriptors] /\ fd[h] \in Descriptors
  BY DEF IInv, FdInv
<1>4. CASE ~fd[h].inuse
  <2>1. fd' = fd /\ Return("seek", h, FILE_FAIL)
    BY <1>4 DEF FileSeek
  <2>2. RetType'
    BY <2>1 DEF Return, RetType, FILE_FAIL
  <2>3. FdInv'
    BY <1>1, <2>1 DEF IInv, FdInv, DescriptorNamesItsFile, OneDescriptorPerFile, EofMeansEnd,
         OpenedHasName, EofIsReaders, Opened
  <2>. QED BY <1>2, <2>2, <2>3 DEF IInv
<1>5. CASE fd[h].inuse
  <2>. DEFINE to == SeekTarget(h, n, w)
  <2>1. /\ w = "end" => fd[h].inode # NoInode
        /\ fd' = [fd EXCEPT ![h].pos = to, ![h].eof = FALSE]
        /\ Return("seek", h, FILE_SUCCESS)
    BY <1>5 DEF FileSeek
  <2>2. to \in Words
    <3>1. fd[h].pos \in Int /\ n \in Int /\ \A x \in Words : x \in Int
      BY <1>3, Sizes, CountFacts DEF Descriptors, Words
    <3>2. w = "end" => DfsInodeFilesize(fd[h].inode) \in Words
      <4>1. SUFFICES ASSUME w = "end" PROVE DfsInodeFilesize(fd[h].inode) \in Words
        OBVIOUS
      <4>2. fd[h].inode \in Inodes /\ InUse(fd[h].inode)
        BY <1>5, <2>1, <4>1, OpenIsInUse DEF Opened, IInv
      <4>. QED BY <4>2 DEF DfsInodeFilesize, IInv, InodeInv
    <3>3. SeekBase(h, w) \in Int
      <4>1. CASE w = "set"
        BY <4>1 DEF SeekBase
      <4>2. CASE w = "end"
        BY <3>1, <3>2, <4>2 DEF SeekBase
      <4>3. CASE w = "cur"
        BY <3>1, <4>3 DEF SeekBase
      <4>. QED BY <4>1, <4>2, <4>3 DEF Whence
    <3>4. SeekBase(h, w) + n \in Int
      BY <3>1, <3>3
    <3>. QED BY <3>4, WordFacts DEF SeekTarget
  <2>. HIDE DEF to
  <2>3. RetType'
    BY <2>1 DEF Return, RetType, FILE_SUCCESS
  <2>4. FdInv'
    <3>1. /\ \A k \in Fds \ {h} : fd'[k] = fd[k]
          /\ fd'[h] = [fd[h] EXCEPT !.pos = to, !.eof = FALSE]
          /\ DOMAIN fd' = Fds /\ fd' = [k \in Fds |-> fd'[k]]
      BY <1>3, <2>1
    <3>2. /\ fd'[h].inuse = fd[h].inuse /\ fd'[h].filename = fd[h].filename
          /\ fd'[h].inode = fd[h].inode /\ fd'[h].mode = fd[h].mode
          /\ ~fd'[h].eof
      BY <1>3, <3>1 DEF Descriptors
    <3>3. fd'[h] \in Descriptors
      BY <1>3, <2>2, <3>1 DEF Descriptors
    <3>4. fd' \in [Fds -> Descriptors]
      BY <1>3, <3>1, <3>3
    <3>5. \A k \in Fds \ {h} : /\ fd'[k] = fd[k]
                               /\ Opened(k) => size'[fd[k].inode] = size[fd[k].inode]
      BY <1>1, <3>1
    <3>6. FdInv
      BY DEF IInv
    <3>. QED BY <1>1, <3>2, <3>4, <3>5, <3>6, MoveKeepsFds
  <2>. QED BY <1>2, <2>3, <2>4 DEF IInv
<1>. QED BY <1>3, <1>4, <1>5 DEF Descriptors

LEMMA FileDeletePreserves ==
  ASSUME IInv, NEW n \in Names, FileDelete(n)
  PROVE  IInv'
<1>. DEFINE i == DfsInodeFilenameExists(n)
<1>1. fd \in [Fds -> Descriptors] /\ NoName \notin Names
  BY FilesAssumption DEF IInv, FdInv
<1>2. fd' = DropDescriptors(n)
  BY DEF FileDelete
<1>3. ASSUME NEW h \in Fds
      PROVE  /\ fd'[h] \in Descriptors
             /\ fd[h].inuse /\ fd[h].filename = n => ~fd'[h].inuse
             /\ ~(fd[h].inuse /\ fd[h].filename = n) => fd'[h] = fd[h]
  <2>1. fd[h] \in Descriptors
    BY <1>1
  <2>2. fd'[h] = IF fd[h].inuse /\ fd[h].filename = n
                 THEN [fd[h] EXCEPT !.inuse = FALSE, !.filename = NoName]
                 ELSE fd[h]
    BY <1>2 DEF DropDescriptors
  <2>3. CASE fd[h].inuse /\ fd[h].filename = n
    <3>1. fd'[h] = [fd[h] EXCEPT !.inuse = FALSE, !.filename = NoName]
      BY <2>2, <2>3
    <3>. QED BY <2>1, <2>3, <3>1 DEF Descriptors
  <2>4. CASE ~(fd[h].inuse /\ fd[h].filename = n)
    BY <2>1, <2>2, <2>4
  <2>. QED BY <2>3, <2>4
<1>4. fd' \in [Fds -> Descriptors]
  <2>1. fd' = [h \in Fds |-> fd'[h]]
    BY <1>2 DEF DropDescriptors
  <2>. QED BY <1>3, <2>1
<1>5. \A h \in Fds : Opened(h)' => Opened(h) /\ fd'[h] = fd[h] /\ fd[h].filename # n
  BY <1>3 DEF Opened
<1>6. \A h \in Fds : fd'[h].inuse => fd'[h] = fd[h]
  BY <1>3
<1>7. CASE i = DFS_FAIL
  <2>1. Return("delete", 0, FILE_FAIL) /\ UNCHANGED <<fname, size, extent>>
    BY <1>7 DEF FileDelete
  <2>2. RetType'
    BY <2>1, Sizes DEF Return, RetType, FILE_FAIL
  <2>3. InodeInv'
    BY <2>1 DEF IInv, InodeInv, SizeCoversExtent, UnusedEmpty, InUse
  <2>4. FdInv'
    <3>1. DescriptorNamesItsFile' /\ OneDescriptorPerFile' /\ OpenedHasName'
      BY <1>5, <2>1 DEF IInv, FdInv, DescriptorNamesItsFile, OneDescriptorPerFile,
           OpenedHasName
    <3>2. EofMeansEnd' /\ EofIsReaders'
      BY <1>5, <1>6, <2>1 DEF IInv, FdInv, EofMeansEnd, EofIsReaders
    <3>. QED BY <1>4, <3>1, <3>2 DEF FdInv
  <2>. QED BY <2>2, <2>3, <2>4 DEF IInv
<1>8. CASE i # DFS_FAIL
  <2>1. i \in Inodes /\ fname[i] = n
    BY <1>8, FoundHasName
  <2>2. /\ fname' = [fname EXCEPT ![i] = NoName] /\ size' = [size EXCEPT ![i] = 0]
        /\ extent' = [extent EXCEPT ![i] = 0] /\ Return("delete", 0, FILE_SUCCESS)
    BY <1>8 DEF FileDelete
  <2>. HIDE DEF i
  <2>3. RetType'
    BY <2>2, Sizes DEF Return, RetType, FILE_SUCCESS
  <2>4. /\ fname \in [Inodes -> Names \cup {NoName}] /\ size \in [Inodes -> Words]
        /\ extent \in [Inodes -> 0 .. MaxVirtual * BlockSize]
        /\ SizeCoversExtent /\ UnusedEmpty
    BY DEF IInv, InodeInv
  <2>5. /\ fname'[i] = NoName /\ size'[i] = 0 /\ extent'[i] = 0
        /\ \A k \in Inodes \ {i} : /\ fname'[k] = fname[k] /\ size'[k] = size[k]
                                   /\ extent'[k] = extent[k]
    BY <2>1, <2>2, <2>4
  <2>6. InodeInv'
    <3>1. 0 \in Words /\ 0 \in 0 .. MaxVirtual * BlockSize
      BY Sizes DEF Words
    <3>2. /\ fname' \in [Inodes -> Names \cup {NoName}] /\ size' \in [Inodes -> Words]
          /\ extent' \in [Inodes -> 0 .. MaxVirtual * BlockSize]
      BY <2>2, <2>4, <3>1
    <3>3. SizeCoversExtent' /\ UnusedEmpty'
      BY <2>4, <2>5 DEF SizeCoversExtent, UnusedEmpty, InUse
    <3>. QED BY <3>2, <3>3 DEF InodeInv
  <2>7. \A h \in Fds : Opened(h)' => fd[h].inode \in Inodes \ {i}
    BY <1>5, <2>1, OpenIsInUse DEF IInv
  <2>8. FdInv'
    <3>1. DescriptorNamesItsFile' /\ OneDescriptorPerFile' /\ OpenedHasName'
      BY <1>5, <2>5, <2>7 DEF IInv, FdInv, DescriptorNamesItsFile, OneDescriptorPerFile,
           OpenedHasName
    <3>2. EofMeansEnd' /\ EofIsReaders'
      BY <1>5, <1>6, <2>5, <2>7 DEF IInv, FdInv, EofMeansEnd, EofIsReaders
    <3>. QED BY <1>4, <3>1, <3>2 DEF FdInv
  <2>. QED BY <2>3, <2>6, <2>8 DEF IInv
<1>. QED BY <1>7, <1>8

LEMMA InitEstablishes == Init => IInv
<1>. SUFFICES ASSUME Init PROVE IInv
  OBVIOUS
<1>1. 0 \in Words /\ 0 \in 0 .. MaxVirtual * BlockSize /\ 0 \in Fds /\ 0 \in Inodes
  BY Sizes DEF Words
<1>2. InodeInv
  BY <1>1 DEF Init, InodeInv, SizeCoversExtent, UnusedEmpty
<1>3. /\ fd \in [Fds -> Descriptors] /\ \A h \in Fds : ~fd[h].inuse
  <2>1. ClosedFd \in Descriptors /\ ~ClosedFd.inuse
    BY <1>1 DEF ClosedFd, Descriptors, Modes
  <2>. QED BY <2>1 DEF Init
<1>4. FdInv
  BY <1>3 DEF FdInv, DescriptorNamesItsFile, OneDescriptorPerFile, EofMeansEnd,
       OpenedHasName, EofIsReaders, Opened
<1>5. RetType
  BY <1>1 DEF Init, RetType, FILE_SUCCESS
<1>. QED BY <1>2, <1>4, <1>5 DEF IInv

-----------------------------------------------------------------------------
(* The theorems *)

\* The invariant is inductive: every file call of files.c, with what dfs.c
\* does for it, keeps the descriptors and the files in step.
THEOREM CallsKeepIInv == Spec => []IInv
<1>1. IInv /\ [Next]_vars => IInv'
  <2>. SUFFICES ASSUME IInv, [Next]_vars PROVE IInv'
    OBVIOUS
  <2>1. CASE UNCHANGED vars
    BY <2>1 DEF vars, IInv, InodeInv, FdInv, RetType, SizeCoversExtent, UnusedEmpty, InUse,
         DescriptorNamesItsFile, OneDescriptorPerFile, EofMeansEnd, OpenedHasName,
         EofIsReaders, Opened
  <2>2. CASE \E n \in Names, m \in Modes : FileOpen(n, m)
    BY <2>2, FileOpenPreserves
  <2>3. CASE \E h \in Fds : FileClose(h)
    BY <2>3, FileClosePreserves
  <2>4. CASE \E h \in Fds, n \in Counts : FileRead(h, n)
    BY <2>4, FileReadPreserves
  <2>5. CASE \E h \in Fds, n \in Counts : FileWrite(h, n)
    BY <2>5, FileWritePreserves
  <2>6. CASE \E h \in Fds, n \in Offsets, w \in Whence : FileSeek(h, n, w)
    BY <2>6, FileSeekPreserves
  <2>7. CASE \E n \in Names : FileDelete(n)
    BY <2>7, FileDeletePreserves
  <2>. QED BY <2>1, <2>2, <2>3, <2>4, <2>5, <2>6, <2>7 DEF Next
<1>. QED BY <1>1, InitEstablishes, PTL DEF Spec

LEMMA IInvHasParts ==
  IInv => /\ TypeOK /\ DescriptorNamesItsFile /\ OneDescriptorPerFile /\ EofMeansEnd
          /\ SizeCoversExtent
BY DEF IInv, InodeInv, FdInv, RetType, TypeOK

\* Types: positions and sizes stay machine words, and a descriptor holds an
\* inode of the table or none, whatever calls are made (files.c:13,
\* files_shared.h:14).
THEOREM TypesHold == Spec => []TypeOK
BY CallsKeepIInv, IInvHasParts, PTL

\* A descriptor refers to the file it was opened under: no deletion or
\* replacement by another process turns it to a file that took over the inode
\* (files.c:56-68, 258-263).
THEOREM DescriptorsNameTheirFile == Spec => []DescriptorNamesItsFile
BY CallsKeepIInv, IInvHasParts, PTL

\* FileOpen gives no file to two descriptors (files.c:54-62).
THEOREM FilesHaveOneDescriptor == Spec => []OneDescriptorPerFile
BY CallsKeepIInv, IInvHasParts, PTL

\* A set end-of-file flag is true: FileRead refuses to read only where there
\* is nothing left (files.c:137, 159-164, 247).
THEOREM EofIsNeverStale == Spec => []EofMeansEnd
BY CallsKeepIInv, IInvHasParts, PTL

\* No byte is stored beyond the size of its file, so that every byte written
\* can be read again (dfs.c:838-889).
THEOREM SizesCoverExtents == Spec => []SizeCoversExtent
BY CallsKeepIInv, IInvHasParts, PTL

\* A read that delivers bytes ends within the file, from whatever position and
\* for every count that the traps let through, negative ones too, and for every
\* width of the machine word; only for a negative count can it deliver more than
\* was asked for (files.c:158-176; traps.c:161).
THEOREM ReadsStayInFile == Spec => ReadStaysInFile
<1>. DEFINE Good == ret'.call = "read" /\ ret'.val > 0
                      => /\ fd'[ret'.h].pos <= size[fd[ret'.h].inode]
                         /\ ret'.asked >= 0 => ret'.val <= ret'.asked
<1>1. IInv /\ Next => Good
  <2>. SUFFICES ASSUME IInv, Next, ret'.call = "read", ret'.val > 0
                PROVE  /\ fd'[ret'.h].pos <= size[fd[ret'.h].inode]
                       /\ ret'.asked >= 0 => ret'.val <= ret'.asked
    OBVIOUS
  <2>1. PICK h \in Fds, n \in Counts : FileRead(h, n)
    <3>1. ASSUME NEW n, NEW m, FileOpen(n, m) PROVE ret'.call = "open"
      BY <3>1 DEF FileOpen, OpenNew, OpenExisting, OpenFails, Descriptor, Return
    <3>2. ASSUME NEW h, FileClose(h) PROVE ret'.call = "close"
      BY <3>2 DEF FileClose, Return
    <3>3. ASSUME NEW h, NEW n, FileWrite(h, n) PROVE ret'.call = "write"
      BY <3>3 DEF FileWrite, ReturnBytes
    <3>4. ASSUME NEW h, NEW n, NEW w, FileSeek(h, n, w) PROVE ret'.call = "seek"
      BY <3>4 DEF FileSeek, Return
    <3>5. ASSUME NEW n, FileDelete(n) PROVE ret'.call = "delete"
      BY <3>5 DEF FileDelete, Return
    <3>. QED BY <3>1, <3>2, <3>3, <3>4, <3>5 DEF Next
  <2>2. ~ReadRefused(h)
    BY <2>1 DEF FileRead, ReturnBytes, FILE_FAIL
  <2>. DEFINE total == Transferred(Signed(fd[h].pos), Clamped(h, n))
              to == Word(fd[h].pos + total)
  <2>3. /\ Opened(h) /\ ReturnBytes("read", h, n, total)
        /\ Defined(Signed(fd[h].pos), Clamped(h, n))
        /\ \/ fd' = fd /\ total = DFS_FAIL
           \/ fd' = [fd EXCEPT ![h].pos = to, ![h].eof = AtEnd(h, n)]
    BY <2>1, <2>2, ReadMoves
  <2>4. total > 0 => to <= size[fd[h].inode]
    BY <2>3, ReadEnds
  <2>5. total > 0 /\ n >= 0 => total <= n
    BY <2>3, ReadBounded
  <2>. HIDE DEF total, to
  <2>6. ret'.h = h /\ ret'.val = total /\ ret'.asked = n
    BY <2>3 DEF ReturnBytes
  <2>7. fd' = [fd EXCEPT ![h].pos = to, ![h].eof = AtEnd(h, n)]
    BY <2>3, <2>6 DEF DFS_FAIL
  <2>8. fd'[h].pos = to
    BY <2>7 DEF IInv, FdInv, Descriptors
  <2>. QED BY <2>4, <2>5, <2>6, <2>8
<1>2. IInv /\ [Next]_vars => [Good]_vars
  BY <1>1
<1>. QED BY <1>2, CallsKeepIInv, PTL DEF Spec, ReadStaysInFile

\* As long as a process has a file open for reading, no call of any process
\* changes the file's name, its size or what is stored (files.c:54-68, 199).
THEOREM ReadersSeeStableFiles == Spec => ReaderSeesStableFile
<1>. DEFINE Same(i) == fname'[i] = fname[i] /\ size'[i] = size[i] /\ extent'[i] = extent[i]
            Good == \A h \in Fds : Opened(h) /\ fd[h].mode = "r" /\ fd'[h].inuse =>
                      LET i == fd[h].inode
                      IN /\ fname'[i] = fname[i]
                         /\ size'[i] = size[i]
                         /\ extent'[i] = extent[i]
<1>1. IInv /\ Next => Good
  <2>. SUFFICES ASSUME IInv, Next, NEW h \in Fds, Opened(h), fd[h].mode = "r", fd'[h].inuse
                PROVE  Same(fd[h].inode)
    OBVIOUS
  <2>1. /\ fd[h].inode \in Inodes /\ InUse(fd[h].inode)
        /\ fname[fd[h].inode] = fd[h].filename
        /\ DOMAIN fname = Inodes /\ DOMAIN size = Inodes /\ DOMAIN extent = Inodes
    BY OpenIsInUse DEF IInv, InodeInv
  <2>2. ASSUME UNCHANGED <<fname, size, extent>> PROVE Same(fd[h].inode)
    BY <2>2
  <2>3. ASSUME NEW n \in Names, NEW m \in Modes, FileOpen(n, m) PROVE Same(fd[h].inode)
    <3>. DEFINE i == DfsInodeFilenameExists(n)
    <3>1. CASE i = DFS_FAIL /\ m # "r" /\ Unused # {}
      <4>. DEFINE j == First(Unused)
      <4>1. Unused \in SUBSET Nat
        BY Sizes DEF Unused
      <4>2. j \in Unused
        BY <3>1, <4>1, LeastIsChosen DEF First
      <4>3. j # fd[h].inode
        BY <2>1, <4>2 DEF Unused
      <4>. HIDE DEF j
      <4>4. /\ fname' = [fname EXCEPT ![j] = n] /\ size' = [size EXCEPT ![j] = 0]
            /\ extent' = extent
        BY <2>3, <3>1 DEF FileOpen, OpenNew, j
      <4>. QED BY <2>1, <4>3, <4>4
    <3>2. CASE i # DFS_FAIL /\ ~UsedByAnother(i) /\ m # "r"
      <4>. DEFINE j == First(Unused \cup {i})
      <4>1. i \in Inodes
        BY <3>2, FoundHasName
      <4>2. Unused \cup {i} \in SUBSET Nat
        BY <4>1, Sizes DEF Unused
      <4>3. j \in Unused \cup {i}
        BY <4>2, LeastIsChosen DEF First
      <4>4. i # fd[h].inode
        BY <3>2 DEF UsedByAnother, Opened
      <4>5. j # fd[h].inode
        BY <2>1, <4>3, <4>4 DEF Unused
      <4>6. /\ fname' = [fname EXCEPT ![i] = NoName, ![j] = n]
            /\ size' = [size EXCEPT ![i] = 0, ![j] = 0]
            /\ extent' = [extent EXCEPT ![i] = 0]
        BY <2>3, <3>2 DEF FileOpen, OpenExisting
      <4>. HIDE DEF i, j
      <4>. QED BY <2>1, <4>4, <4>5, <4>6
    <3>3. CASE \/ i = DFS_FAIL /\ (m = "r" \/ Unused = {})
               \/ i # DFS_FAIL /\ (UsedByAnother(i) \/ m = "r")
      BY <2>2, <2>3, <3>3 DEF FileOpen, OpenNew, OpenExisting, OpenFails
    <3>. QED BY <3>1, <3>2, <3>3
  <2>4. ASSUME NEW k \in Fds, NEW n \in Counts, FileWrite(k, n) PROVE Same(fd[h].inode)
    <3>1. CASE WriteRefused(k)
      BY <2>2, <2>4, <3>1 DEF FileWrite
    <3>2. CASE ~WriteRefused(k)
      <4>. DEFINE i == fd[k].inode
      <4>1. /\ Opened(k) /\ fd[k].mode = "w"
        BY <2>4, <3>2 DEF FileWrite, WriteRefused, Opened, IInv, FdInv, Descriptors, Modes
      <4>2. k # h
        BY <4>1
      <4>3. i # fd[h].inode
        BY <4>1, <4>2 DEF IInv, FdInv, OneDescriptorPerFile
      <4>4. /\ fname' = fname /\ \E v : size' = [size EXCEPT ![i] = v]
            /\ \E v : extent' = [extent EXCEPT ![i] = v]
        BY <2>4, <3>2 DEF FileWrite
      <4>. HIDE DEF i
      <4>. QED BY <2>1, <4>3, <4>4
    <3>. QED BY <3>1, <3>2
  <2>5. ASSUME NEW n \in Names, FileDelete(n) PROVE Same(fd[h].inode)
    <3>. DEFINE i == DfsInodeFilenameExists(n)
    <3>1. CASE i = DFS_FAIL
      BY <2>2, <2>5, <3>1 DEF FileDelete
    <3>2. CASE i # DFS_FAIL
      <4>1. fname[i] = n
        BY <3>2, FoundHasName
      <4>2. fd[h].filename # n
        <5>1. fd' = DropDescriptors(n)
          BY <2>5 DEF FileDelete
        <5>2. fd[h] \in Descriptors
          BY DEF IInv, FdInv
        <5>. QED BY <5>1, <5>2 DEF DropDescriptors, Descriptors, Opened
      <4>3. i # fd[h].inode
        BY <2>1, <4>1, <4>2
      <4>4. /\ fname' = [fname EXCEPT ![i] = NoName] /\ size' = [size EXCEPT ![i] = 0]
            /\ extent' = [extent EXCEPT ![i] = 0]
        BY <2>5, <3>2 DEF FileDelete
      <4>. HIDE DEF i
      <4>. QED BY <2>1, <4>3, <4>4
    <3>. QED BY <3>1, <3>2
  <2>6. ASSUME NEW k \in Fds, FileClose(k) PROVE Same(fd[h].inode)
    BY <2>2, <2>6 DEF FileClose
  <2>7. ASSUME NEW k \in Fds, NEW n \in Counts, FileRead(k, n) PROVE Same(fd[h].inode)
    BY <2>2, <2>7 DEF FileRead
  <2>8. ASSUME NEW k \in Fds, NEW n \in Offsets, NEW w \in Whence, FileSeek(k, n, w)
        PROVE  Same(fd[h].inode)
    BY <2>2, <2>8 DEF FileSeek
  <2>. HIDE DEF Same
  <2>. QED BY <2>3, <2>4, <2>5, <2>6, <2>7, <2>8 DEF Next
<1>2. IInv /\ [Next]_vars => [Good]_vars
  BY <1>1
<1>. QED BY <1>2, CallsKeepIInv, PTL DEF Spec, ReaderSeesStableFile
=============================================================================
