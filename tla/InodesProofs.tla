---------------------------- MODULE InodesProofs ----------------------------
(***************************************************************************)
(* Proofs about Inodes for every size of the disk, of its blocks and of    *)
(* the inodes: no two pointers of the file system ever name one block,     *)
(* the allocated blocks are those the inodes refer to, a name finds one    *)
(* file, and no byte anybody wrote lies beyond the end of its file; a      *)
(* write stores what it is given and disturbs no other file, and a read    *)
(* returns what the file has.                                              *)
(*                                                                         *)
(* The pointers of an inode are a tree of depth three.  The proofs see it  *)
(* as a function ptr from its places to block numbers, and each call as a  *)
(* change of ptr at the places of one path.                                *)
(***************************************************************************)
EXTENDS Inodes, QueueTheorems

Leaf(v) == [kind |-> "data", at |-> v]
SecondLevel(i) == [kind |-> "table", at |-> i]
Single == [kind |-> "indirect", at |-> 0]
Double == [kind |-> "double", at |-> 0]
TablePlaces == Places \ {Leaf(v) : v \in 0 .. MaxVirtual - 1}

ptr == [h \in Inodes |-> [p \in Places |-> PointerAt(h, p)]]
cells == [h \in Inodes |-> [o \in Offsets |-> CellOf(h, o)]]

\* The pointers of one inode, of its own d, s and t and of the tables in C.
EntryIn(C, t, i) == IF t = 0 THEN 0 ELSE ReadBlock(C, t)[i]
LeafIn(C, d, s, t, v) ==
  CASE IsDirect(v)   -> d[v]
    [] IsIndirect(v) -> EntryIn(C, s, v - NumDirect)
    [] OTHER         -> EntryIn(C, EntryIn(C, t, Beyond(v) \div BlockSize),
                                Beyond(v) % BlockSize)
At(C, d, s, t, p) ==
  CASE p.kind = "data"     -> LeafIn(C, d, s, t, p.at)
    [] p.kind = "table"    -> EntryIn(C, t, p.at)
    [] p.kind = "indirect" -> s
    [] p.kind = "double"   -> t

-----------------------------------------------------------------------------
(* Sizes and indices *)

LEMMA Sizes ==
  /\ NumReserved \in Nat /\ NumReserved > 0 /\ NumBlocks \in Nat /\ NumReserved <= NumBlocks
  /\ NumInodes \in Nat /\ NumInodes > 0
  /\ NumDirect \in Nat /\ NumDirect > 0 /\ BlockSize \in Nat /\ BlockSize > 0
  /\ BlockSize * BlockSize \in Nat
  /\ MaxVirtual \in Nat /\ MaxVirtual = (NumDirect + BlockSize) + (BlockSize * BlockSize)
  /\ MaxVirtual * BlockSize \in Nat
<1>1. /\ NumReserved \in Nat /\ NumReserved > 0 /\ NumBlocks \in Nat
      /\ NumReserved <= NumBlocks /\ NumInodes \in Nat /\ NumInodes > 0
      /\ NumDirect \in Nat /\ NumDirect > 0 /\ BlockSize \in Nat /\ BlockSize > 0
  BY InodesAssumption
<1>2. BlockSize * BlockSize \in Nat
  BY <1>1
<1>3. MaxVirtual \in Nat /\ MaxVirtual = (NumDirect + BlockSize) + (BlockSize * BlockSize)
  BY <1>1, <1>2 DEF MaxVirtual
<1>4. MaxVirtual * BlockSize \in Nat
  BY <1>1, <1>3
<1>. QED BY <1>1, <1>2, <1>3, <1>4

LEMMA BlockSets ==
  /\ Blocks \subseteq Nat /\ Reserved \subseteq Blocks /\ 0 \in Reserved /\ 0 \in Blocks
  /\ DFS_FAIL \notin Blocks /\ DFS_FAIL # 0 /\ DFS_FAIL \in Int
  /\ Blocks \subseteq BlockNums /\ DFS_FAIL \in BlockNums
  /\ \A x \in BlockNums : x \in Blocks \/ x = DFS_FAIL
  /\ Junk \notin Blocks /\ Junk # DFS_FAIL /\ Junk # 0 /\ Junk \notin Data
  /\ Inodes \subseteq Nat /\ Cells \subseteq Nat /\ 0 \in Cells
<1>1. /\ Blocks \subseteq Nat /\ Reserved \subseteq Blocks /\ 0 \in Reserved /\ 0 \in Blocks
      /\ DFS_FAIL \notin Blocks /\ DFS_FAIL # 0 /\ DFS_FAIL \in Int
      /\ Inodes \subseteq Nat /\ Cells \subseteq Nat /\ 0 \in Cells
  BY Sizes DEF Blocks, Reserved, DFS_FAIL, Inodes, Cells
<1>2. Junk \notin Data \cup BlockNums
  BY InodesAssumption
<1>. QED BY <1>1, <1>2 DEF BlockNums

LEMMA CellRange == \A c : c \in Cells <=> c \in Nat /\ c < BlockSize
BY Sizes DEF Cells

\* The double indirect range is a square of cells.
LEMMA DoubleIndex ==
  ASSUME NEW v \in Nat, ~IsDirect(v), ~IsIndirect(v), v < MaxVirtual
  PROVE  /\ Beyond(v) \div BlockSize \in Cells
         /\ Beyond(v) % BlockSize \in Cells
         /\ v = (NumDirect + BlockSize)
                  + ((BlockSize * (Beyond(v) \div BlockSize)) + (Beyond(v) % BlockSize))
<1>. DEFINE B == BlockSize
            x == Beyond(v)
            q == x \div B
            r == x % B
<1>1. B \in Nat /\ B > 0 /\ NumDirect \in Nat /\ B * B \in Nat
  BY Sizes
<1>2. v >= NumDirect + B
  BY <1>1 DEF IsDirect, IsIndirect
<1>3. x \in Nat /\ v = (NumDirect + B) + x /\ x < B * B
  BY <1>1, <1>2, Sizes DEF Beyond
<1>. HIDE DEF B, x
<1>4. q \in Nat /\ r \in Nat /\ r < B /\ x = (B * q) + r
  BY <1>1, <1>3
<1>5. q < B
  <2>. SUFFICES ASSUME q >= B PROVE FALSE
    BY <1>1, <1>4
  <2>. HIDE DEF q, r
  <2>1. B * q >= B * B
    BY <1>1, <1>4
  <2>2. B * q \in Nat
    BY <1>1, <1>4
  <2>. QED BY <1>1, <1>3, <1>4, <2>1, <2>2
<1>6. q \in Cells /\ r \in Cells
  BY <1>4, <1>5, CellRange DEF B
<1>. QED BY <1>3, <1>4, <1>6 DEF B, x

\* An offset is a block of the file and a cell of the block.
LEMMA OffsetIndex ==
  ASSUME NEW o \in Offsets
  PROVE  /\ o \in Nat
         /\ o \div BlockSize \in 0 .. MaxVirtual - 1
         /\ o % BlockSize \in Cells
         /\ o = (BlockSize * (o \div BlockSize)) + (o % BlockSize)
<1>. DEFINE B == BlockSize
            q == o \div B
            r == o % B
            M == MaxVirtual
<1>1. B \in Nat /\ B > 0 /\ M \in Nat /\ M * B \in Nat
  BY Sizes
<1>2. o \in Nat /\ o < M * B
  BY <1>1 DEF Offsets
<1>. HIDE DEF B, M
<1>3. q \in Nat /\ r \in Nat /\ r < B /\ o = (B * q) + r
  BY <1>1, <1>2
<1>4. q < M
  <2>. SUFFICES ASSUME q >= M PROVE FALSE
    BY <1>1, <1>3
  <2>. HIDE DEF q, r
  <2>1. B * q >= M * B
    BY <1>1, <1>3
  <2>2. B * q \in Nat
    BY <1>1, <1>3
  <2>. QED BY <1>1, <1>2, <1>3, <2>1, <2>2
<1>5. r \in Cells /\ q \in 0 .. M - 1
  BY <1>1, <1>3, <1>4, CellRange DEF B
<1>. QED BY <1>2, <1>3, <1>5 DEF B, M

-----------------------------------------------------------------------------
(* The next free block *)

LEMMA NextFreeIs ==
  ASSUME NEW a \in SUBSET Blocks
  PROVE  /\ NextFree(a) \in BlockNums
         /\ NextFree(a) # DFS_FAIL => NextFree(a) \in Blocks \ a /\ Take(a) = a \cup {NextFree(a)}
         /\ NextFree(a) = DFS_FAIL => a = Blocks /\ Take(a) = a
         /\ Take(a) \in SUBSET Blocks
<1>1. CASE a = Blocks
  BY <1>1, BlockSets DEF NextFree, Take
<1>2. CASE a # Blocks
  <2>1. Blocks \ a \in SUBSET Nat /\ Blocks \ a # {}
    BY <1>2, BlockSets
  <2>2. NextFree(a) \in Blocks \ a
    BY <1>2, <2>1, LeastIsChosen DEF NextFree
  <2>. QED BY <2>2, BlockSets DEF Take
<1>. QED BY <1>1, <1>2

-----------------------------------------------------------------------------
(* The places of an inode *)

LEMMA PlacesAre ==
  /\ \A v \in 0 .. MaxVirtual - 1 : Leaf(v) \in Places /\ Leaf(v) \notin TablePlaces
  /\ \A i \in Cells : SecondLevel(i) \in TablePlaces
  /\ Single \in TablePlaces /\ Double \in TablePlaces
  /\ TablePlaces \subseteq Places
  /\ \A p \in TablePlaces : p = Single \/ p = Double \/ \E i \in Cells : p = SecondLevel(i)
  /\ \A p \in Places : p \in TablePlaces \/ \E v \in 0 .. MaxVirtual - 1 : p = Leaf(v)
  /\ \A v, w : Leaf(v) = Leaf(w) => v = w
  /\ \A i, j : SecondLevel(i) = SecondLevel(j) => i = j
  /\ \A v, i : Leaf(v) # SecondLevel(i)
  /\ \A v : Leaf(v) # Single /\ Leaf(v) # Double
  /\ \A i : SecondLevel(i) # Single /\ SecondLevel(i) # Double
  /\ Single # Double
<1>1. /\ \A v : Leaf(v).kind = "data" /\ Leaf(v).at = v
      /\ \A i : SecondLevel(i).kind = "table" /\ SecondLevel(i).at = i
      /\ Single.kind = "indirect" /\ Double.kind = "double"
  BY DEF Leaf, SecondLevel, Single, Double
<1>2. /\ \A v, w : Leaf(v) = Leaf(w) => v = w
      /\ \A i, j : SecondLevel(i) = SecondLevel(j) => i = j
      /\ \A v, i : Leaf(v) # SecondLevel(i)
      /\ \A v : Leaf(v) # Single /\ Leaf(v) # Double
      /\ \A i : SecondLevel(i) # Single /\ SecondLevel(i) # Double
      /\ Single # Double
  BY <1>1
<1>3. /\ \A v \in 0 .. MaxVirtual - 1 : Leaf(v) \in Places
      /\ \A i \in Cells : SecondLevel(i) \in Places
      /\ Single \in Places /\ Double \in Places
  BY DEF Places, Leaf, SecondLevel, Single, Double
<1>4. ASSUME NEW p \in Places
      PROVE  \/ p = Single \/ p = Double \/ \E i \in Cells : p = SecondLevel(i)
             \/ \E v \in 0 .. MaxVirtual - 1 : p = Leaf(v)
  BY DEF Places, Leaf, SecondLevel, Single, Double
<1>. QED BY <1>2, <1>3, <1>4 DEF TablePlaces

LEMMA AtLeaf ==
  ASSUME NEW C, NEW d, NEW s, NEW t, NEW v
  PROVE  At(C, d, s, t, Leaf(v)) = LeafIn(C, d, s, t, v)
BY DEF At, Leaf

LEMMA AtSecond ==
  ASSUME NEW C, NEW d, NEW s, NEW t, NEW i
  PROVE  At(C, d, s, t, SecondLevel(i)) = EntryIn(C, t, i)
BY DEF At, SecondLevel

LEMMA AtRoots ==
  ASSUME NEW C, NEW d, NEW s, NEW t
  PROVE  At(C, d, s, t, Single) = s /\ At(C, d, s, t, Double) = t
BY DEF At, Single, Double

LEMMA PtrIs ==
  ASSUME NEW h \in Inodes
  PROVE  /\ \A p \in Places :
              /\ ptr[h][p] = At(content, direct[h], indirect[h], double_indirect[h], p)
              /\ ptr[h][p] = PointerAt(h, p)
              /\ ptr'[h][p] = At(content', direct'[h], indirect'[h], double_indirect'[h], p)
         /\ \A v \in 0 .. MaxVirtual - 1 : ptr[h][Leaf(v)] = Pointer(h, v)
<1>1. ASSUME NEW p \in Places
      PROVE  ptr[h][p] = At(content, direct[h], indirect[h], double_indirect[h], p)
  BY DEF ptr, At, LeafIn, EntryIn, PointerAt, Pointer, Entry
<1>2. ASSUME NEW p \in Places
      PROVE  ptr'[h][p] = At(content', direct'[h], indirect'[h], double_indirect'[h], p)
  BY DEF ptr, At, LeafIn, EntryIn, PointerAt, Pointer, Entry
<1>3. ASSUME NEW p \in Places PROVE ptr[h][p] = PointerAt(h, p)
  BY DEF ptr
<1>4. ASSUME NEW v \in 0 .. MaxVirtual - 1 PROVE ptr[h][Leaf(v)] = Pointer(h, v)
  <2>1. ptr[h][Leaf(v)] = PointerAt(h, Leaf(v))
    BY <1>3, PlacesAre
  <2>. QED BY <2>1 DEF PointerAt, Leaf
<1>. QED BY <1>1, <1>2, <1>3, <1>4
-----------------------------------------------------------------------------
(* What new pointers do to the pointers of an inode *)

LEMMA NoTable ==
  ASSUME NEW C, NEW t, NEW c \in Cells, t \notin Blocks \/ t = 0
  PROVE  EntryIn(C, t, c) = IF t = 0 THEN 0 ELSE Junk
BY DEF EntryIn, ReadBlock, JunkBlock

LEMMA InTable ==
  ASSUME NEW C, NEW t \in Blocks, t # 0, NEW c
  PROVE  EntryIn(C, t, c) = C[t][c]
BY DEF EntryIn, ReadBlock

LEMMA SameTable ==
  ASSUME NEW C, NEW C2, NEW t, t \in Blocks /\ t # 0 => C2[t] = C[t]
  PROVE  \A c : EntryIn(C2, t, c) = EntryIn(C, t, c)
BY DEF EntryIn, ReadBlock

LEMMA LeafForms ==
  ASSUME NEW C, NEW d, NEW s, NEW t, NEW v \in Nat
  PROVE  /\ IsDirect(v) => LeafIn(C, d, s, t, v) = d[v]
         /\ ~IsDirect(v) /\ IsIndirect(v) =>
              LeafIn(C, d, s, t, v) = EntryIn(C, s, v - NumDirect)
         /\ ~IsDirect(v) /\ ~IsIndirect(v) =>
              LeafIn(C, d, s, t, v) =
                EntryIn(C, EntryIn(C, t, Beyond(v) \div BlockSize), Beyond(v) % BlockSize)
<1>1. ~(IsDirect(v) /\ IsIndirect(v))
  BY Sizes DEF IsDirect, IsIndirect
<1>. QED BY <1>1 DEF LeafIn

\* A fact about every place is one about four kinds of places.
LEMMA EveryPlace ==
  ASSUME NEW C, NEW d, NEW s, NEW t, NEW F
  PROVE  (\A p \in Places : At(C, d, s, t, p) = F[p]) <=>
           /\ s = F[Single] /\ t = F[Double]
           /\ \A i \in Cells : EntryIn(C, t, i) = F[SecondLevel(i)]
           /\ \A v \in 0 .. MaxVirtual - 1 : LeafIn(C, d, s, t, v) = F[Leaf(v)]
<1>1. \A v : At(C, d, s, t, Leaf(v)) = LeafIn(C, d, s, t, v)
  BY AtLeaf
<1>2. /\ \A i : At(C, d, s, t, SecondLevel(i)) = EntryIn(C, t, i)
      /\ At(C, d, s, t, Single) = s
      /\ At(C, d, s, t, Double) = t
  BY AtSecond, AtRoots
<1>3. ASSUME \A p \in Places : At(C, d, s, t, p) = F[p]
      PROVE  /\ s = F[Single] /\ t = F[Double]
             /\ \A i \in Cells : EntryIn(C, t, i) = F[SecondLevel(i)]
             /\ \A v \in 0 .. MaxVirtual - 1 : LeafIn(C, d, s, t, v) = F[Leaf(v)]
  BY <1>1, <1>2, <1>3, PlacesAre
<1>4. ASSUME s = F[Single], t = F[Double],
             \A i \in Cells : EntryIn(C, t, i) = F[SecondLevel(i)],
             \A v \in 0 .. MaxVirtual - 1 : LeafIn(C, d, s, t, v) = F[Leaf(v)],
             NEW p \in Places
      PROVE  At(C, d, s, t, p) = F[p]
  <2>1. CASE p = Single \/ p = Double
    BY <1>2, <1>4, <2>1
  <2>2. CASE \E i \in Cells : p = SecondLevel(i)
    BY <1>2, <1>4, <2>2
  <2>3. CASE \E v \in 0 .. MaxVirtual - 1 : p = Leaf(v)
    BY <1>1, <1>4, <2>3
  <2>. QED BY <2>1, <2>2, <2>3, PlacesAre
<1>. QED BY <1>3, <1>4

\* The same pointers behind other tables, seen from one inode.
LEMMA SameTables ==
  ASSUME NEW C, NEW C2, NEW d, NEW s, NEW t,
         \A p \in TablePlaces : At(C, d, s, t, p) \in Blocks \ {0} =>
           C2[At(C, d, s, t, p)] = C[At(C, d, s, t, p)]
  PROVE  \A p \in Places : At(C2, d, s, t, p) = At(C, d, s, t, p)
<1>. DEFINE F == [p \in Places |-> At(C, d, s, t, p)]
<1>1. /\ s = F[Single] /\ t = F[Double]
      /\ \A i \in Cells : EntryIn(C, t, i) = F[SecondLevel(i)]
      /\ \A v \in 0 .. MaxVirtual - 1 : LeafIn(C, d, s, t, v) = F[Leaf(v)]
  BY EveryPlace
<1>2. /\ s \in Blocks /\ s # 0 => C2[s] = C[s]
      /\ t \in Blocks /\ t # 0 => C2[t] = C[t]
      /\ \A i \in Cells : EntryIn(C, t, i) \in Blocks /\ EntryIn(C, t, i) # 0 =>
           C2[EntryIn(C, t, i)] = C[EntryIn(C, t, i)]
  BY PlacesAre, AtSecond, AtRoots
<1>3. \A c : EntryIn(C2, s, c) = EntryIn(C, s, c)
  BY <1>2, SameTable
<1>4. \A c : EntryIn(C2, t, c) = EntryIn(C, t, c)
  BY <1>2, SameTable
<1>5. ASSUME NEW i \in Cells, NEW c
      PROVE  EntryIn(C2, EntryIn(C, t, i), c) = EntryIn(C, EntryIn(C, t, i), c)
  <2>. DEFINE x == EntryIn(C, t, i)
  <2>1. x \in Blocks /\ x # 0 => C2[x] = C[x]
    BY <1>2
  <2>. HIDE DEF x
  <2>2. EntryIn(C2, x, c) = EntryIn(C, x, c)
    BY <2>1, SameTable
  <2>. QED BY <2>2 DEF x
<1>6. ASSUME NEW v \in 0 .. MaxVirtual - 1
      PROVE  LeafIn(C2, d, s, t, v) = LeafIn(C, d, s, t, v)
  <2>1. v \in Nat /\ v < MaxVirtual
    BY Sizes
  <2>2. CASE IsDirect(v)
    BY <2>1, <2>2, LeafForms
  <2>3. CASE ~IsDirect(v) /\ IsIndirect(v)
    BY <1>3, <2>1, <2>3, LeafForms
  <2>4. CASE ~IsDirect(v) /\ ~IsIndirect(v)
    BY <1>4, <1>5, <2>1, <2>4, LeafForms, DoubleIndex
  <2>. QED BY <2>2, <2>3, <2>4
<1>. HIDE DEF F
<1>7. \A p \in Places : At(C2, d, s, t, p) = F[p]
  BY <1>1, <1>4, <1>6, EveryPlace
<1>. QED BY <1>7 DEF F

\* Pointer v of the inode itself becomes b.
SetDirect(d, d2, v, b) == \A w \in 0 .. NumDirect - 1 : d2[w] = IF w = v THEN b ELSE d[w]

\* The tables that an inode refers to from outside E are the same.
KeepsTables(C, C2, d, s, t, E) ==
  \A p \in TablePlaces : p \notin E /\ At(C, d, s, t, p) \in Blocks \ {0} =>
    C2[At(C, d, s, t, p)] = C[At(C, d, s, t, p)]

LEMMA GrowDirect ==
  ASSUME NEW C, NEW C2, NEW d, NEW d2, NEW s, NEW t,
         NEW v \in 0 .. MaxVirtual - 1, IsDirect(v), NEW b,
         SetDirect(d, d2, v, b), KeepsTables(C, C2, d, s, t, {})
  PROVE  \A p \in Places :
           At(C2, d2, s, t, p) = IF p = Leaf(v) THEN b ELSE At(C, d, s, t, p)
<1>0. \A p \in Places : At(C2, d, s, t, p) = At(C, d, s, t, p)
  BY SameTables DEF KeepsTables
<1>. DEFINE F == [p \in Places |-> IF p = Leaf(v) THEN b ELSE At(C2, d, s, t, p)]
<1>1. /\ s = F[Single] /\ t = F[Double]
      /\ \A i \in Cells : EntryIn(C2, t, i) = F[SecondLevel(i)]
  BY PlacesAre, AtSecond, AtRoots
<1>2. \A w \in 0 .. MaxVirtual - 1 :
        F[Leaf(w)] = IF w = v THEN b ELSE LeafIn(C2, d, s, t, w)
  BY PlacesAre, AtLeaf
<1>. HIDE DEF F
<1>3. ASSUME NEW w \in 0 .. MaxVirtual - 1
      PROVE  LeafIn(C2, d2, s, t, w) = F[Leaf(w)]
  <2>1. w \in Nat
    BY Sizes
  <2>2. CASE IsDirect(w)
    <3>1. w \in 0 .. NumDirect - 1
      BY <2>1, <2>2, Sizes DEF IsDirect
    <3>2. d2[w] = IF w = v THEN b ELSE d[w]
      BY <3>1 DEF SetDirect
    <3>3. LeafIn(C2, d2, s, t, w) = d2[w]
      BY <2>1, <2>2, LeafForms
    <3>4. LeafIn(C2, d, s, t, w) = d[w]
      BY <2>1, <2>2, LeafForms
    <3>. QED BY <1>2, <3>2, <3>3, <3>4
  <2>3. CASE ~IsDirect(w)
    <3>1. w # v
      BY <2>3
    <3>2. LeafIn(C2, d2, s, t, w) = LeafIn(C2, d, s, t, w)
      BY <2>1, <2>3, LeafForms
    <3>. QED BY <1>2, <3>1, <3>2
  <2>. QED BY <2>2, <2>3
<1>4. \A p \in Places : At(C2, d2, s, t, p) = F[p]
  BY <1>1, <1>3, EveryPlace
<1>. QED BY <1>0, <1>4 DEF F

LEMMA IndirectIndex ==
  ASSUME NEW v \in Nat, ~IsDirect(v), IsIndirect(v)
  PROVE  v - NumDirect \in Cells
BY Sizes, CellRange DEF IsDirect, IsIndirect

\* Table s2 is what table s was, with b as its entry i.
SetsEntry(C, C2, s, s2, i, b) ==
  \A c \in Cells : C2[s2][c] = IF c = i THEN b ELSE EntryIn(C, s, c)

\* A table with a leaf under it.
LEMMA GrowIndirect ==
  ASSUME NEW C, NEW C2, NEW d, NEW s, NEW t, NEW s2 \in Blocks, s2 # 0, NEW b,
         NEW v \in 0 .. MaxVirtual - 1, ~IsDirect(v), IsIndirect(v),
         SetsEntry(C, C2, s, s2, v - NumDirect, b), KeepsTables(C, C2, d, s, t, {Single})
  PROVE  \A p \in Places :
           At(C2, d, s2, t, p) = IF p = Single THEN s2
                                 ELSE IF p = Leaf(v) THEN b ELSE At(C, d, s, t, p)
<1>. DEFINE F == [p \in Places |-> IF p = Single THEN s2
                                   ELSE IF p = Leaf(v) THEN b ELSE At(C, d, s, t, p)]
<1>1. /\ s2 = F[Single] /\ t = F[Double]
      /\ \A i \in Cells : EntryIn(C, t, i) = F[SecondLevel(i)]
  BY PlacesAre, AtSecond, AtRoots
<1>2. \A w \in 0 .. MaxVirtual - 1 :
        F[Leaf(w)] = IF w = v THEN b ELSE LeafIn(C, d, s, t, w)
  BY PlacesAre, AtLeaf
<1>. HIDE DEF F
<1>3. /\ t \in Blocks /\ t # 0 => C2[t] = C[t]
      /\ \A i \in Cells : EntryIn(C, t, i) \in Blocks /\ EntryIn(C, t, i) # 0 =>
           C2[EntryIn(C, t, i)] = C[EntryIn(C, t, i)]
  BY PlacesAre, AtSecond, AtRoots DEF KeepsTables
<1>4. \A c : EntryIn(C2, t, c) = EntryIn(C, t, c)
  BY <1>3 DEF EntryIn, ReadBlock
<1>5. ASSUME NEW i \in Cells, NEW c
      PROVE  EntryIn(C2, EntryIn(C, t, i), c) = EntryIn(C, EntryIn(C, t, i), c)
  <2>. DEFINE x == EntryIn(C, t, i)
  <2>1. x \in Blocks /\ x # 0 => C2[x] = C[x]
    BY <1>3
  <2>. HIDE DEF x
  <2>2. EntryIn(C2, x, c) = EntryIn(C, x, c)
    BY <2>1 DEF EntryIn, ReadBlock
  <2>. QED BY <2>2 DEF x
<1>6. ASSUME NEW w \in 0 .. MaxVirtual - 1
      PROVE  LeafIn(C2, d, s2, t, w) = F[Leaf(w)]
  <2>1. w \in Nat /\ w < MaxVirtual /\ v \in Nat
    BY Sizes
  <2>2. CASE IsDirect(w)
    <3>1. w # v
      BY <2>2
    <3>. QED BY <1>2, <2>1, <2>2, <3>1, LeafForms
  <2>3. CASE ~IsDirect(w) /\ IsIndirect(w)
    <3>1. w - NumDirect \in Cells /\ (w - NumDirect = v - NumDirect <=> w = v)
      BY <2>1, <2>3, IndirectIndex, Sizes
    <3>2. EntryIn(C2, s2, w - NumDirect) = C2[s2][w - NumDirect]
      BY InTable
    <3>3. /\ LeafIn(C2, d, s2, t, w) = EntryIn(C2, s2, w - NumDirect)
          /\ LeafIn(C, d, s, t, w) = EntryIn(C, s, w - NumDirect)
      BY <2>1, <2>3, LeafForms
    <3>. QED BY <1>2, <3>1, <3>2, <3>3 DEF SetsEntry
  <2>4. CASE ~IsDirect(w) /\ ~IsIndirect(w)
    <3>1. w # v
      BY <2>4
    <3>2. LeafIn(C2, d, s2, t, w) = LeafIn(C, d, s, t, w)
      BY <1>4, <1>5, <2>1, <2>4, LeafForms, DoubleIndex
    <3>. QED BY <1>2, <3>1, <3>2
  <2>. QED BY <2>2, <2>3, <2>4
<1>7. \A p \in Places : At(C2, d, s2, t, p) = F[p]
  BY <1>1, <1>4, <1>6, EveryPlace
<1>. QED BY <1>7 DEF F

\* Two tables, one in the other, with a leaf under them.
LEMMA GrowDouble ==
  ASSUME NEW C, NEW C2, NEW d, NEW s, NEW t,
         NEW t1 \in Blocks, t1 # 0, NEW t2 \in Blocks, t2 # 0, NEW b,
         NEW v \in 0 .. MaxVirtual - 1, ~IsDirect(v), ~IsIndirect(v),
         NEW i1 \in Cells, NEW i2 \in Cells,
         i1 = Beyond(v) \div BlockSize, i2 = Beyond(v) % BlockSize,
         SetsEntry(C, C2, t, t1, i1, t2), SetsEntry(C, C2, EntryIn(C, t, i1), t2, i2, b),
         KeepsTables(C, C2, d, s, t, {Double, SecondLevel(i1)})
  PROVE  \A p \in Places :
           At(C2, d, s, t1, p) = IF p = Double THEN t1
                                 ELSE IF p = SecondLevel(i1) THEN t2
                                 ELSE IF p = Leaf(v) THEN b ELSE At(C, d, s, t, p)
<1>. DEFINE F == [p \in Places |-> IF p = Double THEN t1
                                   ELSE IF p = SecondLevel(i1) THEN t2
                                   ELSE IF p = Leaf(v) THEN b ELSE At(C, d, s, t, p)]
<1>1. /\ s = F[Single] /\ t1 = F[Double]
      /\ \A i \in Cells : F[SecondLevel(i)] = IF i = i1 THEN t2 ELSE EntryIn(C, t, i)
  BY PlacesAre, AtSecond, AtRoots
<1>2. \A w \in 0 .. MaxVirtual - 1 :
        F[Leaf(w)] = IF w = v THEN b ELSE LeafIn(C, d, s, t, w)
  BY PlacesAre, AtLeaf
<1>. HIDE DEF F
<1>3. s \in Blocks /\ s # 0 => C2[s] = C[s]
  BY PlacesAre, AtSecond, AtRoots DEF KeepsTables
<1>4. \A i \in Cells :
        i # i1 /\ EntryIn(C, t, i) \in Blocks /\ EntryIn(C, t, i) # 0 =>
          C2[EntryIn(C, t, i)] = C[EntryIn(C, t, i)]
  BY PlacesAre, AtSecond, AtRoots DEF KeepsTables
<1>5. \A c : EntryIn(C2, s, c) = EntryIn(C, s, c)
  BY <1>3 DEF EntryIn, ReadBlock
<1>6. \A c \in Cells : EntryIn(C2, t1, c) = IF c = i1 THEN t2 ELSE EntryIn(C, t, c)
  BY InTable DEF SetsEntry
<1>7. \A c \in Cells :
        EntryIn(C2, t2, c) = IF c = i2 THEN b ELSE EntryIn(C, EntryIn(C, t, i1), c)
  BY InTable DEF SetsEntry
<1>8. ASSUME NEW i \in Cells, i # i1, NEW c
      PROVE  EntryIn(C2, EntryIn(C, t, i), c) = EntryIn(C, EntryIn(C, t, i), c)
  <2>. DEFINE x == EntryIn(C, t, i)
  <2>1. x \in Blocks /\ x # 0 => C2[x] = C[x]
    BY <1>4, <1>8
  <2>. HIDE DEF x
  <2>2. EntryIn(C2, x, c) = EntryIn(C, x, c)
    BY <2>1 DEF EntryIn, ReadBlock
  <2>. QED BY <2>2 DEF x
<1>9. ASSUME NEW w \in 0 .. MaxVirtual - 1
      PROVE  LeafIn(C2, d, s, t1, w) = F[Leaf(w)]
  <2>1. w \in Nat /\ w < MaxVirtual /\ v \in Nat /\ v < MaxVirtual
    BY Sizes
  <2>2. CASE IsDirect(w) \/ IsIndirect(w)
    <3>1. w # v
      BY <2>2
    <3>2. LeafIn(C2, d, s, t1, w) = LeafIn(C, d, s, t, w)
      BY <1>5, <2>1, <2>2, LeafForms
    <3>. QED BY <1>2, <3>1, <3>2
  <2>3. CASE ~IsDirect(w) /\ ~IsIndirect(w)
    <3>. DEFINE j1 == Beyond(w) \div BlockSize
                j2 == Beyond(w) % BlockSize
                base == NumDirect + BlockSize
    <3>1. /\ j1 \in Cells /\ j2 \in Cells
          /\ w = base + ((BlockSize * j1) + j2)
      BY <2>1, <2>3, DoubleIndex
    <3>2. v = base + ((BlockSize * i1) + i2)
      BY <2>1, DoubleIndex
    <3>3. /\ LeafIn(C2, d, s, t1, w) = EntryIn(C2, EntryIn(C2, t1, j1), j2)
          /\ LeafIn(C, d, s, t, w) = EntryIn(C, EntryIn(C, t, j1), j2)
      BY <2>1, <2>3, LeafForms
    <3>. HIDE DEF j1, j2, base
    <3>4. j1 = i1 /\ j2 = i2 => w = v
      BY <3>1, <3>2
    <3>5. w = v => j1 = i1 /\ j2 = i2
      BY DEF j1, j2
    <3>6. CASE j1 = i1
      <4>1. LeafIn(C2, d, s, t1, w) =
              IF j2 = i2 THEN b ELSE EntryIn(C, EntryIn(C, t, i1), j2)
        BY <1>6, <1>7, <3>1, <3>3, <3>6
      <4>. QED BY <1>2, <3>3, <3>4, <3>5, <3>6, <4>1
    <3>7. CASE j1 # i1
      <4>1. LeafIn(C2, d, s, t1, w) = LeafIn(C, d, s, t, w)
        BY <1>6, <1>8, <3>1, <3>3, <3>7
      <4>. QED BY <1>2, <3>5, <3>7, <4>1
    <3>. QED BY <3>6, <3>7
  <2>. QED BY <2>2, <2>3
<1>10. \A i \in Cells : EntryIn(C2, t1, i) = F[SecondLevel(i)]
  BY <1>1, <1>6
<1>11. s = F[Single] /\ t1 = F[Double]
  BY <1>1
<1>12. \A p \in Places : At(C2, d, s, t1, p) = F[p]
  BY <1>9, <1>10, <1>11, EveryPlace
<1>. QED BY <1>12 DEF F

\* A table that a full disk did not give: what is under it is nowhere.
LEMMA LoseIndirect ==
  ASSUME NEW C, NEW d, NEW t
  PROVE  \A p \in Places :
           IF p = Single THEN At(C, d, DFS_FAIL, t, p) = DFS_FAIL
           ELSE \/ At(C, d, DFS_FAIL, t, p) = At(C, d, 0, t, p)
                \/ /\ At(C, d, DFS_FAIL, t, p) = Junk /\ At(C, d, 0, t, p) = 0
                   /\ p \notin TablePlaces
<1>1. At(C, d, DFS_FAIL, t, Single) = DFS_FAIL
  BY AtSecond, AtRoots
<1>2. At(C, d, DFS_FAIL, t, Double) = t /\ At(C, d, 0, t, Double) = t
  BY AtSecond, AtRoots
<1>3. ASSUME NEW i \in Cells
      PROVE  At(C, d, DFS_FAIL, t, SecondLevel(i)) = At(C, d, 0, t, SecondLevel(i))
  <2>1. At(C, d, DFS_FAIL, t, SecondLevel(i)) = EntryIn(C, t, i)
    BY AtSecond
  <2>2. At(C, d, 0, t, SecondLevel(i)) = EntryIn(C, t, i)
    BY AtSecond
  <2>. QED BY <2>1, <2>2
<1>4. ASSUME NEW v \in 0 .. MaxVirtual - 1
      PROVE  \/ At(C, d, DFS_FAIL, t, Leaf(v)) = At(C, d, 0, t, Leaf(v))
             \/ At(C, d, DFS_FAIL, t, Leaf(v)) = Junk /\ At(C, d, 0, t, Leaf(v)) = 0
  <2>1. v \in Nat
    BY Sizes
  <2>2. /\ At(C, d, DFS_FAIL, t, Leaf(v)) = LeafIn(C, d, DFS_FAIL, t, v)
        /\ At(C, d, 0, t, Leaf(v)) = LeafIn(C, d, 0, t, v)
    BY AtLeaf
  <2>3. CASE ~IsDirect(v) /\ IsIndirect(v)
    <3>1. v - NumDirect \in Cells
      BY <2>1, <2>3, IndirectIndex
    <3>2. EntryIn(C, 0, v - NumDirect) = 0 /\ EntryIn(C, DFS_FAIL, v - NumDirect) = Junk
      BY <3>1, NoTable, BlockSets
    <3>. QED BY <2>1, <2>2, <2>3, <3>2, LeafForms
  <2>4. CASE IsDirect(v) \/ ~IsIndirect(v)
    BY <2>1, <2>2, <2>4, LeafForms
  <2>. QED BY <2>3, <2>4
<1>. QED BY <1>1, <1>2, <1>3, <1>4, PlacesAre

LEMMA LoseDouble ==
  ASSUME NEW C, NEW d, NEW s
  PROVE  \A p \in Places :
           IF p = Double THEN At(C, d, s, DFS_FAIL, p) = DFS_FAIL
           ELSE \/ At(C, d, s, DFS_FAIL, p) = At(C, d, s, 0, p)
                \/ At(C, d, s, DFS_FAIL, p) = Junk /\ At(C, d, s, 0, p) = 0
<1>1. At(C, d, s, DFS_FAIL, Double) = DFS_FAIL
  BY AtSecond, AtRoots
<1>2. At(C, d, s, DFS_FAIL, Single) = s /\ At(C, d, s, 0, Single) = s
  BY AtSecond, AtRoots
<1>3. \A i \in Cells : EntryIn(C, 0, i) = 0 /\ EntryIn(C, DFS_FAIL, i) = Junk
  BY NoTable, BlockSets
<1>4. \A i \in Cells : EntryIn(C, Junk, i) = Junk
  BY NoTable, BlockSets
<1>5. ASSUME NEW i \in Cells
      PROVE  /\ At(C, d, s, DFS_FAIL, SecondLevel(i)) = Junk
             /\ At(C, d, s, 0, SecondLevel(i)) = 0
  <2>1. At(C, d, s, DFS_FAIL, SecondLevel(i)) = EntryIn(C, DFS_FAIL, i)
    BY AtSecond
  <2>2. At(C, d, s, 0, SecondLevel(i)) = EntryIn(C, 0, i)
    BY AtSecond
  <2>. QED BY <1>3, <2>1, <2>2
<1>6. ASSUME NEW v \in 0 .. MaxVirtual - 1
      PROVE  \/ At(C, d, s, DFS_FAIL, Leaf(v)) = At(C, d, s, 0, Leaf(v))
             \/ At(C, d, s, DFS_FAIL, Leaf(v)) = Junk /\ At(C, d, s, 0, Leaf(v)) = 0
  <2>1. v \in Nat /\ v < MaxVirtual
    BY Sizes
  <2>2. /\ At(C, d, s, DFS_FAIL, Leaf(v)) = LeafIn(C, d, s, DFS_FAIL, v)
        /\ At(C, d, s, 0, Leaf(v)) = LeafIn(C, d, s, 0, v)
    BY AtLeaf
  <2>3. CASE ~IsDirect(v) /\ ~IsIndirect(v)
    <3>1. Beyond(v) \div BlockSize \in Cells /\ Beyond(v) % BlockSize \in Cells
      BY <2>1, <2>3, DoubleIndex
    <3>2. LeafIn(C, d, s, DFS_FAIL, v) = Junk
      BY <1>3, <1>4, <2>1, <2>3, <3>1, LeafForms
    <3>3. LeafIn(C, d, s, 0, v) = 0
      BY <1>3, <2>1, <2>3, <3>1, LeafForms
    <3>. QED BY <2>2, <3>2, <3>3
  <2>4. CASE IsDirect(v) \/ IsIndirect(v)
    BY <2>1, <2>2, <2>4, LeafForms
  <2>. QED BY <2>3, <2>4
<1>. QED BY <1>1, <1>2, <1>5, <1>6, PlacesAre

LEMMA LoseSecond ==
  ASSUME NEW C, NEW C2, NEW d, NEW s, NEW t, NEW t1 \in Blocks, t1 # 0, NEW i1 \in Cells,
         EntryIn(C, t, i1) = 0,
         SetsEntry(C, C2, t, t1, i1, DFS_FAIL), KeepsTables(C, C2, d, s, t, {Double})
  PROVE  \A p \in Places :
           IF p = Double THEN At(C2, d, s, t1, p) = t1
           ELSE IF p = SecondLevel(i1) THEN At(C2, d, s, t1, p) = DFS_FAIL
           ELSE \/ At(C2, d, s, t1, p) = At(C, d, s, t, p)
                \/ /\ At(C2, d, s, t1, p) = Junk /\ At(C, d, s, t, p) = 0
                   /\ p \notin TablePlaces
<1>1. /\ At(C2, d, s, t1, Double) = t1
      /\ At(C2, d, s, t1, Single) = s /\ At(C, d, s, t, Single) = s
  BY AtRoots
<1>2. \A c \in Cells :
        EntryIn(C2, t1, c) = IF c = i1 THEN DFS_FAIL ELSE EntryIn(C, t, c)
  BY InTable DEF SetsEntry
<1>3. ASSUME NEW i \in Cells
      PROVE  /\ At(C2, d, s, t1, SecondLevel(i)) = EntryIn(C2, t1, i)
             /\ At(C, d, s, t, SecondLevel(i)) = EntryIn(C, t, i)
  BY AtSecond
<1>4. s \in Blocks /\ s # 0 => C2[s] = C[s]
  BY <1>1, PlacesAre DEF KeepsTables
<1>5. \A i \in Cells :
        EntryIn(C, t, i) \in Blocks /\ EntryIn(C, t, i) # 0 =>
          C2[EntryIn(C, t, i)] = C[EntryIn(C, t, i)]
  BY <1>3, PlacesAre DEF KeepsTables
<1>6. \A c : EntryIn(C2, s, c) = EntryIn(C, s, c)
  BY <1>4 DEF EntryIn, ReadBlock
<1>7. ASSUME NEW i \in Cells, NEW c
      PROVE  EntryIn(C2, EntryIn(C, t, i), c) = EntryIn(C, EntryIn(C, t, i), c)
  <2>. DEFINE x == EntryIn(C, t, i)
  <2>1. x \in Blocks /\ x # 0 => C2[x] = C[x]
    BY <1>5
  <2>. HIDE DEF x
  <2>2. EntryIn(C2, x, c) = EntryIn(C, x, c)
    BY <2>1 DEF EntryIn, ReadBlock
  <2>. QED BY <2>2 DEF x
<1>8. ASSUME NEW v \in 0 .. MaxVirtual - 1
      PROVE  \/ At(C2, d, s, t1, Leaf(v)) = At(C, d, s, t, Leaf(v))
             \/ At(C2, d, s, t1, Leaf(v)) = Junk /\ At(C, d, s, t, Leaf(v)) = 0
  <2>1. v \in Nat /\ v < MaxVirtual
    BY Sizes
  <2>2. /\ At(C2, d, s, t1, Leaf(v)) = LeafIn(C2, d, s, t1, v)
        /\ At(C, d, s, t, Leaf(v)) = LeafIn(C, d, s, t, v)
    BY AtLeaf
  <2>3. CASE IsDirect(v) \/ IsIndirect(v)
    <3>1. LeafIn(C2, d, s, t1, v) = LeafIn(C, d, s, t, v)
      BY <1>6, <2>1, <2>3, LeafForms
    <3>. QED BY <2>2, <3>1
  <2>4. CASE ~IsDirect(v) /\ ~IsIndirect(v)
    <3>. DEFINE j1 == Beyond(v) \div BlockSize
                j2 == Beyond(v) % BlockSize
    <3>1. j1 \in Cells /\ j2 \in Cells
      BY <2>1, <2>4, DoubleIndex
    <3>2. /\ LeafIn(C2, d, s, t1, v) = EntryIn(C2, EntryIn(C2, t1, j1), j2)
          /\ LeafIn(C, d, s, t, v) = EntryIn(C, EntryIn(C, t, j1), j2)
      BY <2>1, <2>4, LeafForms
    <3>. HIDE DEF j1, j2
    <3>3. CASE j1 = i1
      <4>1. LeafIn(C2, d, s, t1, v) = Junk
        BY <1>2, <3>1, <3>2, <3>3, NoTable, BlockSets
      <4>2. LeafIn(C, d, s, t, v) = 0
        BY <3>1, <3>2, <3>3, NoTable
      <4>. QED BY <2>2, <4>1, <4>2
    <3>4. CASE j1 # i1
      BY <1>2, <1>7, <2>2, <3>1, <3>2, <3>4
    <3>. QED BY <3>3, <3>4
  <2>. QED BY <2>3, <2>4
<1>. QED BY <1>1, <1>2, <1>3, <1>8, PlacesAre
-----------------------------------------------------------------------------
(* The tree of pointers *)

FsTypes ==
  /\ direct \in [Inodes -> [0 .. NumDirect - 1 -> BlockNums]]
  /\ indirect \in [Inodes -> BlockNums]
  /\ double_indirect \in [Inodes -> BlockNums]
  /\ fbv \in SUBSET Blocks
  /\ content \in [Blocks -> [Cells -> Cell]]

\* What is under a table that was lost is nowhere, and nothing else is.
Numbers ==
  \A h \in Inodes, p \in Places :
    /\ ptr[h][p] \in BlockNums \cup {Junk}
    /\ ptr[h][p] = Junk => \E q \in TablePlaces : ptr[h][q] = DFS_FAIL

Unshared ==
  \A h, k \in Inodes, p, q \in Places :
    ptr[h][p] \in Blocks \ {0} =>
      /\ ptr[h][p] \notin Reserved
      /\ ptr[k][q] = ptr[h][p] => h = k /\ p = q

Counted ==
  \A x \in Blocks :
    x \in fbv <=> x \in Reserved \/ \E h \in Inodes, p \in Places : ptr[h][p] = x

Tree == FsTypes /\ Numbers /\ Unshared /\ Counted

\* What a step does that writes block v of h: it changes new blocks, tables of
\* h and that block, and gives h the new blocks.
Touched(v) == (TablePlaces \cup {Leaf(v)}) \cap Places
Framed(h, v) ==
  \A x \in Blocks :
    content'[x] # content[x] =>
      x \in fbv' \ fbv \/ (x # 0 /\ \E p \in Touched(v) : ptr[h][p] = x)
Wrote(h, v) ==
  /\ fbv' \subseteq Blocks /\ fbv \subseteq fbv'
  /\ \A k \in Inodes, p \in Places : k # h => ptr'[k][p] = ptr[k][p]
  /\ \A p \in Places :
       \/ ptr'[h][p] = ptr[h][p]
       \/ /\ ptr[h][p] \in {0, DFS_FAIL}
          /\ \/ ptr'[h][p] \in {DFS_FAIL, Junk}
             \/ ptr'[h][p] \in fbv' \ fbv /\ p \in Touched(v)
  /\ \A p, q \in Places : ptr'[h][p] \in fbv' \ fbv /\ ptr'[h][q] = ptr'[h][p] => p = q
  /\ \A x \in fbv' \ fbv : \E p \in Places : ptr'[h][p] = x
  /\ \A p \in Places : ptr'[h][p] = Junk => \E q \in TablePlaces : ptr'[h][q] = DFS_FAIL
  /\ Framed(h, v)

LEMMA TableLostIs ==
  ASSUME NEW h \in Inodes
  PROVE  TableLost(h) <=> \E q \in TablePlaces : ptr[h][q] = DFS_FAIL
<1>. DEFINE C == content
            d == direct[h]
            s == indirect[h]
            t == double_indirect[h]
<1>1. \A i \in Cells : Entry(t, i) = EntryIn(C, t, i)
  BY DEF Entry, EntryIn
<1>2. \A p \in Places : ptr[h][p] = At(C, d, s, t, p)
  BY PtrIs
<1>3. TablesOf(h) = {s, t} \cup {Entry(t, i) : i \in Cells}
  BY DEF TablesOf
<1>. HIDE DEF C, d, s, t
<1>4. /\ ptr[h][Single] = s /\ ptr[h][Double] = t
      /\ \A i \in Cells : ptr[h][SecondLevel(i)] = Entry(t, i)
  <2>1. ptr[h][Single] = s /\ ptr[h][Double] = t
    BY <1>2, AtRoots, PlacesAre
  <2>2. ASSUME NEW i \in Cells PROVE ptr[h][SecondLevel(i)] = Entry(t, i)
    <3>1. At(C, d, s, t, SecondLevel(i)) = EntryIn(C, t, i)
      BY AtSecond
    <3>. QED BY <1>1, <1>2, <3>1, PlacesAre
  <2>. QED BY <2>1, <2>2
<1>5. ASSUME DFS_FAIL \in TablesOf(h)
      PROVE  \E q \in TablePlaces : ptr[h][q] = DFS_FAIL
  <2>1. CASE s = DFS_FAIL \/ t = DFS_FAIL
    BY <1>4, <2>1, PlacesAre
  <2>2. CASE \E i \in Cells : Entry(t, i) = DFS_FAIL
    BY <1>4, <2>2, PlacesAre
  <2>. QED BY <1>3, <1>5, <2>1, <2>2
<1>6. ASSUME NEW q \in TablePlaces, ptr[h][q] = DFS_FAIL
      PROVE  DFS_FAIL \in TablesOf(h)
  <2>1. CASE q = Single \/ q = Double
    BY <1>3, <1>4, <1>6, <2>1
  <2>2. CASE \E i \in Cells : q = SecondLevel(i)
    BY <1>3, <1>4, <1>6, <2>2
  <2>. QED BY <2>1, <2>2, PlacesAre
<1>. QED BY <1>5, <1>6 DEF TableLost

LEMMA RefsAre ==
  ASSUME NEW h \in Inodes
  PROVE  \A x : x \in Refs(h) <=> x # 0 /\ \E p \in Places : ptr[h][p] = x
<1>. DEFINE t == double_indirect[h]
<1>1. /\ ptr[h][Single] = indirect[h] /\ ptr[h][Double] = t
      /\ \A i \in Cells : ptr[h][SecondLevel(i)] = Entry(t, i)
  <2>1. /\ ptr[h][Single] = PointerAt(h, Single) /\ ptr[h][Double] = PointerAt(h, Double)
        /\ \A i \in Cells : ptr[h][SecondLevel(i)] = PointerAt(h, SecondLevel(i))
    BY PtrIs, PlacesAre
  <2>. QED BY <2>1 DEF PointerAt, Single, Double, SecondLevel
<1>2. \A v \in 0 .. MaxVirtual - 1 : ptr[h][Leaf(v)] = Pointer(h, v)
  BY PtrIs
<1>3. /\ TablesOf(h) = {indirect[h], t} \cup {Entry(t, i) : i \in Cells}
      /\ LeavesOf(h) = {Pointer(h, v) : v \in 0 .. MaxVirtual - 1}
      /\ Refs(h) = (LeavesOf(h) \cup TablesOf(h)) \ {0}
  BY DEF TablesOf, LeavesOf, Refs
<1>. HIDE DEF t
<1>4. ASSUME NEW x \in Refs(h)
      PROVE  x # 0 /\ \E p \in Places : ptr[h][p] = x
  <2>1. CASE x = indirect[h] \/ x = t
    BY <1>1, <1>3, <1>4, <2>1, PlacesAre
  <2>2. CASE \E i \in Cells : x = Entry(t, i)
    BY <1>1, <1>3, <1>4, <2>2, PlacesAre
  <2>3. CASE \E v \in 0 .. MaxVirtual - 1 : x = Pointer(h, v)
    BY <1>2, <1>3, <1>4, <2>3, PlacesAre
  <2>. QED BY <1>3, <1>4, <2>1, <2>2, <2>3
<1>5. ASSUME NEW p \in Places, ptr[h][p] # 0 PROVE ptr[h][p] \in Refs(h)
  <2>1. CASE p = Single \/ p = Double
    BY <1>1, <1>3, <1>5, <2>1
  <2>2. CASE \E i \in Cells : p = SecondLevel(i)
    BY <1>1, <1>3, <1>5, <2>2
  <2>3. CASE \E v \in 0 .. MaxVirtual - 1 : p = Leaf(v)
    BY <1>2, <1>3, <1>5, <2>3
  <2>. QED BY <2>1, <2>2, <2>3, PlacesAre
<1>. QED BY <1>4, <1>5

\* A pointer to a block of the next state is the one of this state, or new.
LEMMA WroteNamed ==
  ASSUME Tree, NEW h \in Inodes, NEW v, Wrote(h, v),
         NEW k \in Inodes, NEW p \in Places, ptr'[k][p] \in Blocks \ {0}
  PROVE  \/ ptr'[k][p] = ptr[k][p] /\ ptr[k][p] \in fbv
         \/ k = h /\ ptr'[k][p] \in fbv' \ fbv /\ p \in Touched(v)
<1>1. ptr'[k][p] # DFS_FAIL /\ ptr'[k][p] # Junk
  BY BlockSets
<1>2. \/ ptr'[k][p] = ptr[k][p]
      \/ k = h /\ ptr'[k][p] \in fbv' \ fbv /\ p \in Touched(v)
  BY <1>1 DEF Wrote
<1>3. ptr'[k][p] = ptr[k][p] => ptr[k][p] \in fbv
  BY DEF Tree, Counted
<1>. QED BY <1>2, <1>3

LEMMA WroteKeepsNamed ==
  ASSUME Tree, NEW h \in Inodes, NEW v, Wrote(h, v),
         NEW k \in Inodes, NEW p \in Places, ptr[k][p] \in Blocks \ {0}
  PROVE  ptr'[k][p] = ptr[k][p]
<1>1. ptr[k][p] # DFS_FAIL /\ ptr[k][p] # 0
  BY BlockSets
<1>. QED BY <1>1 DEF Wrote

LEMMA WroteKeepsTree ==
  ASSUME Tree, NEW h \in Inodes, NEW v, Wrote(h, v), FsTypes'
  PROVE  Tree'
<1>1. Numbers'
  <2>. SUFFICES ASSUME NEW k \in Inodes, NEW p \in Places
                PROVE  /\ ptr'[k][p] \in BlockNums \cup {Junk}
                       /\ ptr'[k][p] = Junk => \E q \in TablePlaces : ptr'[k][q] = DFS_FAIL
    BY DEF Numbers
  <2>1. /\ ptr[k][p] \in BlockNums \cup {Junk}
        /\ ptr[k][p] = Junk => \E q \in TablePlaces : ptr[k][q] = DFS_FAIL
    BY DEF Tree, Numbers
  <2>2. CASE k # h
    <3>1. \A q \in Places : ptr'[k][q] = ptr[k][q]
      BY <2>2 DEF Wrote
    <3>. QED BY <2>1, <3>1, PlacesAre
  <2>3. CASE k = h
    <3>1. \/ ptr'[k][p] = ptr[k][p]
          \/ ptr'[k][p] \in {DFS_FAIL, Junk}
          \/ ptr'[k][p] \in fbv'
      BY <2>3 DEF Wrote
    <3>2. fbv' \subseteq Blocks
      BY DEF Wrote
    <3>3. ptr'[k][p] = Junk => \E q \in TablePlaces : ptr'[k][q] = DFS_FAIL
      BY <2>3 DEF Wrote
    <3>. QED BY <2>1, <3>1, <3>2, <3>3, BlockSets
  <2>. QED BY <2>2, <2>3
<1>2. Unshared'
  <2>. SUFFICES ASSUME NEW a \in Inodes, NEW k \in Inodes, NEW p \in Places, NEW q \in Places,
                       ptr'[a][p] \in Blocks \ {0}
                PROVE  /\ ptr'[a][p] \notin Reserved
                       /\ ptr'[k][q] = ptr'[a][p] => a = k /\ p = q
    BY DEF Unshared
  <2>1. \/ ptr'[a][p] = ptr[a][p] /\ ptr[a][p] \in fbv
        \/ a = h /\ ptr'[a][p] \in fbv' \ fbv
    BY WroteNamed
  <2>2. ptr'[a][p] \notin Reserved
    <3>1. Reserved \subseteq fbv
      BY BlockSets DEF Tree, Counted
    <3>2. ptr[a][p] \in Blocks \ {0} => ptr[a][p] \notin Reserved
      BY DEF Tree, Unshared
    <3>. QED BY <2>1, <3>1, <3>2
  <2>3. ASSUME ptr'[k][q] = ptr'[a][p] PROVE a = k /\ p = q
    <3>1. \/ ptr'[k][q] = ptr[k][q] /\ ptr[k][q] \in fbv
          \/ k = h /\ ptr'[k][q] \in fbv' \ fbv
      BY <2>3, WroteNamed
    <3>2. CASE ptr'[a][p] \in fbv
      <4>1. ptr[a][p] = ptr'[a][p] /\ ptr[k][q] = ptr[a][p]
        BY <2>1, <2>3, <3>1, <3>2
      <4>. QED BY <4>1 DEF Tree, Unshared
    <3>3. CASE ptr'[a][p] \notin fbv
      <4>1. a = h /\ k = h /\ ptr'[h][p] \in fbv' \ fbv /\ ptr'[h][q] = ptr'[h][p]
        BY <2>1, <2>3, <3>1, <3>3
      <4>. QED BY <4>1 DEF Wrote
    <3>. QED BY <3>2, <3>3
  <2>. QED BY <2>2, <2>3
<1>3. Counted'
  <2>. SUFFICES ASSUME NEW x \in Blocks
                PROVE  x \in fbv' <=>
                         x \in Reserved \/ \E k \in Inodes, p \in Places : ptr'[k][p] = x
    BY DEF Counted
  <2>0. x \in fbv <=> x \in Reserved \/ \E k \in Inodes, p \in Places : ptr[k][p] = x
    BY DEF Tree, Counted
  <2>1. fbv \subseteq fbv'
    BY DEF Wrote
  <2>2. ASSUME x \in fbv', x \notin Reserved
        PROVE  \E k \in Inodes, p \in Places : ptr'[k][p] = x
    <3>1. x # 0
      BY <2>2, BlockSets
    <3>2. CASE x \in fbv
      <4>1. PICK k \in Inodes, p \in Places : ptr[k][p] = x
        BY <2>0, <2>2, <3>2
      <4>2. ptr'[k][p] = x
        BY <3>1, <4>1, WroteKeepsNamed
      <4>. QED BY <4>2
    <3>3. CASE x \notin fbv
      BY <2>2, <3>3 DEF Wrote
    <3>. QED BY <3>2, <3>3
  <2>3. ASSUME NEW k \in Inodes, NEW p \in Places, ptr'[k][p] = x
        PROVE  x \in fbv'
    <3>1. CASE x = 0
      BY <2>0, <2>1, <3>1, BlockSets
    <3>2. CASE x # 0
      BY <2>1, <2>3, <3>2, WroteNamed
    <3>. QED BY <3>1, <3>2
  <2>4. x \in Reserved => x \in fbv'
    BY <2>0, <2>1
  <2>. QED BY <2>2, <2>3, <2>4
<1>. QED BY <1>1, <1>2, <1>3 DEF Tree

LEMMA OtherInode ==
  ASSUME Tree, NEW h \in Inodes, NEW k \in Inodes, k # h, NEW v, Framed(h, v),
         direct'[k] = direct[k], indirect'[k] = indirect[k],
         double_indirect'[k] = double_indirect[k]
  PROVE  \A p \in Places : ptr'[k][p] = ptr[k][p]
<1>. DEFINE d == direct[k]
            s == indirect[k]
            t == double_indirect[k]
            C == content
            C2 == content'
<1>1. \A p \in Places : ptr[k][p] = At(C, d, s, t, p)
  BY PtrIs
<1>2. \A p \in Places : ptr'[k][p] = At(C2, d, s, t, p)
  BY PtrIs
<1>3. ASSUME NEW p \in TablePlaces, ptr[k][p] \in Blocks \ {0}
      PROVE  C2[ptr[k][p]] = C[ptr[k][p]]
  <2>1. p \in Places
    BY PlacesAre
  <2>2. ptr[k][p] \in fbv
    BY <1>3, <2>1 DEF Tree, Counted
  <2>3. \A q \in Places : ptr[h][q] # ptr[k][p]
    BY <1>3, <2>1 DEF Tree, Unshared
  <2>. QED BY <1>3, <2>2, <2>3 DEF Framed, Touched
<1>. HIDE DEF d, s, t, C, C2
<1>4. \A p \in TablePlaces : At(C, d, s, t, p) \in Blocks \ {0} =>
        C2[At(C, d, s, t, p)] = C[At(C, d, s, t, p)]
  BY <1>1, <1>3, PlacesAre
<1>5. \A p \in Places : At(C2, d, s, t, p) = At(C, d, s, t, p)
  BY <1>4, SameTables
<1>. QED BY <1>1, <1>2, <1>5

\* Entry i of table t is set; s is what the pointer to the table was.
LEMMA SetEntryIs ==
  ASSUME NEW C \in [Blocks -> [Cells -> Cell]], NEW s \in BlockNums, NEW t \in Blocks, t # 0,
         s # 0 => s = t, NEW i \in Cells, NEW b \in BlockNums,
         NEW R, R = SetEntry(C, t, s = 0, i, b)
  PROVE  /\ R \in [Blocks -> [Cells -> Cell]]
         /\ SetsEntry(C, R, s, t, i, b)
         /\ \A x \in Blocks : x # t => R[x] = C[x]
<1>. DEFINE old == IF s = 0 THEN ZeroBlock ELSE ReadBlock(C, t)
<1>1. old \in [Cells -> Cell]
  <2>1. ZeroBlock \in [Cells -> Cell]
    BY BlockSets DEF ZeroBlock, Cell
  <2>. QED BY <2>1 DEF ReadBlock
<1>2. \A c \in Cells : old[c] = EntryIn(C, s, c)
  BY DEF ZeroBlock, ReadBlock, EntryIn
<1>3. b \in Cell
  BY DEF Cell
<1>4. R = [C EXCEPT ![t] = [old EXCEPT ![i] = b]]
  BY DEF SetEntry, WriteBlock
<1>. HIDE DEF old
<1>5. [old EXCEPT ![i] = b] \in [Cells -> Cell]
  BY <1>1, <1>3
<1>6. \A c \in Cells : [old EXCEPT ![i] = b][c] = IF c = i THEN b ELSE EntryIn(C, s, c)
  BY <1>1, <1>2
<1>7. R \in [Blocks -> [Cells -> Cell]] /\ R[t] = [old EXCEPT ![i] = b]
      /\ \A x \in Blocks : x # t => R[x] = C[x]
  BY <1>4, <1>5
<1>. QED BY <1>6, <1>7 DEF SetsEntry

LEMMA SetNowhere ==
  ASSUME NEW C, NEW fresh, NEW i, NEW b
  PROVE  SetEntry(C, DFS_FAIL, fresh, i, b) = C
BY BlockSets DEF SetEntry, WriteBlock

LEMMA WriteBlockIs ==
  ASSUME NEW C \in [Blocks -> [Cells -> Cell]], NEW b, NEW X \in [Cells -> Cell]
  PROVE  /\ WriteBlock(C, b, X) \in [Blocks -> [Cells -> Cell]]
         /\ b \in Blocks => WriteBlock(C, b, X)[b] = X
         /\ \A x \in Blocks : x # b => WriteBlock(C, b, X)[x] = C[x]
         /\ b \notin Blocks => WriteBlock(C, b, X) = C
BY DEF WriteBlock

-----------------------------------------------------------------------------
(* The allocation of a block for a file, and what is stored in it *)

Gives(h, v, b, X) ==
  /\ FsTypes' /\ Wrote(h, v)
  /\ b \in Blocks => b # 0 /\ ptr'[h][Leaf(v)] = b /\ content'[b] = X
  /\ b \notin Blocks => ptr'[h][Leaf(v)] \notin Blocks \ {0}

LEMMA NewBlock ==
  ASSUME Tree, NEW a \in SUBSET Blocks, fbv \subseteq a, NextFree(a) # DFS_FAIL
  PROVE  /\ NextFree(a) \in Blocks \ a /\ NextFree(a) # 0 /\ NextFree(a) \notin fbv
         /\ Take(a) = a \cup {NextFree(a)}
<1>1. NextFree(a) \in Blocks \ a /\ Take(a) = a \cup {NextFree(a)}
  BY NextFreeIs
<1>2. 0 \in fbv
  BY BlockSets DEF Tree, Counted
<1>. QED BY <1>1, <1>2

LEMMA DirectEffect ==
  ASSUME Tree, NEW h \in Inodes, NEW v \in 0 .. MaxVirtual - 1, IsDirect(v),
         ptr[h][Leaf(v)] \in {0, DFS_FAIL}, NEW X \in [Cells -> Cell],
         fbv' = Take(fbv), content' = WriteBlock(content, NextFree(fbv), X),
         direct' = [direct EXCEPT ![h][v] = NextFree(fbv)],
         UNCHANGED <<indirect, double_indirect>>
  PROVE  Gives(h, v, NextFree(fbv), X)
<1>. DEFINE b == NextFree(fbv)
            d == direct[h]
            s == indirect[h]
            t == double_indirect[h]
<1>1. /\ fbv \in SUBSET Blocks /\ content \in [Blocks -> [Cells -> Cell]]
      /\ direct \in [Inodes -> [0 .. NumDirect - 1 -> BlockNums]]
      /\ d \in [0 .. NumDirect - 1 -> BlockNums]
  BY DEF Tree, FsTypes
<1>2. b \in BlockNums /\ (b = DFS_FAIL => fbv' = fbv)
  BY <1>1, NextFreeIs
<1>3. b # DFS_FAIL => b \in Blocks /\ b # 0 /\ b \notin fbv /\ fbv' = fbv \cup {b}
  BY <1>1, NewBlock
<1>4. /\ content' \in [Blocks -> [Cells -> Cell]]
      /\ b \in Blocks => content'[b] = X
      /\ \A x \in Blocks : x # b => content'[x] = content[x]
  BY <1>1, WriteBlockIs
<1>5. direct' = [direct EXCEPT ![h] = [d EXCEPT ![v] = b]]
  BY <1>1
<1>6. /\ direct'[h] = [d EXCEPT ![v] = b]
      /\ direct' \in [Inodes -> [0 .. NumDirect - 1 -> BlockNums]]
      /\ \A k \in Inodes : k # h => direct'[k] = direct[k]
  <2>1. [d EXCEPT ![v] = b] \in [0 .. NumDirect - 1 -> BlockNums]
    BY <1>1, <1>2
  <2>. HIDE DEF b, d
  <2>. QED BY <1>1, <1>5, <2>1
<1>7. fbv' \in SUBSET Blocks /\ fbv \subseteq fbv'
  BY <1>1, <1>2, <1>3
<1>8. FsTypes'
  BY <1>4, <1>6, <1>7 DEF Tree, FsTypes
<1>. HIDE DEF b
<1>9. Framed(h, v)
  BY <1>3, <1>4, BlockSets DEF Framed
<1>10. \A k \in Inodes, p \in Places : k # h => ptr'[k][p] = ptr[k][p]
  BY <1>6, <1>9, OtherInode
<1>11. \A p \in Places : ptr[h][p] = At(content, d, s, t, p)
  BY PtrIs
<1>12. \A p \in Places : ptr'[h][p] = At(content', direct'[h], s, t, p)
  BY PtrIs
<1>13. \A p \in TablePlaces : At(content, d, s, t, p) \in Blocks \ {0} =>
         content'[At(content, d, s, t, p)] = content[At(content, d, s, t, p)]
  <2>1. ASSUME NEW p \in TablePlaces, ptr[h][p] \in Blocks \ {0}
        PROVE  content'[ptr[h][p]] = content[ptr[h][p]]
    <3>1. ptr[h][p] \in fbv
      BY <2>1, PlacesAre DEF Tree, Counted
    <3>. QED BY <1>3, <1>4, <2>1, <3>1, BlockSets
  <2>. HIDE DEF d, s, t
  <2>. QED BY <1>11, <2>1, PlacesAre
<1>14. \A p \in Places : ptr'[h][p] = IF p = Leaf(v) THEN b ELSE ptr[h][p]
  <2>. DEFINE d2 == direct'[h]
              C2 == content'
              C == content
  <2>1. SetDirect(d, d2, v, b)
    BY <1>1, <1>6 DEF SetDirect
  <2>2. KeepsTables(C, C2, d, s, t, {})
    BY <1>13 DEF KeepsTables
  <2>3. \A p \in Places : ptr'[h][p] = At(C2, d2, s, t, p)
    BY <1>12
  <2>. HIDE DEF d, s, t, d2, C2, C
  <2>5. \A p \in Places : At(C2, d2, s, t, p) = IF p = Leaf(v) THEN b ELSE At(C, d, s, t, p)
    BY <2>1, <2>2, GrowDirect
  <2>6. \A p \in Places : ptr[h][p] = At(C, d, s, t, p)
    BY <1>11 DEF C
  <2>. QED BY <2>3, <2>5, <2>6
<1>15. Leaf(v) \in Places /\ Leaf(v) \in Touched(v)
  BY PlacesAre DEF Touched
<1>16. Wrote(h, v)
  <2>1. \A p \in Places : ptr'[h][p] \in fbv' \ fbv => p = Leaf(v)
    <3>1. \A p \in Places : ptr[h][p] \in fbv' => ptr[h][p] \in fbv
      BY <1>7 DEF Tree, Counted
    <3>. QED BY <1>14, <3>1
  <2>2. \A x \in fbv' \ fbv : ptr'[h][Leaf(v)] = x
    BY <1>2, <1>3, <1>14, <1>15
  <2>3. \A p \in Places : ptr'[h][p] = Junk => \E q \in TablePlaces : ptr'[h][q] = DFS_FAIL
    <3>1. b # Junk
      BY <1>2, BlockSets
    <3>2. \A q \in TablePlaces : ptr'[h][q] = ptr[h][q]
      BY <1>14, PlacesAre
    <3>. QED BY <1>14, <3>1, <3>2 DEF Tree, Numbers
  <2>4. \A p \in Places :
          \/ ptr'[h][p] = ptr[h][p]
          \/ /\ ptr[h][p] \in {0, DFS_FAIL}
             /\ \/ ptr'[h][p] \in {DFS_FAIL, Junk}
                \/ ptr'[h][p] \in fbv' \ fbv /\ p \in Touched(v)
    BY <1>3, <1>14, <1>15
  <2>. QED BY <1>7, <1>9, <1>10, <1>15, <2>1, <2>2, <2>3, <2>4 DEF Wrote
<1>17. ptr'[h][Leaf(v)] = b
  BY <1>14, <1>15
<1>. QED BY <1>3, <1>4, <1>8, <1>16, <1>17, BlockSets DEF Gives, b

\* What remains to show that a step that gives h a path to block v wrote it.
LEMMA PathWrote ==
  ASSUME Tree, NEW h \in Inodes, ~TableLost(h), NEW v \in 0 .. MaxVirtual - 1,
         fbv' \subseteq Blocks, fbv \subseteq fbv', Framed(h, v),
         \A k \in Inodes : k # h =>
           /\ direct'[k] = direct[k] /\ indirect'[k] = indirect[k]
           /\ double_indirect'[k] = double_indirect[k],
         \A p \in Places :
           \/ ptr'[h][p] = ptr[h][p]
           \/ /\ ptr[h][p] \in {0, DFS_FAIL} /\ p \in Touched(v)
              /\ ptr'[h][p] = DFS_FAIL \/ ptr'[h][p] \in fbv' \ fbv,
         \A p, q \in Places :
           ptr'[h][p] \in fbv' \ fbv /\ ptr'[h][q] = ptr'[h][p] => p = q,
         \A x \in fbv' \ fbv : \E p \in Places : ptr'[h][p] = x
  PROVE  Wrote(h, v)
<1>1. \A k \in Inodes, p \in Places : k # h => ptr'[k][p] = ptr[k][p]
  BY OtherInode
<1>2. \A p \in Places : ptr[h][p] # Junk
  BY TableLostIs DEF Tree, Numbers
<1>3. \A p \in Places : ptr'[h][p] # Junk
  BY <1>2, BlockSets
<1>4. \A p \in Places :
       \/ ptr'[h][p] = ptr[h][p]
       \/ /\ ptr[h][p] \in {0, DFS_FAIL}
          /\ \/ ptr'[h][p] \in {DFS_FAIL, Junk}
             \/ ptr'[h][p] \in fbv' \ fbv /\ p \in Touched(v)
  OBVIOUS
<1>. QED BY <1>1, <1>3, <1>4 DEF Wrote

SetAt(f, g, h, x) == g = [f EXCEPT ![h] = x]

LEMMA IndirectEffect ==
  ASSUME Tree, NEW h \in Inodes, ~TableLost(h),
         NEW v \in 0 .. MaxVirtual - 1, ~IsDirect(v), IsIndirect(v),
         ptr[h][Leaf(v)] \in {0, DFS_FAIL},
         NEW s, s = indirect[h],
         NEW s2, s2 = IF s = 0 THEN NextFree(fbv) ELSE s,
         NEW a, a = IF s = 0 THEN Take(fbv) ELSE fbv,
         NEW b, b = NextFree(a),
         NEW C1, C1 = SetEntry(content, s2, s = 0, v - NumDirect, b),
         NEW X, (b \in Blocks => C1[b] = content[b]) => X \in [Cells -> Cell],
         fbv' = Take(a), content' = WriteBlock(C1, b, X),
         SetAt(indirect, indirect', h, s2),
         UNCHANGED <<direct, double_indirect>>
  PROVE  Gives(h, v, b, X) /\ (b \in Blocks => C1[b] = content[b])
<1>. DEFINE d == direct[h]
            t == double_indirect[h]
            i == v - NumDirect
            C == content
            C2 == content'
<1>1. /\ fbv \in SUBSET Blocks /\ C \in [Blocks -> [Cells -> Cell]]
      /\ indirect \in [Inodes -> BlockNums] /\ s \in BlockNums
  BY DEF Tree, FsTypes
<1>2. \A p \in Places : ptr[h][p] = At(C, d, s, t, p)
  BY PtrIs
<1>3. indirect'[h] = s2 /\ \A k \in Inodes : k # h => indirect'[k] = indirect[k]
  BY <1>1 DEF SetAt
<1>4. \A p \in Places : ptr'[h][p] = At(C2, d, s2, t, p)
  BY <1>3, PtrIs
<1>5. ptr[h][Single] = s /\ s # DFS_FAIL /\ Single \in TablePlaces /\ Single \in Places
  BY <1>2, AtRoots, PlacesAre, TableLostIs
<1>6. i \in Cells /\ v \in Nat /\ Leaf(v) \in Places /\ Leaf(v) # Single
  BY Sizes, IndirectIndex, PlacesAre
<1>7. /\ s2 \in BlockNums /\ a \in SUBSET Blocks /\ fbv \subseteq a
      /\ s2 = DFS_FAIL => s = 0 /\ a = Blocks /\ fbv = Blocks
      /\ s2 # DFS_FAIL /\ s = 0 => s2 \in Blocks \ {0} /\ s2 \notin fbv /\ a = fbv \cup {s2}
      /\ s # 0 => s2 = s /\ s \in Blocks \ {0} /\ a = fbv
  BY <1>1, <1>5, NextFreeIs, NewBlock, BlockSets
<1>8. /\ b \in BlockNums /\ fbv' \in SUBSET Blocks
      /\ b = DFS_FAIL => fbv' = a /\ a = Blocks
      /\ b # DFS_FAIL => b \in Blocks \ {0} /\ b \notin a /\ fbv' = a \cup {b}
  BY <1>7, NextFreeIs, NewBlock, BlockSets
<1>9. CASE s2 = DFS_FAIL
  <2>1. C1 = C
    BY <1>9, SetNowhere
  <2>2. b = DFS_FAIL /\ fbv' = fbv
    BY <1>7, <1>8, <1>9, BlockSets
  <2>3. C2 = C
    <3>1. C2 = WriteBlock(C1, b, X) /\ b \notin Blocks
      BY <2>2, BlockSets
    <3>. QED BY <2>1, <3>1 DEF WriteBlock
  <2>4. FsTypes'
    BY <1>1, <1>7, <2>2, <2>3 DEF Tree, FsTypes, SetAt
  <2>5. \A p \in Places : ptr'[h][p] = At(C, d, DFS_FAIL, t, p)
    BY <1>4, <1>9, <2>3
  <2>6. \A p \in Places : ptr[h][p] = At(C, d, 0, t, p)
    BY <1>2, <1>7, <1>9
  <2>. HIDE DEF d, t, C, C2
  <2>7. \A p \in Places :
          IF p = Single THEN ptr'[h][p] = DFS_FAIL
          ELSE \/ ptr'[h][p] = ptr[h][p]
               \/ ptr'[h][p] = Junk /\ ptr[h][p] = 0 /\ p \notin TablePlaces
    BY <2>5, <2>6, LoseIndirect
  <2>8. Framed(h, v)
    BY <2>3 DEF Framed, C, C2
  <2>9. \A k \in Inodes, p \in Places : k # h => ptr'[k][p] = ptr[k][p]
    BY <1>3, <2>8, OtherInode
  <2>10. ptr[h][Single] = 0
    BY <1>5, <1>7, <1>9
  <2>11. Wrote(h, v)
    <3>1. \A p \in Places :
            \/ ptr'[h][p] = ptr[h][p]
            \/ ptr[h][p] \in {0, DFS_FAIL} /\ ptr'[h][p] \in {DFS_FAIL, Junk}
      BY <2>7, <2>10
    <3>2. ptr'[h][Single] = DFS_FAIL
      BY <1>5, <2>7
    <3>. QED BY <1>1, <1>5, <2>2, <2>8, <2>9, <3>1, <3>2 DEF Wrote
  <2>12. ptr'[h][Leaf(v)] \notin Blocks \ {0}
    BY <1>6, <2>7, BlockSets
  <2>. QED BY <2>2, <2>4, <2>11, <2>12, BlockSets DEF Gives
<1>10. CASE s2 # DFS_FAIL
  <2>1. s2 \in Blocks /\ s2 # 0 /\ s2 \in a /\ s2 \in fbv'
    <3>1. s # 0 => s \in fbv
      BY <1>5, <1>7 DEF Tree, Counted
    <3>. QED BY <1>7, <1>8, <1>10, <3>1
  <2>2. b # s2
    BY <1>8, <2>1, BlockSets
  <2>3. /\ C1 \in [Blocks -> [Cells -> Cell]]
        /\ SetsEntry(C, C1, s, s2, i, b)
        /\ \A x \in Blocks : x # s2 => C1[x] = C[x]
    <3>1. C1 = SetEntry(C, s2, s = 0, i, b) /\ (s # 0 => s = s2)
      BY <1>7
    <3>. HIDE DEF C, i
    <3>. QED BY <1>1, <1>6, <1>8, <2>1, <3>1, SetEntryIs
  <2>4. /\ C2 \in [Blocks -> [Cells -> Cell]]
        /\ b \in Blocks => C2[b] = X
        /\ \A x \in Blocks : x # b => C2[x] = C1[x]
    <3>1. C2 = WriteBlock(C1, b, X)
      OBVIOUS
    <3>2. X \in [Cells -> Cell]
      BY <2>2, <2>3
    <3>. HIDE DEF C2
    <3>. QED BY ONLY <2>3, <3>1, <3>2, WriteBlockIs
  <2>5. FsTypes'
    <3>1. indirect' \in [Inodes -> BlockNums]
      BY <1>1, <1>7 DEF SetAt
    <3>. QED BY <1>8, <2>4, <3>1 DEF Tree, FsTypes
  <2>6. \A x \in Blocks : x # s2 /\ x # b => C2[x] = C[x]
    BY <2>3, <2>4
  <2>7. SetsEntry(C, C2, s, s2, i, b)
    BY <2>1, <2>2, <2>3, <2>4 DEF SetsEntry
  <2>8. KeepsTables(C, C2, d, s, t, {Single})
    <3>1. ASSUME NEW p \in TablePlaces, p # Single, ptr[h][p] \in Blocks \ {0}
          PROVE  C2[ptr[h][p]] = C[ptr[h][p]]
      <4>1. p \in Places
        BY PlacesAre
      <4>2. ptr[h][p] \in fbv
        BY <3>1, <4>1 DEF Tree, Counted
      <4>3. ptr[h][p] # s
        BY <1>5, <3>1, <4>1 DEF Tree, Unshared
      <4>4. ptr[h][p] # s2 /\ ptr[h][p] # b
        BY <1>7, <1>8, <1>10, <3>1, <4>2, <4>3, BlockSets
      <4>. QED BY <2>6, <3>1, <4>4
    <3>. HIDE DEF C, C2, d, t
    <3>. QED BY <1>2, <3>1, PlacesAre DEF KeepsTables
  <2>9. \A p \in Places : ptr'[h][p] =
          IF p = Single THEN s2 ELSE IF p = Leaf(v) THEN b ELSE ptr[h][p]
    <3>1. SetsEntry(C, C2, s, s2, v - NumDirect, b)
      BY <2>7
    <3>. HIDE DEF C, C2, d, t, i
    <3>2. \A p \in Places : At(C2, d, s2, t, p) =
            IF p = Single THEN s2 ELSE IF p = Leaf(v) THEN b ELSE At(C, d, s, t, p)
      <4>1. IsIndirect(v) /\ ~IsDirect(v) /\ v \in 0 .. MaxVirtual - 1
        OBVIOUS
      <4>. QED BY ONLY <2>1, <2>8, <3>1, <4>1, GrowIndirect
    <3>. QED BY <1>2, <1>4, <3>2
  <2>10. Single \in Touched(v) /\ Leaf(v) \in Touched(v)
    BY <1>5, <1>6 DEF Touched
  <2>11. Framed(h, v)
    <3>1. s # 0 => s2 = ptr[h][Single]
      BY <1>5, <1>7
    <3>2. s = 0 => s2 \in fbv' \ fbv
      BY <1>7, <1>10, <2>1
    <3>3. b \in Blocks => b \in fbv' \ fbv
      BY <1>7, <1>8, BlockSets
    <3>. QED BY <2>1, <2>6, <2>10, <3>1, <3>2, <3>3 DEF Framed
  <2>12. \A x \in fbv' \ fbv : (x = s2 /\ s = 0) \/ x = b
    BY <1>7, <1>8, <1>10
  <2>13. \A p \in Places : ptr[h][p] \in Blocks => ptr[h][p] \in fbv
    BY DEF Tree, Counted
  <2>. HIDE DEF C, C2, d, t, i
  <2>14. Wrote(h, v)
    <3>1. \A p \in Places :
           \/ ptr'[h][p] = ptr[h][p]
           \/ /\ ptr[h][p] \in {0, DFS_FAIL} /\ p \in Touched(v)
              /\ ptr'[h][p] = DFS_FAIL \/ ptr'[h][p] \in fbv' \ fbv
      BY <1>5, <1>7, <1>8, <1>10, <2>1, <2>9, <2>10
    <3>2. \A p \in Places : ptr'[h][p] \in fbv' \ fbv =>
             (p = Single /\ ptr'[h][p] = s2) \/ (p = Leaf(v) /\ ptr'[h][p] = b)
      BY <1>8, <2>9, <2>13
    <3>3. \A p, q \in Places :
            ptr'[h][p] \in fbv' \ fbv /\ ptr'[h][q] = ptr'[h][p] => p = q
      BY <2>2, <3>2
    <3>4. \A x \in fbv' \ fbv : \E p \in Places : ptr'[h][p] = x
      BY <1>5, <1>6, <2>9, <2>12
    <3>5. fbv' \subseteq Blocks /\ fbv \subseteq fbv'
      BY <1>7, <1>8
    <3>. QED BY <1>3, <2>11, <3>1, <3>3, <3>4, <3>5, PathWrote
  <2>15. ptr'[h][Leaf(v)] = b
    BY <1>6, <2>9
  <2>16. b \in Blocks => content'[b] = X
    BY <2>4 DEF C2
  <2>17. b \in Blocks => C1[b] = content[b]
    BY <2>2, <2>3 DEF C
  <2>. QED BY <1>8, <2>5, <2>14, <2>15, <2>16, <2>17, BlockSets DEF Gives
<1>. QED BY <1>9, <1>10

LEMMA DoubleEffect ==
  ASSUME Tree, NEW h \in Inodes, ~TableLost(h),
         NEW v \in 0 .. MaxVirtual - 1, ~IsDirect(v), ~IsIndirect(v),
         ptr[h][Leaf(v)] \in {0, DFS_FAIL},
         NEW i1, i1 = Beyond(v) \div BlockSize, NEW i2, i2 = Beyond(v) % BlockSize,
         NEW t, t = double_indirect[h],
         NEW t1, t1 = IF t = 0 THEN NextFree(fbv) ELSE t,
         NEW a1, a1 = IF t = 0 THEN Take(fbv) ELSE fbv,
         NEW u, u = EntryIn(content, t, i1),
         NEW t2, t2 = IF u = 0 THEN NextFree(a1) ELSE u,
         NEW a2, a2 = IF u = 0 THEN Take(a1) ELSE a1,
         NEW b, b = NextFree(a2),
         NEW C1, C1 = IF u = 0 THEN SetEntry(content, t1, t = 0, i1, t2) ELSE content,
         NEW R, R = SetEntry(C1, t2, u = 0, i2, b),
         NEW X, (b \in Blocks => R[b] = content[b]) => X \in [Cells -> Cell],
         fbv' = Take(a2), content' = WriteBlock(R, b, X),
         SetAt(double_indirect, double_indirect', h, t1),
         UNCHANGED <<direct, indirect>>
  PROVE  Gives(h, v, b, X) /\ (b \in Blocks => R[b] = content[b])
<1>. DEFINE d == direct[h]
            s == indirect[h]
            C == content
            C2 == content'
            P1 == SecondLevel(i1)
<1>1. /\ fbv \in SUBSET Blocks /\ C \in [Blocks -> [Cells -> Cell]]
      /\ double_indirect \in [Inodes -> BlockNums] /\ t \in BlockNums
  BY DEF Tree, FsTypes
<1>2. \A p \in Places : ptr[h][p] = At(C, d, s, t, p)
  BY PtrIs
<1>3. double_indirect'[h] = t1 /\ \A k \in Inodes : k # h => double_indirect'[k] = double_indirect[k]
  BY <1>1 DEF SetAt
<1>4. \A p \in Places : ptr'[h][p] = At(C2, d, s, t1, p)
  BY <1>3, PtrIs
<1>5. v \in Nat /\ v < MaxVirtual
  BY Sizes
<1>6. i1 \in Cells /\ i2 \in Cells
  BY <1>5, DoubleIndex
<1>7. /\ Leaf(v) \in Places /\ Double \in TablePlaces /\ P1 \in TablePlaces
      /\ Double \in Places /\ P1 \in Places
      /\ Leaf(v) # Double /\ Leaf(v) # P1 /\ P1 # Double
      /\ Leaf(v) \notin TablePlaces
  BY <1>6, PlacesAre
<1>8. ptr[h][Double] = t /\ t # DFS_FAIL /\ ptr[h][P1] = u /\ u # DFS_FAIL /\ u \in BlockNums
  <2>1. ptr[h][Double] = t /\ ptr[h][P1] = u
    <3>1. At(C, d, s, t, P1) = EntryIn(C, t, i1)
      BY AtSecond
    <3>2. At(C, d, s, t, Double) = t
      BY AtRoots
    <3>. QED BY <1>2, <1>7, <3>1, <3>2
  <2>2. t # DFS_FAIL /\ u # DFS_FAIL
    BY <1>7, <2>1, TableLostIs
  <2>3. ptr[h][P1] \in BlockNums \cup {Junk} /\ ptr[h][P1] # Junk
    BY <1>7, TableLostIs DEF Tree, Numbers
  <2>. QED BY <2>1, <2>2, <2>3
<1>9. t = 0 => u = 0
  BY <1>6, NoTable
<1>10. /\ t1 \in BlockNums /\ a1 \in SUBSET Blocks /\ fbv \subseteq a1
       /\ t1 = DFS_FAIL => t = 0 /\ a1 = Blocks /\ fbv = Blocks
       /\ t1 # DFS_FAIL /\ t = 0 => t1 \in Blocks \ {0} /\ t1 \notin fbv /\ a1 = fbv \cup {t1}
       /\ t # 0 => t1 = t /\ t \in Blocks \ {0} /\ a1 = fbv
  BY <1>1, <1>8, NextFreeIs, NewBlock, BlockSets
<1>11. /\ t2 \in BlockNums /\ a2 \in SUBSET Blocks /\ a1 \subseteq a2
       /\ t2 = DFS_FAIL => u = 0 /\ a2 = Blocks /\ a1 = Blocks
       /\ t2 # DFS_FAIL /\ u = 0 => t2 \in Blocks \ {0} /\ t2 \notin a1 /\ a2 = a1 \cup {t2}
       /\ u # 0 => t2 = u /\ u \in Blocks \ {0} /\ a2 = a1
  BY <1>8, <1>10, NextFreeIs, NewBlock, BlockSets
<1>12. /\ b \in BlockNums /\ fbv' \in SUBSET Blocks
       /\ b = DFS_FAIL => fbv' = a2 /\ a2 = Blocks
       /\ b # DFS_FAIL => b \in Blocks \ {0} /\ b \notin a2 /\ fbv' = a2 \cup {b}
  BY <1>10, <1>11, NextFreeIs, NewBlock, BlockSets
<1>13. \A p \in Places : ptr[h][p] \in Blocks => ptr[h][p] \in fbv
  BY DEF Tree, Counted
<1>14. Double \in Touched(v) /\ P1 \in Touched(v) /\ Leaf(v) \in Touched(v)
  BY <1>7 DEF Touched
<1>15. fbv \subseteq fbv'
  BY <1>10, <1>11, <1>12
<1>16. C2 = WriteBlock(R, b, X)
  OBVIOUS
<1>17. CASE t1 = DFS_FAIL
  <2>1. t = 0 /\ u = 0 /\ a1 = Blocks /\ fbv = Blocks
    BY <1>9, <1>10, <1>17
  <2>2. t2 = DFS_FAIL /\ a2 = Blocks /\ b = DFS_FAIL /\ fbv' = fbv
    BY <1>11, <1>12, <2>1, BlockSets
  <2>3. C2 = C
    <3>1. C1 = C
      BY <1>17, <2>1, SetNowhere
    <3>2. R = C1
      BY <2>2, SetNowhere
    <3>3. b \notin Blocks
      BY <2>2, BlockSets
    <3>. QED BY <1>16, <3>1, <3>2, <3>3 DEF WriteBlock
  <2>4. FsTypes'
    BY <1>1, <1>10, <2>2, <2>3 DEF Tree, FsTypes, SetAt
  <2>5. \A p \in Places : ptr'[h][p] = At(C, d, s, DFS_FAIL, p)
    BY <1>4, <1>17, <2>3
  <2>6. \A p \in Places : ptr[h][p] = At(C, d, s, 0, p)
    BY <1>2, <2>1
  <2>7. Framed(h, v)
    BY <2>3 DEF Framed
  <2>. HIDE DEF d, s, C, C2
  <2>8. \A p \in Places :
          IF p = Double THEN ptr'[h][p] = DFS_FAIL
          ELSE \/ ptr'[h][p] = ptr[h][p]
               \/ ptr'[h][p] = Junk /\ ptr[h][p] = 0
    BY <2>5, <2>6, LoseDouble
  <2>9. \A k \in Inodes, p \in Places : k # h => ptr'[k][p] = ptr[k][p]
    BY <1>3, <2>7, OtherInode
  <2>10. Wrote(h, v)
    <3>1. \A p \in Places :
            \/ ptr'[h][p] = ptr[h][p]
            \/ ptr[h][p] \in {0, DFS_FAIL} /\ ptr'[h][p] \in {DFS_FAIL, Junk}
      BY <1>8, <2>1, <2>8
    <3>2. ptr'[h][Double] = DFS_FAIL
      BY <1>7, <2>8
    <3>. QED BY <1>1, <1>7, <2>2, <2>7, <2>9, <3>1, <3>2 DEF Wrote
  <2>11. ptr'[h][Leaf(v)] \notin Blocks \ {0}
    BY <1>7, <2>8, BlockSets
  <2>. QED BY <2>2, <2>4, <2>10, <2>11, BlockSets DEF Gives
<1>18. ASSUME t1 # DFS_FAIL
       PROVE  /\ t1 \in Blocks /\ t1 # 0 /\ t1 \in a1
              /\ t = 0 => t1 \in fbv' \ fbv
              /\ t # 0 => t1 = ptr[h][Double]
              /\ \A p \in Places : p # Double /\ ptr[h][p] \in Blocks \ {0} => ptr[h][p] # t1
  <2>1. t1 \in Blocks /\ t1 # 0 /\ t1 \in a1
    BY <1>7, <1>8, <1>10, <1>13, <1>18, BlockSets
  <2>2. t = 0 => t1 \in fbv' \ fbv
    BY <1>10, <1>11, <1>12, <1>18, <2>1
  <2>3. t # 0 => t1 = ptr[h][Double]
    BY <1>8, <1>10
  <2>4. ASSUME NEW p \in Places, p # Double, ptr[h][p] \in Blocks \ {0} PROVE ptr[h][p] # t1
    <3>1. ptr[h][p] \in fbv
      BY <1>13, <2>4
    <3>2. t # 0 => ptr[h][p] # t1
      BY <1>7, <2>3, <2>4 DEF Tree, Unshared
    <3>. QED BY <2>2, <3>1, <3>2
  <2>. QED BY <2>1, <2>2, <2>3, <2>4
<1>19. ASSUME t1 # DFS_FAIL, u = 0
       PROVE  /\ C1 \in [Blocks -> [Cells -> Cell]] /\ SetsEntry(C, C1, t, t1, i1, t2)
              /\ \A x \in Blocks : x # t1 => C1[x] = C[x]
  <2>1. C1 = SetEntry(C, t1, t = 0, i1, t2) /\ (t # 0 => t = t1)
    BY <1>10, <1>19
  <2>. HIDE DEF C
  <2>. QED BY <1>1, <1>6, <1>11, <1>18, <1>19, <2>1, SetEntryIs
<1>20. CASE t1 # DFS_FAIL /\ t2 = DFS_FAIL
  <2>1. u = 0 /\ a1 = Blocks /\ a2 = Blocks /\ b = DFS_FAIL /\ fbv' = a1
    BY <1>11, <1>12, <1>20, BlockSets
  <2>2. C2 = C1
    <3>1. R = C1
      BY <1>20, SetNowhere
    <3>2. b \notin Blocks
      BY <2>1, BlockSets
    <3>. QED BY <1>16, <3>1, <3>2 DEF WriteBlock
  <2>3. FsTypes'
    <3>1. double_indirect' \in [Inodes -> BlockNums]
      BY <1>1, <1>10 DEF SetAt
    <3>2. C2 \in [Blocks -> [Cells -> Cell]]
      BY <1>19, <1>20, <2>1, <2>2
    <3>. QED BY <1>12, <3>1, <3>2 DEF Tree, FsTypes
  <2>4. SetsEntry(C, C2, t, t1, i1, DFS_FAIL)
    BY <1>19, <1>20, <2>1, <2>2
  <2>5. \A x \in Blocks : x # t1 => C2[x] = C[x]
    BY <1>19, <1>20, <2>1, <2>2
  <2>6. Framed(h, v)
    BY <1>14, <1>18, <1>20, <2>5 DEF Framed
  <2>. HIDE DEF C, C2, d, s, P1
  <2>7. KeepsTables(C, C2, d, s, t, {Double})
    <3>1. \A p \in TablePlaces : p # Double /\ ptr[h][p] \in Blocks \ {0} =>
            C2[ptr[h][p]] = C[ptr[h][p]]
      BY <1>18, <1>20, <2>5, PlacesAre
    <3>. QED BY <1>2, <3>1, PlacesAre DEF KeepsTables
  <2>8. \A p \in Places :
           IF p = Double THEN ptr'[h][p] = t1
           ELSE IF p = P1 THEN ptr'[h][p] = DFS_FAIL
           ELSE \/ ptr'[h][p] = ptr[h][p]
                \/ ptr'[h][p] = Junk /\ ptr[h][p] = 0 /\ p \notin TablePlaces
    <3>1. EntryIn(C, t, i1) = 0
      BY <2>1 DEF C
    <3>2. \A p \in Places :
           IF p = Double THEN At(C2, d, s, t1, p) = t1
           ELSE IF p = SecondLevel(i1) THEN At(C2, d, s, t1, p) = DFS_FAIL
           ELSE \/ At(C2, d, s, t1, p) = At(C, d, s, t, p)
                \/ /\ At(C2, d, s, t1, p) = Junk /\ At(C, d, s, t, p) = 0
                   /\ p \notin TablePlaces
      <4>1. t1 \in Blocks /\ t1 # 0
        BY <1>18, <1>20
      <4>. QED BY ONLY <1>6, <2>4, <2>7, <3>1, <4>1, LoseSecond
    <3>. QED BY <1>2, <1>4, <3>2 DEF P1
  <2>9. \A k \in Inodes, p \in Places : k # h => ptr'[k][p] = ptr[k][p]
    BY <1>3, <2>6, OtherInode
  <2>10. \A x \in fbv' \ fbv : x = t1 /\ t = 0
    BY <1>10, <1>20, <2>1
  <2>11. Wrote(h, v)
    <3>1. \A p \in Places :
            \/ ptr'[h][p] = ptr[h][p]
            \/ /\ ptr[h][p] \in {0, DFS_FAIL}
               /\ \/ ptr'[h][p] \in {DFS_FAIL, Junk}
                  \/ ptr'[h][p] \in fbv' \ fbv /\ p \in Touched(v)
      BY <1>7, <1>8, <1>14, <1>18, <1>20, <2>1, <2>8
    <3>2. \A p \in Places : ptr'[h][p] \in fbv' \ fbv => p = Double
      BY <1>7, <1>12, <1>13, <2>8, BlockSets
    <3>3. \A x \in fbv' \ fbv : ptr'[h][Double] = x
      BY <1>7, <2>8, <2>10
    <3>4. ptr'[h][P1] = DFS_FAIL
      BY <1>7, <2>8
    <3>. QED BY <1>7, <1>12, <1>15, <2>6, <2>9, <3>1, <3>2, <3>3, <3>4 DEF Wrote
  <2>12. ptr'[h][Leaf(v)] \notin Blocks \ {0}
    BY <1>7, <2>8, BlockSets
  <2>. QED BY <2>1, <2>3, <2>11, <2>12, BlockSets DEF Gives
<1>21. CASE t1 # DFS_FAIL /\ t2 # DFS_FAIL
  <2>1. t2 \in Blocks /\ t2 # 0 /\ t2 \in a2 /\ t2 # t1
    <3>1. u # 0 => t # 0
      BY <1>9
    <3>2. u # 0 => u # t1
      BY <1>7, <1>8, <1>11, <1>18, <1>21
    <3>3. u # 0 => u \in a1
      BY <1>7, <1>8, <1>10, <1>11, <1>13
    <3>. QED BY <1>11, <1>18, <1>21, <3>2, <3>3
  <2>2. b # t1 /\ b # t2
    BY <1>11, <1>12, <1>18, <1>21, <2>1, BlockSets
  <2>3. /\ C1 \in [Blocks -> [Cells -> Cell]] /\ SetsEntry(C, C1, t, t1, i1, t2)
        /\ \A x \in Blocks : x # t1 => C1[x] = C[x]
        /\ u # 0 => C1 = C
    <3>1. CASE u = 0
      BY <1>19, <1>21, <3>1
    <3>2. CASE u # 0
      <4>1. t # 0 /\ t1 = t /\ t2 = u /\ C1 = C
        BY <1>9, <1>10, <1>11, <3>2
      <4>2. \A c \in Cells : EntryIn(C, t, c) = C[t][c]
        BY <1>10, <4>1, InTable
      <4>. QED BY <1>1, <4>1, <4>2 DEF SetsEntry
    <3>. QED BY <3>1, <3>2
  <2>4. /\ R \in [Blocks -> [Cells -> Cell]] /\ SetsEntry(C1, R, u, t2, i2, b)
        /\ \A x \in Blocks : x # t2 => R[x] = C1[x]
    <3>1. R = SetEntry(C1, t2, u = 0, i2, b) /\ (u # 0 => u = t2)
      BY <1>11
    <3>. HIDE DEF C, C2
    <3>. QED BY <1>6, <1>8, <1>12, <2>1, <2>3, <3>1, SetEntryIs
  <2>5. /\ C2 \in [Blocks -> [Cells -> Cell]]
        /\ b \in Blocks => C2[b] = X
        /\ \A x \in Blocks : x # b => C2[x] = R[x]
    <3>1. X \in [Cells -> Cell]
      BY <2>2, <2>3, <2>4
    <3>. HIDE DEF C, C2
    <3>. QED BY ONLY <1>16, <2>4, <3>1, WriteBlockIs
  <2>6. FsTypes'
    <3>1. double_indirect' \in [Inodes -> BlockNums]
      BY <1>1, <1>10 DEF SetAt
    <3>. QED BY <1>12, <2>5, <3>1 DEF Tree, FsTypes
  <2>7. SetsEntry(C, C2, t, t1, i1, t2)
    <3>1. t1 \in Blocks /\ t1 # t2 /\ t1 # b
      BY <1>18, <1>21, <2>1, <2>2
    <3>. HIDE DEF C2
    <3>2. C2[t1] = C1[t1]
      BY ONLY <2>4, <2>5, <3>1
    <3>. HIDE DEF C, C2
    <3>. QED BY ONLY <2>3, <3>2 DEF SetsEntry
  <2>8. SetsEntry(C, C2, EntryIn(C, t, i1), t2, i2, b)
    <3>1. \A c \in Cells : EntryIn(C1, u, c) = EntryIn(C, u, c)
      BY <2>3 DEF EntryIn
    <3>2. \A c \in Cells : C2[t2][c] = IF c = i2 THEN b ELSE EntryIn(C1, u, c)
      <4>1. C2[t2] = R[t2]
        BY <2>1, <2>2, <2>5
      <4>. HIDE DEF C2
      <4>. QED BY ONLY <2>4, <4>1 DEF SetsEntry
    <3>. QED BY <3>1, <3>2 DEF SetsEntry
  <2>9. \A x \in Blocks : x # t1 /\ x # t2 /\ x # b => C2[x] = C[x]
    <3>. HIDE DEF C, C2
    <3>. QED BY ONLY <2>3, <2>4, <2>5
  <2>10. /\ u # 0 => t2 = ptr[h][P1]
         /\ u = 0 => t2 \in fbv' \ fbv
         /\ b \in Blocks => b \in fbv' \ fbv
    BY <1>8, <1>10, <1>11, <1>12, <1>21, <2>1, BlockSets
  <2>11. Framed(h, v)
    <3>1. \A x \in Blocks : C2[x] # C[x] => x = t1 \/ x = t2 \/ x = b
      BY <2>9
    <3>. QED BY <1>14, <1>18, <1>21, <2>1, <2>10, <3>1 DEF Framed
  <2>12. \A p \in Places :
           p # Double /\ p # P1 /\ ptr[h][p] \in Blocks \ {0} =>
             C2[ptr[h][p]] = C[ptr[h][p]]
    <3>. TAKE p \in Places
    <3>. HAVE p # Double /\ p # P1 /\ ptr[h][p] \in Blocks \ {0}
    <3>1. ptr[h][p] \in fbv /\ ptr[h][p] # t1
      BY <1>13, <1>18, <1>21
    <3>2. u # 0 => ptr[h][p] # t2
      BY <1>7, <2>10 DEF Tree, Unshared
    <3>3. ptr[h][p] # b /\ ptr[h][p] # t2
      BY <2>10, <3>1, <3>2
    <3>. QED BY <2>9, <3>1, <3>3
  <2>. HIDE DEF C, C2, d, s
  <2>13. KeepsTables(C, C2, d, s, t, {Double, SecondLevel(i1)})
    BY <1>2, <2>12, PlacesAre DEF KeepsTables
  <2>14. \A p \in Places : ptr'[h][p] =
           IF p = Double THEN t1
           ELSE IF p = P1 THEN t2
           ELSE IF p = Leaf(v) THEN b ELSE ptr[h][p]
    <3>1. \A p \in Places : At(C2, d, s, t1, p) =
            IF p = Double THEN t1
            ELSE IF p = SecondLevel(i1) THEN t2
            ELSE IF p = Leaf(v) THEN b ELSE At(C, d, s, t, p)
      BY <1>6, <1>18, <1>21, <2>1, <2>7, <2>8, <2>13, GrowDouble
    <3>. QED BY <1>2, <1>4, <3>1
  <2>. HIDE DEF P1
  <2>15. \A x \in fbv' \ fbv : (x = t1 /\ t = 0) \/ (x = t2 /\ u = 0) \/ x = b
    BY <1>10, <1>11, <1>12, <1>21
  <2>16. Wrote(h, v)
    <3>1. \A p \in Places :
           \/ ptr'[h][p] = ptr[h][p]
           \/ /\ ptr[h][p] \in {0, DFS_FAIL} /\ p \in Touched(v)
              /\ ptr'[h][p] = DFS_FAIL \/ ptr'[h][p] \in fbv' \ fbv
      <4>1. \A p \in Places : p = Double \/ p = P1 \/ p = Leaf(v) \/ ptr'[h][p] = ptr[h][p]
        BY <2>14
      <4>2. ptr'[h][Double] = t1 /\ ptr'[h][P1] = t2 /\ ptr'[h][Leaf(v)] = b
        BY <1>7, <2>14
      <4>3. t # 0 => ptr'[h][Double] = ptr[h][Double]
        BY <1>18, <1>21, <4>2
      <4>4. u # 0 => ptr'[h][P1] = ptr[h][P1]
        BY <2>10, <4>2
      <4>5. t = 0 => ptr'[h][Double] \in fbv' \ fbv /\ ptr[h][Double] = 0
        BY <1>8, <1>18, <1>21, <4>2
      <4>6. u = 0 => ptr'[h][P1] \in fbv' \ fbv /\ ptr[h][P1] = 0
        BY <1>8, <2>10, <4>2
      <4>7. b = DFS_FAIL \/ b \in fbv' \ fbv
        BY <1>12, <2>10
      <4>. QED BY <1>14, <4>1, <4>2, <4>3, <4>4, <4>5, <4>6, <4>7
    <3>2. \A p \in Places : ptr'[h][p] \in fbv' \ fbv =>
             \/ p = Double /\ ptr'[h][p] = t1
             \/ p = P1 /\ ptr'[h][p] = t2
             \/ p = Leaf(v) /\ ptr'[h][p] = b
      BY <1>12, <1>13, <2>14
    <3>3. \A p, q \in Places :
            ptr'[h][p] \in fbv' \ fbv /\ ptr'[h][q] = ptr'[h][p] => p = q
      BY <2>1, <2>2, <3>2
    <3>4. \A x \in fbv' \ fbv : \E p \in Places : ptr'[h][p] = x
      BY <1>7, <2>14, <2>15
    <3>. QED BY <1>3, <1>12, <1>15, <2>11, <3>1, <3>3, <3>4, PathWrote
  <2>17. ptr'[h][Leaf(v)] = b
    BY <1>7, <2>14
  <2>18. b \in Blocks => content'[b] = X
    BY <2>5 DEF C2
  <2>19. b \in Blocks => R[b] = content[b]
    BY <2>2, <2>3, <2>4 DEF C
  <2>. QED BY <1>12, <2>6, <2>16, <2>17, <2>18, <2>19, BlockSets DEF Gives
<1>. QED BY <1>17, <1>20, <1>21

LEMMA OverwriteEffect ==
  ASSUME Tree, NEW h \in Inodes, ~TableLost(h), NEW v \in 0 .. MaxVirtual - 1,
         NEW b, b = ptr[h][Leaf(v)], b \notin {0, DFS_FAIL}, NEW X \in [Cells -> Cell],
         content' = WriteBlock(content, b, X),
         UNCHANGED <<fbv, direct, indirect, double_indirect>>
  PROVE  b \in Blocks /\ Gives(h, v, b, X)
<1>. DEFINE d == direct[h]
            s == indirect[h]
            t == double_indirect[h]
            C == content
            C2 == content'
<1>1. fbv \in SUBSET Blocks /\ C \in [Blocks -> [Cells -> Cell]]
  BY DEF Tree, FsTypes
<1>2. Leaf(v) \in Places /\ Leaf(v) \notin TablePlaces
  BY PlacesAre
<1>3. b \in Blocks
  BY <1>2, TableLostIs, BlockSets DEF Tree, Numbers
<1>4. /\ C2 \in [Blocks -> [Cells -> Cell]] /\ C2[b] = X
      /\ \A x \in Blocks : x # b => C2[x] = C[x]
  <2>. HIDE DEF C
  <2>. QED BY <1>1, <1>3, WriteBlockIs DEF C
<1>5. FsTypes'
  BY <1>1, <1>4 DEF Tree, FsTypes
<1>6. Framed(h, v)
  BY <1>2, <1>4 DEF Framed, Touched
<1>7. \A p \in Places : ptr[h][p] = At(C, d, s, t, p)
  BY PtrIs
<1>8. \A p \in Places : ptr'[h][p] = At(C2, d, s, t, p)
  BY PtrIs
<1>9. \A p \in TablePlaces : ptr[h][p] # b
  BY <1>2, <1>3, PlacesAre DEF Tree, Unshared
<1>. HIDE DEF C, C2, d, s, t
<1>10. \A p \in TablePlaces : At(C, d, s, t, p) \in Blocks \ {0} =>
         C2[At(C, d, s, t, p)] = C[At(C, d, s, t, p)]
  BY <1>4, <1>7, <1>9, PlacesAre
<1>11. \A p \in Places : At(C2, d, s, t, p) = At(C, d, s, t, p)
  BY ONLY <1>10, SameTables
<1>12. \A p \in Places : ptr'[h][p] = ptr[h][p]
  BY <1>7, <1>8, <1>11
<1>13. Wrote(h, v)
  BY <1>1, <1>6, <1>12, PathWrote
<1>14. content'[b] = X
  BY <1>4 DEF C2
<1>. QED BY <1>2, <1>3, <1>5, <1>12, <1>13, <1>14 DEF Gives

LEMMA NoEffect ==
  ASSUME Tree, NEW h \in Inodes, ~TableLost(h), NEW v,
         UNCHANGED <<fbv, content, direct, indirect, double_indirect>>
  PROVE  FsTypes' /\ Wrote(h, v)
<1>1. FsTypes'
  BY DEF Tree, FsTypes
<1>2. \A k \in Inodes, p \in Places : ptr'[k][p] = ptr[k][p]
  <2>. TAKE k \in Inodes, p \in Places
  <2>1. ptr'[k][p] = At(content, direct[k], indirect[k], double_indirect[k], p)
    BY PtrIs
  <2>2. ptr[k][p] = At(content, direct[k], indirect[k], double_indirect[k], p)
    BY PtrIs
  <2>. QED BY <2>1, <2>2
<1>3. \A p \in Places : ptr[h][p] # Junk
  BY TableLostIs DEF Tree, Numbers
<1>4. Framed(h, v)
  BY DEF Framed
<1>5. fbv \in SUBSET Blocks
  BY DEF Tree, FsTypes
<1>. QED BY <1>1, <1>2, <1>3, <1>4, <1>5 DEF Wrote

\* The three allocations by what they look at and what they give.
LEMMA AllocateIndirectIs ==
  ASSUME NEW h, NEW v, NEW s, s = indirect[h],
         NEW s2, s2 = IF s = 0 THEN NextFree(fbv) ELSE s,
         NEW a, a = IF s = 0 THEN Take(fbv) ELSE fbv,
         NEW b, b = NextFree(a),
         NEW C1, C1 = SetEntry(content, s2, s = 0, v - NumDirect, b)
  PROVE  AllocateIndirect(h, v) =
           [blk |-> b, fbv |-> Take(a), content |-> C1, direct |-> direct,
            indirect |-> [indirect EXCEPT ![h] = s2], double_indirect |-> double_indirect]
BY DEF AllocateIndirect, SetEntry

LEMMA AllocateDoubleIs ==
  ASSUME NEW h, NEW v,
         NEW i1, i1 = Beyond(v) \div BlockSize, NEW i2, i2 = Beyond(v) % BlockSize,
         NEW t, t = double_indirect[h],
         NEW t1, t1 = IF t = 0 THEN NextFree(fbv) ELSE t,
         NEW a1, a1 = IF t = 0 THEN Take(fbv) ELSE fbv,
         NEW u, u = EntryIn(content, t, i1),
         NEW t2, t2 = IF u = 0 THEN NextFree(a1) ELSE u,
         NEW a2, a2 = IF u = 0 THEN Take(a1) ELSE a1,
         NEW b, b = NextFree(a2),
         NEW C1, C1 = IF u = 0 THEN SetEntry(content, t1, t = 0, i1, t2) ELSE content,
         NEW R, R = SetEntry(C1, t2, u = 0, i2, b)
  PROVE  AllocateDouble(h, v) =
           [blk |-> b, fbv |-> Take(a2), content |-> R, direct |-> direct,
            indirect |-> indirect,
            double_indirect |-> [double_indirect EXCEPT ![h] = t1]]
<1>1. (t = 0 \/ ReadBlock(content, t1)[i1] = 0) <=> u = 0
  BY DEF EntryIn
<1>2. u # 0 => ReadBlock(content, t1)[i1] = u
  BY DEF EntryIn
<1>3. CASE u = 0
  BY <1>1, <1>3 DEF AllocateDouble, SetEntry
<1>4. CASE u # 0
  <2>1. t # 0
    BY <1>1, <1>4
  <2>. QED BY <1>1, <1>2, <1>4, <2>1 DEF AllocateDouble, SetEntry
<1>. QED BY <1>3, <1>4
-----------------------------------------------------------------------------
(* One step of a write *)

StoredOn(base) ==
  [c \in Cells |-> IF Position(c) \in 1 .. call.n THEN call.mem[Position(c)] ELSE base[c]]
Stored(b) == StoredOn(Base(content, b))

\* What a step of a write does that goes on with block b.
WroteBlock(h, v, b) ==
  /\ FsTypes' /\ Wrote(h, v)
  /\ b \in Blocks =>
       /\ v < MaxVirtual /\ b # 0 /\ ptr'[h][Leaf(v)] = b /\ content'[b] = Stored(b)
       /\ ptr[h][Leaf(v)] \in {0, DFS_FAIL, b}
  /\ b \notin Blocks /\ v < MaxVirtual =>
       ptr[h][Leaf(v)] \in {0, DFS_FAIL} /\ ptr'[h][Leaf(v)] \notin Blocks \ {0}

LEMMA StoredTyped ==
  ASSUME call \in WriteCall, call.n = Len(call.mem), NEW base \in [Cells -> Cell]
  PROVE  StoredOn(base) \in [Cells -> Cell]
<1>1. call.mem \in Seq(Data) /\ call.n \in Nat
  BY DEF WriteCall
<1>2. ASSUME NEW c \in Cells, Position(c) \in 1 .. call.n
      PROVE  call.mem[Position(c)] \in Cell
  <2>1. Position(c) \in 1 .. Len(call.mem)
    BY <1>2
  <2>2. call.mem[Position(c)] \in Data
    BY <1>1, <2>1
  <2>. QED BY <2>2 DEF Cell
<1>. QED BY <1>2 DEF StoredOn

LEMMA BaseIs ==
  ASSUME NEW S, NEW b, content \in [Blocks -> [Cells -> Cell]],
         b \in Blocks => S[b] = content[b]
  PROVE  Base(S, b) = Base(content, b) /\ Base(S, b) \in [Cells -> Cell]
<1>1. ReadBlock(S, b) = ReadBlock(content, b)
  BY DEF ReadBlock
<1>2. ReadBlock(S, b) \in [Cells -> Cell] /\ ZeroBlock \in [Cells -> Cell]
  BY BlockSets DEF ReadBlock, ZeroBlock, JunkBlock, Cell
<1>. QED BY <1>1, <1>2 DEF Base

\* What the call goes on with: the block it finds or the one it allocates.
LEMMA StepParts ==
  ASSUME WriteStep, call \in WriteCall, inuse[call.h],
         NEW m,
         m = IF DfsInodeTranslateVirtualToFilesys(call.h, call.blk) = DFS_FAIL
               THEN DfsInodeAllocateVirtualBlock(call.h, call.blk)
               ELSE NoAllocation(DfsInodeTranslateVirtualToFilesys(call.h, call.blk))
  PROVE  /\ ~TableLost(call.h) /\ call.h \in Inodes /\ call.blk \in Nat
         /\ content' = WriteBlock(m.content, m.blk, StoredOn(Base(m.content, m.blk)))
         /\ fbv' = m.fbv /\ direct' = m.direct /\ indirect' = m.indirect
         /\ double_indirect' = m.double_indirect
         /\ call' = [call EXCEPT !.blk = @ + 1, !.failed = @ \/ m.blk = DFS_FAIL]
         /\ UNCHANGED <<inuse, fname, file_size, ret>>
<1>1. call.h \in Inodes /\ call.blk \in Nat
  BY DEF WriteCall
<1>. QED BY <1>1 DEF WriteStep, StoredOn

LEMMA AllocationCases ==
  ASSUME NEW h, NEW v \in Nat
  PROVE  /\ v >= MaxVirtual =>
              DfsInodeAllocateVirtualBlock(h, v) = NoAllocation(DFS_FAIL)
         /\ v < MaxVirtual /\ IsDirect(v) =>
              DfsInodeAllocateVirtualBlock(h, v) = AllocateDirect(h, v)
         /\ v < MaxVirtual /\ ~IsDirect(v) /\ IsIndirect(v) =>
              DfsInodeAllocateVirtualBlock(h, v) = AllocateIndirect(h, v)
         /\ v < MaxVirtual /\ ~IsDirect(v) /\ ~IsIndirect(v) =>
              DfsInodeAllocateVirtualBlock(h, v) = AllocateDouble(h, v)
<1>1. ~(IsDirect(v) /\ IsIndirect(v)) /\ (v >= MaxVirtual => ~IsDirect(v) /\ ~IsIndirect(v))
  BY Sizes DEF IsDirect, IsIndirect
<1>2. v < MaxVirtual <=> ~(v >= MaxVirtual)
  BY Sizes
<1>. QED BY <1>1, <1>2 DEF DfsInodeAllocateVirtualBlock

LEMMA TranslationIs ==
  ASSUME NEW h, NEW v, inuse[h], v < MaxVirtual
  PROVE  DfsInodeTranslateVirtualToFilesys(h, v) =
           IF Pointer(h, v) # 0 THEN Pointer(h, v) ELSE DFS_FAIL
BY DEF DfsInodeTranslateVirtualToFilesys

LEMMA AllocationFields ==
  ASSUME NEW m, NEW b, NEW a, NEW C, NEW d, NEW s, NEW t,
         m = [blk |-> b, fbv |-> a, content |-> C, direct |-> d, indirect |-> s,
              double_indirect |-> t]
  PROVE  /\ m.blk = b /\ m.fbv = a /\ m.content = C /\ m.direct = d /\ m.indirect = s
         /\ m.double_indirect = t
OBVIOUS

LEMMA BlockEffect ==
  ASSUME Tree, NEW h \in Inodes, ~TableLost(h), inuse[h], NEW v \in Nat,
         call \in WriteCall, call.n = Len(call.mem), NEW m,
         m = IF DfsInodeTranslateVirtualToFilesys(h, v) = DFS_FAIL
               THEN DfsInodeAllocateVirtualBlock(h, v)
               ELSE NoAllocation(DfsInodeTranslateVirtualToFilesys(h, v)),
         content' = WriteBlock(m.content, m.blk, StoredOn(Base(m.content, m.blk))),
         fbv' = m.fbv, direct' = m.direct, indirect' = m.indirect,
         double_indirect' = m.double_indirect
  PROVE  m.blk \in BlockNums /\ WroteBlock(h, v, m.blk)
<1>. DEFINE b0 == DfsInodeTranslateVirtualToFilesys(h, v)
            X == StoredOn(Base(m.content, m.blk))
<1>1. /\ fbv \in SUBSET Blocks /\ content \in [Blocks -> [Cells -> Cell]]
  BY DEF Tree, FsTypes
<1>2. MaxVirtual \in Nat
  BY Sizes
<1>3. ASSUME m.blk \in Blocks => m.content[m.blk] = content[m.blk]
      PROVE  X = Stored(m.blk) /\ X \in [Cells -> Cell]
  <2>1. /\ Base(m.content, m.blk) = Base(content, m.blk)
        /\ Base(m.content, m.blk) \in [Cells -> Cell]
    BY <1>1, <1>3, BaseIs
  <2>. QED BY <2>1, StoredTyped DEF Stored
<1>4. ASSUME v < MaxVirtual
      PROVE  /\ v \in 0 .. MaxVirtual - 1 /\ ptr[h][Leaf(v)] = Pointer(h, v)
             /\ b0 = IF ptr[h][Leaf(v)] # 0 THEN ptr[h][Leaf(v)] ELSE DFS_FAIL
             /\ ptr[h][Leaf(v)] \in BlockNums
  <2>1. v \in 0 .. MaxVirtual - 1
    BY <1>2, <1>4
  <2>2. ptr[h][Leaf(v)] = Pointer(h, v)
    BY <2>1, PtrIs
  <2>3. ptr[h][Leaf(v)] \in BlockNums
    BY <2>1, PlacesAre, TableLostIs DEF Tree, Numbers
  <2>4. b0 = IF Pointer(h, v) # 0 THEN Pointer(h, v) ELSE DFS_FAIL
    BY <1>4, TranslationIs
  <2>. HIDE DEF b0
  <2>. QED BY ONLY <2>1, <2>2, <2>3, <2>4
<1>5. ASSUME NEW b, m.blk = b, b \in BlockNums, v < MaxVirtual,
             Gives(h, v, b, X), m.blk \in Blocks => m.content[m.blk] = content[m.blk],
             ptr[h][Leaf(v)] \in {0, DFS_FAIL, b}, b = DFS_FAIL => ptr[h][Leaf(v)] \in {0, DFS_FAIL}
      PROVE  m.blk \in BlockNums /\ WroteBlock(h, v, m.blk)
  <2>1. X = Stored(b)
    BY <1>3, <1>5
  <2>. HIDE DEF X
  <2>. QED BY <1>5, <2>1, BlockSets DEF Gives, WroteBlock
<1>6. CASE v >= MaxVirtual
  <2>1. b0 = DFS_FAIL
    BY <1>2, <1>6 DEF DfsInodeTranslateVirtualToFilesys
  <2>2. m = NoAllocation(DFS_FAIL)
    BY <1>6, <2>1, AllocationCases
  <2>3. /\ m.blk = DFS_FAIL
        /\ UNCHANGED <<fbv, content, direct, indirect, double_indirect>>
    BY <2>2, BlockSets DEF NoAllocation, WriteBlock
  <2>4. FsTypes' /\ Wrote(h, v)
    BY <2>3, NoEffect
  <2>. QED BY <1>2, <1>6, <2>3, <2>4, BlockSets DEF WroteBlock
<1>7. CASE v < MaxVirtual /\ b0 # DFS_FAIL
  <2>1. m = NoAllocation(b0)
    BY <1>7
  <2>2. /\ m.blk = b0 /\ m.content = content
        /\ UNCHANGED <<fbv, direct, indirect, double_indirect>>
    BY <2>1 DEF NoAllocation
  <2>3. b0 = ptr[h][Leaf(v)] /\ b0 \notin {0, DFS_FAIL} /\ v \in 0 .. MaxVirtual - 1
    BY <1>4, <1>7
  <2>4. X \in [Cells -> Cell]
    BY <1>3, <2>2
  <2>5. content' = WriteBlock(content, b0, X)
    BY <2>2
  <2>. HIDE DEF X, b0
  <2>6. b0 \in Blocks /\ Gives(h, v, b0, X)
    BY <2>2, <2>3, <2>4, <2>5, OverwriteEffect
  <2>. QED BY <1>5, <1>7, <2>2, <2>3, <2>6, BlockSets
<1>8. CASE v < MaxVirtual /\ b0 = DFS_FAIL
  <2>1. /\ v \in 0 .. MaxVirtual - 1 /\ ptr[h][Leaf(v)] \in {0, DFS_FAIL}
    BY <1>4, <1>8
  <2>2. m = DfsInodeAllocateVirtualBlock(h, v) /\ ~(v >= MaxVirtual)
    BY <1>2, <1>8
  <2>3. CASE IsDirect(v)
    <3>1. m = AllocateDirect(h, v)
      BY <1>8, <2>2, <2>3, AllocationCases
    <3>2. /\ m.blk = NextFree(fbv) /\ m.content = content /\ fbv' = Take(fbv)
          /\ direct' = [direct EXCEPT ![h][v] = NextFree(fbv)]
          /\ UNCHANGED <<indirect, double_indirect>>
      <4>. DEFINE b == NextFree(fbv)
                  a == Take(fbv)
                  d2 == [direct EXCEPT ![h][v] = b]
      <4>1. m = [blk |-> b, fbv |-> a, content |-> content, direct |-> d2,
                 indirect |-> indirect, double_indirect |-> double_indirect]
        BY <3>1 DEF AllocateDirect
      <4>. HIDE DEF b, a, d2
      <4>2. /\ m.blk = b /\ m.fbv = a /\ m.content = content /\ m.direct = d2
            /\ m.indirect = indirect /\ m.double_indirect = double_indirect
        BY ONLY <4>1, AllocationFields
      <4>. QED BY <4>2 DEF b, a, d2
    <3>3. X \in [Cells -> Cell] /\ NextFree(fbv) \in BlockNums
      BY <1>1, <1>3, <3>2, NextFreeIs
    <3>4. content' = WriteBlock(content, NextFree(fbv), X)
      BY <3>2
    <3>. HIDE DEF X, b0
    <3>5. Gives(h, v, NextFree(fbv), X)
      BY <2>1, <2>3, <3>2, <3>3, <3>4, DirectEffect
    <3>. QED BY <1>5, <1>8, <2>1, <3>2, <3>3, <3>5
  <2>4. CASE ~IsDirect(v) /\ IsIndirect(v)
    <3>. DEFINE s == indirect[h]
                s2 == IF s = 0 THEN NextFree(fbv) ELSE s
                a == IF s = 0 THEN Take(fbv) ELSE fbv
                b == NextFree(a)
                C1 == SetEntry(content, s2, s = 0, v - NumDirect, b)
    <3>1. m = AllocateIndirect(h, v)
      BY <1>8, <2>2, <2>4, AllocationCases
    <3>2. AllocateIndirect(h, v) =
           [blk |-> b, fbv |-> Take(a), content |-> C1, direct |-> direct,
            indirect |-> [indirect EXCEPT ![h] = s2], double_indirect |-> double_indirect]
      BY AllocateIndirectIs
    <3>3. /\ m.blk = b /\ m.content = C1 /\ fbv' = Take(a)
          /\ SetAt(indirect, indirect', h, s2)
          /\ UNCHANGED <<direct, double_indirect>>
      <4>. DEFINE a2 == Take(a)
                  T == [indirect EXCEPT ![h] = s2]
      <4>. HIDE DEF s2, a, b, C1, a2, T
      <4>1. m = [blk |-> b, fbv |-> a2, content |-> C1, direct |-> direct,
                 indirect |-> T, double_indirect |-> double_indirect]
        BY ONLY <3>1, <3>2 DEF a2, T
      <4>2. /\ m.blk = b /\ m.fbv = a2 /\ m.content = C1 /\ m.direct = direct
            /\ m.indirect = T /\ m.double_indirect = double_indirect
        BY ONLY <4>1, AllocationFields
      <4>. QED BY <4>2 DEF a2, T, SetAt
    <3>4. (b \in Blocks => C1[b] = content[b]) => X \in [Cells -> Cell]
      BY <1>3, <3>3
    <3>5. content' = WriteBlock(C1, b, X)
      BY <3>3
    <3>6. a \in SUBSET Blocks
      BY <1>1, NextFreeIs
    <3>7. b \in BlockNums
      <4>. HIDE DEF a
      <4>. QED BY <3>6, NextFreeIs
    <3>. HIDE DEF X, b0
    <3>8. Gives(h, v, b, X) /\ (b \in Blocks => C1[b] = content[b])
      <4>1. Tree /\ h \in Inodes /\ ~TableLost(h)
        OBVIOUS
      <4>2. /\ s = indirect[h]
            /\ s2 = IF s = 0 THEN NextFree(fbv) ELSE s
            /\ a = IF s = 0 THEN Take(fbv) ELSE fbv
            /\ b = NextFree(a)
            /\ C1 = SetEntry(content, s2, s = 0, v - NumDirect, b)
        OBVIOUS
      <4>. HIDE DEF s, s2, a, b, C1
      <4>. QED BY ONLY <2>1, <2>4, <3>3, <3>4, <3>5, <4>1, <4>2, IndirectEffect
    <3>. HIDE DEF s2, a, b, C1
    <3>. QED BY <1>5, <1>8, <2>1, <3>3, <3>7, <3>8
  <2>5. CASE ~IsDirect(v) /\ ~IsIndirect(v)
    <3>. DEFINE i1 == Beyond(v) \div BlockSize
                i2 == Beyond(v) % BlockSize
                t == double_indirect[h]
                t1 == IF t = 0 THEN NextFree(fbv) ELSE t
                a1 == IF t = 0 THEN Take(fbv) ELSE fbv
                u == EntryIn(content, t, i1)
                t2 == IF u = 0 THEN NextFree(a1) ELSE u
                a2 == IF u = 0 THEN Take(a1) ELSE a1
                b == NextFree(a2)
                C1 == IF u = 0 THEN SetEntry(content, t1, t = 0, i1, t2) ELSE content
                R == SetEntry(C1, t2, u = 0, i2, b)
    <3>1. m = AllocateDouble(h, v)
      BY <1>8, <2>2, <2>5, AllocationCases
    <3>2. AllocateDouble(h, v) =
           [blk |-> b, fbv |-> Take(a2), content |-> R, direct |-> direct,
            indirect |-> indirect, double_indirect |-> [double_indirect EXCEPT ![h] = t1]]
      <4>. HIDE DEF Take, NextFree, SetEntry
      <4>. QED BY AllocateDoubleIs
    <3>3. /\ m.blk = b /\ m.content = R /\ fbv' = Take(a2)
          /\ SetAt(double_indirect, double_indirect', h, t1)
          /\ UNCHANGED <<direct, indirect>>
      <4>. DEFINE a3 == Take(a2)
                  T == [double_indirect EXCEPT ![h] = t1]
      <4>. HIDE DEF t1, a2, b, R, a3, T
      <4>1. m = [blk |-> b, fbv |-> a3, content |-> R, direct |-> direct,
                 indirect |-> indirect, double_indirect |-> T]
        BY ONLY <3>1, <3>2 DEF a3, T
      <4>2. /\ m.blk = b /\ m.fbv = a3 /\ m.content = R /\ m.direct = direct
            /\ m.indirect = indirect /\ m.double_indirect = T
        BY ONLY <4>1, AllocationFields
      <4>. QED BY <4>2 DEF a3, T, SetAt
    <3>4. (b \in Blocks => R[b] = content[b]) => X \in [Cells -> Cell]
      <4>. HIDE DEF b, R
      <4>. QED BY <1>3, <3>3
    <3>5. content' = WriteBlock(R, b, X)
      BY <3>3
    <3>6. a1 \in SUBSET Blocks
      BY <1>1, NextFreeIs
    <3>7. a2 \in SUBSET Blocks
      <4>. HIDE DEF a1, u
      <4>. QED BY <3>6, NextFreeIs
    <3>8. b \in BlockNums
      <4>. HIDE DEF a2
      <4>. QED BY <3>7, NextFreeIs
    <3>. HIDE DEF X, b0
    <3>9. Gives(h, v, b, X) /\ (b \in Blocks => R[b] = content[b])
      <4>1. Tree /\ h \in Inodes /\ ~TableLost(h)
        OBVIOUS
      <4>2. /\ i1 = Beyond(v) \div BlockSize /\ i2 = Beyond(v) % BlockSize
            /\ t = double_indirect[h]
            /\ t1 = IF t = 0 THEN NextFree(fbv) ELSE t
            /\ a1 = IF t = 0 THEN Take(fbv) ELSE fbv
            /\ u = EntryIn(content, t, i1)
            /\ t2 = IF u = 0 THEN NextFree(a1) ELSE u
            /\ a2 = IF u = 0 THEN Take(a1) ELSE a1
            /\ b = NextFree(a2)
            /\ C1 = IF u = 0 THEN SetEntry(content, t1, t = 0, i1, t2) ELSE content
            /\ R = SetEntry(C1, t2, u = 0, i2, b)
        OBVIOUS
      <4>. HIDE DEF i1, i2, t, t1, a1, u, t2, a2, b, C1, R
      <4>. QED BY ONLY <2>1, <2>5, <3>3, <3>4, <3>5, <4>1, <4>2, DoubleEffect
    <3>. HIDE DEF i1, i2, t, t1, a1, u, t2, a2, b, C1, R
    <3>. QED BY <1>5, <1>8, <2>1, <3>3, <3>8, <3>9
  <2>. QED BY <2>3, <2>4, <2>5
<1>. QED BY <1>2, <1>6, <1>7, <1>8

LEMMA WriteEffect ==
  ASSUME Tree, WriteStep, call \in WriteCall, call.n = Len(call.mem), inuse[call.h]
  PROVE  \E b \in BlockNums :
           /\ WroteBlock(call.h, call.blk, b)
           /\ call' = [call EXCEPT !.blk = @ + 1, !.failed = @ \/ b = DFS_FAIL]
<1>. DEFINE h == call.h
            v == call.blk
            m == IF DfsInodeTranslateVirtualToFilesys(h, v) = DFS_FAIL
                   THEN DfsInodeAllocateVirtualBlock(h, v)
                   ELSE NoAllocation(DfsInodeTranslateVirtualToFilesys(h, v))
<1>1. /\ ~TableLost(h) /\ h \in Inodes /\ v \in Nat
      /\ content' = WriteBlock(m.content, m.blk, StoredOn(Base(m.content, m.blk)))
      /\ fbv' = m.fbv /\ direct' = m.direct /\ indirect' = m.indirect
      /\ double_indirect' = m.double_indirect
      /\ call' = [call EXCEPT !.blk = @ + 1, !.failed = @ \/ m.blk = DFS_FAIL]
  <2>1. m = IF DfsInodeTranslateVirtualToFilesys(call.h, call.blk) = DFS_FAIL
              THEN DfsInodeAllocateVirtualBlock(call.h, call.blk)
              ELSE NoAllocation(DfsInodeTranslateVirtualToFilesys(call.h, call.blk))
    OBVIOUS
  <2>. HIDE DEF m
  <2>. QED BY <2>1, StepParts
<1>2. m.blk \in BlockNums /\ WroteBlock(h, v, m.blk)
  BY <1>1, BlockEffect
<1>. HIDE DEF m
<1>. QED BY <1>1, <1>2
-----------------------------------------------------------------------------
(* The cells of the files *)

\* Cell c of the block behind the pointer x of an inode.
CellAt(C, used, x, c) == ReadBlock(C, IF used /\ x # 0 THEN x ELSE DFS_FAIL)[c]

LEMMA CellsAre ==
  ASSUME NEW h \in Inodes, NEW o \in Offsets
  PROVE  /\ cells[h][o] = CellOf(h, o) /\ cells'[h][o] = CellOf(h, o)'
         /\ cells[h][o] =
              CellAt(content, inuse[h], ptr[h][Leaf(o \div BlockSize)], o % BlockSize)
         /\ cells'[h][o] =
              CellAt(content', inuse'[h], ptr'[h][Leaf(o \div BlockSize)], o % BlockSize)
<1>. DEFINE v == o \div BlockSize
            c == o % BlockSize
<1>1. v \in 0 .. MaxVirtual - 1 /\ v < MaxVirtual
  <2>1. v \in 0 .. MaxVirtual - 1
    BY OffsetIndex
  <2>. QED BY <2>1, Sizes
<1>2. cells[h][o] = CellOf(h, o) /\ cells'[h][o] = CellOf(h, o)'
  BY DEF cells
<1>3. CellOf(h, o) = ReadBlock(content, DfsInodeTranslateVirtualToFilesys(h, v))[c]
  BY DEF CellOf
<1>4. CellOf(h, o)' = ReadBlock(content', DfsInodeTranslateVirtualToFilesys(h, v)')[c]
  BY DEF CellOf, ReadBlock
<1>. HIDE DEF v, c
<1>5. ptr[h][Leaf(v)] = Pointer(h, v)
  BY <1>1, PtrIs
<1>6. ptr'[h][Leaf(v)] = Pointer(h, v)'
  BY <1>1, PlacesAre DEF ptr, PointerAt, Leaf
<1>7. DfsInodeTranslateVirtualToFilesys(h, v) =
        IF inuse[h] /\ ptr[h][Leaf(v)] # 0 THEN ptr[h][Leaf(v)] ELSE DFS_FAIL
  BY <1>1, <1>5 DEF DfsInodeTranslateVirtualToFilesys
<1>8. DfsInodeTranslateVirtualToFilesys(h, v)' =
        IF inuse'[h] /\ ptr'[h][Leaf(v)] # 0 THEN ptr'[h][Leaf(v)] ELSE DFS_FAIL
  BY <1>1, <1>6 DEF DfsInodeTranslateVirtualToFilesys
<1>. QED BY <1>2, <1>3, <1>4, <1>7, <1>8 DEF CellAt, v, c

LEMMA CellAtIs ==
  ASSUME NEW C, NEW used, NEW x, NEW c \in Cells
  PROVE  /\ used /\ x \in Blocks \ {0} => CellAt(C, used, x, c) = C[x][c]
         /\ ~used \/ x \notin Blocks \ {0} => CellAt(C, used, x, c) = Junk
BY BlockSets DEF CellAt, ReadBlock, JunkBlock

FreeIsJunk == \A x \in Blocks \ fbv : content[x] = JunkBlock

\* What a step of a write does to the cells of the files.
LEMMA WriteChanges ==
  ASSUME Tree, FreeIsJunk, NEW h \in Inodes, inuse[h], inuse' = inuse,
         NEW v \in Nat, NEW b \in BlockNums, WroteBlock(h, v, b)
  PROVE  /\ \A k \in Inodes, o \in Offsets :
              k # h \/ o \div BlockSize # v \/ b \notin Blocks => cells'[k][o] = cells[k][o]
         /\ \A o \in Offsets :
              o \div BlockSize = v /\ b \in Blocks =>
                /\ cells'[h][o] = Stored(b)[o % BlockSize]
                /\ ReadBlock(content, b)[o % BlockSize] = cells[h][o]
<1>1. /\ Wrote(h, v)
      /\ b \in Blocks => /\ b # 0 /\ ptr'[h][Leaf(v)] = b /\ content'[b] = Stored(b)
                         /\ ptr[h][Leaf(v)] \in {0, DFS_FAIL, b}
      /\ b \notin Blocks /\ v < MaxVirtual =>
           ptr[h][Leaf(v)] \in {0, DFS_FAIL} /\ ptr'[h][Leaf(v)] \notin Blocks \ {0}
  BY DEF WroteBlock
<1>2. ASSUME NEW k \in Inodes, NEW o \in Offsets,
             k # h \/ o \div BlockSize # v \/ b \notin Blocks
      PROVE  cells'[k][o] = cells[k][o]
  <2>. DEFINE w == o \div BlockSize
              c == o % BlockSize
              x == ptr[k][Leaf(w)]
              y == ptr'[k][Leaf(w)]
  <2>1. w \in 0 .. MaxVirtual - 1 /\ c \in Cells /\ w < MaxVirtual
    <3>1. w \in 0 .. MaxVirtual - 1 /\ c \in Cells
      BY OffsetIndex
    <3>. QED BY <3>1, Sizes
  <2>2. cells[k][o] = CellAt(content, inuse[k], x, c)
    BY CellsAre
  <2>3. cells'[k][o] = CellAt(content', inuse[k], y, c)
    BY CellsAre
  <2>4. k # h \/ w # v \/ b \notin Blocks
    BY <1>2
  <2>. HIDE DEF w, c
  <2>5. Leaf(w) \in Places /\ (Leaf(w) \in Touched(v) => w = v)
    BY <2>1, PlacesAre DEF Touched
  <2>6. CASE x \in Blocks \ {0}
    <3>1. y = x
      BY <2>5, <2>6, WroteKeepsNamed, <1>1
    <3>2. content'[x] = content[x]
      <4>. SUFFICES ASSUME content'[x] # content[x] PROVE FALSE
        OBVIOUS
      <4>1. x \in fbv
        BY <2>5, <2>6 DEF Tree, Counted
      <4>2. PICK p \in Touched(v) : ptr[h][p] = x
        BY <1>1, <2>6, <4>1 DEF Wrote, Framed
      <4>3. p \in Places
        BY DEF Touched
      <4>4. k = h /\ p = Leaf(w)
        BY <2>5, <2>6, <4>2, <4>3 DEF Tree, Unshared
      <4>5. w = v
        BY <2>5, <4>4
      <4>. QED BY <1>1, <2>1, <2>4, <2>6, <4>4, <4>5, BlockSets
    <3>. QED BY <2>1, <2>2, <2>3, <2>6, <3>1, <3>2, CellAtIs
  <2>7. CASE x \notin Blocks \ {0}
    <3>1. y \notin Blocks \ {0}
      <4>. SUFFICES ASSUME y \in Blocks \ {0} PROVE FALSE
        OBVIOUS
      <4>1. k = h /\ Leaf(w) \in Touched(v)
        <5>1. \/ y = x /\ x \in fbv
              \/ k = h /\ Leaf(w) \in Touched(v)
          BY <1>1, <2>5, WroteNamed
        <5>. QED BY <2>7, <5>1
      <4>. QED BY <1>1, <2>1, <2>4, <2>5, <4>1
    <3>2. cells[k][o] = Junk
      BY <2>1, <2>2, <2>7, CellAtIs
    <3>3. cells'[k][o] = Junk
      BY <2>1, <2>3, <3>1, CellAtIs
    <3>. QED BY <3>2, <3>3
  <2>. QED BY <2>6, <2>7
<1>3. ASSUME NEW o \in Offsets, o \div BlockSize = v, b \in Blocks
      PROVE  /\ cells'[h][o] = Stored(b)[o % BlockSize]
             /\ ReadBlock(content, b)[o % BlockSize] = cells[h][o]
  <2>. DEFINE c == o % BlockSize
              x == ptr[h][Leaf(v)]
  <2>1. v \in 0 .. MaxVirtual - 1 /\ c \in Cells
    BY <1>3, OffsetIndex
  <2>2. cells[h][o] = ReadBlock(content, IF x # 0 THEN x ELSE DFS_FAIL)[c]
    <3>1. cells[h][o] = CellAt(content, inuse[h], x, c)
      BY <1>3, CellsAre
    <3>. QED BY <3>1 DEF CellAt
  <2>3. b \in Blocks => cells'[h][o] = content'[b][c]
    <3>1. cells'[h][o] = CellAt(content', inuse[h], ptr'[h][Leaf(v)], c)
      BY <1>3, CellsAre
    <3>. QED BY <1>1, <3>1 DEF CellAt, ReadBlock
  <2>. HIDE DEF c
  <2>4. cells'[h][o] = Stored(b)[c]
    BY <1>1, <1>3, <2>3
  <2>5. ReadBlock(content, b)[c] = content[b][c]
    BY <1>3 DEF ReadBlock
  <2>6. CASE x = b
    <3>1. x # 0 /\ x = b
      BY <1>1, <1>3, <2>6
    <3>2. cells[h][o] = ReadBlock(content, b)[c]
      <4>. HIDE DEF x
      <4>. QED BY <2>2, <3>1
    <3>. QED BY <2>4, <3>2 DEF c
  <2>7. CASE x # b
    <3>1. x \in {0, DFS_FAIL} /\ Leaf(v) \in Places
      BY <1>1, <1>3, <2>1, <2>7, PlacesAre
    <3>2. b \in fbv' \ fbv
      BY <1>1, <1>3, <2>7, <3>1, BlockSets DEF Wrote
    <3>3. content[b] = JunkBlock
      BY <1>3, <3>2 DEF FreeIsJunk
    <3>4. cells[h][o] = Junk
      BY <2>1, <2>2, <3>1, BlockSets DEF ReadBlock, JunkBlock
    <3>. QED BY <2>1, <2>4, <2>5, <3>3, <3>4 DEF JunkBlock, c
  <2>. QED BY <2>4, <2>6, <2>7 DEF c
<1>. QED BY <1>2, <1>3
-----------------------------------------------------------------------------
(* The invariant *)

UnusedBlank == \A h \in Inodes : ~inuse[h] => \A p \in Places : ptr[h][p] = 0

CallSound ==
  call # NoCall =>
    /\ inuse[call.h]
    /\ FirstBlock(call.start) <= call.blk /\ call.blk <= EndBlock(call.start, call.n)
    /\ call.op = "write" => call.n = Len(call.mem)

\* The cells a read that starts at s and is at block k of n cells has copied.
Copied(s, n, k) ==
  IF k * BlockSize <= s THEN 0
  ELSE IF (k * BlockSize) - s < n THEN (k * BlockSize) - s ELSE n

ReadSoFar ==
  call.op = "read" =>
    /\ Len(call.mem) = Copied(call.start, call.n, call.blk)
    /\ \A k \in 1 .. Len(call.mem) : call.mem[k] = CellOf(call.h, (call.start + k) - 1)

\* A write has put nothing beyond its end, and all of what it passed.
WriteCovers ==
  call.op = "write" =>
    \A o \in Offsets :
      CellOf(call.h, o) \in Data \ {0} =>
        o < file_size[call.h] \/ o < call.start + call.n

WriteStored ==
  call.op = "write" /\ ~call.failed =>
    \A o \in Offsets :
      InRange(o) /\ o < call.blk * BlockSize =>
        CellOf(call.h, o) = call.mem[(o - call.start) + 1]

IInv ==
  /\ TypeOK /\ Tree /\ NamesUnique /\ UnusedBlank /\ FreeIsJunk
  /\ CallSound /\ ReadSoFar /\ WriteCovers /\ WriteStored /\ SizeCoversData

\* Calls that touch neither pointers nor blocks.
LEMMA SamePointers ==
  ASSUME Tree, FreeIsJunk, UNCHANGED <<direct, indirect, double_indirect, fbv, content>>
  PROVE  /\ Tree' /\ FreeIsJunk'
         /\ \A k \in Inodes, p \in Places : ptr'[k][p] = ptr[k][p]
<1>1. \A k \in Inodes, p \in Places : ptr'[k][p] = ptr[k][p]
  <2>. TAKE k \in Inodes, p \in Places
  <2>1. ptr'[k][p] = At(content, direct[k], indirect[k], double_indirect[k], p)
    BY PtrIs
  <2>2. ptr[k][p] = At(content, direct[k], indirect[k], double_indirect[k], p)
    BY PtrIs
  <2>. QED BY <2>1, <2>2
<1>2. FsTypes'
  BY DEF Tree, FsTypes
<1>3. Numbers'
  BY <1>1, PlacesAre DEF Tree, Numbers
<1>4. Unshared'
  BY <1>1 DEF Tree, Unshared
<1>5. Counted'
  BY <1>1 DEF Tree, Counted
<1>6. FreeIsJunk'
  BY DEF FreeIsJunk
<1>. QED BY <1>1, <1>2, <1>3, <1>4, <1>5, <1>6 DEF Tree

LEMMA SameFiles ==
  ASSUME Tree, UnusedBlank, FreeIsJunk,
         UNCHANGED <<inuse, direct, indirect, double_indirect, fbv, content>>
  PROVE  /\ Tree' /\ UnusedBlank' /\ FreeIsJunk'
         /\ \A h, o : CellOf(h, o)' = CellOf(h, o)
<1>1. Tree' /\ FreeIsJunk' /\ \A k \in Inodes, p \in Places : ptr'[k][p] = ptr[k][p]
  BY SamePointers
<1>2. UnusedBlank'
  BY <1>1 DEF UnusedBlank
<1>3. \A h, o : CellOf(h, o)' = CellOf(h, o)
  BY DEF CellOf, ReadBlock, DfsInodeTranslateVirtualToFilesys, Pointer, Entry
<1>. QED BY <1>1, <1>2, <1>3

LEMMA CallKinds ==
  ASSUME TypeOK
  PROVE  /\ call \in WriteCall => call.op = "write" /\ call # NoCall
         /\ call \in ReadCall => call.op = "read" /\ call # NoCall
         /\ call.op = "write" => call \in WriteCall
         /\ call.op = "read" => call \in ReadCall
         /\ NoCall.op = "none"
         /\ call # NoCall => call.op \in {"write", "read"}
<1>1. NoCall.op = "none"
  BY DEF NoCall
<1>2. call \in WriteCall => call.op = "write"
  BY DEF WriteCall
<1>3. call \in ReadCall => call.op = "read"
  BY DEF ReadCall
<1>4. call \in WriteCall \cup ReadCall \cup {NoCall}
  BY DEF TypeOK
<1>. QED BY <1>1, <1>2, <1>3, <1>4

LEMMA NullPlaces ==
  ASSUME NEW C, NEW p \in Places
  PROVE  At(C, NullPointers, 0, 0, p) = 0
<1>1. \A i \in Cells : EntryIn(C, 0, i) = 0
  BY NoTable
<1>2. CASE p = Single \/ p = Double
  BY <1>2, AtRoots
<1>3. CASE \E i \in Cells : p = SecondLevel(i)
  BY <1>1, <1>3, AtSecond
<1>4. ASSUME NEW v \in 0 .. MaxVirtual - 1, p = Leaf(v) PROVE At(C, NullPointers, 0, 0, p) = 0
  <2>1. v \in Nat /\ v < MaxVirtual
    BY Sizes
  <2>2. At(C, NullPointers, 0, 0, p) = LeafIn(C, NullPointers, 0, 0, v)
    BY <1>4, AtLeaf
  <2>3. CASE IsDirect(v)
    <3>1. v \in 0 .. NumDirect - 1
      BY <2>1, <2>3, Sizes DEF IsDirect
    <3>2. LeafIn(C, NullPointers, 0, 0, v) = NullPointers[v]
      BY <2>1, <2>3, LeafForms
    <3>3. NullPointers[v] = 0
      BY <3>1 DEF NullPointers
    <3>. QED BY <2>2, <3>2, <3>3
  <2>4. CASE ~IsDirect(v) /\ IsIndirect(v)
    BY <1>1, <2>1, <2>2, <2>4, LeafForms, IndirectIndex
  <2>5. CASE ~IsDirect(v) /\ ~IsIndirect(v)
    BY <1>1, <2>1, <2>2, <2>5, LeafForms, DoubleIndex
  <2>. QED BY <2>3, <2>4, <2>5
<1>. QED BY <1>2, <1>3, <1>4, PlacesAre

LEMMA UnmappedCells ==
  ASSUME NEW h \in Inodes, \A p \in Places : ptr[h][p] = 0, NEW o \in Offsets
  PROVE  CellOf(h, o) = Junk
<1>. DEFINE v == o \div BlockSize
            c == o % BlockSize
<1>1. Leaf(v) \in Places /\ c \in Cells
  BY OffsetIndex, PlacesAre
<1>2. CellOf(h, o) = CellAt(content, inuse[h], ptr[h][Leaf(v)], c)
  BY CellsAre
<1>. HIDE DEF v, c
<1>. QED BY <1>1, <1>2, CellAtIs

LEMMA InitIInv == Init => IInv
<1>. SUFFICES ASSUME Init PROVE IInv
  OBVIOUS
<1>0. NoCall.op = "none" /\ call = NoCall
  BY DEF Init, NoCall
<1>1. JunkBlock \in [Cells -> Cell] /\ NullPointers \in [0 .. NumDirect - 1 -> BlockNums]
  BY BlockSets DEF JunkBlock, NullPointers, Cell
<1>2. content \in [Blocks -> [Cells -> Cell]]
  BY <1>1 DEF Init
<1>3. direct \in [Inodes -> [0 .. NumDirect - 1 -> BlockNums]]
  BY <1>1 DEF Init
<1>4. /\ indirect \in [Inodes -> BlockNums] /\ double_indirect \in [Inodes -> BlockNums]
      /\ fbv \in SUBSET Blocks
  BY BlockSets DEF Init
<1>5. \A h \in Inodes, p \in Places : ptr[h][p] = 0
  <2>. TAKE h \in Inodes, p \in Places
  <2>1. ptr[h][p] = At(content, direct[h], indirect[h], double_indirect[h], p)
    BY PtrIs
  <2>2. direct[h] = NullPointers /\ indirect[h] = 0 /\ double_indirect[h] = 0
    BY DEF Init
  <2>. HIDE DEF NullPointers
  <2>. QED BY <2>1, <2>2, NullPlaces
<1>6. Tree
  <2>1. FsTypes
    BY <1>2, <1>3, <1>4 DEF FsTypes
  <2>2. Numbers /\ Unshared
    BY <1>5, BlockSets DEF Numbers, Unshared
  <2>3. Counted
    BY <1>5, BlockSets DEF Counted, Init
  <2>. QED BY <2>1, <2>2, <2>3 DEF Tree
<1>7. TypeOK
  BY <1>2, <1>3, <1>4, BlockSets DEF TypeOK, Init, DFS_SUCCESS
<1>8. NamesUnique /\ FreeIsJunk
  BY DEF Init, NamesUnique, FreeIsJunk
<1>9. UnusedBlank
  BY <1>5 DEF UnusedBlank
<1>10. CallSound /\ ReadSoFar /\ WriteCovers /\ WriteStored
  BY <1>0 DEF CallSound, ReadSoFar, WriteCovers, WriteStored
<1>11. SizeCoversData
  BY <1>5, UnmappedCells, BlockSets DEF SizeCoversData
<1>. QED BY <1>6, <1>7, <1>8, <1>9, <1>10, <1>11 DEF IInv

\* The cells of an inode whose pointers and blocks stay.
LEMMA SameCells ==
  ASSUME NEW k \in Inodes, inuse'[k] <=> inuse[k],
         \A p \in Places :
           /\ ptr'[k][p] = ptr[k][p]
           /\ ptr[k][p] \in Blocks \ {0} => content'[ptr[k][p]] = content[ptr[k][p]]
  PROVE  \A o \in Offsets : CellOf(k, o)' = CellOf(k, o)
<1>. TAKE o \in Offsets
<1>. DEFINE v == o \div BlockSize
            c == o % BlockSize
            x == ptr[k][Leaf(v)]
<1>1. Leaf(v) \in Places /\ c \in Cells
  BY OffsetIndex, PlacesAre
<1>2. /\ CellOf(k, o) = CellAt(content, inuse[k], ptr[k][Leaf(v)], c)
      /\ CellOf(k, o)' = CellAt(content', inuse'[k], ptr'[k][Leaf(v)], c)
  BY CellsAre
<1>. HIDE DEF v, c
<1>3. ptr'[k][Leaf(v)] = x /\ (x \in Blocks \ {0} => content'[x] = content[x])
  BY <1>1
<1>4. /\ CellOf(k, o) = CellAt(content, inuse[k], x, c)
      /\ CellOf(k, o)' = CellAt(content', inuse'[k], x, c)
  BY <1>2, <1>3
<1>. HIDE DEF x
<1>5. CASE inuse[k] /\ x \in Blocks \ {0}
  BY <1>3, <1>4, <1>5 DEF CellAt, ReadBlock
<1>6. CASE ~(inuse[k] /\ x \in Blocks \ {0})
  BY <1>1, <1>4, <1>6, BlockSets DEF CellAt, ReadBlock
<1>. QED BY <1>5, <1>6

LEMMA BlankCells ==
  ASSUME NEW k \in Inodes, \A p \in Places : ptr'[k][p] = 0
  PROVE  \A o \in Offsets : CellOf(k, o)' = Junk
<1>. TAKE o \in Offsets
<1>. DEFINE v == o \div BlockSize
            c == o % BlockSize
<1>1. Leaf(v) \in Places /\ c \in Cells
  BY OffsetIndex, PlacesAre
<1>2. CellOf(k, o)' = CellAt(content', inuse'[k], ptr'[k][Leaf(v)], c)
  BY CellsAre
<1>. HIDE DEF v, c
<1>. QED BY <1>1, <1>2, CellAtIs
-----------------------------------------------------------------------------
(* Which blocks a call passes *)

LEMMA Multiples ==
  ASSUME NEW a \in Nat, NEW b \in Nat
  PROVE  /\ a * BlockSize \in Nat
         /\ a < b => (a * BlockSize) + BlockSize <= b * BlockSize
         /\ a <= b => a * BlockSize <= b * BlockSize
         /\ (a + 1) * BlockSize = (a * BlockSize) + BlockSize
<1>. DEFINE B == BlockSize
<1>1. B \in Nat /\ B > 0
  BY Sizes
<1>. HIDE DEF B
<1>2. a * B \in Nat /\ b * B \in Nat /\ (a + 1) * B = (a * B) + B
  BY <1>1
<1>3. a <= b => a * B <= b * B
  BY <1>1
<1>4. a < b => (a + 1) * B <= b * B
  BY <1>1
<1>. QED BY <1>2, <1>3, <1>4 DEF B

LEMMA Quotient ==
  ASSUME NEW x \in Nat
  PROVE  /\ x \div BlockSize \in Nat
         /\ (x \div BlockSize) * BlockSize <= x
         /\ x < ((x \div BlockSize) * BlockSize) + BlockSize
         /\ x % BlockSize = x - ((x \div BlockSize) * BlockSize)
         /\ x % BlockSize \in Cells
<1>. DEFINE B == BlockSize
            q == x \div B
            r == x % B
<1>1. B \in Nat /\ B > 0
  BY Sizes
<1>. HIDE DEF B
<1>2. q \in Nat /\ r \in Nat /\ r < B /\ x = (B * q) + r
  BY <1>1
<1>3. B * q = q * B /\ q * B \in Nat
  BY <1>1, <1>2
<1>4. r \in Cells
  BY <1>2, CellRange DEF B
<1>. HIDE DEF q, r
<1>5. q \in Nat /\ q * B <= x /\ x < (q * B) + B /\ r = x - (q * B) /\ r \in Cells
  BY <1>1, <1>2, <1>3, <1>4
<1>. QED BY <1>5 DEF q, r, B

\* The block of x is the one k whose cells surround it.
LEMMA QuotientIs ==
  ASSUME NEW x \in Nat, NEW k \in Nat, k * BlockSize <= x, x < (k * BlockSize) + BlockSize
  PROVE  x \div BlockSize = k /\ x % BlockSize = x - (k * BlockSize)
<1>. DEFINE q == x \div BlockSize
<1>1. /\ q \in Nat /\ q * BlockSize <= x /\ x < (q * BlockSize) + BlockSize
      /\ x % BlockSize = x - (q * BlockSize)
  BY Quotient
<1>. HIDE DEF q
<1>2. /\ q * BlockSize \in Nat /\ k * BlockSize \in Nat /\ BlockSize \in Nat
      /\ q < k => (q * BlockSize) + BlockSize <= k * BlockSize
      /\ k < q => (k * BlockSize) + BlockSize <= q * BlockSize
  <2>1. q < k => (q * BlockSize) + BlockSize <= k * BlockSize
    BY <1>1, Multiples
  <2>2. k < q => (k * BlockSize) + BlockSize <= q * BlockSize
    BY <1>1, Multiples
  <2>3. q * BlockSize \in Nat /\ k * BlockSize \in Nat
    BY <1>1, Multiples
  <2>. QED BY <2>1, <2>2, <2>3, Sizes
<1>3. q = k
  <2>. DEFINE Q == q * BlockSize
              K == k * BlockSize
              B == BlockSize
  <2>1. /\ Q \in Nat /\ K \in Nat /\ B \in Nat
        /\ q < k => Q + B <= K
        /\ k < q => K + B <= Q
        /\ K <= x /\ x < K + B /\ Q <= x /\ x < Q + B
    BY <1>1, <1>2
  <2>. HIDE DEF Q, K, B
  <2>. QED BY <1>1, <2>1
<1>. QED BY <1>1, <1>3 DEF q

LEMMA CallBlocks ==
  ASSUME NEW s \in Nat, NEW n \in Nat
  PROVE  /\ FirstBlock(s) \in Nat /\ EndBlock(s, n) \in Nat
         /\ FirstBlock(s) <= EndBlock(s, n)
         /\ FirstBlock(s) * BlockSize <= s /\ s < (FirstBlock(s) * BlockSize) + BlockSize
         /\ s + n <= EndBlock(s, n) * BlockSize
         /\ \A k \in Nat : k < EndBlock(s, n) => k * BlockSize < s + n
         /\ \A k \in Nat : s + n <= (k * BlockSize) => EndBlock(s, n) <= k
<1>. DEFINE B == BlockSize
            f == FirstBlock(s)
            x == ((s + n) + B) - 1
            e == x \div B
            F == f * B
            E == e * B
<1>1. B \in Nat /\ B > 0 /\ x \in Nat /\ s + n \in Nat
  BY Sizes
<1>2. e = EndBlock(s, n)
  BY Sizes DEF EndBlock
<1>3. f \in Nat /\ F \in Nat /\ F <= s /\ s < F + B
  BY Quotient, Multiples DEF FirstBlock
<1>4. e \in Nat /\ E \in Nat /\ E <= x /\ x < E + B
  BY <1>1, Quotient, Multiples
<1>5. s + n <= E /\ E < (s + n) + B
  <2>1. x = ((s + n) + B) - 1
    OBVIOUS
  <2>. HIDE DEF B, x, e, E
  <2>. QED BY <1>1, <1>4, <2>1
<1>6. ASSUME NEW k \in Nat, k < e PROVE k * BlockSize < s + n
  <2>1. (k * B) + B <= E /\ k * B \in Nat
    BY <1>4, <1>6, Multiples
  <2>. DEFINE K == k * B
  <2>2. K + B <= E /\ K \in Nat
    BY <2>1
  <2>. HIDE DEF B, E, K
  <2>3. K < s + n
    BY <1>1, <1>4, <1>5, <2>2
  <2>. QED BY <2>3 DEF K, B
<1>7. ASSUME NEW k \in Nat, s + n <= k * BlockSize PROVE e <= k
  <2>. SUFFICES ASSUME k < e PROVE FALSE
    BY <1>4
  <2>1. k * BlockSize < s + n /\ k * BlockSize \in Nat
    BY <1>6, Multiples
  <2>. DEFINE K == k * BlockSize
  <2>2. K < s + n /\ s + n <= K /\ K \in Nat
    BY <1>7, <2>1
  <2>. HIDE DEF K
  <2>. QED BY <2>2
<1>8. f <= e
  <2>. SUFFICES ASSUME e < f PROVE FALSE
    BY <1>3, <1>4
  <2>1. E + B <= F
    BY <1>3, <1>4, Multiples
  <2>. HIDE DEF B, E, F, e, f, x
  <2>. QED BY <1>1, <1>3, <1>4, <1>5, <2>1
<1>. QED BY <1>2, <1>3, <1>4, <1>5, <1>6, <1>7, <1>8
-----------------------------------------------------------------------------
(* Every step keeps the invariant *)

LEMMA IdleCall ==
  ASSUME call' = NoCall
  PROVE  CallSound' /\ ReadSoFar' /\ WriteCovers' /\ WriteStored'
<1>1. call'.op = "none"
  BY DEF NoCall
<1>2. CallSound'
  BY DEF CallSound
<1>3. ReadSoFar'
  BY <1>1 DEF ReadSoFar
<1>4. WriteCovers' /\ WriteStored'
  BY <1>1 DEF WriteCovers, WriteStored
<1>. QED BY <1>2, <1>3, <1>4

\* With no write in progress, what anybody wrote lies within the size.
LEMMA IdleSizes ==
  ASSUME SizeCoversData, call = NoCall, NEW h \in Inodes, NEW o \in Offsets,
         CellOf(h, o) \in Data \ {0}
  PROVE  o < file_size[h]
<1>1. call.op = "none"
  BY DEF NoCall
<1>. QED BY <1>1 DEF SizeCoversData, Writing

\* A call that only reports.
LEMMA ReportIInv ==
  ASSUME IInv, call = NoCall, UNCHANGED <<inodeVars, fbv, content, call>>, ret' \in Int
  PROVE  IInv'
<1>1. UNCHANGED <<inuse, fname, file_size, direct, indirect, double_indirect, fbv, content>>
  BY DEF inodeVars
<1>2. TypeOK'
  BY <1>1 DEF IInv, TypeOK
<1>3. /\ Tree' /\ UnusedBlank' /\ FreeIsJunk'
      /\ \A k, o : CellOf(k, o)' = CellOf(k, o)
  BY <1>1, SameFiles DEF IInv
<1>4. NamesUnique'
  BY <1>1 DEF IInv, NamesUnique
<1>5. SizeCoversData'
  <2>1. SizeCoversData
    BY DEF IInv
  <2>2. ASSUME NEW k \in Inodes, NEW o \in Offsets, CellOf(k, o)' \in Data \ {0}
        PROVE  o < file_size'[k]
    BY <1>1, <1>3, <2>1, <2>2, IdleSizes
  <2>. QED BY <2>2 DEF SizeCoversData
<1>. QED BY <1>2, <1>3, <1>4, <1>5, IdleCall DEF IInv

LEMMA FilesizeIInv ==
  ASSUME IInv, NEW h \in Inodes, DfsInodeFilesize(h)
  PROVE  IInv'
<1>1. file_size[h] \in Nat
  BY DEF IInv, TypeOK
<1>2. ret' \in Int
  BY <1>1, BlockSets DEF DfsInodeFilesize
<1>. QED BY <1>2, ReportIInv DEF DfsInodeFilesize

\* An open reports, or takes an unused inode for a name no file has.
LEMMA OpenEffect ==
  ASSUME NEW n \in Names, DfsInodeOpen(n)
  PROVE  /\ call = NoCall /\ call' = NoCall /\ ret' \in Int
         /\ UNCHANGED <<direct, indirect, double_indirect, fbv, content>>
         /\ \/ UNCHANGED inodeVars
            \/ \E h \in Inodes :
                 /\ ~inuse[h] /\ \A k \in Inodes : inuse[k] => fname[k] # n
                 /\ inuse' = [inuse EXCEPT ![h] = TRUE]
                 /\ fname' = [fname EXCEPT ![h] = n]
                 /\ file_size' = [file_size EXCEPT ![h] = 0]
<1>. DEFINE named == {h \in Inodes : inuse[h] /\ fname[h] = n}
            unused == {h \in Inodes : ~inuse[h]}
            first(S) == CHOOSE h \in S : \A k \in S : h <= k
            old == first(named)
            new == first(unused)
<1>1. /\ call = NoCall
      /\ \/ /\ named # {}
            /\ ret' = old
            /\ UNCHANGED inodeVars
         \/ /\ named = {} /\ unused # {}
            /\ ret' = new
            /\ inuse' = [inuse EXCEPT ![new] = TRUE]
            /\ fname' = [fname EXCEPT ![new] = n]
            /\ file_size' = [file_size EXCEPT ![new] = 0]
            /\ UNCHANGED <<direct, indirect, double_indirect>>
         \/ /\ named = {} /\ unused = {}
            /\ ret' = DFS_FAIL
            /\ UNCHANGED inodeVars
      /\ UNCHANGED <<fbv, content, call>>
  BY DEF DfsInodeOpen
<1>2. Inodes \subseteq Nat /\ \A h \in Inodes : h \in Int
  BY DEF Inodes
<1>3. ASSUME NEW S \in SUBSET Inodes, S # {} PROVE first(S) \in S
  <2>1. S \in SUBSET Nat
    BY <1>2
  <2>. QED BY <1>3, <2>1, LeastIsChosen
<1>4. (named # {} => old \in named) /\ (unused # {} => new \in unused)
  BY <1>3
<1>5. \A h \in named : h \in Inodes
  OBVIOUS
<1>6. \A h \in unused : h \in Inodes /\ ~inuse[h]
  OBVIOUS
<1>7. named = {} => \A k \in Inodes : inuse[k] => fname[k] # n
  OBVIOUS
<1>. HIDE DEF named, unused, first, old, new
<1>8. ret' \in Int
  BY <1>1, <1>2, <1>4, <1>5, <1>6, BlockSets
<1>9. CASE UNCHANGED inodeVars
  BY <1>1, <1>8, <1>9 DEF inodeVars
<1>10. CASE /\ named = {} /\ unused # {}
            /\ inuse' = [inuse EXCEPT ![new] = TRUE]
            /\ fname' = [fname EXCEPT ![new] = n]
            /\ file_size' = [file_size EXCEPT ![new] = 0]
            /\ UNCHANGED <<direct, indirect, double_indirect>>
  <2>1. new \in Inodes /\ ~inuse[new]
    BY <1>4, <1>6, <1>10
  <2>. QED BY <1>1, <1>7, <1>8, <1>10, <2>1
<1>. QED BY <1>1, <1>9, <1>10

LEMMA OpenCells ==
  ASSUME IInv, NEW n \in Names, DfsInodeOpen(n)
  PROVE  \A k \in Inodes, o \in Offsets : CellOf(k, o)' = CellOf(k, o)
<1>1. UNCHANGED <<direct, indirect, double_indirect, fbv, content>>
  BY OpenEffect
<1>2. \A k \in Inodes, p \in Places : ptr'[k][p] = ptr[k][p]
  BY <1>1, SamePointers DEF IInv
<1>3. ASSUME NEW k \in Inodes, NEW o \in Offsets PROVE CellOf(k, o)' = CellOf(k, o)
  <2>1. CASE inuse[k]
    <3>1. inuse'[k]
      BY <2>1, OpenEffect DEF IInv, TypeOK, inodeVars
    <3>. QED BY <1>1, <1>2, <2>1, <3>1, SameCells
  <2>2. CASE ~inuse[k]
    <3>1. \A p \in Places : ptr[k][p] = 0 /\ ptr'[k][p] = 0
      BY <1>2, <2>2 DEF IInv, UnusedBlank
    <3>2. CellOf(k, o)' = Junk
      BY <3>1, BlankCells
    <3>3. CellOf(k, o) = Junk
      BY <3>1, UnmappedCells
    <3>. QED BY <3>2, <3>3
  <2>. QED BY <2>1, <2>2
<1>. QED BY <1>3

LEMMA OpenIInv ==
  ASSUME IInv, NEW n \in Names, DfsInodeOpen(n)
  PROVE  IInv'
<1>1. /\ call = NoCall /\ call' = NoCall /\ ret' \in Int
      /\ UNCHANGED <<direct, indirect, double_indirect, fbv, content>>
  BY OpenEffect
<1>2. CASE UNCHANGED inodeVars
  BY <1>1, <1>2, ReportIInv
<1>3. ASSUME NEW h \in Inodes, ~inuse[h], \A k \in Inodes : inuse[k] => fname[k] # n,
             inuse' = [inuse EXCEPT ![h] = TRUE], fname' = [fname EXCEPT ![h] = n],
             file_size' = [file_size EXCEPT ![h] = 0]
      PROVE  IInv'
  <2>1. TypeOK
    BY DEF IInv
  <2>2. /\ inuse' \in [Inodes -> BOOLEAN] /\ fname' \in [Inodes -> Names \cup {NoName}]
        /\ file_size' \in [Inodes -> Nat]
    BY <1>3, <2>1 DEF TypeOK
  <2>3. TypeOK'
    BY <1>1, <2>1, <2>2 DEF TypeOK
  <2>4. Tree' /\ FreeIsJunk' /\ \A k \in Inodes, p \in Places : ptr'[k][p] = ptr[k][p]
    BY <1>1, SamePointers DEF IInv
  <2>5. /\ \A k \in Inodes : k # h => /\ inuse'[k] <=> inuse[k]
                                      /\ fname'[k] = fname[k] /\ file_size'[k] = file_size[k]
        /\ inuse'[h] /\ fname'[h] = n
    BY <1>3, <2>1 DEF TypeOK
  <2>6. UnusedBlank'
    BY <2>4, <2>5 DEF IInv, UnusedBlank
  <2>7. NamesUnique'
    BY <1>3, <2>5 DEF IInv, NamesUnique
  <2>8. ASSUME NEW k \in Inodes, NEW o \in Offsets, CellOf(k, o)' \in Data \ {0}
        PROVE  o < file_size'[k]
    <3>1. CellOf(k, o) \in Data \ {0}
      BY <2>8, OpenCells
    <3>2. k # h
      <4>. SUFFICES ASSUME k = h PROVE FALSE
        OBVIOUS
      <4>1. \A p \in Places : ptr[k][p] = 0
        BY <1>3 DEF IInv, UnusedBlank
      <4>2. CellOf(k, o) = Junk
        BY <4>1, UnmappedCells
      <4>. QED BY <3>1, <4>2, BlockSets
    <3>3. o < file_size[k]
      BY <1>1, <3>1, IdleSizes DEF IInv
    <3>. QED BY <2>5, <3>2, <3>3
  <2>9. SizeCoversData'
    BY <2>8 DEF SizeCoversData
  <2>. QED BY <1>1, <2>3, <2>4, <2>6, <2>7, <2>9, IdleCall DEF IInv
<1>. QED BY <1>2, <1>3, OpenEffect

LEMMA BeginWriteIInv ==
  ASSUME IInv, NEW w \in Writes, BeginWrite(w)
  PROVE  IInv'
<1>1. /\ w.h \in Inodes /\ w.start \in Nat /\ w.mem \in Seq(Data) /\ Len(w.mem) \in Nat
  BY InodesAssumption
<1>2. /\ call = NoCall /\ inuse[w.h]
      /\ call' = [op |-> "write", h |-> w.h, start |-> w.start, mem |-> w.mem,
                  n |-> Len(w.mem), blk |-> FirstBlock(w.start), failed |-> FALSE]
      /\ UNCHANGED <<inuse, fname, file_size, direct, indirect, double_indirect, fbv,
                     content, ret>>
  BY DEF BeginWrite, inodeVars
<1>3. /\ FirstBlock(w.start) \in Nat /\ FirstBlock(w.start) <= EndBlock(w.start, Len(w.mem))
      /\ FirstBlock(w.start) * BlockSize <= w.start
      /\ FirstBlock(w.start) * BlockSize \in Nat
  BY <1>1, CallBlocks, Multiples
<1>4. /\ call'.op = "write" /\ call'.h = w.h /\ call'.start = w.start /\ call'.mem = w.mem
      /\ call'.n = Len(w.mem) /\ call'.blk = FirstBlock(w.start)
  BY <1>2
<1>5. TypeOK'
  <2>1. call' \in WriteCall
    BY <1>1, <1>2, <1>3 DEF WriteCall
  <2>. QED BY <1>2, <2>1 DEF IInv, TypeOK
<1>6. /\ Tree' /\ UnusedBlank' /\ FreeIsJunk'
      /\ \A k, o : CellOf(k, o)' = CellOf(k, o)
  BY <1>2, SameFiles DEF IInv
<1>7. NamesUnique'
  BY <1>2 DEF IInv, NamesUnique
<1>8. ASSUME NEW k \in Inodes, NEW o \in Offsets, CellOf(k, o)' \in Data \ {0}
      PROVE  o < file_size'[k]
  <2>1. SizeCoversData /\ call = NoCall
    BY <1>2 DEF IInv
  <2>. QED BY <1>2, <1>6, <1>8, <2>1, IdleSizes
<1>9. SizeCoversData'
  BY <1>8 DEF SizeCoversData
<1>10. WriteCovers'
  BY <1>1, <1>4, <1>8 DEF WriteCovers
<1>11. WriteStored'
  <2>1. ASSUME NEW o \in Offsets, InRange(o)', o < call'.blk * BlockSize PROVE FALSE
    <3>1. o \in Nat /\ w.start <= o
      BY <1>4, <2>1, OffsetIndex DEF InRange
    <3>. DEFINE F == FirstBlock(w.start) * BlockSize
    <3>2. o < F /\ F <= w.start /\ F \in Nat
      BY <1>3, <1>4, <2>1
    <3>. HIDE DEF F
    <3>. QED BY <1>1, <3>1, <3>2
  <2>. QED BY <2>1 DEF WriteStored
<1>12. CallSound'
  BY <1>2, <1>3, <1>4 DEF CallSound
<1>13. ReadSoFar'
  BY <1>4 DEF ReadSoFar
<1>. QED BY <1>5, <1>6, <1>7, <1>9, <1>10, <1>11, <1>12, <1>13 DEF IInv

LEMMA BeginReadIInv ==
  ASSUME IInv, NEW r \in Reads, BeginRead(r)
  PROVE  IInv'
<1>1. r.h \in Inodes /\ r.start \in Nat /\ r.n \in Nat
  BY InodesAssumption
<1>2. /\ call = NoCall /\ inuse[r.h]
      /\ call' = [op |-> "read", h |-> r.h, start |-> r.start, mem |-> <<>>,
                  n |-> r.n, blk |-> FirstBlock(r.start)]
      /\ UNCHANGED <<inuse, fname, file_size, direct, indirect, double_indirect, fbv,
                     content, ret>>
  BY DEF BeginRead, inodeVars
<1>3. /\ FirstBlock(r.start) \in Nat /\ FirstBlock(r.start) <= EndBlock(r.start, r.n)
      /\ FirstBlock(r.start) * BlockSize <= r.start
  BY <1>1, CallBlocks
<1>4. /\ call'.op = "read" /\ call'.h = r.h /\ call'.start = r.start /\ call'.mem = <<>>
      /\ call'.n = r.n /\ call'.blk = FirstBlock(r.start)
  BY <1>2
<1>5. TypeOK'
  <2>1. call' \in ReadCall
    BY <1>1, <1>2, <1>3 DEF ReadCall
  <2>. QED BY <1>2, <2>1 DEF IInv, TypeOK
<1>6. /\ Tree' /\ UnusedBlank' /\ FreeIsJunk'
      /\ \A k, o : CellOf(k, o)' = CellOf(k, o)
  BY <1>2, SameFiles DEF IInv
<1>7. NamesUnique'
  BY <1>2 DEF IInv, NamesUnique
<1>8. SizeCoversData'
  <2>1. SizeCoversData /\ call = NoCall
    BY <1>2 DEF IInv
  <2>2. ASSUME NEW k \in Inodes, NEW o \in Offsets, CellOf(k, o)' \in Data \ {0}
        PROVE  o < file_size'[k]
    BY <1>2, <1>6, <2>1, <2>2, IdleSizes
  <2>. QED BY <2>2 DEF SizeCoversData
<1>9. WriteCovers' /\ WriteStored'
  BY <1>4 DEF WriteCovers, WriteStored
<1>10. CallSound'
  BY <1>2, <1>3, <1>4 DEF CallSound
<1>11. ReadSoFar'
  <2>1. Len(call'.mem) = 0
    BY <1>4
  <2>2. Copied(r.start, r.n, FirstBlock(r.start)) = 0
    BY <1>3 DEF Copied
  <2>. QED BY <1>4, <2>1, <2>2 DEF ReadSoFar
<1>. QED BY <1>5, <1>6, <1>7, <1>8, <1>9, <1>10, <1>11 DEF IInv

LEMMA EndWriteIInv ==
  ASSUME IInv, EndWrite
  PROVE  IInv'
<1>. DEFINE h == call.h
            end == call.start + call.n
<1>1. TypeOK /\ call \in WriteCall
  BY CallKinds DEF IInv, EndWrite
<1>2. h \in Inodes /\ call.start \in Nat /\ call.n \in Nat /\ end \in Nat /\ file_size[h] \in Nat
  BY <1>1 DEF WriteCall, TypeOK
<1>3. /\ file_size' = [file_size EXCEPT ![h] = IF @ < end THEN end ELSE @]
      /\ ret' = call.n /\ call' = NoCall
      /\ UNCHANGED <<inuse, fname, direct, indirect, double_indirect, fbv, content>>
  BY DEF EndWrite
<1>4. /\ file_size' \in [Inodes -> Nat]
      /\ \A k \in Inodes : k # h => file_size'[k] = file_size[k]
      /\ file_size'[h] >= end /\ file_size'[h] >= file_size[h]
  <2>. HIDE DEF h, end
  <2>1. file_size \in [Inodes -> Nat]
    BY <1>1 DEF TypeOK
  <2>. QED BY <1>2, <1>3, <2>1
<1>5. TypeOK'
  BY <1>1, <1>2, <1>3, <1>4 DEF TypeOK
<1>6. /\ Tree' /\ UnusedBlank' /\ FreeIsJunk'
      /\ \A k, o : CellOf(k, o)' = CellOf(k, o)
  BY <1>3, SameFiles DEF IInv
<1>7. NamesUnique'
  BY <1>3 DEF IInv, NamesUnique
<1>8. SizeCoversData'
  <2>1. ASSUME NEW k \in Inodes, NEW o \in Offsets, CellOf(k, o)' \in Data \ {0}
        PROVE  o < file_size'[k]
    <3>1. o \in Nat /\ CellOf(k, o) \in Data \ {0}
      BY <1>6, <2>1, OffsetIndex
    <3>2. CASE k = h
      <4>1. o < file_size[h] \/ o < end
        BY <1>1, <3>1, <3>2, CallKinds DEF IInv, WriteCovers
      <4>2. file_size'[h] \in Nat
        BY <1>2, <1>4
      <4>. HIDE DEF h, end
      <4>. QED BY <1>2, <1>4, <3>1, <3>2, <4>1, <4>2
    <3>3. CASE k # h
      <4>1. SizeCoversData
        BY DEF IInv
      <4>2. o < file_size[k]
        BY <3>1, <3>3, <4>1 DEF SizeCoversData, Writing
      <4>. QED BY <1>4, <3>3, <4>2
    <3>. QED BY <3>2, <3>3
  <2>. QED BY <2>1 DEF SizeCoversData
<1>. QED BY <1>3, <1>5, <1>6, <1>7, <1>8, IdleCall DEF IInv

LEMMA EndReadIInv ==
  ASSUME IInv, EndRead
  PROVE  IInv'
<1>1. TypeOK /\ call \in ReadCall
  BY CallKinds DEF IInv, EndRead
<1>2. Len(call.mem) \in Nat
  BY <1>1 DEF ReadCall
<1>3. /\ ret' = Len(call.mem) /\ call' = NoCall /\ call.op = "read"
      /\ UNCHANGED <<inuse, fname, file_size, direct, indirect, double_indirect, fbv, content>>
  BY DEF EndRead, inodeVars
<1>4. TypeOK'
  BY <1>1, <1>2, <1>3 DEF TypeOK
<1>5. /\ Tree' /\ UnusedBlank' /\ FreeIsJunk'
      /\ \A k, o : CellOf(k, o)' = CellOf(k, o)
  BY <1>3, SameFiles DEF IInv
<1>6. NamesUnique'
  BY <1>3 DEF IInv, NamesUnique
<1>7. SizeCoversData'
  <2>1. SizeCoversData
    BY DEF IInv
  <2>2. ASSUME NEW k \in Inodes, NEW o \in Offsets, CellOf(k, o)' \in Data \ {0}
        PROVE  o < file_size'[k]
    BY <1>3, <1>5, <2>1, <2>2 DEF SizeCoversData, Writing
  <2>. QED BY <2>2 DEF SizeCoversData
<1>. QED BY <1>3, <1>4, <1>5, <1>6, <1>7, IdleCall DEF IInv

\* The cells of one block that a read of n cells from s still has to copy.
LEMMA WantedCells ==
  ASSUME NEW s \in Nat, NEW n \in Nat, NEW k \in Nat,
         FirstBlock(s) <= k, k < EndBlock(s, n),
         NEW W, W = {c \in Cells : (((k * BlockSize) + c) - s) + 1 \in 1 .. n}
  PROVE  /\ Cardinality(W) \in Nat
         /\ Copied(s, n, k) \in Nat
         /\ Copied(s, n, k) + Cardinality(W) = Copied(s, n, k + 1)
         /\ \A j \in 1 .. Cardinality(W) :
              /\ (((s + Copied(s, n, k)) + j) - 1) - (k * BlockSize) \in Cells
              /\ k * BlockSize <= ((s + Copied(s, n, k)) + j) - 1
<1>. DEFINE B == BlockSize
            K == k * B
            F == FirstBlock(s)
            C == Copied(s, n, k)
            C2 == Copied(s, n, k + 1)
            lo == (s + C) - K
            hi == ((s + C2) - K) - 1
<1>1. /\ B \in Nat /\ B > 0 /\ K \in Nat /\ (k + 1) * B = K + B
      /\ K < s + n /\ s < K + B
  <2>1. B \in Nat /\ B > 0 /\ K \in Nat /\ (k + 1) * B = K + B
    BY Sizes, Multiples
  <2>2. K < s + n /\ F \in Nat /\ s < (F * B) + B
    BY CallBlocks
  <2>3. F * B <= K /\ F * B \in Nat
    BY <2>2, Multiples
  <2>. DEFINE G == F * B
  <2>4. G <= K /\ G \in Nat /\ s < G + B
    BY <2>2, <2>3
  <2>. HIDE DEF G, K, B
  <2>. QED BY <2>1, <2>2, <2>4
<1>2. /\ C = IF K <= s THEN 0 ELSE IF K - s < n THEN K - s ELSE n
      /\ C2 = IF K + B <= s THEN 0 ELSE IF (K + B) - s < n THEN (K + B) - s ELSE n
  BY <1>1 DEF Copied
<1>. HIDE DEF B, K, C, C2
<1>3. /\ C \in Nat /\ C2 \in Nat /\ C = IF K <= s THEN 0 ELSE K - s
      /\ C2 = IF (K + B) - s < n THEN (K + B) - s ELSE n
  BY <1>1, <1>2
<1>4. lo \in Nat /\ hi \in Int /\ lo <= hi + 1 /\ hi < B
  BY <1>1, <1>3
<1>5. W = lo .. hi
  <2>1. ASSUME NEW c \in Nat, c < B
        PROVE  ((K + c) - s) + 1 \in 1 .. n <=> lo <= c /\ c <= hi
    BY <1>1, <1>3, <2>1
  <2>2. \A c : c \in lo .. hi => c \in Nat /\ c < B
    <3>. HIDE DEF lo, hi
    <3>. QED BY <1>1, <1>4
  <2>3. W = {c \in Cells : ((K + c) - s) + 1 \in 1 .. n}
    BY DEF K, B
  <2>. HIDE DEF lo, hi
  <2>4. \A c \in Cells : c \in Nat /\ c < B
    BY CellRange DEF B
  <2>5. \A c : c \in Nat /\ c < B => c \in Cells
    BY CellRange DEF B
  <2>6. \A c : c \in lo .. hi => c \in Nat /\ lo <= c /\ c <= hi
    BY <1>4
  <2>7. \A c \in Nat : lo <= c /\ c <= hi => c \in lo .. hi
    BY <1>4
  <2>. QED BY <2>1, <2>2, <2>3, <2>4, <2>5, <2>6, <2>7
<1>6. Cardinality(W) = (hi - lo) + 1
  <2>. HIDE DEF lo, hi
  <2>1. CASE hi < lo
    <3>1. lo .. hi = {} /\ (hi - lo) + 1 = 0
      BY <1>4, <2>1
    <3>. QED BY <1>5, <3>1, FS_EmptySet
  <2>2. CASE lo <= hi
    <3>1. Cardinality(lo .. hi) = (hi - lo) + 1
      BY <1>4, <2>2, FS_Interval
    <3>. QED BY <1>5, <3>1
  <2>. QED BY <1>4, <2>1, <2>2
<1>7. C + ((hi - lo) + 1) = C2 /\ (hi - lo) + 1 \in Nat
  BY <1>1, <1>3, <1>4
<1>8. ASSUME NEW j \in 1 .. (hi - lo) + 1
      PROVE  /\ (((s + C) + j) - 1) - K \in Nat /\ (((s + C) + j) - 1) - K < B
             /\ K <= ((s + C) + j) - 1
  BY <1>1, <1>3, <1>4
<1>. HIDE DEF lo, hi
<1>9. \A j \in 1 .. Cardinality(W) :
        /\ (((s + C) + j) - 1) - K \in Cells
        /\ K <= ((s + C) + j) - 1
  BY <1>6, <1>8, CellRange DEF B
<1>. QED BY <1>3, <1>6, <1>7, <1>9 DEF C, C2, K, B

LEMMA ReadStepIInv ==
  ASSUME IInv, ReadStep
  PROVE  IInv'
<1>. DEFINE h == call.h
            s == call.start
            n == call.n
            k == call.blk
            x == ReadBlock(content, DfsInodeTranslateVirtualToFilesys(h, k))
            wanted == {c \in Cells : Position(c) \in 1 .. n}
            C == Copied(s, n, k)
            new == [j \in 1 .. Cardinality(wanted) |-> x[(((s + C) + j) - 1) - (k * BlockSize)]]
            mem2 == call.mem \o new
<1>1. TypeOK /\ call \in ReadCall /\ call.op = "read" /\ call # NoCall
  BY CallKinds DEF IInv, ReadStep
<1>2. /\ h \in Inodes /\ s \in Nat /\ n \in Nat /\ k \in Nat /\ call.mem \in Seq(Cell)
  BY <1>1 DEF ReadCall
<1>3. /\ Len(call.mem) = C /\ FirstBlock(s) <= k /\ k < EndBlock(s, n) /\ inuse[h]
      /\ \A i \in 1 .. C : call.mem[i] = CellOf(h, (s + i) - 1)
  BY <1>1 DEF IInv, ReadSoFar, CallSound, ReadStep
<1>4. /\ call' = [call EXCEPT !.blk = k + 1, !.mem = mem2]
      /\ UNCHANGED <<inuse, fname, file_size, direct, indirect, double_indirect, fbv,
                     content, ret>>
  <2>. DEFINE K == k * BlockSize
              w(j) == s + Len(call.mem) + j - 1 - K
  <2>1. K \in Nat
    BY <1>2, Multiples
  <2>2. call' = [call EXCEPT !.blk = k + 1,
                   !.mem = call.mem \o [j \in 1 .. Cardinality(wanted) |-> x[w(j)]]]
    BY DEF ReadStep
  <2>3. \A j \in 1 .. Cardinality(wanted) : w(j) = (((s + C) + j) - 1) - K
    <3>. HIDE DEF K, C, s, k, wanted
    <3>1. C \in Nat
      BY <1>2, <1>3
    <3>2. \A j \in Int : w(j) = (((s + C) + j) - 1) - K
      BY <1>2, <1>3, <2>1, <3>1
    <3>. QED BY <3>2
  <2>4. [j \in 1 .. Cardinality(wanted) |-> x[w(j)]] = new
    <3>. HIDE DEF w, C, x, wanted, s, k
    <3>. QED BY <2>3
  <2>5. UNCHANGED <<inuse, fname, file_size, direct, indirect, double_indirect, fbv,
                    content, ret>>
    BY DEF ReadStep, inodeVars
  <2>. HIDE DEF new, w, x, wanted, k
  <2>. QED BY <2>2, <2>4, <2>5
<1>5. wanted = {c \in Cells : (((k * BlockSize) + c) - s) + 1 \in 1 .. n}
  <2>. DEFINE K == k * BlockSize
  <2>1. K \in Nat
    BY <1>2, Multiples
  <2>2. \A c \in Cells : Position(c) = K + (c - s) + 1
    BY DEF Position
  <2>3. \A c \in Cells : K + (c - s) + 1 = ((K + c) - s) + 1
    <3>. HIDE DEF K, s
    <3>. QED BY <1>2, <2>1, CellRange
  <2>. HIDE DEF K
  <2>4. \A c \in Cells : Position(c) = ((K + c) - s) + 1
    BY <2>2, <2>3
  <2>5. wanted = {c \in Cells : ((K + c) - s) + 1 \in 1 .. n}
    BY <2>4
  <2>. QED BY <2>5 DEF K
<1>. DEFINE N == Cardinality(wanted)
<1>6. /\ N \in Nat /\ C \in Nat /\ C + N = Copied(s, n, k + 1)
      /\ \A j \in 1 .. N :
           /\ (((s + C) + j) - 1) - (k * BlockSize) \in Cells
           /\ k * BlockSize <= ((s + C) + j) - 1
  <2>. HIDE DEF wanted, C, s, n, k
  <2>. QED BY <1>2, <1>3, <1>5, WantedCells DEF C
<1>7. x \in [Cells -> Cell]
  <2>1. content \in [Blocks -> [Cells -> Cell]]
    BY <1>1 DEF TypeOK
  <2>2. JunkBlock \in [Cells -> Cell]
    BY DEF JunkBlock, Cell
  <2>. QED BY <2>1, <2>2 DEF ReadBlock
<1>8. new \in Seq(Cell) /\ Len(new) = N
  <2>1. \A j \in 1 .. N : x[(((s + C) + j) - 1) - (k * BlockSize)] \in Cell
    <3>. HIDE DEF x, N, C, s, k
    <3>. QED BY <1>6, <1>7
  <2>2. new = [j \in 1 .. N |-> x[(((s + C) + j) - 1) - (k * BlockSize)]]
    OBVIOUS
  <2>3. new \in [1 .. N -> Cell]
    <3>. HIDE DEF new, x, N, C, s, k
    <3>. QED BY <2>1, <2>2
  <2>. HIDE DEF new, N
  <2>. QED BY <1>6, <2>3
<1>9. ASSUME NEW j \in 1 .. N
      PROVE  new[j] = CellOf(h, ((s + C) + j) - 1)
  <2>. DEFINE o == ((s + C) + j) - 1
              K == k * BlockSize
  <2>1. o - K \in Cells /\ K <= o
    BY <1>6
  <2>2. K \in Nat
    BY <1>2, Multiples
  <2>3. o \in Nat
    <3>. HIDE DEF N, C, s, k
    <3>. QED BY <1>2, <1>6
  <2>4. o < K + BlockSize
    <3>1. o - K < BlockSize /\ BlockSize \in Nat
      BY <2>1, CellRange, Sizes
    <3>. HIDE DEF o, K
    <3>. QED BY <2>2, <2>3, <3>1
  <2>5. o \div BlockSize = k /\ o % BlockSize = o - K
    <3>. HIDE DEF o
    <3>. QED BY <1>2, <2>1, <2>3, <2>4, QuotientIs DEF K
  <2>6. new[j] = x[o - K]
    BY <1>6
  <2>7. CellOf(h, o) = ReadBlock(content, DfsInodeTranslateVirtualToFilesys(h, o \div BlockSize))[o % BlockSize]
    BY DEF CellOf
  <2>. HIDE DEF o, K, new
  <2>8. CellOf(h, o) = x[o - K]
    BY <2>5, <2>7
  <2>. QED BY <2>6, <2>8 DEF o
<1>. HIDE DEF h, s, n, k, wanted, new, C, x, N
<1>10. /\ mem2 \in Seq(Cell) /\ Len(mem2) = C + N
       /\ \A i \in 1 .. C + N : mem2[i] = IF i <= C THEN call.mem[i] ELSE new[i - C]
  <2>1. call.mem \in Seq(Cell) /\ new \in Seq(Cell) /\ Len(call.mem) = C /\ Len(new) = N
    BY <1>2, <1>3, <1>8
  <2>. QED BY ONLY <2>1, ConcatProperties DEF mem2
<1>11. ASSUME NEW i \in 1 .. C + N PROVE mem2[i] = CellOf(h, (s + i) - 1)
  <2>1. CASE i <= C
    <3>1. i \in 1 .. C
      BY <1>6, <2>1
    <3>2. mem2[i] = call.mem[i]
      BY <1>10, <2>1
    <3>. QED BY <1>3, <3>1, <3>2
  <2>2. CASE ~(i <= C)
    <3>1. i - C \in 1 .. N
      BY <1>6, <2>2
    <3>2. mem2[i] = new[i - C]
      BY <1>10, <2>2
    <3>3. ((s + C) + (i - C)) - 1 = (s + i) - 1
      BY <1>2, <1>6
    <3>4. new[i - C] = CellOf(h, ((s + C) + (i - C)) - 1)
      BY <1>9, <3>1
    <3>. QED BY <3>2, <3>3, <3>4
  <2>. QED BY <2>1, <2>2
<1>. HIDE DEF mem2
<1>12. /\ call'.op = "read" /\ call'.h = h /\ call'.start = s /\ call'.n = n
       /\ call'.blk = k + 1 /\ call'.mem = mem2 /\ call' \in ReadCall
  <2>1. k + 1 \in Nat
    BY <1>2
  <2>. QED BY <1>1, <1>4, <1>10, <2>1 DEF ReadCall, h, s, n
<1>13. /\ Tree' /\ UnusedBlank' /\ FreeIsJunk'
       /\ \A a, o : CellOf(a, o)' = CellOf(a, o)
  BY <1>4, SameFiles DEF IInv
<1>14. TypeOK'
  BY <1>1, <1>4, <1>12 DEF TypeOK
<1>15. NamesUnique'
  BY <1>4 DEF IInv, NamesUnique
<1>16. SizeCoversData'
  <2>1. SizeCoversData
    BY DEF IInv
  <2>2. ASSUME NEW a \in Inodes, NEW o \in Offsets, CellOf(a, o)' \in Data \ {0}
        PROVE  o < file_size'[a]
    BY <1>1, <1>4, <1>13, <2>1, <2>2 DEF SizeCoversData, Writing
  <2>. QED BY <2>2 DEF SizeCoversData
<1>17. WriteCovers' /\ WriteStored'
  BY <1>12 DEF WriteCovers, WriteStored
<1>18. CallSound'
  <2>1. EndBlock(s, n) \in Nat /\ FirstBlock(s) \in Nat
    BY <1>2, CallBlocks
  <2>2. FirstBlock(s) <= k + 1 /\ k + 1 <= EndBlock(s, n)
    BY <1>2, <1>3, <2>1
  <2>. QED BY <1>3, <1>4, <1>12, <2>2 DEF CallSound
<1>19. ReadSoFar'
  BY <1>6, <1>10, <1>11, <1>12, <1>13 DEF ReadSoFar
<1>. QED BY <1>13, <1>14, <1>15, <1>16, <1>17, <1>18, <1>19 DEF IInv

\* Deleting: the inode loses every pointer, and the blocks they named.
LEMMA DeleteTree ==
  ASSUME Tree, FreeIsJunk, NEW h \in Inodes, NEW F,
         \A x : x \in F <=> x # 0 /\ \E p \in Places : ptr[h][p] = x,
         DFS_FAIL \notin F,
         FsTypes', fbv' = fbv \ F,
         \A x \in Blocks : content'[x] = IF x \in F THEN JunkBlock ELSE content[x],
         direct'[h] = NullPointers, indirect'[h] = 0, double_indirect'[h] = 0,
         \A k \in Inodes : k # h =>
           /\ direct'[k] = direct[k] /\ indirect'[k] = indirect[k]
           /\ double_indirect'[k] = double_indirect[k]
  PROVE  /\ Tree' /\ FreeIsJunk'
         /\ \A p \in Places : ptr'[h][p] = 0
         /\ \A k \in Inodes, p \in Places : k # h =>
              /\ ptr'[k][p] = ptr[k][p]
              /\ ptr[k][p] \in Blocks \ {0} => content'[ptr[k][p]] = content[ptr[k][p]]
<1>1. \A p \in Places : ptr[h][p] \in Blocks
  <2>. TAKE p \in Places
  <2>1. \A q \in Places : ptr[h][q] # DFS_FAIL
    BY BlockSets
  <2>2. ptr[h][p] # Junk
    BY <2>1, PlacesAre DEF Tree, Numbers
  <2>3. ptr[h][p] \in BlockNums \cup {Junk}
    BY DEF Tree, Numbers
  <2>. QED BY <2>1, <2>2, <2>3, BlockSets
<1>2. F \subseteq Blocks \ {0} /\ F \cap Reserved = {}
  BY <1>1 DEF Tree, Unshared
<1>3. ASSUME NEW k \in Inodes, k # h, NEW p \in Places, ptr[k][p] \in Blocks \ {0}
      PROVE  ptr[k][p] \notin F
  BY <1>3 DEF Tree, Unshared
<1>4. \A p \in Places : ptr'[h][p] = 0
  <2>. TAKE p \in Places
  <2>1. ptr'[h][p] = At(content', direct'[h], indirect'[h], double_indirect'[h], p)
    BY PtrIs
  <2>2. ptr'[h][p] = At(content', NullPointers, 0, 0, p)
    BY <2>1
  <2>. QED BY <2>2, NullPlaces
<1>5. ASSUME NEW k \in Inodes, k # h
      PROVE  \A p \in Places : ptr'[k][p] = ptr[k][p]
  <2>. DEFINE d == direct[k]
              s == indirect[k]
              t == double_indirect[k]
              C == content
              C2 == content'
  <2>1. \A p \in Places : ptr[k][p] = At(C, d, s, t, p)
    BY PtrIs
  <2>2. \A p \in Places : ptr'[k][p] = At(C2, d, s, t, p)
    BY <1>5, PtrIs
  <2>3. \A p \in TablePlaces : ptr[k][p] \in Blocks \ {0} => C2[ptr[k][p]] = C[ptr[k][p]]
    BY <1>3, <1>5, PlacesAre
  <2>. HIDE DEF d, s, t, C, C2
  <2>4. \A p \in TablePlaces : At(C, d, s, t, p) \in Blocks \ {0} =>
          C2[At(C, d, s, t, p)] = C[At(C, d, s, t, p)]
    BY <2>1, <2>3, PlacesAre
  <2>5. \A p \in Places : At(C2, d, s, t, p) = At(C, d, s, t, p)
    BY <2>4, SameTables
  <2>. QED BY <2>1, <2>2, <2>5
<1>6. Numbers'
  <2>. SUFFICES ASSUME NEW k \in Inodes, NEW p \in Places
                PROVE  /\ ptr'[k][p] \in BlockNums \cup {Junk}
                       /\ ptr'[k][p] = Junk => \E q \in TablePlaces : ptr'[k][q] = DFS_FAIL
    BY DEF Numbers
  <2>1. CASE k = h
    BY <1>4, <2>1, BlockSets
  <2>2. CASE k # h
    <3>1. /\ ptr[k][p] \in BlockNums \cup {Junk}
          /\ ptr[k][p] = Junk => \E q \in TablePlaces : ptr[k][q] = DFS_FAIL
      BY DEF Tree, Numbers
    <3>. QED BY <1>5, <2>2, <3>1, PlacesAre
  <2>. QED BY <2>1, <2>2
<1>7. Unshared'
  <2>. SUFFICES ASSUME NEW a \in Inodes, NEW k \in Inodes, NEW p \in Places, NEW q \in Places,
                       ptr'[a][p] \in Blocks \ {0}
                PROVE  /\ ptr'[a][p] \notin Reserved
                       /\ ptr'[k][q] = ptr'[a][p] => a = k /\ p = q
    BY DEF Unshared
  <2>1. a # h /\ ptr'[a][p] = ptr[a][p]
    BY <1>4, <1>5
  <2>2. k = h => ptr'[k][q] = 0
    BY <1>4
  <2>3. k # h => ptr'[k][q] = ptr[k][q]
    BY <1>5
  <2>. QED BY <2>1, <2>2, <2>3 DEF Tree, Unshared
<1>8. Counted'
  <2>. SUFFICES ASSUME NEW x \in Blocks
                PROVE  x \in fbv' <=>
                         x \in Reserved \/ \E k \in Inodes, p \in Places : ptr'[k][p] = x
    BY DEF Counted
  <2>1. x \in fbv <=> x \in Reserved \/ \E k \in Inodes, p \in Places : ptr[k][p] = x
    BY DEF Tree, Counted
  <2>2. ASSUME x \in fbv', x \notin Reserved
        PROVE  \E k \in Inodes, p \in Places : ptr'[k][p] = x
    <3>1. x # 0 /\ x \notin F /\ x \in fbv
      BY <2>2, BlockSets
    <3>2. PICK k \in Inodes, p \in Places : ptr[k][p] = x
      BY <2>1, <2>2, <3>1
    <3>3. k # h
      BY <3>1, <3>2
    <3>. QED BY <1>5, <3>2, <3>3
  <2>3. ASSUME NEW k \in Inodes, NEW p \in Places, ptr'[k][p] = x, x # 0
        PROVE  x \in fbv'
    <3>1. k # h /\ ptr[k][p] = x
      BY <1>4, <1>5, <2>3
    <3>2. x \notin F
      BY <1>3, <2>3, <3>1
    <3>. QED BY <2>1, <3>1, <3>2
  <2>4. x \in Reserved => x \in fbv'
    BY <1>2, <2>1
  <2>5. 0 \in Reserved
    BY BlockSets
  <2>. QED BY <2>2, <2>3, <2>4, <2>5
<1>9. FreeIsJunk'
  BY DEF FreeIsJunk
<1>. QED BY <1>3, <1>4, <1>5, <1>6, <1>7, <1>8, <1>9 DEF Tree

LEMMA DeleteEffect ==
  ASSUME IInv, NEW h \in Inodes, inuse[h], DfsInodeDelete(h)
  PROVE  /\ call = NoCall /\ call' = NoCall /\ ret' = DFS_SUCCESS
         /\ inuse' = [inuse EXCEPT ![h] = FALSE]
         /\ fname' = [fname EXCEPT ![h] = NoName]
         /\ file_size' = [file_size EXCEPT ![h] = 0]
         /\ Tree' /\ FreeIsJunk' /\ \A p \in Places : ptr'[h][p] = 0
         /\ \A k \in Inodes, p \in Places : k # h => ptr'[k][p] = ptr[k][p]
         /\ \A k \in Inodes, o \in Offsets : k # h => CellOf(k, o)' = CellOf(k, o)
<1>. DEFINE F == Refs(h)
<1>1. /\ call = NoCall /\ call' = NoCall /\ ret' = DFS_SUCCESS
      /\ DFS_FAIL \notin F /\ fbv' = fbv \ F
      /\ content' = [b \in Blocks |-> IF b \in F THEN JunkBlock ELSE content[b]]
      /\ inuse' = [inuse EXCEPT ![h] = FALSE]
      /\ fname' = [fname EXCEPT ![h] = NoName]
      /\ file_size' = [file_size EXCEPT ![h] = 0]
      /\ direct' = [direct EXCEPT ![h] = NullPointers]
      /\ indirect' = [indirect EXCEPT ![h] = 0]
      /\ double_indirect' = [double_indirect EXCEPT ![h] = 0]
  BY DEF DfsInodeDelete, FreedByDelete
<1>2. \A x : x \in F <=> x # 0 /\ \E p \in Places : ptr[h][p] = x
  BY RefsAre
<1>3. TypeOK /\ Tree /\ FreeIsJunk
  BY DEF IInv
<1>. HIDE DEF F
<1>4. /\ Tree' /\ FreeIsJunk'
      /\ \A p \in Places : ptr'[h][p] = 0
      /\ \A k \in Inodes, p \in Places : k # h =>
           /\ ptr'[k][p] = ptr[k][p]
           /\ ptr[k][p] \in Blocks \ {0} => content'[ptr[k][p]] = content[ptr[k][p]]
  <2>1. FsTypes
    BY <1>3 DEF Tree
  <2>2. /\ direct'[h] = NullPointers /\ indirect'[h] = 0 /\ double_indirect'[h] = 0
        /\ \A k \in Inodes : k # h =>
             /\ direct'[k] = direct[k] /\ indirect'[k] = indirect[k]
             /\ double_indirect'[k] = double_indirect[k]
        /\ \A x \in Blocks : content'[x] = IF x \in F THEN JunkBlock ELSE content[x]
    BY <1>1, <2>1 DEF FsTypes
  <2>3. FsTypes'
    <3>1. JunkBlock \in [Cells -> Cell] /\ NullPointers \in [0 .. NumDirect - 1 -> BlockNums]
      BY BlockSets DEF JunkBlock, NullPointers, Cell
    <3>2. 0 \in BlockNums
      BY BlockSets
    <3>. HIDE DEF JunkBlock, NullPointers
    <3>. QED BY <1>1, <2>1, <3>1, <3>2 DEF FsTypes
  <2>4. h \in Inodes
    OBVIOUS
  <2>. QED BY ONLY <1>1, <1>2, <1>3, <2>2, <2>3, <2>4, DeleteTree
<1>5. \A k \in Inodes : k # h => (inuse'[k] <=> inuse[k])
  BY <1>1, <1>3 DEF TypeOK
<1>6. ASSUME NEW k \in Inodes, k # h
      PROVE  \A o \in Offsets : CellOf(k, o)' = CellOf(k, o)
  BY <1>4, <1>5, <1>6, SameCells
<1>. QED BY <1>1, <1>4, <1>6

LEMMA DeleteIInv ==
  ASSUME IInv, NEW h \in Inodes, DfsInodeDelete(h)
  PROVE  IInv'
<1>1. CASE ~inuse[h]
  <2>1. call = NoCall /\ ret' = DFS_FAIL /\ UNCHANGED <<inodeVars, fbv, content, call>>
    BY <1>1 DEF DfsInodeDelete
  <2>. QED BY <2>1, ReportIInv, BlockSets
<1>2. CASE inuse[h]
  <2>1. /\ call = NoCall /\ call' = NoCall /\ ret' = DFS_SUCCESS
        /\ inuse' = [inuse EXCEPT ![h] = FALSE]
        /\ fname' = [fname EXCEPT ![h] = NoName]
        /\ file_size' = [file_size EXCEPT ![h] = 0]
        /\ Tree' /\ FreeIsJunk' /\ \A p \in Places : ptr'[h][p] = 0
        /\ \A k \in Inodes, p \in Places : k # h => ptr'[k][p] = ptr[k][p]
        /\ \A k \in Inodes, o \in Offsets : k # h => CellOf(k, o)' = CellOf(k, o)
    BY <1>2, DeleteEffect
  <2>2. /\ inuse' \in [Inodes -> BOOLEAN] /\ fname' \in [Inodes -> Names \cup {NoName}]
        /\ file_size' \in [Inodes -> Nat]
    BY <2>1 DEF IInv, TypeOK
  <2>3. TypeOK'
    <3>1. FsTypes'
      BY <2>1 DEF Tree
    <3>2. ret' \in Int
      BY <2>1 DEF DFS_SUCCESS
    <3>. QED BY <2>1, <2>2, <3>1, <3>2 DEF TypeOK, FsTypes
  <2>4. /\ ~inuse'[h]
        /\ \A k \in Inodes : k # h => /\ inuse'[k] <=> inuse[k]
                                      /\ fname'[k] = fname[k] /\ file_size'[k] = file_size[k]
    BY <2>1 DEF IInv, TypeOK
  <2>5. UnusedBlank'
    BY <2>1, <2>4 DEF IInv, UnusedBlank
  <2>6. NamesUnique'
    BY <2>4 DEF IInv, NamesUnique
  <2>7. ASSUME NEW k \in Inodes, NEW o \in Offsets, CellOf(k, o)' \in Data \ {0}
        PROVE  o < file_size'[k]
    <3>1. k # h
      <4>. SUFFICES ASSUME k = h PROVE FALSE
        OBVIOUS
      <4>1. CellOf(k, o)' = Junk
        BY <2>1, BlankCells
      <4>. QED BY <2>7, <4>1, BlockSets
    <3>2. o < file_size[k]
      BY <2>1, <2>7, <3>1, IdleSizes DEF IInv
    <3>. QED BY <2>4, <3>1, <3>2
  <2>8. SizeCoversData'
    BY <2>7 DEF SizeCoversData
  <2>. QED BY <2>1, <2>3, <2>5, <2>6, <2>8, IdleCall DEF IInv
<1>. QED BY <1>1, <1>2

\* What a step of a write puts at offset o of its file.
LEMMA StoredCell ==
  ASSUME call \in WriteCall, NEW o \in Offsets, o \div BlockSize = call.blk, NEW b
  PROVE  /\ InRange(o) => Stored(b)[o % BlockSize] = call.mem[(o - call.start) + 1]
         /\ ~InRange(o) => Stored(b)[o % BlockSize] = Base(content, b)[o % BlockSize]
         /\ Base(content, b)[o % BlockSize] \in {0, ReadBlock(content, b)[o % BlockSize]}
<1>. DEFINE c == o % BlockSize
            s == call.start
            n == call.n
            K == call.blk * BlockSize
<1>1. s \in Nat /\ n \in Nat /\ call.blk \in Nat /\ K \in Nat
  BY Multiples DEF WriteCall
<1>2. o \in Nat /\ c \in Cells /\ c \in Nat
  BY OffsetIndex, CellRange
<1>3. c = o - K
  BY <1>2, Quotient
<1>4. Position(c) = K + (c - s) + 1
  BY DEF Position
<1>5. InRange(o) <=> s <= o /\ o < s + n
  BY DEF InRange
<1>6. Stored(b)[c] = IF Position(c) \in 1 .. n THEN call.mem[Position(c)] ELSE Base(content, b)[c]
  BY <1>2 DEF Stored, StoredOn
<1>7. Base(content, b)[c] \in {0, ReadBlock(content, b)[c]}
  BY <1>2 DEF Base, ZeroBlock
<1>. HIDE DEF c, s, n, K
<1>8. Position(c) = (o - s) + 1
  BY <1>1, <1>2, <1>3, <1>4
<1>9. Position(c) \in 1 .. n <=> InRange(o)
  BY <1>1, <1>2, <1>5, <1>8
<1>. QED BY <1>6, <1>7, <1>8, <1>9 DEF c, s

LEMMA WriteStepIInv ==
  ASSUME IInv, WriteStep
  PROVE  IInv'
<1>0. PICK h, s, n, k : h = call.h /\ s = call.start /\ n = call.n /\ k = call.blk
  OBVIOUS
<1>1. TypeOK /\ call \in WriteCall /\ call.op = "write" /\ call # NoCall /\ Tree /\ FreeIsJunk
  BY CallKinds DEF IInv, WriteStep
<1>2. /\ h \in Inodes /\ s \in Nat /\ n \in Nat /\ k \in Nat /\ call.mem \in Seq(Data)
      /\ call.failed \in BOOLEAN
  BY <1>0, <1>1 DEF WriteCall
<1>3. inuse[h] /\ n = Len(call.mem) /\ FirstBlock(s) <= k /\ k < EndBlock(s, n)
  BY <1>0, <1>1 DEF IInv, CallSound, WriteStep
<1>4. UNCHANGED <<inuse, fname, file_size, ret>>
  BY DEF WriteStep
<1>5. PICK b \in BlockNums :
        /\ WroteBlock(h, k, b)
        /\ call' = [call EXCEPT !.blk = @ + 1, !.failed = @ \/ b = DFS_FAIL]
  BY <1>0, <1>1, <1>3, WriteEffect
<1>6. /\ call'.op = "write" /\ call'.h = h /\ call'.start = s /\ call'.n = n
      /\ call'.mem = call.mem /\ call'.blk = k + 1
      /\ (~call'.failed => ~call.failed /\ b # DFS_FAIL) /\ call' \in WriteCall
  <2>1. /\ call'.op = "write" /\ call'.h = h /\ call'.start = s /\ call'.n = n
        /\ call'.mem = call.mem /\ call'.blk = k + 1
    BY <1>0, <1>1, <1>5 DEF WriteCall
  <2>2. call'.failed = (call.failed \/ b = DFS_FAIL)
    BY <1>1, <1>5 DEF WriteCall
  <2>3. ~call'.failed => ~call.failed /\ b # DFS_FAIL
    BY <2>2
  <2>4. call' \in WriteCall
    <3>1. k + 1 \in Nat /\ (call.failed \/ b = DFS_FAIL) \in BOOLEAN
      BY <1>2
    <3>. QED BY <1>0, <1>1, <1>5, <3>1 DEF WriteCall
  <2>. QED BY <2>1, <2>3, <2>4
<1>7. FsTypes' /\ Wrote(h, k)
  BY <1>5 DEF WroteBlock
<1>8. Tree'
  BY <1>1, <1>2, <1>7, WroteKeepsTree
<1>9. /\ \A a \in Inodes, o \in Offsets :
           a # h \/ o \div BlockSize # k \/ b \notin Blocks => cells'[a][o] = cells[a][o]
      /\ \A o \in Offsets :
           o \div BlockSize = k /\ b \in Blocks =>
             /\ cells'[h][o] = Stored(b)[o % BlockSize]
             /\ ReadBlock(content, b)[o % BlockSize] = cells[h][o]
  BY <1>1, <1>2, <1>3, <1>4, <1>5, WriteChanges
<1>10. ASSUME NEW a \in Inodes, NEW o \in Offsets
       PROVE  CellOf(a, o)' = cells'[a][o] /\ CellOf(a, o) = cells[a][o] /\ o \in Nat
  BY CellsAre, OffsetIndex
<1>11. TypeOK'
  BY <1>1, <1>4, <1>6, <1>7 DEF TypeOK, FsTypes
<1>12. FreeIsJunk'
  <2>. SUFFICES ASSUME NEW x \in Blocks \ fbv' PROVE content'[x] = JunkBlock
    BY DEF FreeIsJunk
  <2>1. x \notin fbv /\ fbv \subseteq fbv'
    BY <1>7 DEF Wrote
  <2>2. content[x] = JunkBlock
    BY <1>1, <2>1 DEF FreeIsJunk
  <2>3. \A p \in Places : ptr[h][p] # x
    BY <1>1, <1>2, <2>1 DEF Tree, Counted
  <2>4. Framed(h, k)
    BY <1>7 DEF Wrote
  <2>. QED BY <2>2, <2>3, <2>4 DEF Framed, Touched
<1>13. UnusedBlank'
  <2>. SUFFICES ASSUME NEW a \in Inodes, ~inuse'[a], NEW p \in Places PROVE ptr'[a][p] = 0
    BY DEF UnusedBlank
  <2>1. ~inuse[a] /\ a # h
    BY <1>3, <1>4
  <2>2. ptr'[a][p] = ptr[a][p]
    BY <1>7, <2>1 DEF Wrote
  <2>. QED BY <2>1, <2>2 DEF IInv, UnusedBlank
<1>14. NamesUnique'
  BY <1>4 DEF IInv, NamesUnique
<1>15. ReadSoFar'
  BY <1>6 DEF ReadSoFar
<1>16. CallSound'
  <2>1. EndBlock(s, n) \in Nat /\ FirstBlock(s) \in Nat
    BY <1>2, CallBlocks
  <2>2. FirstBlock(s) <= k + 1 /\ k + 1 <= EndBlock(s, n)
    BY <1>2, <1>3, <2>1
  <2>. QED BY <1>3, <1>4, <1>6, <2>2 DEF CallSound
<1>17. ASSUME NEW o \in Offsets, CellOf(h, o)' \in Data \ {0}
       PROVE  o < file_size'[h] \/ o < s + n
  <2>1. CASE o \div BlockSize # k \/ b \notin Blocks
    <3>1. CellOf(h, o) \in Data \ {0}
      BY <1>2, <1>9, <1>10, <1>17, <2>1
    <3>2. WriteCovers
      BY DEF IInv
    <3>. QED BY <1>0, <1>1, <1>4, <3>1, <3>2 DEF WriteCovers
  <2>2. CASE o \div BlockSize = k /\ b \in Blocks
    <3>1. /\ cells'[h][o] = Stored(b)[o % BlockSize]
          /\ ReadBlock(content, b)[o % BlockSize] = CellOf(h, o)
      BY <1>2, <1>9, <1>10, <2>2
    <3>2. CASE InRange(o)
      BY <1>0, <3>2 DEF InRange
    <3>3. CASE ~InRange(o)
      <4>1. CellOf(h, o)' \in {0, CellOf(h, o)}
        BY <1>0, <1>1, <1>2, <1>10, <2>2, <3>1, <3>3, StoredCell
      <4>2. CellOf(h, o) \in Data \ {0}
        BY <1>17, <4>1
      <4>3. WriteCovers
        BY DEF IInv
      <4>. QED BY <1>0, <1>1, <1>4, <4>2, <4>3 DEF WriteCovers
    <3>. QED BY <3>2, <3>3
  <2>. QED BY <2>1, <2>2
<1>18. WriteCovers'
  BY <1>2, <1>6, <1>17 DEF WriteCovers
<1>19. WriteStored'
  <2>. SUFFICES ASSUME ~call'.failed, NEW o \in Offsets, InRange(o)', o < call'.blk * BlockSize
                PROVE  CellOf(h, o)' = call'.mem[(o - call'.start) + 1]
    BY <1>6 DEF WriteStored
  <2>1. ~call.failed /\ b \in Blocks
    BY <1>2, <1>6 DEF BlockNums
  <2>2. InRange(o) /\ o < (k + 1) * BlockSize
    BY <1>0, <1>6 DEF InRange
  <2>3. CASE o \div BlockSize = k
    <3>1. cells'[h][o] = Stored(b)[o % BlockSize]
      BY <1>9, <2>1, <2>3
    <3>2. Stored(b)[o % BlockSize] = call.mem[(o - call.start) + 1]
      BY <1>0, <1>1, <2>2, <2>3, StoredCell
    <3>3. CellOf(h, o)' = cells'[h][o]
      BY <1>2, <1>10
    <3>4. call'.mem = call.mem /\ call'.start = call.start
      BY <1>0, <1>6
    <3>. QED BY <3>1, <3>2, <3>3, <3>4
  <2>4. CASE o \div BlockSize # k
    <3>1. o \in Nat
      BY <1>2, <1>10
    <3>2. o < k * BlockSize
      <4>. DEFINE K == k * BlockSize
                  B == BlockSize
      <4>1. (k + 1) * BlockSize = K + B /\ K \in Nat /\ B \in Nat
        BY <1>2, Multiples, Sizes
      <4>2. ~(K <= o /\ o < K + B)
        BY <1>2, <2>4, <3>1, QuotientIs
      <4>3. o < K + B
        BY <2>2, <4>1
      <4>. HIDE DEF K, B
      <4>4. o < K
        BY <3>1, <4>1, <4>2, <4>3
      <4>. QED BY <4>4 DEF K
    <3>3. CellOf(h, o)' = CellOf(h, o)
      BY <1>2, <1>9, <1>10, <2>4
    <3>4. WriteStored
      BY DEF IInv
    <3>5. CellOf(h, o) = call.mem[(o - s) + 1]
      BY <1>0, <1>1, <2>1, <2>2, <3>2, <3>4 DEF WriteStored
    <3>. QED BY <1>6, <3>3, <3>5
  <2>. QED BY <2>3, <2>4
<1>20. SizeCoversData'
  <2>. SUFFICES ASSUME NEW a \in Inodes, NEW o \in Offsets, CellOf(a, o)' \in Data \ {0}, a # h
                PROVE  o < file_size'[a]
    BY <1>6 DEF SizeCoversData, Writing
  <2>1. CellOf(a, o) \in Data \ {0}
    BY <1>9, <1>10
  <2>2. ~Writing(a) /\ SizeCoversData
    BY <1>0 DEF Writing, IInv
  <2>. QED BY <1>4, <2>1, <2>2 DEF SizeCoversData
<1>. QED BY <1>8, <1>11, <1>12, <1>13, <1>14, <1>15, <1>16, <1>18, <1>19, <1>20 DEF IInv

LEMMA StutterIInv ==
  ASSUME IInv, UNCHANGED vars
  PROVE  IInv'
<1>1. UNCHANGED <<inuse, fname, file_size, direct, indirect, double_indirect, fbv,
                  content, call, ret>>
  BY DEF vars, inodeVars
<1>2. /\ Tree' /\ UnusedBlank' /\ FreeIsJunk'
      /\ \A k, o : CellOf(k, o)' = CellOf(k, o)
  BY <1>1, SameFiles DEF IInv
<1>3. TypeOK'
  BY <1>1 DEF IInv, TypeOK
<1>4. NamesUnique' /\ CallSound'
  BY <1>1 DEF IInv, NamesUnique, CallSound
<1>5. ReadSoFar'
  BY <1>1, <1>2 DEF IInv, ReadSoFar
<1>6. WriteCovers'
  BY <1>1, <1>2 DEF IInv, WriteCovers
<1>7. WriteStored'
  BY <1>1, <1>2 DEF IInv, WriteStored, InRange
<1>8. SizeCoversData'
  <2>1. SizeCoversData
    BY DEF IInv
  <2>2. ASSUME NEW k \in Inodes, NEW o \in Offsets, CellOf(k, o)' \in Data \ {0}
        PROVE  o < file_size'[k] \/ Writing(k)'
    <3>1. o < file_size[k] \/ Writing(k)
      BY <1>2, <2>1, <2>2 DEF SizeCoversData
    <3>. QED BY <1>1, <3>1 DEF Writing
  <2>. QED BY <2>2 DEF SizeCoversData
<1>. QED BY <1>2, <1>3, <1>4, <1>5, <1>6, <1>7, <1>8 DEF IInv

LEMMA NextIInv == IInv /\ [Next]_vars => IInv'
<1>. SUFFICES ASSUME IInv, [Next]_vars PROVE IInv'
  OBVIOUS
<1>1. ASSUME NEW n \in Names, DfsInodeOpen(n) PROVE IInv'
  BY <1>1, OpenIInv
<1>2. ASSUME NEW h \in Inodes, DfsInodeDelete(h) PROVE IInv'
  BY <1>2, DeleteIInv
<1>3. ASSUME NEW h \in Inodes, DfsInodeFilesize(h) PROVE IInv'
  BY <1>3, FilesizeIInv
<1>4. ASSUME NEW w \in Writes, BeginWrite(w) PROVE IInv'
  BY <1>4, BeginWriteIInv
<1>5. ASSUME NEW r \in Reads, BeginRead(r) PROVE IInv'
  BY <1>5, BeginReadIInv
<1>6. CASE WriteStep
  BY <1>6, WriteStepIInv
<1>7. CASE EndWrite
  BY <1>7, EndWriteIInv
<1>8. CASE ReadStep
  BY <1>8, ReadStepIInv
<1>9. CASE EndRead
  BY <1>9, EndReadIInv
<1>10. CASE UNCHANGED vars
  BY <1>10, StutterIInv
<1>. QED BY <1>1, <1>2, <1>3, <1>4, <1>5, <1>6, <1>7, <1>8, <1>9, <1>10 DEF Next
-----------------------------------------------------------------------------
(* What a step does to the cells *)

LEMMA QuietCells ==
  ASSUME IInv,
         \/ \E h \in Inodes : DfsInodeFilesize(h)
         \/ \E w \in Writes : BeginWrite(w)
         \/ \E r \in Reads : BeginRead(r)
         \/ EndWrite \/ ReadStep \/ EndRead \/ UNCHANGED vars
  PROVE  \A k, o : CellOf(k, o)' = CellOf(k, o)
<1>1. UNCHANGED <<inuse, direct, indirect, double_indirect, fbv, content>>
  <2>1. CASE \E h \in Inodes : DfsInodeFilesize(h)
    BY <2>1 DEF DfsInodeFilesize, inodeVars
  <2>2. CASE \E w \in Writes : BeginWrite(w)
    BY <2>2 DEF BeginWrite, inodeVars
  <2>3. CASE \E r \in Reads : BeginRead(r)
    BY <2>3 DEF BeginRead, inodeVars
  <2>4. CASE EndWrite
    BY <2>4 DEF EndWrite
  <2>5. CASE ReadStep
    BY <2>5 DEF ReadStep, inodeVars
  <2>6. CASE EndRead
    BY <2>6 DEF EndRead, inodeVars
  <2>7. CASE UNCHANGED vars
    BY <2>7 DEF vars, inodeVars
  <2>. QED BY <2>1, <2>2, <2>3, <2>4, <2>5, <2>6, <2>7
<1>. QED BY <1>1, SameFiles DEF IInv

LEMMA WriteCells ==
  ASSUME IInv, WriteStep, NEW k \in Inodes, NEW o \in Offsets, CellOf(k, o)' # CellOf(k, o)
  PROVE  /\ k = call.h /\ o \div BlockSize = call.blk
         /\ \E b \in Blocks :
              /\ CellOf(k, o)' = Stored(b)[o % BlockSize]
              /\ CellOf(k, o) = ReadBlock(content, b)[o % BlockSize]
<1>1. call \in WriteCall /\ call # NoCall /\ call.op = "write" /\ Tree /\ FreeIsJunk
  BY CallKinds DEF IInv, WriteStep
<1>2. call.h \in Inodes /\ call.blk \in Nat
  BY <1>1 DEF WriteCall
<1>3. inuse[call.h] /\ call.n = Len(call.mem) /\ inuse' = inuse
  BY <1>1 DEF IInv, CallSound, WriteStep
<1>4. PICK b \in BlockNums : WroteBlock(call.h, call.blk, b)
  BY <1>1, <1>3, WriteEffect
<1>5. /\ k # call.h \/ o \div BlockSize # call.blk \/ b \notin Blocks =>
           cells'[k][o] = cells[k][o]
      /\ k = call.h /\ o \div BlockSize = call.blk /\ b \in Blocks =>
           /\ cells'[k][o] = Stored(b)[o % BlockSize]
           /\ ReadBlock(content, b)[o % BlockSize] = cells[k][o]
  BY <1>1, <1>2, <1>3, <1>4, WriteChanges
<1>6. CellOf(k, o)' = cells'[k][o] /\ CellOf(k, o) = cells[k][o]
  BY CellsAre
<1>. QED BY <1>5, <1>6

\* Cells change in two ways.
LEMMA WhoChanges ==
  ASSUME IInv, [Next]_vars, NEW k \in Inodes, NEW o \in Offsets, CellOf(k, o)' # CellOf(k, o)
  PROVE  WriteStep \/ (inuse[k] /\ DfsInodeDelete(k))
<1>1. ASSUME NEW n \in Names, DfsInodeOpen(n) PROVE FALSE
  BY <1>1, OpenCells
<1>2. ASSUME NEW h \in Inodes, DfsInodeDelete(h) PROVE inuse[k] /\ DfsInodeDelete(k)
  <2>1. CASE inuse[h]
    BY <1>2, <2>1, DeleteEffect
  <2>2. CASE ~inuse[h]
    <3>1. UNCHANGED <<inuse, direct, indirect, double_indirect, fbv, content>>
      BY <1>2, <2>2 DEF DfsInodeDelete, inodeVars
    <3>. QED BY <3>1, SameFiles DEF IInv
  <2>. QED BY <2>1, <2>2
<1>3. ~(\/ \E h \in Inodes : DfsInodeFilesize(h)
        \/ \E w \in Writes : BeginWrite(w)
        \/ \E r \in Reads : BeginRead(r)
        \/ EndWrite \/ ReadStep \/ EndRead \/ UNCHANGED vars)
  BY QuietCells
<1>. QED BY <1>1, <1>2, <1>3 DEF Next

LEMMA WhoEnds ==
  ASSUME IInv, [Next]_vars, call.op \in {"write", "read"}, call' = NoCall
  PROVE  IF call.op = "write" THEN EndWrite ELSE EndRead
<1>1. call # NoCall /\ call'.op = "none"
  BY DEF NoCall
<1>2. ~(\E n \in Names : DfsInodeOpen(n))
  BY <1>1 DEF DfsInodeOpen
<1>3. ~(\E h \in Inodes : DfsInodeDelete(h) \/ DfsInodeFilesize(h))
  BY <1>1 DEF DfsInodeDelete, DfsInodeFilesize
<1>4. ~(\E w \in Writes : BeginWrite(w)) /\ ~(\E r \in Reads : BeginRead(r))
  BY <1>1 DEF BeginWrite, BeginRead
<1>5. ~WriteStep
  <2>. SUFFICES ASSUME WriteStep PROVE FALSE
    OBVIOUS
  <2>1. call \in WriteCall /\ call.n = Len(call.mem) /\ inuse[call.h] /\ Tree
    BY <1>1, CallKinds DEF IInv, CallSound, WriteStep
  <2>2. PICK b \in BlockNums : call' = [call EXCEPT !.blk = @ + 1, !.failed = @ \/ b = DFS_FAIL]
    BY <2>1, WriteEffect
  <2>3. call'.op = call.op
    BY <2>1, <2>2 DEF WriteCall
  <2>. QED BY <1>1, <2>3
<1>6. ~ReadStep
  <2>. SUFFICES ASSUME ReadStep PROVE FALSE
    OBVIOUS
  <2>1. call \in ReadCall
    BY CallKinds DEF IInv, ReadStep
  <2>2. call'.op = call.op
    BY <2>1 DEF ReadCall, ReadStep
  <2>. QED BY <1>1, <2>2
<1>7. ~UNCHANGED vars
  BY <1>1 DEF vars
<1>8. EndWrite \/ EndRead
  BY <1>2, <1>3, <1>4, <1>5, <1>6, <1>7 DEF Next
<1>. QED BY <1>8 DEF EndWrite, EndRead

\* A write loses the rest of a block only when it starts with it.
LEMMA WriteLoses ==
  ASSUME IInv, WriteStep, NEW h \in Inodes, NEW o \in Offsets,
         CellOf(h, o)' # CellOf(h, o), ~InRange(o)
  PROVE  /\ call.start % BlockSize = 0 /\ call.n < BlockSize
         /\ o \div BlockSize = call.start \div BlockSize
<1>0. PICK s, n, k : s = call.start /\ n = call.n /\ k = call.blk
  OBVIOUS
<1>1. call \in WriteCall /\ call # NoCall
  BY CallKinds DEF IInv, WriteStep
<1>2. s \in Nat /\ n \in Nat /\ k \in Nat
  BY <1>0, <1>1 DEF WriteCall
<1>3. FirstBlock(s) <= k /\ k < EndBlock(s, n)
  BY <1>0, <1>1 DEF IInv, CallSound, WriteStep
<1>4. PICK b \in Blocks :
        /\ CellOf(h, o)' = Stored(b)[o % BlockSize]
        /\ CellOf(h, o) = ReadBlock(content, b)[o % BlockSize]
  BY WriteCells
<1>5. o \div BlockSize = k /\ o \in Nat
  BY <1>0, WriteCells, OffsetIndex
<1>6. Base(content, b) # ReadBlock(content, b)
  BY <1>0, <1>1, <1>4, <1>5, StoredCell
<1>7. /\ k = FirstBlock(s) => s % BlockSize = 0
      /\ k # FirstBlock(s) /\ k = EndBlock(s, n) - 1 => (s + n) % BlockSize = 0
  BY <1>0, <1>6 DEF Base
<1>. DEFINE B == BlockSize
            K == k * B
            F == FirstBlock(s)
            G == F * B
            E == EndBlock(s, n)
<1>8. B \in Nat /\ B > 0 /\ K \in Nat /\ K <= o /\ o < K + B
  BY <1>2, <1>5, Sizes, Multiples, Quotient
<1>9. /\ F \in Nat /\ G \in Nat /\ G <= s /\ s < G + B /\ E \in Nat /\ K < s + n
      /\ F = s \div B
  BY <1>2, <1>3, CallBlocks, Multiples DEF FirstBlock
<1>10. ~(s <= o /\ o < s + n)
  BY <1>0 DEF InRange
<1>11. CASE k = F
  <2>1. s % B = 0 /\ s % B = s - ((s \div B) * B)
    BY <1>2, <1>7, <1>11, Quotient
  <2>2. s = K
    <3>1. s - G = 0
      BY <1>9, <2>1
    <3>2. G = K
      BY <1>11
    <3>. HIDE DEF G, K
    <3>. QED BY <1>2, <1>9, <3>1, <3>2
  <2>3. n < B
    <3>. HIDE DEF B, K
    <3>. QED BY <1>2, <1>5, <1>8, <1>10, <2>2
  <2>. QED BY <1>0, <1>5, <1>9, <1>11, <2>1, <2>3
<1>12. CASE k # F
  <2>1. G + B <= K
    BY <1>2, <1>3, <1>9, <1>12, Multiples
  <2>2. s <= o /\ s + n <= o /\ K <= s + n /\ s + n < K + B
    <3>. HIDE DEF B, K, G
    <3>. QED BY <1>2, <1>5, <1>8, <1>9, <1>10, <2>1
  <2>3. (s + n) % B = (s + n) - K /\ s + n \in Nat
    BY <1>2, <2>2, QuotientIs
  <2>4. E <= k + 1
    <3>1. (k + 1) * B = K + B
      BY <1>2, Multiples
    <3>2. s + n <= (k + 1) * B
      <4>. DEFINE L == (k + 1) * B
      <4>1. L = K + B
        BY <3>1
      <4>. HIDE DEF K, B, L
      <4>2. s + n <= L
        BY <1>8, <2>2, <2>3, <4>1
      <4>. QED BY <4>2 DEF L
    <3>3. k + 1 \in Nat
      BY <1>2
    <3>. QED BY <1>2, <3>2, <3>3, CallBlocks
  <2>5. k = E - 1
    <3>. HIDE DEF E
    <3>. QED BY <1>2, <1>3, <1>9, <2>4 DEF E
  <2>6. (s + n) - K = 0
    BY <1>7, <1>12, <2>3, <2>5
  <2>. HIDE DEF K
  <2>. QED BY <1>8, <1>9, <2>3, <2>6
<1>. QED BY <1>11, <1>12-----------------------------------------------------------------------------
(* Theorems *)

\* The invariant of the inode layer: the pointers of the inodes, in the inodes
\* and in their address tables, form trees that share no block, their blocks
\* are the allocated ones, the read in progress has copied what its file holds
\* and the write in progress has stored what it passed.
THEOREM Invariant == Spec => []IInv
BY InitIInv, NextIInv, PTL DEF Spec

\* Inodes, pointers, blocks and calls keep their types: a pointer holds a block
\* number or the -1 of a failed DfsAllocateBlock, whatever is written in files.
THEOREM TypesHold == Spec => []TypeOK
<1>1. IInv => TypeOK
  BY DEF IInv
<1>. QED BY <1>1, Invariant, PTL

\* DfsInodeOpen and DfsInodeDelete leave at most one inode with a name.
THEOREM NamesAreUnique == Spec => []NamesUnique
<1>1. IInv => NamesUnique
  BY DEF IInv
<1>. QED BY <1>1, Invariant, PTL

\* Whatever is allocated, freed and allocated again, no two pointers of
\* the file system name one block, and none names a block of the metadata.
THEOREM BlocksAreUnshared == Spec => []NoBlockShared
<1>1. IInv => NoBlockShared
  <2>. SUFFICES ASSUME IInv, NEW h \in Inodes, NEW k \in Inodes,
                       NEW p \in Places, NEW q \in Places, PointerAt(h, p) \in Blocks \ {0}
                PROVE  /\ PointerAt(h, p) \notin Reserved
                       /\ <<h, p>> # <<k, q>> => PointerAt(h, p) # PointerAt(k, q)
    BY DEF NoBlockShared
  <2>1. ptr[h][p] = PointerAt(h, p) /\ ptr[k][q] = PointerAt(k, q)
    BY PtrIs
  <2>2. Unshared
    BY DEF IInv, Tree
  <2>. QED BY <2>1, <2>2 DEF Unshared
<1>. QED BY <1>1, Invariant, PTL

\* DfsInodeDelete frees all that DfsInodeAllocateVirtualBlock gave a file and
\* nothing else: the allocated blocks are the metadata and those inodes name.
THEOREM AllocationIsReference == Spec => []AllocatedIffReferenced
<1>1. IInv => AllocatedIffReferenced
  <2>. SUFFICES ASSUME IInv PROVE AllocatedIffReferenced
    OBVIOUS
  <2>1. Counted /\ fbv \subseteq Blocks
    BY DEF IInv, Tree, FsTypes
  <2>. DEFINE R == UNION {Refs(h) : h \in Inodes}
  <2>2. ASSUME NEW x \in Blocks, x # 0
        PROVE  x \in R <=> \E h \in Inodes, p \in Places : ptr[h][p] = x
    <3>1. \A h \in Inodes : x \in Refs(h) <=> \E p \in Places : ptr[h][p] = x
      BY <2>2, RefsAre
    <3>2. x \in R <=> \E h \in Inodes : x \in Refs(h)
      OBVIOUS
    <3>. HIDE DEF R
    <3>. QED BY <3>1, <3>2
  <2>. HIDE DEF R
  <2>3. \A x \in Blocks : x \in fbv <=> x \in Reserved \/ x \in R
    <3>1. ASSUME NEW x \in Blocks PROVE x \in fbv <=> x \in Reserved \/ x \in R
      <4>1. CASE x = 0
        BY <2>1, <4>1, BlockSets DEF Counted
      <4>2. CASE x # 0
        BY <2>1, <2>2, <4>2 DEF Counted
      <4>. QED BY <4>1, <4>2
    <3>. QED BY <3>1
  <2>4. Reserved \subseteq Blocks
    BY BlockSets
  <2>5. fbv = Reserved \cup (R \cap Blocks)
    BY <2>1, <2>3, <2>4
  <2>. QED BY <2>5 DEF AllocatedIffReferenced, R
<1>. QED BY <1>1, Invariant, PTL

\* The size that DfsInodeWriteBytes keeps covers every byte it wrote.
THEOREM SizesCoverTheData == Spec => []SizeCoversData
<1>1. IInv => SizeCoversData
  BY DEF IInv
<1>. QED BY <1>1, Invariant, PTL

\* A step of DfsInodeWriteBytes changes the bytes of its own file alone, and
\* DfsInodeDelete those of the file it deletes; no other call changes any.
THEOREM FilesAreIsolated == Spec => FilesIsolated
<1>1. IInv /\ [Next]_vars =>
        [\A h \in Inodes, o \in Offsets :
           Changed(h, o) => Writing(h) \/ (inuse[h] /\ ~inuse'[h])]_vars
  <2>. SUFFICES ASSUME IInv, [Next]_vars, NEW h \in Inodes, NEW o \in Offsets,
                       CellOf(h, o)' # CellOf(h, o)
                PROVE  Writing(h) \/ (inuse[h] /\ ~inuse'[h])
    BY DEF Changed
  <2>1. CASE WriteStep
    BY <2>1, WriteCells DEF Writing, WriteStep
  <2>2. CASE inuse[h] /\ DfsInodeDelete(h)
    BY <2>2 DEF DfsInodeDelete, IInv, TypeOK
  <2>. QED BY <2>1, <2>2, WhoChanges
<1>. QED BY <1>1, Invariant, PTL DEF Spec, FilesIsolated

\* DfsInodeWriteBytes keeps the bytes around its range, for every length and
\* every start, but for the rest of a block it starts and does not fill.
THEOREM WritesKeepOtherBytes == Spec => WritesKeepTheRest
<1>1. IInv /\ [Next]_vars =>
        [\A h \in Inodes, o \in Offsets :
           Writing(h) /\ Changed(h, o) /\ ~InRange(o) /\ CellOf(h, o) # Junk =>
             /\ call.start % BlockSize = 0 /\ call.n < BlockSize
             /\ o \div BlockSize = call.start \div BlockSize]_vars
  <2>. SUFFICES ASSUME IInv, [Next]_vars, NEW h \in Inodes, NEW o \in Offsets,
                       Writing(h), CellOf(h, o)' # CellOf(h, o), ~InRange(o)
                PROVE  /\ call.start % BlockSize = 0 /\ call.n < BlockSize
                       /\ o \div BlockSize = call.start \div BlockSize
    BY DEF Changed
  <2>1. ~DfsInodeDelete(h)
    BY DEF DfsInodeDelete, Writing, NoCall
  <2>2. WriteStep
    BY <2>1, WhoChanges
  <2>. QED BY <2>2, WriteLoses
<1>. QED BY <1>1, Invariant, PTL DEF Spec, WritesKeepTheRest

\* When DfsInodeWriteBytes has been through all the blocks of its range and
\* got each of them, every byte of the range is in the file.
THEOREM WritesAreStored == Spec => WritesStore
<1>1. IInv /\ [Next]_vars =>
        [call.op = "write" /\ call' = NoCall /\ ~call.failed =>
           \A h \in Inodes, o \in Offsets :
             h = call.h /\ InRange(o) => CellOf(h, o)' = call.mem[o - call.start + 1]]_vars
  <2>. SUFFICES ASSUME IInv, [Next]_vars, call.op = "write", call' = NoCall, ~call.failed,
                       NEW h \in Inodes, NEW o \in Offsets, h = call.h, InRange(o)
                PROVE  CellOf(h, o)' = call.mem[o - call.start + 1]
    OBVIOUS
  <2>1. EndWrite
    BY WhoEnds
  <2>2. call \in WriteCall
    BY CallKinds DEF IInv
  <2>3. /\ call.start \in Nat /\ call.n \in Nat /\ o \in Nat
        /\ call.blk = EndBlock(call.start, call.n)
    BY <2>1, <2>2, OffsetIndex DEF WriteCall, EndWrite
  <2>4. o < call.blk * BlockSize
    <3>. DEFINE E == call.blk * BlockSize
    <3>1. call.start + call.n <= E /\ E \in Nat
      BY <2>3, CallBlocks, Multiples
    <3>2. o < call.start + call.n
      BY DEF InRange
    <3>. HIDE DEF E
    <3>3. o < E
      BY <2>3, <3>1, <3>2
    <3>. QED BY <3>3 DEF E
  <2>5. CellOf(h, o) = call.mem[(o - call.start) + 1]
    BY <2>4 DEF IInv, WriteStored
  <2>6. CellOf(h, o)' = CellOf(h, o)
    BY <2>1, QuietCells
  <2>. QED BY <2>5, <2>6
<1>. QED BY <1>1, Invariant, PTL DEF Spec, WritesStore

\* DfsInodeReadBytes has then copied every byte of its range, each from its
\* place in the file, through as many blocks as the range spans.
THEOREM ReadsReturnTheBytes == Spec => ReadsReturnTheFile
<1>1. IInv /\ [Next]_vars =>
        [call.op = "read" /\ call' = NoCall =>
           /\ ret' = call.n
           /\ \A k \in 1 .. call.n : call.mem[k] = CellOf(call.h, call.start + k - 1)]_vars
  <2>. SUFFICES ASSUME IInv, [Next]_vars, call.op = "read", call' = NoCall
                PROVE  /\ ret' = call.n
                       /\ \A k \in 1 .. call.n :
                            call.mem[k] = CellOf(call.h, call.start + k - 1)
    OBVIOUS
  <2>0. PICK s, n : s = call.start /\ n = call.n
    OBVIOUS
  <2>1. EndRead
    BY WhoEnds
  <2>2. call \in ReadCall
    BY CallKinds DEF IInv
  <2>3. s \in Nat /\ n \in Nat /\ ret' = Len(call.mem) /\ call.blk = EndBlock(s, n)
    BY <2>0, <2>1, <2>2 DEF ReadCall, EndRead
  <2>4. /\ Len(call.mem) = Copied(s, n, EndBlock(s, n))
        /\ \A k \in 1 .. Len(call.mem) : call.mem[k] = CellOf(call.h, (s + k) - 1)
    BY <2>0, <2>3 DEF IInv, ReadSoFar
  <2>5. Copied(s, n, EndBlock(s, n)) = n
    <3>. DEFINE E == EndBlock(s, n) * BlockSize
    <3>1. E \in Nat /\ s + n <= E
      BY <2>3, CallBlocks, Multiples
    <3>2. Copied(s, n, EndBlock(s, n)) = IF E <= s THEN 0 ELSE IF E - s < n THEN E - s ELSE n
      BY DEF Copied
    <3>. HIDE DEF E
    <3>. QED BY <2>3, <3>1, <3>2
  <2>6. \A k \in 1 .. n : s + k - 1 = (s + k) - 1
    BY <2>3
  <2>. QED BY <2>0, <2>3, <2>4, <2>5, <2>6
<1>. QED BY <1>1, Invariant, PTL DEF Spec, ReadsReturnTheFile
=============================================================================
