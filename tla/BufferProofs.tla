---------------------------- MODULE BufferProofs ----------------------------
(***************************************************************************)
(* Proofs about Buffer, for every number of buffers, volumes and blocks.   *)
(***************************************************************************)
EXTENDS Buffer, FiniteSetTheorems, WellFoundedInduction, TLAPS

USE BufferAssumption

-----------------------------------------------------------------------------
(* The order of use.                                                       *)

\* The ways to order the buffers: "each buffer index appears in the array
\* once and only once".
Orders ==
  {order \in [Indexes -> Indexes] :
     /\ \A i \in Indexes : \E k \in Indexes : order[k] = i
     /\ \A j, k \in Indexes : order[j] = order[k] => j = k}

(* Every buffer has its place in an order.                                 *)
LEMMA Ranks ==
  ASSUME NEW order \in Orders, NEW i \in Indexes
  PROVE  /\ RankOf(order, i) \in Indexes
         /\ order[RankOf(order, i)] = i
         /\ \A k \in Indexes : order[k] = i => k = RankOf(order, i)
<1>1. \E k \in Indexes : order[k] = i
  BY DEF Orders
<1>2. RankOf(order, i) \in Indexes /\ order[RankOf(order, i)] = i
  BY <1>1 DEF RankOf
<1>. QED  BY <1>2 DEF Orders

(* BufferMakeMRU moves one buffer to the front of the order.               *)
LEMMA MakeMRUOrder ==
  ASSUME NEW order \in Orders, NEW i \in Indexes
  PROVE  MakeMRU(order, i) \in Orders
<1> DEFINE r == RankOf(order, i)
           new == MakeMRU(order, i)
<1>1. /\ r \in Indexes /\ order[r] = i
      /\ \A k \in Indexes : order[k] = i => k = r
  BY Ranks
<1>2. \A k \in Indexes : order[k] \in Indexes
  BY DEF Orders
<1>3. \A k \in Indexes : k # 0 => k - 1 \in Indexes
  BY DEF Indexes
<1>4. \A k \in Indexes : new[k] = IF k = 0 THEN i ELSE IF k <= r THEN order[k - 1] ELSE order[k]
  BY DEF MakeMRU
<1>5. new \in [Indexes -> Indexes]
  BY <1>2, <1>3 DEF MakeMRU
<1> HIDE DEF new, r
<1>6. \A j \in Indexes : \E k \in Indexes : new[k] = j
  <2> TAKE j \in Indexes
  <2>1. PICK k \in Indexes : order[k] = j
    BY DEF Orders
  <2>2. 0 \in Indexes
    BY DEF Indexes
  <2>3. CASE k = r
    BY <1>1, <1>4, <2>1, <2>2, <2>3
  <2>4. CASE k < r
    <3>1. k + 1 \in Indexes /\ k + 1 # 0 /\ k + 1 <= r /\ (k + 1) - 1 = k
      BY <1>1, <2>4 DEF Indexes
    <3>2. new[k + 1] = order[k]
      BY <1>4, <3>1
    <3>. QED  BY <2>1, <3>1, <3>2
  <2>5. CASE k > r
    <3>1. k # 0 /\ ~(k <= r)
      BY <1>1, <2>5 DEF Indexes
    <3>. QED  BY <1>4, <2>1, <3>1
  <2>. QED  BY <1>1, <2>3, <2>4, <2>5 DEF Indexes
<1>7. \A j, k \in Indexes : new[j] = new[k] => j = k
  <2> DEFINE at(k) == IF k = 0 THEN r ELSE IF k <= r THEN k - 1 ELSE k
  <2>1. \A k \in Indexes : at(k) \in Indexes /\ new[k] = order[at(k)]
    BY <1>1, <1>3, <1>4
  <2>2. \A j, k \in Indexes : at(j) = at(k) => j = k
    BY <1>1 DEF Indexes
  <2>3. \A j, k \in Indexes : order[j] = order[k] => j = k
    BY DEF Orders
  <2> HIDE DEF at
  <2>. QED  BY <2>1, <2>2, <2>3
<1>. QED  BY <1>5, <1>6, <1>7 DEF Orders, new

(* BufferMakeLRU moves one buffer to the end of the order.                 *)
LEMMA MakeLRUOrder ==
  ASSUME NEW order \in Orders, NEW i \in Indexes
  PROVE  MakeLRU(order, i) \in Orders
<1> DEFINE r == RankOf(order, i)
           new == MakeLRU(order, i)
<1>1. /\ r \in Indexes /\ order[r] = i
      /\ \A k \in Indexes : order[k] = i => k = r
  BY Ranks
<1>2. \A k \in Indexes : order[k] \in Indexes
  BY DEF Orders
<1>3. \A k \in Indexes : k # LRU => k + 1 \in Indexes
  BY DEF Indexes, LRU
<1>4. \A k \in Indexes : new[k] = IF k = LRU THEN i ELSE IF k >= r THEN order[k + 1] ELSE order[k]
  BY DEF MakeLRU
<1>5. new \in [Indexes -> Indexes]
  BY <1>2, <1>3 DEF MakeLRU
<1> HIDE DEF new, r
<1>6. \A j \in Indexes : \E k \in Indexes : new[k] = j
  <2> TAKE j \in Indexes
  <2>1. PICK k \in Indexes : order[k] = j
    BY DEF Orders
  <2>2. LRU \in Indexes
    BY DEF Indexes, LRU
  <2>3. CASE k = r
    BY <1>1, <1>4, <2>1, <2>2, <2>3
  <2>4. CASE k > r
    <3>1. k - 1 \in Indexes /\ k - 1 # LRU /\ k - 1 >= r /\ (k - 1) + 1 = k
      BY <1>1, <2>4 DEF Indexes, LRU
    <3>2. new[k - 1] = order[k]
      BY <1>4, <3>1
    <3>. QED  BY <2>1, <3>1, <3>2
  <2>5. CASE k < r
    <3>1. k # LRU /\ ~(k >= r)
      BY <1>1, <2>5 DEF Indexes, LRU
    <3>. QED  BY <1>4, <2>1, <3>1
  <2>. QED  BY <1>1, <2>3, <2>4, <2>5 DEF Indexes
<1>7. \A j, k \in Indexes : new[j] = new[k] => j = k
  <2> DEFINE at(k) == IF k = LRU THEN r ELSE IF k >= r THEN k + 1 ELSE k
  <2>1. \A k \in Indexes : at(k) \in Indexes /\ new[k] = order[at(k)]
    BY <1>1, <1>3, <1>4
  <2>2. \A j, k \in Indexes : at(j) = at(k) => j = k
    BY <1>1 DEF Indexes, LRU
  <2>3. \A j, k \in Indexes : order[j] = order[k] => j = k
    BY DEF Orders
  <2> HIDE DEF at
  <2>. QED  BY <2>1, <2>2, <2>3
<1>. QED  BY <1>5, <1>6, <1>7 DEF Orders, new

(* Every nonempty set of natural numbers has a least member, which is what *)
(* inductions over buffer indexes rest on.                                 *)
LEMMA LeastMember ==
  ASSUME NEW T, T \subseteq Nat, T # {}
  PROVE  \E m \in T : \A k \in T : ~(k < m)
<1>1. PICK m \in T : \A k \in T : ~(<<k, m>> \in OpToRel(<, Nat))
  BY ONLY T \subseteq Nat, T # {}, NatLessThanWellFounded, WFMin
<1>2. \A j, k \in Nat : j < k => <<j, k>> \in OpToRel(<, Nat)
  BY DEF OpToRel
<1>. QED  BY <1>1, <1>2

(* BufferDiscardRange moves any number of buffers to the end, one after    *)
(* the other.                                                              *)
LEMMA MakeAllLRUOrder ==
  ASSUME NEW order \in Orders, NEW S
  PROVE  MakeAllLRU(order, S) \in Orders
<1> DEFINE N == REDCONF_BUFFER_COUNT
           One(o, n) == IF n - 1 \in S THEN MakeLRU(o, n - 1) ELSE o
           Upto(m) == \E g \in [0 .. m -> Orders] :
                        g[0] = order /\ \A n \in 1 .. m : g[n] = One(g[n - 1], n)
           Whole(g) == [n \in 0 .. N |->
                          IF n = 0 THEN order
                          ELSE IF n - 1 \in S THEN MakeLRU(g[n - 1], n - 1)
                          ELSE g[n - 1]]
<1>1. N \in Nat
  OBVIOUS
<1>2. \A o \in Orders, n \in 1 .. N : One(o, n) \in Orders
  BY MakeLRUOrder DEF Indexes
<1>3. \A m \in 0 .. N : Upto(m)
  <2> DEFINE T == {m \in 0 .. N : ~Upto(m)}
  <2> SUFFICES ASSUME T # {} PROVE FALSE
    OBVIOUS
  <2>1. T \subseteq Nat
    BY <1>1
  <2> HIDE DEF T, Upto, One
  <2>2. PICK m \in T : \A k \in T : ~(k < m)
    BY <2>1, LeastMember
  <2>3. m \in 0 .. N /\ ~Upto(m)
    BY <2>2 DEF T
  <2>4. m # 0
    <3> DEFINE g == [n \in 0 .. 0 |-> order]
    <3>1. g \in [0 .. 0 -> Orders] /\ g[0] = order
      OBVIOUS
    <3>2. \A n \in 1 .. 0 : g[n] = One(g[n - 1], n)
      OBVIOUS
    <3> HIDE DEF g
    <3>3. Upto(0)
      BY <3>1, <3>2 DEF Upto
    <3>. QED  BY <2>3, <3>3
  <2>5. Upto(m - 1)
    <3>1. m - 1 \in 0 .. N /\ m - 1 < m
      BY <2>3, <2>4
    <3>. QED  BY <2>2, <3>1 DEF T
  <2>6. PICK g \in [0 .. m - 1 -> Orders] :
          g[0] = order /\ \A n \in 1 .. m - 1 : g[n] = One(g[n - 1], n)
    BY <2>5 DEF Upto
  <2> DEFINE h == [n \in 0 .. m |-> IF n = m THEN One(g[m - 1], m) ELSE g[n]]
  <2>7. g[m - 1] \in Orders /\ One(g[m - 1], m) \in Orders
    BY <1>2, <2>3, <2>4, <2>6
  <2>8. h \in [0 .. m -> Orders]
    BY <2>3, <2>6, <2>7
  <2>9. h[0] = order /\ \A n \in 1 .. m : h[n] = One(h[n - 1], n)
    BY <2>3, <2>4, <2>6
  <2> HIDE DEF h
  <2>10. Upto(m)
    BY <2>8, <2>9 DEF Upto
  <2>. QED  BY <2>3, <2>10
<1>4. PICK g \in [0 .. N -> Orders] :
        g[0] = order /\ \A n \in 1 .. N : g[n] = One(g[n - 1], n)
  BY <1>1, <1>3
<1>5. g = Whole(g)
  BY <1>1, <1>4
<1> DEFINE f == CHOOSE f : f = Whole(f)
<1>6. f = Whole(f)
  BY <1>5
<1>7. MakeAllLRU(order, S) = f[N]
  BY DEF MakeAllLRU
<1>8. f[0] = order /\ \A n \in 1 .. N : f[n] = One(f[n - 1], n)
  <2> HIDE DEF f
  <2>1. \A n \in 0 .. N : f[n] = Whole(f)[n]
    BY <1>6
  <2>. QED  BY <1>1, <2>1
<1> HIDE DEF f, One
<1>9. \A n \in 0 .. N : f[n] \in Orders
  <2> DEFINE T == {n \in 0 .. N : f[n] \notin Orders}
  <2> SUFFICES ASSUME T # {} PROVE FALSE
    OBVIOUS
  <2>1. T \subseteq Nat
    BY <1>1
  <2> HIDE DEF T
  <2>2. PICK n \in T : \A k \in T : ~(k < n)
    BY <2>1, LeastMember
  <2>3. n \in 1 .. N /\ f[n] \notin Orders
    BY <1>1, <1>8, <2>2 DEF T
  <2>4. f[n - 1] \in Orders
    <3>1. n - 1 \in 0 .. N /\ n - 1 < n
      BY <2>3
    <3>. QED  BY <2>2, <3>1 DEF T
  <2>. QED  BY <1>2, <1>8, <2>3, <2>4
<1>. QED  BY <1>1, <1>7, <1>9

-----------------------------------------------------------------------------
(* The heads of the buffers.                                               *)

HeadFunctions == [Indexes -> Heads \cup {Unused}]

Refs(h) == {i \in Indexes : h[i].bRefCount > 0}

SameBlock(x, y) == x.ulBlock = y.ulBlock /\ x.bVolNum = y.bVolNum

\* No block has two buffers.
Unique(h) ==
  \A i, j \in Indexes : h[i].ulBlock # BBLK_INVALID /\ SameBlock(h[i], h[j]) => i = j

(* A head is that of a block of a volume, or is not used and has no        *)
(* references.                                                             *)
LEMMA HeadFields ==
  /\ \A e \in Heads : /\ e.ulBlock \in Blocks /\ e.ulBlock # BBLK_INVALID
                      /\ e.bVolNum \in Volumes /\ e.bRefCount \in 0 .. MaxRefs
                      /\ e.fDirty \in BOOLEAN
  /\ Unused.ulBlock = BBLK_INVALID /\ Unused.bRefCount = 0 /\ Unused.fDirty = FALSE
  /\ BBLK_INVALID \notin Blocks
BY DEF Heads, Unused, BBLK_INVALID

(* There are no more referenced buffers than buffers.                      *)
LEMMA RefsCounted ==
  ASSUME NEW h \in HeadFunctions
  PROVE  IsFiniteSet(Refs(h)) /\ Cardinality(Refs(h)) \in 0 .. REDCONF_BUFFER_COUNT
<1>1. 0 \in Int /\ REDCONF_BUFFER_COUNT - 1 \in Int
  OBVIOUS
<1>2. IsFiniteSet(Indexes) /\ Cardinality(Indexes) = REDCONF_BUFFER_COUNT
  BY <1>1, FS_Interval DEF Indexes
<1>3. Refs(h) \subseteq Indexes
  BY DEF Refs
<1>4. IsFiniteSet(Refs(h)) /\ Cardinality(Refs(h)) <= Cardinality(Indexes)
  BY <1>2, <1>3, FS_Subset
<1>5. Cardinality(Refs(h)) \in Nat
  BY <1>4, FS_CardinalityType
<1>. QED  BY <1>2, <1>4, <1>5

(* One head changes: it may get a block that no other has, and counts as   *)
(* a referenced buffer if it has a reference.                              *)
LEMMA HeadChanged ==
  ASSUME NEW h \in HeadFunctions, Unique(h),
         NEW i \in Indexes, NEW e \in Heads \cup {Unused},
         e.ulBlock # BBLK_INVALID => \A j \in Indexes \ {i} : ~SameBlock(h[j], e)
  PROVE  LET g == [h EXCEPT ![i] = e]
         IN  /\ g \in HeadFunctions /\ Unique(g)
             /\ h[i].bRefCount > 0 /\ e.bRefCount > 0 => Cardinality(Refs(g)) = Cardinality(Refs(h))
             /\ ~(h[i].bRefCount > 0) /\ e.bRefCount > 0 => Cardinality(Refs(g)) = Cardinality(Refs(h)) + 1
             /\ h[i].bRefCount > 0 /\ ~(e.bRefCount > 0) => Cardinality(Refs(g)) = Cardinality(Refs(h)) - 1
             /\ ~(h[i].bRefCount > 0) /\ ~(e.bRefCount > 0) => Cardinality(Refs(g)) = Cardinality(Refs(h))
<1> DEFINE g == [h EXCEPT ![i] = e]
<1>1. g \in HeadFunctions /\ g[i] = e /\ \A j \in Indexes : j # i => g[j] = h[j]
  BY DEF HeadFunctions
<1> HIDE DEF g
<1>2. Unique(g)
  BY <1>1 DEF Unique, SameBlock
<1>3. IsFiniteSet(Refs(h)) /\ Cardinality(Refs(h)) \in Nat
  BY RefsCounted
<1>4. h[i].bRefCount > 0 <=> i \in Refs(h)
  BY DEF Refs
<1>5. CASE e.bRefCount > 0
  <2>1. Refs(g) = Refs(h) \cup {i}
    BY <1>1, <1>5 DEF Refs
  <2>2. Cardinality(Refs(g)) = IF i \in Refs(h) THEN Cardinality(Refs(h)) ELSE Cardinality(Refs(h)) + 1
    BY <1>3, <2>1, FS_AddElement
  <2>. QED  BY <1>1, <1>2, <1>4, <1>5, <2>2 DEF g
<1>6. CASE ~(e.bRefCount > 0)
  <2>1. Refs(g) = Refs(h) \ {i}
    BY <1>1, <1>6 DEF Refs
  <2>2. Cardinality(Refs(g)) = IF i \in Refs(h) THEN Cardinality(Refs(h)) - 1 ELSE Cardinality(Refs(h))
    BY <1>3, <2>1, FS_RemoveElement
  <2>. QED  BY <1>1, <1>2, <1>4, <1>6, <2>2 DEF g
<1>. QED  BY <1>5, <1>6

-----------------------------------------------------------------------------
(* The inductive invariant.                                                *)

\* The order has every buffer once, no block has two buffers and the count of
\* the referenced buffers is exact.
IInv ==
  /\ TypeOK
  /\ abMRU \in Orders
  /\ Unique(aHead)
  /\ uNumUsed = Cardinality(Refs(aHead))

(* The states in which the driver starts.                                  *)
LEMMA InitIInv == Init => IInv
<1> SUFFICES ASSUME Init PROVE IInv
  OBVIOUS
<1>1. \A k \in Indexes : LRU - k \in Indexes /\ LRU - (LRU - k) = k
  BY DEF Indexes, LRU
<1>2. abMRU \in Orders
  BY <1>1 DEF Init, Orders, Indexes, LRU
<1>3. aHead \in HeadFunctions /\ Unique(aHead)
  BY HeadFields DEF Init, HeadFunctions, Unique
<1>4. Refs(aHead) = {}
  BY HeadFields DEF Init, Refs
<1>5. uNumUsed = Cardinality(Refs(aHead))
  BY <1>4, FS_EmptySet DEF Init
<1>6. TypeOK
  BY <1>2, <1>3 DEF Init, TypeOK, Orders, HeadFunctions
<1>. QED  BY <1>2, <1>3, <1>5, <1>6 DEF IInv

(* A step that gives one buffer a new head keeps the invariant if the      *)
(* count of referenced buffers follows.                                    *)
LEMMA OneHeadStep ==
  ASSUME IInv, NEW i \in Indexes, NEW e \in Heads \cup {Unused},
         e.ulBlock # BBLK_INVALID => \A j \in Indexes \ {i} : ~SameBlock(aHead[j], e),
         aHead' = [aHead EXCEPT ![i] = e],
         uNumUsed' = IF IsReferenced(i)
                     THEN IF e.bRefCount > 0 THEN uNumUsed ELSE uNumUsed - 1
                     ELSE IF e.bRefCount > 0 THEN uNumUsed + 1 ELSE uNumUsed,
         abMRU' \in Orders, gbRedVolNum' \in Volumes,
         pbBlkBuf' \in [Indexes -> Values],
         media' \in [Volumes -> [Blocks -> Values]],
         fReadOnly' \in [Volumes -> BOOLEAN]
  PROVE  IInv'
<1>1. aHead \in HeadFunctions
  BY DEF IInv, TypeOK, HeadFunctions
<1>2. aHead' \in HeadFunctions /\ Unique(aHead')
  BY <1>1, HeadChanged DEF IInv
<1>3. uNumUsed' = Cardinality(Refs(aHead'))
  BY <1>1, HeadChanged DEF IInv, IsReferenced
<1>4. uNumUsed' \in 0 .. REDCONF_BUFFER_COUNT
  BY <1>2, <1>3, RefsCounted
<1>. QED  BY <1>2, <1>3, <1>4 DEF IInv, TypeOK, Orders, HeadFunctions

(* A step that leaves pool and volume alone.                               *)
LEMMA SamePool ==
  ASSUME IInv, UNCHANGED poolVars, gbRedVolNum' \in Volumes,
         media' \in [Volumes -> [Blocks -> Values]],
         fReadOnly' \in [Volumes -> BOOLEAN]
  PROVE  IInv'
BY DEF IInv, TypeOK, poolVars

(* The head, block and reference of a buffer a call may use.               *)
LEMMA HeadOf ==
  ASSUME IInv, NEW i \in Indexes
  PROVE  /\ aHead[i] \in Heads \cup {Unused}
         /\ IsUsed(i) => aHead[i] \in Heads
         /\ IsReferenced(i) => aHead[i] \in Heads
         /\ \A j \in Indexes : IsUsed(i) /\ SameBlock(aHead[i], aHead[j]) => i = j
BY HeadFields DEF IInv, TypeOK, IsUsed, IsReferenced, Unique

(* A critical error keeps the type of fReadOnly.                           *)
LEMMA CriticalErrorType ==
  ASSUME IInv, CriticalError
  PROVE  fReadOnly' \in [Volumes -> BOOLEAN]
BY DEF IInv, TypeOK, CriticalError

(* What is written for a buffer to be reused goes to a block of a volume.  *)
LEMMA VictimWrittenType ==
  ASSUME IInv, NEW i \in Indexes
  PROVE  VictimWritten(i) \in [Volumes -> [Blocks -> Values]]
<1>1. CASE IsDirty(i)
  <2>1. aHead[i].bVolNum \in Volumes /\ aHead[i].ulBlock \in Blocks
    BY <1>1, HeadOf, HeadFields DEF IsDirty
  <2>. QED  BY <1>1, <2>1 DEF VictimWritten, IInv, TypeOK
<1>2. CASE ~IsDirty(i)
  BY <1>2 DEF VictimWritten, IInv, TypeOK
<1>. QED  BY <1>1, <1>2

(* RedBufferGet of a buffered block adds a reference.                      *)
LEMMA GetFoundStep ==
  ASSUME IInv, NEW b \in Blocks, BufferGetFound(b)
  PROVE  IInv'
<1> DEFINE i == BufferFind(b)
           e == [aHead[i] EXCEPT !.bRefCount = aHead[i].bRefCount + 1]
<1>1. i \in Indexes /\ IsOf(i, gbRedVolNum, b)
  BY DEF BufferGetFound, IsBuffered, BufferFind
<1>2. aHead[i] \in Heads /\ aHead[i].bRefCount < MaxRefs
  BY <1>1, HeadOf, HeadFields DEF IsOf, IsUsed, BufferGetFound, RefsAllowed
<1>3. /\ e \in Heads /\ e.bRefCount > 0
      /\ e.ulBlock = aHead[i].ulBlock /\ e.bVolNum = aHead[i].bVolNum
  BY <1>2 DEF Heads
<1>4. aHead' = [aHead EXCEPT ![i] = e]
  BY <1>1 DEF BufferGetFound
<1>5. \A j \in Indexes \ {i} : ~SameBlock(aHead[j], e)
  BY <1>1, <1>2, <1>3, HeadFields DEF IInv, Unique, SameBlock
<1>6. abMRU' \in Orders
  BY <1>1, MakeMRUOrder DEF BufferGetFound, IInv
<1> HIDE DEF i, e
<1>7. uNumUsed' = IF IsReferenced(i) THEN uNumUsed ELSE uNumUsed + 1
  BY DEF BufferGetFound, i
<1>. QED  BY <1>1, <1>3, <1>4, <1>5, <1>6, <1>7, OneHeadStep DEF BufferGetFound, IInv, TypeOK

(* RedBufferGet of another block takes the buffer of the victim.           *)
LEMMA GetStep ==
  ASSUME IInv, NEW b \in Blocks, NEW fNew \in BOOLEAN, BufferGet(b, fNew)
  PROVE  IInv'
<1>1. PICK i \in Indexes :
        /\ IsVictim(i)
        /\ media' = VictimWritten(i)
        /\ aHead' = [aHead EXCEPT ![i] =
             [ulBlock |-> b, bVolNum |-> gbRedVolNum, bRefCount |-> 1, fDirty |-> fNew]]
        /\ pbBlkBuf' = [pbBlkBuf EXCEPT ![i] = IF fNew THEN Zero ELSE media[gbRedVolNum][b]]
        /\ abMRU' = MakeMRU(abMRU, i)
  BY DEF BufferGet
<1> DEFINE e == [ulBlock |-> b, bVolNum |-> gbRedVolNum, bRefCount |-> 1, fDirty |-> fNew]
<1>2. e \in Heads /\ e.bRefCount > 0
  BY DEF Heads, IInv, TypeOK
<1>3. \A j \in Indexes : ~SameBlock(aHead[j], e)
  BY DEF BufferGet, IsBuffered, IsOf, SameBlock
<1>4. abMRU' \in Orders
  BY <1>1, MakeMRUOrder DEF IInv
<1>5. pbBlkBuf' \in [Indexes -> Values]
  BY <1>1 DEF IInv, TypeOK
<1>6. media' \in [Volumes -> [Blocks -> Values]]
  BY <1>1, VictimWrittenType
<1>7. ~IsReferenced(i) /\ uNumUsed' = uNumUsed + 1
  BY <1>1 DEF BufferGet, IsVictim
<1> HIDE DEF e
<1>8. aHead' = [aHead EXCEPT ![i] = e]
  BY <1>1 DEF e
<1>. QED  BY <1>2, <1>3, <1>4, <1>5, <1>6, <1>7, <1>8, OneHeadStep DEF BufferGet, IInv, TypeOK

(* RedBufferGet fails to read: the buffer is left without a block.         *)
LEMMA GetReadFailsStep ==
  ASSUME IInv, NEW b \in Blocks, BufferGetReadFails(b)
  PROVE  IInv'
<1>1. PICK i \in Indexes :
        /\ IsVictim(i)
        /\ media' = VictimWritten(i)
        /\ aHead' = [aHead EXCEPT ![i] = Unused]
        /\ pbBlkBuf' = [pbBlkBuf EXCEPT ![i] = Zero]
  BY DEF BufferGetReadFails
<1>2. pbBlkBuf' \in [Indexes -> Values]
  BY <1>1 DEF IInv, TypeOK
<1>3. media' \in [Volumes -> [Blocks -> Values]]
  BY <1>1, VictimWrittenType
<1>4. fReadOnly' \in [Volumes -> BOOLEAN]
  BY CriticalErrorType DEF BufferGetReadFails
<1>5. ~IsReferenced(i) /\ uNumUsed' = uNumUsed /\ abMRU' \in Orders /\ gbRedVolNum' \in Volumes
  BY <1>1 DEF IsVictim, BufferGetReadFails, IInv, TypeOK
<1>6. Unused.ulBlock = BBLK_INVALID /\ ~(Unused.bRefCount > 0)
  BY HeadFields
<1>. QED  BY <1>1, <1>2, <1>3, <1>4, <1>5, <1>6, OneHeadStep

(* RedBufferPut drops a reference.                                         *)
LEMMA PutStep ==
  ASSUME IInv, NEW i \in Indexes, BufferPut(i)
  PROVE  IInv'
<1> DEFINE e == [aHead[i] EXCEPT !.bRefCount = aHead[i].bRefCount - 1]
<1>1. aHead[i] \in Heads /\ aHead[i].bRefCount > 0
  BY HeadOf DEF BufferPut, IsHeld, IsReferenced
<1>2. /\ e \in Heads /\ (e.bRefCount > 0 <=> aHead[i].bRefCount # 1)
      /\ e.ulBlock = aHead[i].ulBlock /\ e.bVolNum = aHead[i].bVolNum
  BY <1>1 DEF Heads
<1>3. aHead' = [aHead EXCEPT ![i] = e]
  BY DEF BufferPut
<1>4. \A j \in Indexes \ {i} : ~SameBlock(aHead[j], e)
  BY <1>1, <1>2, HeadFields DEF IInv, Unique, SameBlock
<1>5. uNumUsed' = IF aHead[i].bRefCount = 1 THEN uNumUsed - 1 ELSE uNumUsed
  BY DEF BufferPut
<1> HIDE DEF e
<1>. QED  BY <1>1, <1>2, <1>3, <1>4, <1>5, OneHeadStep DEF BufferPut, IsReferenced, IInv, TypeOK

(* RedBufferDirty.                                                         *)
LEMMA DirtyStep ==
  ASSUME IInv, NEW i \in Indexes, NEW data \in Values, BufferDirty(i, data)
  PROVE  IInv'
<1> DEFINE e == [aHead[i] EXCEPT !.fDirty = TRUE]
<1>1. aHead[i] \in Heads /\ aHead[i].bRefCount > 0
  BY HeadOf DEF BufferDirty, IsHeld, IsReferenced
<1>2. /\ e \in Heads /\ e.bRefCount = aHead[i].bRefCount
      /\ e.ulBlock = aHead[i].ulBlock /\ e.bVolNum = aHead[i].bVolNum
  BY <1>1 DEF Heads
<1>3. aHead' = [aHead EXCEPT ![i] = e]
  BY DEF BufferDirty
<1>4. \A j \in Indexes \ {i} : ~SameBlock(aHead[j], e)
  BY <1>1, <1>2, HeadFields DEF IInv, Unique, SameBlock
<1>5. pbBlkBuf' \in [Indexes -> Values]
  BY DEF BufferDirty, IInv, TypeOK
<1> HIDE DEF e
<1>. QED  BY <1>1, <1>2, <1>3, <1>4, <1>5, OneHeadStep DEF BufferDirty, IsReferenced, IInv, TypeOK

(* RedBufferBranch: the new block has no buffer yet.                       *)
LEMMA BranchStep ==
  ASSUME IInv, NEW i \in Indexes, NEW b \in Blocks, BufferBranch(i, b)
  PROVE  IInv'
<1> DEFINE e == [aHead[i] EXCEPT !.ulBlock = b, !.fDirty = TRUE]
<1>1. aHead[i] \in Heads /\ aHead[i].bRefCount > 0 /\ aHead[i].bVolNum = gbRedVolNum
  BY HeadOf DEF BufferBranch, IsHeld, IsReferenced
<1>2. /\ e \in Heads /\ e.bRefCount = aHead[i].bRefCount
      /\ e.ulBlock = b /\ e.bVolNum = gbRedVolNum
  BY <1>1 DEF Heads
<1>3. aHead' = [aHead EXCEPT ![i] = e]
  BY DEF BufferBranch
<1>4. \A j \in Indexes \ {i} : ~SameBlock(aHead[j], e)
  BY <1>2 DEF BufferBranch, IsBuffered, IsOf, SameBlock
<1> HIDE DEF e
<1>. QED  BY <1>1, <1>2, <1>3, <1>4, OneHeadStep DEF BufferBranch, IsReferenced, IInv, TypeOK

(* RedBufferDiscard of a buffer with one reference.                        *)
LEMMA DiscardStep ==
  ASSUME IInv, NEW i \in Indexes, BufferDiscard(i)
  PROVE  IInv'
<1>1. abMRU' \in Orders
  BY MakeLRUOrder DEF BufferDiscard, IInv
<1>2. pbBlkBuf' \in [Indexes -> Values]
  BY DEF BufferDiscard, IInv, TypeOK
<1>3. IsReferenced(i) /\ uNumUsed' = uNumUsed - 1 /\ aHead' = [aHead EXCEPT ![i] = Unused]
  BY DEF BufferDiscard, IsHeld
<1>4. /\ gbRedVolNum' \in Volumes /\ media' \in [Volumes -> [Blocks -> Values]]
      /\ fReadOnly' \in [Volumes -> BOOLEAN]
  BY DEF BufferDiscard, IInv, TypeOK
<1>5. Unused.ulBlock = BBLK_INVALID /\ ~(Unused.bRefCount > 0)
  BY HeadFields
<1>. QED  BY <1>1, <1>2, <1>3, <1>4, <1>5, OneHeadStep

(* Unreferenced buffers of a range of blocks lose their blocks.            *)
LEMMA DiscardedStep ==
  ASSUME IInv, NEW range, Discarded(range), gbRedVolNum' \in Volumes,
         media' \in [Volumes -> [Blocks -> Values]],
         fReadOnly' \in [Volumes -> BOOLEAN]
  PROVE  IInv'
<1>1. aHead \in HeadFunctions /\ pbBlkBuf \in [Indexes -> Values]
  BY DEF IInv, TypeOK, HeadFunctions
<1>2. aHead' = [i \in Indexes |-> IF i \in InRange(range) THEN Unused ELSE aHead[i]]
  BY DEF Discarded
<1>3. aHead' \in HeadFunctions
  BY <1>1, <1>2 DEF HeadFunctions
<1>4. Unused.ulBlock = BBLK_INVALID /\ ~(Unused.bRefCount > 0)
  BY HeadFields
<1>5. Unique(aHead')
  BY <1>2, <1>4 DEF IInv, Unique, SameBlock
<1>6. Refs(aHead') = Refs(aHead)
  <2>1. \A i \in InRange(range) : ~(aHead[i].bRefCount > 0)
    BY DEF Discarded, IsReferenced
  <2>. QED  BY <1>2, <1>4, <2>1 DEF Refs
<1>7. abMRU' \in Orders
  BY MakeAllLRUOrder DEF Discarded, IInv
<1>8. pbBlkBuf' \in [Indexes -> Values]
  BY <1>1 DEF Discarded
<1>9. uNumUsed' = uNumUsed
  BY DEF Discarded
<1>. QED  BY <1>3, <1>5, <1>6, <1>7, <1>8, <1>9 DEF IInv, TypeOK, Orders, HeadFunctions

\* The dirty buffers of a range of blocks.
DirtyIn(range) == {i \in InRange(range) : IsDirty(i)}

(* What is written from buffers of the volume goes to its blocks.          *)
LEMMA WrittenType ==
  ASSUME IInv, NEW S \in SUBSET Indexes
  PROVE  Written(S) \in [Volumes -> [Blocks -> Values]]
<1> DEFINE new == [b \in Blocks |-> IF \E i \in S : aHead[i].ulBlock = b
                                    THEN pbBlkBuf[CHOOSE i \in S : aHead[i].ulBlock = b]
                                    ELSE media[gbRedVolNum][b]]
<1>1. new \in [Blocks -> Values]
  <2> SUFFICES ASSUME NEW b \in Blocks PROVE new[b] \in Values
    OBVIOUS
  <2>1. CASE \E i \in S : aHead[i].ulBlock = b
    <3>1. (CHOOSE i \in S : aHead[i].ulBlock = b) \in Indexes
      BY <2>1
    <3>. QED  BY <2>1, <3>1 DEF IInv, TypeOK
  <2>2. CASE ~\E i \in S : aHead[i].ulBlock = b
    BY <2>2 DEF IInv, TypeOK
  <2>. QED  BY <2>1, <2>2
<1>2. Written(S) = [media EXCEPT ![gbRedVolNum] = new]
  BY DEF Written
<1> HIDE DEF new
<1>. QED  BY <1>1, <1>2 DEF IInv, TypeOK

(* Buffers that were written are clean and otherwise as they were.         *)
LEMMA CleanedStep ==
  ASSUME IInv, NEW range, NEW S \in SUBSET DirtyIn(range),
         Cleaned(S), UNCHANGED <<gbRedVolNum, uNumUsed, abMRU, pbBlkBuf>>,
         media' \in [Volumes -> [Blocks -> Values]],
         fReadOnly' \in [Volumes -> BOOLEAN]
  PROVE  IInv'
<1>1. S \subseteq Indexes /\ \A i \in S : IsDirty(i)
  BY DEF DirtyIn, InRange
<1>2. media' \in [Volumes -> [Blocks -> Values]]
  OBVIOUS
<1>3. aHead' = [i \in Indexes |-> IF i \in S THEN [aHead[i] EXCEPT !.fDirty = FALSE] ELSE aHead[i]]
  BY DEF Cleaned
<1>4. \A i \in S : aHead[i] \in Heads
  BY <1>1, HeadOf DEF IsDirty
<1>5. \A e \in Heads : LET c == [e EXCEPT !.fDirty = FALSE]
                       IN  /\ c \in Heads /\ c.bRefCount = e.bRefCount
                           /\ c.ulBlock = e.ulBlock /\ c.bVolNum = e.bVolNum
  BY DEF Heads
<1>6. \A i \in Indexes : /\ aHead'[i] \in Heads \cup {Unused}
                         /\ aHead'[i].bRefCount = aHead[i].bRefCount
                         /\ aHead'[i].ulBlock = aHead[i].ulBlock
                         /\ aHead'[i].bVolNum = aHead[i].bVolNum
  BY <1>3, <1>4, <1>5 DEF IInv, TypeOK
<1>7. aHead' \in HeadFunctions /\ Unique(aHead') /\ Refs(aHead') = Refs(aHead)
  <2>1. aHead' \in HeadFunctions
    BY <1>3, <1>6 DEF HeadFunctions
  <2>2. Unique(aHead')
    BY <1>6 DEF IInv, Unique, SameBlock
  <2>3. Refs(aHead') = Refs(aHead)
    BY <1>6 DEF Refs
  <2>. QED  BY <2>1, <2>2, <2>3
<1>. QED  BY <1>2, <1>7 DEF IInv, TypeOK, HeadFunctions

(* One block torn, of whatever the media is otherwise.                     *)
LEMMA TornType ==
  ASSUME NEW med \in [Volumes -> [Blocks -> Values]], NEW v \in Volumes, NEW b \in Blocks,
         NEW torn \in Values
  PROVE  /\ [med EXCEPT ![v][b] = torn] \in [Volumes -> [Blocks -> Values]]
         /\ \A w \in Volumes, c \in Blocks :
              ~(w = v /\ c = b) => [med EXCEPT ![v][b] = torn][w][c] = med[w][c]
OBVIOUS

\* What a flush that fails leaves.
FlushFailed(range, torn, failed) ==
  /\ media' = [Written({i \in DirtyIn(range) : i < failed}) EXCEPT
                 ![gbRedVolNum][aHead[failed].ulBlock] = torn]
  /\ Cleaned({i \in DirtyIn(range) : i < failed})

(* The block which a flush fails to write is one of the volume, with a     *)
(* dirty buffer.                                                           *)
LEMMA FlushFailure ==
  ASSUME IInv, NEW range, NEW torn \in Values, BufferFlushRangeFails(range, torn)
  PROVE  \E failed \in DirtyIn(range) :
           /\ FlushFailed(range, torn, failed)
           /\ failed \in Indexes /\ IsDirty(failed) /\ aHead[failed].bVolNum = gbRedVolNum
           /\ gbRedVolNum \in Volumes /\ aHead[failed].ulBlock \in Blocks
<1>1. PICK failed \in DirtyIn(range) : FlushFailed(range, torn, failed)
  BY DEF BufferFlushRangeFails, DirtyIn, FlushFailed
<1>2. failed \in Indexes /\ IsDirty(failed) /\ aHead[failed].bVolNum = gbRedVolNum
  BY <1>1 DEF DirtyIn, InRange
<1>3. gbRedVolNum \in Volumes /\ aHead[failed].ulBlock \in Blocks
  BY <1>2, HeadOf, HeadFields DEF IsDirty, IInv, TypeOK
<1>. QED  BY <1>1, <1>2, <1>3

(* RedBufferFlushRange, as far as it comes.                                *)
LEMMA FlushRangeStep ==
  ASSUME IInv, NEW range,
         BufferFlushRange(range) \/ \E torn \in Values : BufferFlushRangeFails(range, torn)
  PROVE  IInv'
<1>1. CASE BufferFlushRange(range)
  <2>1. /\ media' = Written(DirtyIn(range)) /\ Cleaned(DirtyIn(range))
        /\ UNCHANGED <<gbRedVolNum, uNumUsed, abMRU, pbBlkBuf, fReadOnly>>
    BY <1>1 DEF BufferFlushRange, DirtyIn
  <2>2. fReadOnly' \in [Volumes -> BOOLEAN]
    BY <2>1 DEF IInv, TypeOK
  <2>3. DirtyIn(range) \in SUBSET Indexes
    BY DEF DirtyIn, InRange
  <2>4. media' \in [Volumes -> [Blocks -> Values]]
    BY <2>1, <2>3, WrittenType
  <2>. QED  BY <2>1, <2>2, <2>4, CleanedStep
<1>2. CASE \E torn \in Values : BufferFlushRangeFails(range, torn)
  <2>1. PICK torn \in Values : BufferFlushRangeFails(range, torn)
    BY <1>2
  <2>2. PICK failed \in DirtyIn(range) :
          /\ FlushFailed(range, torn, failed)
          /\ gbRedVolNum \in Volumes /\ aHead[failed].ulBlock \in Blocks
    BY <2>1, FlushFailure
  <2>3. fReadOnly' \in [Volumes -> BOOLEAN]
    BY <2>1, CriticalErrorType DEF BufferFlushRangeFails
  <2>4. UNCHANGED <<gbRedVolNum, uNumUsed, abMRU, pbBlkBuf>>
    BY <2>1 DEF BufferFlushRangeFails
  <2> DEFINE before == {i \in DirtyIn(range) : i < failed}
  <2>5. before \in SUBSET DirtyIn(range) /\ before \in SUBSET Indexes
    BY DEF DirtyIn, InRange
  <2>6. Cleaned(before)
    BY <2>2 DEF FlushFailed
  <2>7. media' = [Written(before) EXCEPT ![gbRedVolNum][aHead[failed].ulBlock] = torn]
    BY <2>2 DEF FlushFailed
  <2> HIDE DEF before
  <2>8. Written(before) \in [Volumes -> [Blocks -> Values]]
    BY <2>5, WrittenType
  <2>9. media' \in [Volumes -> [Blocks -> Values]]
    BY <2>2, <2>7, <2>8, TornType
  <2>. QED  BY <2>3, <2>4, <2>5, <2>6, <2>9, CleanedStep
<1>. QED  BY <1>1, <1>2

(* A direct write changes blocks of its range only.                        *)
LEMMA OverwrittenMedia ==
  ASSUME IInv, NEW range \in Ranges, NEW data \in [range -> Values]
  PROVE  /\ Overwritten(range, data) \in [Volumes -> [Blocks -> Values]]
         /\ \A v \in Volumes, c \in Blocks :
              Overwritten(range, data)[v][c] =
                IF v = gbRedVolNum /\ c \in range THEN data[c] ELSE media[v][c]
<1>1. gbRedVolNum \in Volumes /\ media \in [Volumes -> [Blocks -> Values]]
  BY DEF IInv, TypeOK
<1> DEFINE new == [c \in Blocks |-> IF c \in range THEN data[c] ELSE media[gbRedVolNum][c]]
<1>2. new \in [Blocks -> Values]
  BY <1>1
<1>3. Overwritten(range, data) = [media EXCEPT ![gbRedVolNum] = new]
  BY DEF Overwritten
<1>4. \A c \in Blocks : new[c] = IF c \in range THEN data[c] ELSE media[gbRedVolNum][c]
  OBVIOUS
<1> HIDE DEF new
<1>. QED  BY <1>1, <1>2, <1>3, <1>4

(* RedBufferWriteRange writes blocks of the volume and discards their      *)
(* buffers, or fails and keeps them.                                       *)
LEMMA WriteRangeStep ==
  ASSUME IInv, NEW range \in Ranges, NEW data \in [range -> Values],
         BufferWriteRange(range, data) \/ BufferWriteRangeFails(range, data)
  PROVE  IInv'
<1>1. media' \in [Volumes -> [Blocks -> Values]]
  BY OverwrittenMedia DEF BufferWriteRange, BufferWriteRangeFails
<1>2. CASE BufferWriteRange(range, data)
  <2>1. /\ Discarded(range) /\ gbRedVolNum' \in Volumes
        /\ fReadOnly' \in [Volumes -> BOOLEAN]
    BY <1>2 DEF BufferWriteRange, IInv, TypeOK
  <2>. QED  BY <1>1, <2>1, DiscardedStep
<1>3. CASE BufferWriteRangeFails(range, data)
  <2>1. UNCHANGED poolVars /\ gbRedVolNum' \in Volumes /\ CriticalError
    BY <1>3 DEF BufferWriteRangeFails, IInv, TypeOK
  <2>. QED  BY <1>1, <2>1, CriticalErrorType, SamePool
<1>. QED  BY <1>2, <1>3

(* What RedBufferGet leaves when the buffer to reuse cannot be written.    *)
LEMMA GetWriteFailure ==
  ASSUME IInv, NEW b \in Blocks, NEW torn \in Values, BufferGetWriteFails(b, torn)
  PROVE  /\ media' \in [Volumes -> [Blocks -> Values]]
         /\ \E i \in Indexes :
              /\ IsDirty(i)
              /\ \A v \in Volumes, c \in Blocks :
                   ~IsOf(i, v, c) => media'[v][c] = media[v][c]
<1>1. PICK i \in Indexes :
        /\ IsDirty(i)
        /\ media' = [media EXCEPT ![aHead[i].bVolNum][aHead[i].ulBlock] = torn]
  BY DEF BufferGetWriteFails
<1>2. aHead[i].bVolNum \in Volumes /\ aHead[i].ulBlock \in Blocks
  BY <1>1, HeadOf, HeadFields DEF IsDirty
<1>3. media \in [Volumes -> [Blocks -> Values]]
  BY DEF IInv, TypeOK
<1>4. media' \in [Volumes -> [Blocks -> Values]]
  BY <1>1, <1>2, <1>3, TornType
<1>5. \A v \in Volumes, c \in Blocks : ~IsOf(i, v, c) => media'[v][c] = media[v][c]
  BY <1>1, <1>2, <1>3, TornType DEF IsOf
<1>. QED  BY <1>1, <1>4, <1>5

(* Every step keeps the invariant.                                         *)
LEMMA NextIInv == IInv /\ [Next]_vars => IInv'
<1> SUFFICES ASSUME IInv, [Next]_vars PROVE IInv'
  OBVIOUS
<1>1. CASE \E b \in Blocks : BufferGetFound(b)
  BY <1>1, GetFoundStep
<1>2. CASE \E b \in Blocks, fNew \in BOOLEAN : BufferGet(b, fNew)
  BY <1>2, GetStep
<1>3. CASE \E b \in Blocks, torn \in Values : BufferGetWriteFails(b, torn)
  <2>1. PICK b \in Blocks, torn \in Values : BufferGetWriteFails(b, torn)
    BY <1>3
  <2>2. UNCHANGED poolVars /\ gbRedVolNum' \in Volumes /\ CriticalError
    BY <2>1 DEF BufferGetWriteFails, IInv, TypeOK
  <2>3. media' \in [Volumes -> [Blocks -> Values]]
    BY <2>1, GetWriteFailure
  <2>. QED  BY <2>2, <2>3, CriticalErrorType, SamePool
<1>4. CASE \E b \in Blocks : BufferGetReadFails(b)
  BY <1>4, GetReadFailsStep
<1>5. CASE \E range \in Ranges : \E data \in [range -> Values] :
             BufferWriteRange(range, data) \/ BufferWriteRangeFails(range, data)
  BY <1>5, WriteRangeStep
<1>6. CASE \E i \in Indexes : BufferPut(i)
  BY <1>6, PutStep
<1>7. CASE \E i \in Indexes : BufferDiscard(i)
  BY <1>7, DiscardStep
<1>8. CASE \E i \in Indexes, data \in Values : BufferDirty(i, data)
  BY <1>8, DirtyStep
<1>9. CASE \E i \in Indexes, b \in Blocks : BufferBranch(i, b)
  BY <1>9, BranchStep
<1>10. CASE \E range \in Ranges : BufferDiscardRange(range)
  <2>1. PICK range \in Ranges : Discarded(range) /\ UNCHANGED <<gbRedVolNum, media, fReadOnly>>
    BY <1>10 DEF BufferDiscardRange
  <2>2. /\ gbRedVolNum' \in Volumes /\ media' \in [Volumes -> [Blocks -> Values]]
        /\ fReadOnly' \in [Volumes -> BOOLEAN]
    BY <2>1 DEF IInv, TypeOK
  <2>. QED  BY <2>1, <2>2, DiscardedStep
<1>11. CASE \E range \in Ranges :
              BufferFlushRange(range) \/ \E torn \in Values : BufferFlushRangeFails(range, torn)
  BY <1>11, FlushRangeStep
<1>12. CASE \E v \in Volumes : VolSetCurrent(v)
  <2>1. /\ UNCHANGED poolVars /\ gbRedVolNum' \in Volumes
        /\ media' \in [Volumes -> [Blocks -> Values]] /\ fReadOnly' \in [Volumes -> BOOLEAN]
    BY <1>12 DEF VolSetCurrent, IInv, TypeOK
  <2>. QED  BY <2>1, SamePool
<1>13. CASE UNCHANGED vars
  <2>1. /\ UNCHANGED poolVars /\ gbRedVolNum' \in Volumes
        /\ media' \in [Volumes -> [Blocks -> Values]] /\ fReadOnly' \in [Volumes -> BOOLEAN]
    BY <1>13 DEF vars, IInv, TypeOK
  <2>. QED  BY <2>1, SamePool
<1>14. CASE VolRemount
  <2>1. /\ Discarded(Blocks) /\ gbRedVolNum' \in Volumes
        /\ media' \in [Volumes -> [Blocks -> Values]] /\ fReadOnly' \in [Volumes -> BOOLEAN]
    BY <1>14 DEF VolRemount, IInv, TypeOK
  <2>. QED  BY <2>1, DiscardedStep
<1>. QED  BY <1>1, <1>2, <1>3, <1>4, <1>5, <1>6, <1>7, <1>8, <1>9, <1>10, <1>11, <1>12, <1>13, <1>14 DEF Next

(* The invariant holds in every state the pool comes to.                   *)
LEMMA InvariantHolds == Spec => []IInv
BY InitIInv, NextIInv, PTL DEF Spec

(* The heads, the order, the count and the contents keep their types: the  *)
(* reference count of no buffer and the count of referenced buffers never  *)
(* go below zero or above what buffer.c reserves for them.                 *)
THEOREM TypeCorrect == Spec => []TypeOK
<1>1. IInv => TypeOK
  BY DEF IInv
<1>. QED  BY <1>1, InvariantHolds, PTL

(* No block of any volume has two buffers, every buffer is in abMRU, and   *)
(* uNumUsed counts the referenced ones (BufferFind, BufferMakeMRU,         *)
(* RedBufferGet, RedBufferPut and RedBufferDiscardRange).                  *)
THEOREM PoolIsConsistent == Spec => []PoolConsistent
<1>1. IInv => PoolConsistent
  BY DEF IInv, PoolConsistent, Orders, Unique, SameBlock, Refs, IsUsed, IsOf, IsReferenced
<1>. QED  BY <1>1, InvariantHolds, PTL

-----------------------------------------------------------------------------
(* Clean buffers and the media.                                            *)

(* Writing the buffer to be reused changes the media of its own block      *)
(* only, which no other buffer has.                                        *)
LEMMA VictimWrittenElsewhere ==
  ASSUME IInv, NEW i \in Indexes, NEW v \in Volumes, NEW b \in Blocks, ~IsOf(i, v, b)
  PROVE  VictimWritten(i)[v][b] = media[v][b]
<1>1. CASE IsDirty(i)
  <2>1. aHead[i].bVolNum \in Volumes /\ aHead[i].ulBlock \in Blocks
    BY <1>1, HeadOf, HeadFields DEF IsDirty
  <2>2. VictimWritten(i) = [media EXCEPT ![aHead[i].bVolNum][aHead[i].ulBlock] = pbBlkBuf[i]]
    BY <1>1 DEF VictimWritten
  <2>. QED  BY <2>1, <2>2 DEF IsOf, IInv, TypeOK
<1>2. CASE ~IsDirty(i)
  BY <1>2 DEF VictimWritten
<1>. QED  BY <1>1, <1>2

(* A used buffer has a block of a volume.                                  *)
LEMMA UsedBlock ==
  ASSUME IInv, NEW i \in Indexes, IsUsed(i)
  PROVE  aHead[i].bVolNum \in Volumes /\ aHead[i].ulBlock \in Blocks
BY HeadOf, HeadFields

\* No volume becomes writeable.
NoneMounted == \A v \in Volumes : ~fReadOnly'[v] => ~fReadOnly[v]

(* Only the mount does that.                                               *)
LEMMA NoneMountedBy ==
  ASSUME IInv, UNCHANGED fReadOnly \/ CriticalError
  PROVE  NoneMounted
BY DEF NoneMounted, CriticalError, IInv, TypeOK

(* The buffers other than the reused one still match the media.            *)
LEMMA OthersMatch ==
  ASSUME IInv, CleanBuffersMatchMedia, NEW i \in Indexes, NEW j \in Indexes, i # j,
         IsUsed(j), ~IsDirty(j), ~fReadOnly[aHead[j].bVolNum]
  PROVE  pbBlkBuf[j] = VictimWritten(i)[aHead[j].bVolNum][aHead[j].ulBlock]
<1>1. aHead[j].bVolNum \in Volumes /\ aHead[j].ulBlock \in Blocks
  BY UsedBlock
<1>2. ~IsOf(i, aHead[j].bVolNum, aHead[j].ulBlock)
  BY HeadOf DEF IsOf, SameBlock
<1>3. VictimWritten(i)[aHead[j].bVolNum][aHead[j].ulBlock] = media[aHead[j].bVolNum][aHead[j].ulBlock]
  BY <1>1, <1>2, VictimWrittenElsewhere
<1>. QED  BY <1>3 DEF CleanBuffersMatchMedia

(* RedBufferGet of a block without a buffer, whether it succeeds.          *)
LEMMA GetMatches ==
  ASSUME IInv, CleanBuffersMatchMedia, NEW b \in Blocks,
         (\E fNew \in BOOLEAN : BufferGet(b, fNew)) \/ BufferGetReadFails(b)
  PROVE  CleanBuffersMatchMedia'
<1>0. NoneMounted
  BY NoneMountedBy DEF BufferGet, BufferGetReadFails
<1>1. CASE \E fNew \in BOOLEAN : BufferGet(b, fNew)
  <2>1. PICK fNew \in BOOLEAN : BufferGet(b, fNew)
    BY <1>1
  <2>2. PICK i \in Indexes :
          /\ media' = VictimWritten(i)
          /\ aHead' = [aHead EXCEPT ![i] =
               [ulBlock |-> b, bVolNum |-> gbRedVolNum, bRefCount |-> 1, fDirty |-> fNew]]
          /\ pbBlkBuf' = [pbBlkBuf EXCEPT ![i] = IF fNew THEN Zero ELSE media[gbRedVolNum][b]]
    BY <2>1 DEF BufferGet
  <2>3. ~IsOf(i, gbRedVolNum, b) /\ gbRedVolNum \in Volumes
    BY <2>1 DEF BufferGet, IsBuffered, IInv, TypeOK
  <2>4. media'[gbRedVolNum][b] = media[gbRedVolNum][b]
    BY <2>2, <2>3, VictimWrittenElsewhere
  <2>5. /\ aHead'[i].ulBlock = b /\ aHead'[i].bVolNum = gbRedVolNum
        /\ aHead'[i].fDirty = fNew
        /\ pbBlkBuf'[i] = IF fNew THEN Zero ELSE media[gbRedVolNum][b]
    BY <2>2 DEF IInv, TypeOK
  <2>6. \A j \in Indexes : j # i => aHead'[j] = aHead[j] /\ pbBlkBuf'[j] = pbBlkBuf[j]
    BY <2>2 DEF IInv, TypeOK
  <2> SUFFICES ASSUME NEW j \in Indexes, IsUsed(j)', ~IsDirty(j)', ~fReadOnly'[aHead'[j].bVolNum]
               PROVE  pbBlkBuf'[j] = media'[aHead'[j].bVolNum][aHead'[j].ulBlock]
    BY DEF CleanBuffersMatchMedia
  <2>7. CASE j = i
    BY <2>4, <2>5, <2>7 DEF IsDirty, IsUsed
  <2>8. CASE j # i
    <3>1. aHead'[j] = aHead[j] /\ pbBlkBuf'[j] = pbBlkBuf[j] /\ IsUsed(j) /\ ~IsDirty(j)
      BY <2>6, <2>8 DEF IsDirty, IsUsed
    <3>2. ~fReadOnly[aHead[j].bVolNum]
      BY <1>0, <3>1, UsedBlock DEF NoneMounted
    <3>. QED  BY <2>2, <2>8, <3>1, <3>2, OthersMatch
  <2>. QED  BY <2>7, <2>8
<1>2. CASE BufferGetReadFails(b)
  <2>1. PICK i \in Indexes :
          /\ media' = VictimWritten(i)
          /\ aHead' = [aHead EXCEPT ![i] = Unused]
          /\ pbBlkBuf' = [pbBlkBuf EXCEPT ![i] = Zero]
    BY <1>2 DEF BufferGetReadFails
  <2>2. aHead'[i].ulBlock = BBLK_INVALID
    BY <2>1, HeadFields DEF IInv, TypeOK
  <2>3. \A j \in Indexes : j # i => aHead'[j] = aHead[j] /\ pbBlkBuf'[j] = pbBlkBuf[j]
    BY <2>1 DEF IInv, TypeOK
  <2> SUFFICES ASSUME NEW j \in Indexes, IsUsed(j)', ~IsDirty(j)', ~fReadOnly'[aHead'[j].bVolNum]
               PROVE  pbBlkBuf'[j] = media'[aHead'[j].bVolNum][aHead'[j].ulBlock]
    BY DEF CleanBuffersMatchMedia
  <2>4. j # i /\ IsUsed(j) /\ ~IsDirty(j)
    BY <2>2, <2>3 DEF IsDirty, IsUsed
  <2>5. ~fReadOnly[aHead[j].bVolNum]
    BY <1>0, <2>3, <2>4, UsedBlock DEF NoneMounted
  <2>6. pbBlkBuf[j] = VictimWritten(i)[aHead[j].bVolNum][aHead[j].ulBlock]
    BY <2>4, <2>5, OthersMatch
  <2>. QED  BY <2>1, <2>3, <2>4, <2>6
<1>. QED  BY <1>1, <1>2

(* What a flush writes matches the buffers written, since each has a       *)
(* block of its own, and changes no other block.                           *)
LEMMA CleanedMatches ==
  ASSUME IInv, CleanBuffersMatchMedia, NEW range, NEW S \in SUBSET DirtyIn(range),
         Cleaned(S), media' = Written(S), pbBlkBuf' = pbBlkBuf, NoneMounted
  PROVE  CleanBuffersMatchMedia'
<1>1. S \subseteq Indexes /\ \A i \in S : IsUsed(i) /\ aHead[i].bVolNum = gbRedVolNum
  BY DEF DirtyIn, InRange, IsDirty
<1> DEFINE at(b) == CHOOSE i \in S : aHead[i].ulBlock = b
<1>2. \A v \in Volumes, b \in Blocks :
        media'[v][b] = IF v = gbRedVolNum /\ \E i \in S : aHead[i].ulBlock = b
                       THEN pbBlkBuf[at(b)]
                       ELSE media[v][b]
  BY DEF Written, IInv, TypeOK
<1>3. \A i \in Indexes : aHead'[i] = IF i \in S THEN [aHead[i] EXCEPT !.fDirty = FALSE] ELSE aHead[i]
  BY DEF Cleaned
<1> SUFFICES ASSUME NEW j \in Indexes, IsUsed(j)', ~IsDirty(j)', ~fReadOnly'[aHead'[j].bVolNum]
             PROVE  pbBlkBuf[j] = media'[aHead'[j].bVolNum][aHead'[j].ulBlock]
  BY DEF CleanBuffersMatchMedia
<1>4. CASE j \in S
  <2>1. aHead[j] \in Heads
    BY <1>1, <1>4, HeadOf
  <2>2. aHead'[j].bVolNum = aHead[j].bVolNum /\ aHead'[j].ulBlock = aHead[j].ulBlock
    BY <1>3, <1>4, <2>1 DEF Heads
  <2>3. \A i \in S : aHead[i].ulBlock = aHead[j].ulBlock => i = j
    BY <1>1, <1>4, HeadOf DEF SameBlock
  <2>4. at(aHead[j].ulBlock) = j
    BY <1>4, <2>3
  <2> HIDE DEF at
  <2>5. aHead[j].bVolNum \in Volumes /\ aHead[j].ulBlock \in Blocks
    BY <1>1, <1>4, UsedBlock
  <2>6. aHead[j].bVolNum = gbRedVolNum /\ \E i \in S : aHead[i].ulBlock = aHead[j].ulBlock
    BY <1>1, <1>4
  <2>7. media'[aHead[j].bVolNum][aHead[j].ulBlock] = pbBlkBuf[at(aHead[j].ulBlock)]
    BY <1>2, <2>5, <2>6
  <2>. QED  BY <2>2, <2>4, <2>7
<1>5. CASE j \notin S
  <2>1. aHead'[j] = aHead[j] /\ IsUsed(j) /\ ~IsDirty(j)
    BY <1>3, <1>5 DEF IsUsed, IsDirty
  <2>2. aHead[j].bVolNum \in Volumes /\ aHead[j].ulBlock \in Blocks
    BY <2>1, UsedBlock
  <2>3. \A i \in S : ~(aHead[j].bVolNum = gbRedVolNum /\ aHead[i].ulBlock = aHead[j].ulBlock)
    BY <1>1, <1>5, HeadOf DEF SameBlock
  <2>4. pbBlkBuf[j] = media[aHead[j].bVolNum][aHead[j].ulBlock]
    BY <2>1, <2>2 DEF CleanBuffersMatchMedia, NoneMounted
  <2> HIDE DEF at
  <2>5. media'[aHead[j].bVolNum][aHead[j].ulBlock] = media[aHead[j].bVolNum][aHead[j].ulBlock]
    BY <1>2, <2>2, <2>3
  <2>. QED  BY <2>1, <2>4, <2>5
<1>. QED  BY <1>4, <1>5

(* Discarding buffers of a range; a direct write of its blocks changes     *)
(* what no buffer that is left has.                                        *)
LEMMA DiscardedMatches ==
  ASSUME IInv, CleanBuffersMatchMedia, NEW range, Discarded(range), NoneMounted,
         \A v \in Volumes, b \in Blocks :
           ~(v = gbRedVolNum /\ b \in range) => media'[v][b] = media[v][b]
  PROVE  CleanBuffersMatchMedia'
<1>1. \A i \in Indexes :
        /\ i \in InRange(range) => aHead'[i].ulBlock = BBLK_INVALID
        /\ i \notin InRange(range) => aHead'[i] = aHead[i] /\ pbBlkBuf'[i] = pbBlkBuf[i]
  BY HeadFields DEF Discarded
<1> SUFFICES ASSUME NEW j \in Indexes, IsUsed(j)', ~IsDirty(j)', ~fReadOnly'[aHead'[j].bVolNum]
             PROVE  pbBlkBuf'[j] = media'[aHead'[j].bVolNum][aHead'[j].ulBlock]
  BY DEF CleanBuffersMatchMedia
<1>2. j \notin InRange(range) /\ IsUsed(j) /\ ~IsDirty(j)
  BY <1>1 DEF IsUsed, IsDirty
<1>3. aHead[j].bVolNum \in Volumes /\ aHead[j].ulBlock \in Blocks
  BY <1>2, UsedBlock
<1>4. ~(aHead[j].bVolNum = gbRedVolNum /\ aHead[j].ulBlock \in range)
  BY <1>2 DEF InRange
<1>5. pbBlkBuf[j] = media[aHead[j].bVolNum][aHead[j].ulBlock]
  BY <1>1, <1>2, <1>3 DEF CleanBuffersMatchMedia, NoneMounted
<1>6. media'[aHead[j].bVolNum][aHead[j].ulBlock] = media[aHead[j].bVolNum][aHead[j].ulBlock]
  BY <1>3, <1>4
<1>. QED  BY <1>1, <1>2, <1>5, <1>6

(* A step that changes one buffer and leaves the media alone.              *)
LEMMA OneHeadMatches ==
  ASSUME IInv, CleanBuffersMatchMedia, NEW i \in Indexes, NEW e,
         aHead' = [aHead EXCEPT ![i] = e], media' = media,
         UNCHANGED fReadOnly,
         \A j \in Indexes : j # i => pbBlkBuf'[j] = pbBlkBuf[j],
         e.ulBlock # BBLK_INVALID /\ ~e.fDirty /\ ~fReadOnly[e.bVolNum] =>
           pbBlkBuf'[i] = media[e.bVolNum][e.ulBlock]
  PROVE  CleanBuffersMatchMedia'
<1>1. aHead'[i] = e /\ \A j \in Indexes : j # i => aHead'[j] = aHead[j]
  BY DEF IInv, TypeOK
<1> SUFFICES ASSUME NEW j \in Indexes, IsUsed(j)', ~IsDirty(j)', ~fReadOnly'[aHead'[j].bVolNum]
             PROVE  pbBlkBuf'[j] = media[aHead'[j].bVolNum][aHead'[j].ulBlock]
  BY DEF CleanBuffersMatchMedia
<1>2. CASE j = i
  BY <1>1, <1>2 DEF IsUsed, IsDirty
<1>3. CASE j # i
  <2>1. IsUsed(j) /\ ~IsDirty(j)
    BY <1>1, <1>3 DEF IsUsed, IsDirty
  <2>2. pbBlkBuf[j] = media[aHead[j].bVolNum][aHead[j].ulBlock]
    BY <1>1, <1>3, <2>1 DEF CleanBuffersMatchMedia
  <2>. QED  BY <1>1, <1>3, <2>2
<1>. QED  BY <1>2, <1>3

(* A reference more or less: RedBufferGet of a buffered block and          *)
(* RedBufferPut.                                                           *)
LEMMA ReferenceMatches ==
  ASSUME IInv, CleanBuffersMatchMedia, NEW i \in Indexes, IsUsed(i), NEW n,
         aHead' = [aHead EXCEPT ![i].bRefCount = n], UNCHANGED <<pbBlkBuf, media, fReadOnly>>
  PROVE  CleanBuffersMatchMedia'
<1> DEFINE e == [aHead[i] EXCEPT !.bRefCount = n]
<1>1. e.ulBlock = aHead[i].ulBlock /\ e.bVolNum = aHead[i].bVolNum /\ e.fDirty = aHead[i].fDirty
  BY HeadOf DEF Heads
<1>2. aHead' = [aHead EXCEPT ![i] = e]
  OBVIOUS
<1> HIDE DEF e
<1>3. e.ulBlock # BBLK_INVALID /\ ~e.fDirty /\ ~fReadOnly[e.bVolNum] =>
        pbBlkBuf[i] = media[e.bVolNum][e.ulBlock]
  BY <1>1 DEF CleanBuffersMatchMedia, IsUsed, IsDirty
<1>. QED  BY <1>2, <1>3, OneHeadMatches

(* RedBufferDirty, RedBufferBranch and RedBufferDiscard leave the buffer   *)
(* dirty or without a block.                                               *)
LEMMA ChangedMatches ==
  ASSUME IInv, CleanBuffersMatchMedia, NEW i \in Indexes,
         \/ \E data \in Values : BufferDirty(i, data)
         \/ \E b \in Blocks : BufferBranch(i, b)
         \/ BufferDiscard(i)
  PROVE  CleanBuffersMatchMedia'
<1>1. aHead[i] \in Heads
  BY HeadOf DEF BufferDirty, BufferBranch, BufferDiscard, IsHeld
<1>2. CASE \E data \in Values : BufferDirty(i, data)
  <2> DEFINE e == [aHead[i] EXCEPT !.fDirty = TRUE]
  <2>1. e.fDirty /\ aHead' = [aHead EXCEPT ![i] = e]
    BY <1>1, <1>2 DEF Heads, BufferDirty
  <2>2. UNCHANGED <<media, fReadOnly>> /\ \A j \in Indexes : j # i => pbBlkBuf'[j] = pbBlkBuf[j]
    BY <1>2 DEF BufferDirty, IInv, TypeOK
  <2> HIDE DEF e
  <2>. QED  BY <2>1, <2>2, OneHeadMatches
<1>3. CASE \E b \in Blocks : BufferBranch(i, b)
  <2>1. PICK b \in Blocks : BufferBranch(i, b)
    BY <1>3
  <2> DEFINE e == [aHead[i] EXCEPT !.ulBlock = b, !.fDirty = TRUE]
  <2>2. e.fDirty /\ aHead' = [aHead EXCEPT ![i] = e]
    BY <1>1, <2>1 DEF Heads, BufferBranch
  <2>3. UNCHANGED <<media, fReadOnly>> /\ \A j \in Indexes : j # i => pbBlkBuf'[j] = pbBlkBuf[j]
    BY <2>1 DEF BufferBranch
  <2> HIDE DEF e
  <2>. QED  BY <2>2, <2>3, OneHeadMatches
<1>4. CASE BufferDiscard(i)
  <2>1. UNCHANGED <<media, fReadOnly>> /\ \A j \in Indexes : j # i => pbBlkBuf'[j] = pbBlkBuf[j]
    BY <1>4 DEF BufferDiscard, IInv, TypeOK
  <2>. QED  BY <1>4, <2>1, HeadFields, OneHeadMatches DEF BufferDiscard
<1>. QED  BY <1>2, <1>3, <1>4

(* Steps that touch neither pool nor media.                                *)
LEMMA SameMatches ==
  ASSUME CleanBuffersMatchMedia, UNCHANGED <<aHead, pbBlkBuf, media, fReadOnly>>
  PROVE  CleanBuffersMatchMedia'
BY DEF CleanBuffersMatchMedia, IsUsed, IsDirty

(* The buffer to reuse cannot be written: its block is torn, but it stays  *)
(* dirty, and no other buffer has its block.                               *)
LEMMA GetWriteFailsMatches ==
  ASSUME IInv, CleanBuffersMatchMedia, NEW b \in Blocks, NEW torn \in Values,
         BufferGetWriteFails(b, torn)
  PROVE  CleanBuffersMatchMedia'
<1>1. UNCHANGED <<aHead, pbBlkBuf>> /\ NoneMounted
  BY NoneMountedBy DEF BufferGetWriteFails, poolVars
<1>2. PICK i \in Indexes :
        /\ IsDirty(i)
        /\ \A v \in Volumes, c \in Blocks : ~IsOf(i, v, c) => media'[v][c] = media[v][c]
  BY GetWriteFailure
<1> SUFFICES ASSUME NEW j \in Indexes, IsUsed(j)', ~IsDirty(j)', ~fReadOnly'[aHead'[j].bVolNum]
             PROVE  pbBlkBuf'[j] = media'[aHead'[j].bVolNum][aHead'[j].ulBlock]
  BY DEF CleanBuffersMatchMedia
<1>3. IsUsed(j) /\ ~IsDirty(j)
  BY <1>1 DEF IsUsed, IsDirty
<1>4. aHead[j].bVolNum \in Volumes /\ aHead[j].ulBlock \in Blocks
  BY <1>3, UsedBlock
<1>5. ~IsOf(i, aHead[j].bVolNum, aHead[j].ulBlock)
  BY <1>2, <1>3, HeadOf DEF IsOf, SameBlock
<1>6. media'[aHead[j].bVolNum][aHead[j].ulBlock] = media[aHead[j].bVolNum][aHead[j].ulBlock]
  BY <1>2, <1>4, <1>5
<1>7. pbBlkBuf[j] = media[aHead[j].bVolNum][aHead[j].ulBlock]
  BY <1>1, <1>3, <1>4 DEF CleanBuffersMatchMedia, NoneMounted
<1>. QED  BY <1>1, <1>6, <1>7

(* An error on the current volume, which becomes read-only, and which      *)
(* leaves the buffers and the media of the other volumes alone.            *)
LEMMA ErrorMatches ==
  ASSUME IInv, CleanBuffersMatchMedia, CriticalError, pbBlkBuf' = pbBlkBuf,
         \A j \in Indexes : aHead'[j].bVolNum = aHead[j].bVolNum,
         \A j \in Indexes : aHead[j].bVolNum # gbRedVolNum => aHead'[j] = aHead[j],
         \A v \in Volumes, b \in Blocks : v # gbRedVolNum => media'[v][b] = media[v][b]
  PROVE  CleanBuffersMatchMedia'
<1>1. NoneMounted /\ fReadOnly'[gbRedVolNum]
  BY NoneMountedBy DEF CriticalError, IInv, TypeOK
<1> SUFFICES ASSUME NEW j \in Indexes, IsUsed(j)', ~IsDirty(j)', ~fReadOnly'[aHead'[j].bVolNum]
             PROVE  pbBlkBuf'[j] = media'[aHead'[j].bVolNum][aHead'[j].ulBlock]
  BY DEF CleanBuffersMatchMedia
<1>2. aHead[j].bVolNum # gbRedVolNum /\ aHead'[j] = aHead[j]
  BY <1>1
<1>3. IsUsed(j) /\ ~IsDirty(j)
  BY <1>2 DEF IsUsed, IsDirty
<1>4. aHead[j].bVolNum \in Volumes /\ aHead[j].ulBlock \in Blocks
  BY <1>3, UsedBlock
<1>5. pbBlkBuf[j] = media[aHead[j].bVolNum][aHead[j].ulBlock]
  BY <1>1, <1>2, <1>3, <1>4 DEF CleanBuffersMatchMedia, NoneMounted
<1>. QED  BY <1>2, <1>4, <1>5

(* A flush changes flags only.                                             *)
LEMMA CleanedKept ==
  ASSUME IInv, NEW i \in Indexes, NEW range, NEW S \in SUBSET DirtyIn(range), Cleaned(S)
  PROVE  aHead'[i].bVolNum = aHead[i].bVolNum /\ aHead'[i].ulBlock = aHead[i].ulBlock
<1>1. i \in S => aHead[i] \in Heads
  BY HeadOf DEF DirtyIn, IsDirty
<1>. QED  BY <1>1 DEF Cleaned, Heads

(* A flush or a direct write which fails is such an error.                 *)
LEMMA FailedWriteMatches ==
  ASSUME IInv, CleanBuffersMatchMedia, NEW range \in Ranges,
         \/ \E torn \in Values : BufferFlushRangeFails(range, torn)
         \/ \E torn \in [range -> Values] : BufferWriteRangeFails(range, torn)
  PROVE  CleanBuffersMatchMedia'
<1>1. CASE \E torn \in Values : BufferFlushRangeFails(range, torn)
  <2>1. PICK torn \in Values : BufferFlushRangeFails(range, torn)
    BY <1>1
  <2>2. PICK failed \in DirtyIn(range) :
          /\ FlushFailed(range, torn, failed)
          /\ gbRedVolNum \in Volumes /\ aHead[failed].ulBlock \in Blocks
    BY <2>1, FlushFailure
  <2> DEFINE before == {i \in DirtyIn(range) : i < failed}
  <2>3. /\ before \in SUBSET DirtyIn(range) /\ before \in SUBSET Indexes
        /\ \A j \in before : aHead[j].bVolNum = gbRedVolNum
    BY DEF DirtyIn, InRange
  <2>4. /\ Cleaned(before)
        /\ media' = [Written(before) EXCEPT ![gbRedVolNum][aHead[failed].ulBlock] = torn]
    BY <2>2 DEF FlushFailed
  <2> HIDE DEF before
  <2>5. \A j \in Indexes : aHead'[j].bVolNum = aHead[j].bVolNum
    BY <2>3, <2>4, CleanedKept
  <2>6. \A j \in Indexes : aHead[j].bVolNum # gbRedVolNum => aHead'[j] = aHead[j]
    BY <2>3, <2>4 DEF Cleaned
  <2>7. \A v \in Volumes, b \in Blocks : v # gbRedVolNum => media'[v][b] = media[v][b]
    BY <2>2, <2>4 DEF Written, IInv, TypeOK
  <2>8. CriticalError /\ pbBlkBuf' = pbBlkBuf
    BY <2>1 DEF BufferFlushRangeFails
  <2>. QED  BY <2>5, <2>6, <2>7, <2>8, ErrorMatches
<1>2. CASE \E torn \in [range -> Values] : BufferWriteRangeFails(range, torn)
  <2>1. PICK torn \in [range -> Values] : BufferWriteRangeFails(range, torn)
    BY <1>2
  <2>2. /\ CriticalError /\ UNCHANGED <<aHead, pbBlkBuf>>
        /\ media' = Overwritten(range, torn)
    BY <2>1 DEF BufferWriteRangeFails, poolVars
  <2>3. \A v \in Volumes, b \in Blocks : v # gbRedVolNum => media'[v][b] = media[v][b]
    BY <2>2, OverwrittenMedia
  <2>. QED  BY <2>2, <2>3, ErrorMatches
<1>. QED  BY <1>1, <1>2

(* A mount finds no buffer of its volume.                                  *)
LEMMA RemountMatches ==
  ASSUME IInv, CleanBuffersMatchMedia, VolRemount
  PROVE  CleanBuffersMatchMedia'
<1>1. \A i \in Indexes :
        /\ i \in InRange(Blocks) => aHead'[i].ulBlock = BBLK_INVALID
        /\ i \notin InRange(Blocks) => aHead'[i] = aHead[i] /\ pbBlkBuf'[i] = pbBlkBuf[i]
  BY HeadFields DEF VolRemount, Discarded
<1> SUFFICES ASSUME NEW j \in Indexes, IsUsed(j)', ~IsDirty(j)', ~fReadOnly'[aHead'[j].bVolNum]
             PROVE  pbBlkBuf'[j] = media'[aHead'[j].bVolNum][aHead'[j].ulBlock]
  BY DEF CleanBuffersMatchMedia
<1>2. /\ j \notin InRange(Blocks) /\ IsUsed(j) /\ ~IsDirty(j)
      /\ aHead'[j] = aHead[j] /\ pbBlkBuf'[j] = pbBlkBuf[j]
  BY <1>1 DEF IsUsed, IsDirty
<1>3. aHead[j].bVolNum \in Volumes /\ aHead[j].ulBlock \in Blocks
  BY <1>2, UsedBlock
<1>4. aHead[j].bVolNum # gbRedVolNum
  BY <1>2, <1>3 DEF InRange
<1>5. ~fReadOnly[aHead[j].bVolNum] /\ media' = media
  BY <1>2, <1>3, <1>4 DEF VolRemount, IInv, TypeOK
<1>. QED  BY <1>2, <1>5 DEF CleanBuffersMatchMedia

(* Every step keeps clean buffers and media the same.                      *)
LEMMA NextMatches == IInv /\ CleanBuffersMatchMedia /\ [Next]_vars => CleanBuffersMatchMedia'
<1> SUFFICES ASSUME IInv, CleanBuffersMatchMedia, [Next]_vars PROVE CleanBuffersMatchMedia'
  OBVIOUS
<1>1. CASE \E b \in Blocks : BufferGetFound(b)
  <2>1. PICK b \in Blocks : BufferGetFound(b)
    BY <1>1
  <2> DEFINE i == BufferFind(b)
  <2>2. i \in Indexes /\ IsUsed(i)
    BY <2>1, HeadFields DEF BufferGetFound, IsBuffered, BufferFind, IsOf, IsUsed
  <2>3. /\ aHead' = [aHead EXCEPT ![i].bRefCount = aHead[i].bRefCount + 1]
        /\ UNCHANGED <<pbBlkBuf, media, fReadOnly>>
    BY <2>1 DEF BufferGetFound
  <2> HIDE DEF i
  <2>. QED  BY <2>2, <2>3, ReferenceMatches
<1>2. CASE \E b \in Blocks : (\E fNew \in BOOLEAN : BufferGet(b, fNew)) \/ BufferGetReadFails(b)
  BY <1>2, GetMatches
<1>3. CASE \E b \in Blocks, torn \in Values : BufferGetWriteFails(b, torn)
  BY <1>3, GetWriteFailsMatches
<1>4. CASE \E range \in Ranges : \E data \in [range -> Values] : BufferWriteRange(range, data)
  <2>1. PICK range \in Ranges : \E data \in [range -> Values] : BufferWriteRange(range, data)
    BY <1>4
  <2>2. PICK data \in [range -> Values] : BufferWriteRange(range, data)
    BY <2>1
  <2>3. Discarded(range) /\ media' = Overwritten(range, data) /\ NoneMounted
    BY <2>2, NoneMountedBy DEF BufferWriteRange
  <2>4. \A v \in Volumes, c \in Blocks :
          ~(v = gbRedVolNum /\ c \in range) => media'[v][c] = media[v][c]
    BY <2>3, OverwrittenMedia
  <2>. QED  BY <2>3, <2>4, DiscardedMatches
<1>5. CASE \E i \in Indexes : BufferPut(i)
  <2>1. PICK i \in Indexes : BufferPut(i)
    BY <1>5
  <2>2. /\ IsUsed(i)
        /\ aHead' = [aHead EXCEPT ![i].bRefCount = aHead[i].bRefCount - 1]
        /\ UNCHANGED <<pbBlkBuf, media, fReadOnly>>
    BY <2>1 DEF BufferPut, IsHeld
  <2>. QED  BY <2>2, ReferenceMatches
<1>6. CASE \E i \in Indexes :
             \/ \E data \in Values : BufferDirty(i, data)
             \/ \E b \in Blocks : BufferBranch(i, b)
             \/ BufferDiscard(i)
  BY <1>6, ChangedMatches
<1>7. CASE \E range \in Ranges : BufferDiscardRange(range)
  <2>1. PICK range \in Ranges : Discarded(range) /\ media' = media /\ NoneMounted
    BY <1>7, NoneMountedBy DEF BufferDiscardRange
  <2>. QED  BY <2>1, DiscardedMatches
<1>8. CASE \E range \in Ranges : BufferFlushRange(range)
  <2>1. PICK range \in Ranges :
          /\ media' = Written(DirtyIn(range)) /\ Cleaned(DirtyIn(range))
          /\ pbBlkBuf' = pbBlkBuf /\ NoneMounted
    BY <1>8, NoneMountedBy DEF BufferFlushRange, DirtyIn
  <2>. QED  BY <2>1, CleanedMatches
<1>9. CASE \E range \in Ranges :
             \/ \E torn \in Values : BufferFlushRangeFails(range, torn)
             \/ \E torn \in [range -> Values] : BufferWriteRangeFails(range, torn)
  BY <1>9, FailedWriteMatches
<1>10. CASE \E v \in Volumes : VolSetCurrent(v)
  BY <1>10, SameMatches DEF VolSetCurrent, poolVars
<1>11. CASE UNCHANGED vars
  BY <1>11, SameMatches DEF vars, poolVars
<1>12. CASE VolRemount
  BY <1>12, RemountMatches
<1>. QED  BY <1>1, <1>2, <1>3, <1>4, <1>5, <1>6, <1>7, <1>8, <1>9, <1>10, <1>11, <1>12 DEF Next

(* A clean buffer of a writeable volume has what the media has for its     *)
(* block, so that BufferWrite is right to skip it when it is reused,       *)
(* RedBufferBranch to move it, and reading past the buffers right after a  *)
(* flush (RedBufferGet, RedBufferFlushRange, RedBufferReadRange,           *)
(* RedBufferWriteRange): the stale buffers which a failed direct write     *)
(* leaves are all of volumes that are read-only until the next mount.      *)
THEOREM CleanMatchesMedia == Spec => []CleanBuffersMatchMedia
<1>1. Init => CleanBuffersMatchMedia
  BY HeadFields DEF Init, CleanBuffersMatchMedia, IsUsed
<1>. QED  BY <1>1, NextMatches, InvariantHolds, PTL DEF Spec

-----------------------------------------------------------------------------
(* References.                                                             *)

\* What ReferencedBuffersKept says of one buffer.
KeepsBlock(i) ==
  \/ aHead'[i].bVolNum = aHead[i].bVolNum /\ aHead'[i].ulBlock = aHead[i].ulBlock
  \/ \E b \in Blocks : BufferBranch(i, b)

(* A step keeps the block of a buffer whose head it leaves alone, and of   *)
(* one of which it changes references and flags.                           *)
LEMMA KeptFields ==
  ASSUME IInv, NEW i \in Indexes, NEW k \in Indexes, NEW n, NEW d,
         \/ aHead' = [aHead EXCEPT ![k].bRefCount = n]
         \/ aHead' = [aHead EXCEPT ![k].fDirty = d]
  PROVE  aHead'[i].bVolNum = aHead[i].bVolNum /\ aHead'[i].ulBlock = aHead[i].ulBlock
<1>1. aHead[k] \in Heads \cup {Unused}
  BY HeadOf
<1>2. /\ aHead[k] = [aHead[k] EXCEPT !.bRefCount = aHead[k].bRefCount]
      /\ [aHead[k] EXCEPT !.bRefCount = n].ulBlock = aHead[k].ulBlock
      /\ [aHead[k] EXCEPT !.bRefCount = n].bVolNum = aHead[k].bVolNum
      /\ [aHead[k] EXCEPT !.fDirty = d].ulBlock = aHead[k].ulBlock
      /\ [aHead[k] EXCEPT !.fDirty = d].bVolNum = aHead[k].bVolNum
  BY <1>1 DEF Heads, Unused
<1>. QED  BY <1>2 DEF IInv, TypeOK

(* RedBufferGet takes only a buffer without references.                    *)
LEMMA VictimKept ==
  ASSUME IInv, NEW i \in Indexes, IsReferenced(i), NEW k \in Indexes, IsVictim(k), NEW e,
         aHead' = [aHead EXCEPT ![k] = e]
  PROVE  aHead'[i] = aHead[i]
BY DEF IsVictim, IInv, TypeOK

(* RedBufferDiscardRange discards only such buffers.                       *)
LEMMA DiscardedKept ==
  ASSUME NEW i \in Indexes, IsReferenced(i), NEW range, Discarded(range)
  PROVE  aHead'[i] = aHead[i]
BY DEF Discarded

(* Every step keeps the referenced buffers.                                *)
LEMMA NextKeeps ==
  ASSUME IInv, Next, NEW i \in Indexes, IsReferenced(i), IsReferenced(i)'
  PROVE  KeepsBlock(i)
<1>1. CASE \E b \in Blocks : BufferGetFound(b)
  <2>1. PICK b \in Blocks : BufferGetFound(b)
    BY <1>1
  <2> DEFINE k == BufferFind(b)
  <2>2. k \in Indexes
    BY <2>1 DEF BufferGetFound, IsBuffered, BufferFind
  <2>3. aHead' = [aHead EXCEPT ![k].bRefCount = aHead[k].bRefCount + 1]
    BY <2>1 DEF BufferGetFound
  <2> HIDE DEF k
  <2>. QED  BY <2>2, <2>3, KeptFields DEF KeepsBlock
<1>2. CASE \E b \in Blocks, fNew \in BOOLEAN : BufferGet(b, fNew)
  <2>1. PICK b \in Blocks, fNew \in BOOLEAN, k \in Indexes :
          IsVictim(k) /\ aHead' = [aHead EXCEPT ![k] =
            [ulBlock |-> b, bVolNum |-> gbRedVolNum, bRefCount |-> 1, fDirty |-> fNew]]
    BY <1>2 DEF BufferGet
  <2>. QED  BY <2>1, VictimKept DEF KeepsBlock
<1>3. CASE \E b \in Blocks : BufferGetReadFails(b)
  <2>1. PICK k \in Indexes : IsVictim(k) /\ aHead' = [aHead EXCEPT ![k] = Unused]
    BY <1>3 DEF BufferGetReadFails
  <2>. QED  BY <2>1, VictimKept DEF KeepsBlock
<1>4. CASE \/ \E range \in Ranges : \E data \in [range -> Values] : BufferWriteRange(range, data)
           \/ VolRemount
  <2>1. PICK range : Discarded(range)
    BY <1>4 DEF BufferWriteRange, VolRemount
  <2>. QED  BY <2>1, DiscardedKept DEF KeepsBlock
<1>5. CASE \E k \in Indexes : BufferPut(k)
  <2>1. PICK k \in Indexes : aHead' = [aHead EXCEPT ![k].bRefCount = aHead[k].bRefCount - 1]
    BY <1>5 DEF BufferPut
  <2>. QED  BY <2>1, KeptFields DEF KeepsBlock
<1>6. CASE \E k \in Indexes : BufferDiscard(k)
  <2>1. PICK k \in Indexes : aHead' = [aHead EXCEPT ![k] = Unused]
    BY <1>6 DEF BufferDiscard
  <2>2. k # i
    BY <2>1, HeadFields DEF IsReferenced, IInv, TypeOK
  <2>. QED  BY <2>1, <2>2 DEF KeepsBlock, IInv, TypeOK
<1>7. CASE \E k \in Indexes, data \in Values : BufferDirty(k, data)
  <2>1. PICK k \in Indexes : aHead' = [aHead EXCEPT ![k].fDirty = TRUE]
    BY <1>7 DEF BufferDirty
  <2>. QED  BY <2>1, KeptFields DEF KeepsBlock
<1>8. CASE \E k \in Indexes, b \in Blocks : BufferBranch(k, b)
  <2>1. PICK k \in Indexes, b \in Blocks : BufferBranch(k, b)
    BY <1>8
  <2>2. k # i => aHead'[i] = aHead[i]
    BY <2>1 DEF BufferBranch, IInv, TypeOK
  <2>. QED  BY <2>1, <2>2 DEF KeepsBlock
<1>9. CASE \E range \in Ranges : BufferDiscardRange(range)
  BY <1>9, DiscardedKept DEF BufferDiscardRange, KeepsBlock
<1>10. CASE \E range \in Ranges : BufferFlushRange(range)
  <2>1. PICK range \in Ranges : Cleaned(DirtyIn(range))
    BY <1>10 DEF BufferFlushRange, DirtyIn
  <2>. QED  BY <2>1, CleanedKept DEF KeepsBlock
<1>11. CASE \E range \in Ranges, torn \in Values : BufferFlushRangeFails(range, torn)
  <2>1. PICK range \in Ranges :
          \E failed \in DirtyIn(range) : Cleaned({j \in DirtyIn(range) : j < failed})
    BY <1>11 DEF BufferFlushRangeFails, DirtyIn
  <2>. QED  BY <2>1, CleanedKept DEF KeepsBlock
<1>12. CASE \/ \E b \in Blocks, torn \in Values : BufferGetWriteFails(b, torn)
            \/ \E range \in Ranges : \E torn \in [range -> Values] :
                 BufferWriteRangeFails(range, torn)
            \/ \E v \in Volumes : VolSetCurrent(v)
  <2>1. aHead' = aHead
    BY <1>12 DEF BufferGetWriteFails, BufferWriteRangeFails, VolSetCurrent, poolVars
  <2>. QED  BY <2>1 DEF KeepsBlock
<1>. QED  BY <1>1, <1>2, <1>3, <1>4, <1>5, <1>6, <1>7, <1>8, <1>9, <1>10, <1>11, <1>12 DEF Next

(* A referenced buffer keeps its block whatever else the call gets: a call *)
(* may use the pointers RedBufferGet gave it until it puts the buffers     *)
(* (RedBufferGet, BufferMakeMRU, RedBufferDiscardRange).                   *)
THEOREM ReferencedKept == Spec => ReferencedBuffersKept
<1> DEFINE P == \A i \in Indexes : IsReferenced(i) /\ IsReferenced(i)' =>
                  \/ aHead'[i].bVolNum = aHead[i].bVolNum /\ aHead'[i].ulBlock = aHead[i].ulBlock
                  \/ \E b \in Blocks : BufferBranch(i, b)
<1>1. IInv /\ [Next]_vars => [P]_vars
  BY NextKeeps DEF KeepsBlock
<1>. QED  BY <1>1, InvariantHolds, PTL DEF Spec, ReferencedBuffersKept

-----------------------------------------------------------------------------
(* What the callers see of the blocks.                                     *)

\* View, of any heads, contents and media.
ViewOf(h, buf, med) ==
  [v \in Volumes |-> [b \in Blocks |->
     IF \E i \in Indexes : h[i].bVolNum = v /\ h[i].ulBlock = b
     THEN buf[CHOOSE i \in Indexes : h[i].bVolNum = v /\ h[i].ulBlock = b]
     ELSE med[v][b]]]

(* A block shows what its only buffer has or, without one, the media.      *)
LEMMA ViewOfBlock ==
  ASSUME NEW h, Unique(h), NEW buf, NEW med, NEW v \in Volumes, NEW b \in Blocks
  PROVE  /\ \A i \in Indexes : h[i].bVolNum = v /\ h[i].ulBlock = b => ViewOf(h, buf, med)[v][b] = buf[i]
         /\ (\A i \in Indexes : ~(h[i].bVolNum = v /\ h[i].ulBlock = b))
              => ViewOf(h, buf, med)[v][b] = med[v][b]
<1> DEFINE at == CHOOSE i \in Indexes : h[i].bVolNum = v /\ h[i].ulBlock = b
<1>1. ViewOf(h, buf, med)[v][b] =
        IF \E i \in Indexes : h[i].bVolNum = v /\ h[i].ulBlock = b THEN buf[at] ELSE med[v][b]
  BY DEF ViewOf
<1>2. ASSUME NEW i \in Indexes, h[i].bVolNum = v, h[i].ulBlock = b
      PROVE  at = i
  <2>1. at \in Indexes /\ h[at].bVolNum = v /\ h[at].ulBlock = b
    BY <1>2
  <2>2. h[i].ulBlock # BBLK_INVALID
    BY <1>2, HeadFields
  <2> HIDE DEF at
  <2>. QED  BY <1>2, <2>1, <2>2 DEF Unique, SameBlock
<1> HIDE DEF at
<1>. QED  BY <1>1, <1>2

(* The same before and after a step.                                       *)
LEMMA ViewBlock ==
  ASSUME IInv, IInv', NEW v \in Volumes, NEW b \in Blocks
  PROVE  /\ \A i \in Indexes : IsOf(i, v, b) => View[v][b] = pbBlkBuf[i]
         /\ (\A i \in Indexes : ~IsOf(i, v, b)) => View[v][b] = media[v][b]
         /\ \A i \in Indexes : IsOf(i, v, b)' => View'[v][b] = pbBlkBuf'[i]
         /\ (\A i \in Indexes : ~IsOf(i, v, b)') => View'[v][b] = media'[v][b]
<1>1. View = ViewOf(aHead, pbBlkBuf, media) /\ View' = ViewOf(aHead', pbBlkBuf', media')
  BY DEF View, ViewOf, IsOf
<1>2. Unique(aHead) /\ Unique(aHead')
  BY DEF IInv
<1>3. /\ \A i \in Indexes : IsOf(i, v, b) => View[v][b] = pbBlkBuf[i]
      /\ (\A i \in Indexes : ~IsOf(i, v, b)) => View[v][b] = media[v][b]
  BY <1>1, <1>2, ViewOfBlock DEF IsOf
<1>4. /\ \A i \in Indexes : IsOf(i, v, b)' => View'[v][b] = pbBlkBuf'[i]
      /\ (\A i \in Indexes : ~IsOf(i, v, b)') => View'[v][b] = media'[v][b]
  BY <1>1, <1>2, ViewOfBlock DEF IsOf
<1>. QED  BY <1>3, <1>4

(* View changes as a function if it does so block by block.                *)
LEMMA ViewChange ==
  /\ (\A v \in Volumes, c \in Blocks : View'[v][c] = View[v][c]) => View' = View
  /\ \A b \in Blocks : \A data :
       (\A v \in Volumes, c \in Blocks :
          View'[v][c] = IF v = gbRedVolNum /\ c = b THEN data ELSE View[v][c])
         => Changes(b, data)
  /\ \A range, new :
       (\A v \in Volumes, c \in Blocks :
          View'[v][c] = IF v = gbRedVolNum /\ c \in range THEN new[c] ELSE View[v][c])
         => ChangesRange(range, new)
<1>1. /\ View = [v \in Volumes |-> [c \in Blocks |-> View[v][c]]]
      /\ View' = [v \in Volumes |-> [c \in Blocks |-> View'[v][c]]]
  BY DEF View
<1>2. (\A v \in Volumes, c \in Blocks : View'[v][c] = View[v][c]) => View' = View
  BY <1>1
<1>3. ASSUME NEW b \in Blocks, NEW data,
             \A v \in Volumes, c \in Blocks :
               View'[v][c] = IF v = gbRedVolNum /\ c = b THEN data ELSE View[v][c]
      PROVE  View' = [View EXCEPT ![gbRedVolNum][b] = data]
  BY <1>1, <1>3
<1>4. ASSUME NEW range, NEW new,
             \A v \in Volumes, c \in Blocks :
               View'[v][c] = IF v = gbRedVolNum /\ c \in range THEN new[c] ELSE View[v][c]
      PROVE  View' = [View EXCEPT ![gbRedVolNum] =
                        [b \in Blocks |-> IF b \in range THEN new[b] ELSE @[b]]]
  BY <1>1, <1>4
<1>. QED  BY <1>2, <1>3, <1>4 DEF Changes, ChangesRange

(* A step after which every block shows the same keeps the contents.       *)
LEMMA SameIsKept ==
  ASSUME View' = View
  PROVE  Kept(View)
BY DEF Kept

(* Nothing changes when the buffers keep their blocks and contents and     *)
(* only blocks with a buffer change on the media.                          *)
LEMMA SameBlocksView ==
  ASSUME IInv, IInv', pbBlkBuf' = pbBlkBuf,
         \A i \in Indexes : aHead'[i].bVolNum = aHead[i].bVolNum /\ aHead'[i].ulBlock = aHead[i].ulBlock,
         \A v \in Volumes, b \in Blocks :
           (\A i \in Indexes : ~IsOf(i, v, b)) => media'[v][b] = media[v][b]
  PROVE  View' = View
<1> SUFFICES ASSUME NEW v \in Volumes, NEW b \in Blocks PROVE View'[v][b] = View[v][b]
  BY ViewChange
<1>1. \A i \in Indexes : IsOf(i, v, b)' <=> IsOf(i, v, b)
  BY DEF IsOf
<1>2. CASE \E i \in Indexes : IsOf(i, v, b)
  BY <1>1, <1>2, ViewBlock
<1>3. CASE \A i \in Indexes : ~IsOf(i, v, b)
  BY <1>1, <1>3, ViewBlock
<1>. QED  BY <1>2, <1>3

(* A flush writes only blocks with a buffer.                               *)
LEMMA WrittenElsewhere ==
  ASSUME IInv, NEW range, NEW S \in SUBSET DirtyIn(range), NEW v \in Volumes, NEW b \in Blocks,
         \A i \in Indexes : ~IsOf(i, v, b)
  PROVE  Written(S)[v][b] = media[v][b]
<1>1. \A i \in S : ~(v = gbRedVolNum /\ aHead[i].ulBlock = b)
  BY DEF DirtyIn, InRange, IsOf
<1>. QED  BY <1>1 DEF Written, IInv, TypeOK

(* A flush changes nothing, nor does a reference more or less.             *)
LEMMA FlushView ==
  ASSUME IInv, IInv', NEW range, NEW S \in SUBSET DirtyIn(range),
         Cleaned(S), media' = Written(S), pbBlkBuf' = pbBlkBuf
  PROVE  View' = View
<1>1. \A i \in Indexes : aHead'[i].bVolNum = aHead[i].bVolNum /\ aHead'[i].ulBlock = aHead[i].ulBlock
  BY CleanedKept
<1>2. \A v \in Volumes, b \in Blocks :
        (\A i \in Indexes : ~IsOf(i, v, b)) => media'[v][b] = media[v][b]
  BY WrittenElsewhere
<1>. QED  BY <1>1, <1>2, SameBlocksView

LEMMA ReferenceView ==
  ASSUME IInv, IInv', NEW k \in Indexes, NEW n,
         aHead' = [aHead EXCEPT ![k].bRefCount = n], UNCHANGED <<pbBlkBuf, media>>
  PROVE  View' = View
<1>1. \A i \in Indexes : aHead'[i].bVolNum = aHead[i].bVolNum /\ aHead'[i].ulBlock = aHead[i].ulBlock
  BY KeptFields
<1>. QED  BY <1>1, SameBlocksView

(* The buffer of a block is reused: the block, now without a buffer, shows *)
(* the same contents on the media, unless a failed write left it stale.    *)
LEMMA ReusedView ==
  ASSUME IInv, IInv', CleanBuffersMatchMedia, NEW i \in Indexes,
         media' = VictimWritten(i),
         \A j \in Indexes : j # i => aHead'[j] = aHead[j] /\ pbBlkBuf'[j] = pbBlkBuf[j],
         \A j \in Indexes : IsUsed(j) => ~SameBlock(aHead[j], aHead'[i]),
         NEW v \in Volumes, NEW c \in Blocks
  PROVE  \/ View'[v][c] = IF IsOf(i, v, c)' THEN pbBlkBuf'[i] ELSE View[v][c]
         \/ ~IsOf(i, v, c)' /\ fReadOnly[v] /\ Stale(v, c) /\ View'[v][c] = media[v][c]
<1>1. \A j \in Indexes : j # i => aHead'[j] = aHead[j] /\ pbBlkBuf'[j] = pbBlkBuf[j]
  OBVIOUS
<1>2. \A j \in Indexes : j # i => (IsOf(j, v, c)' <=> IsOf(j, v, c))
  BY <1>1 DEF IsOf
<1>4. CASE IsOf(i, v, c)'
  BY <1>4, ViewBlock
<1>5. CASE ~IsOf(i, v, c)'
  <2>1. CASE \E j \in Indexes : j # i /\ IsOf(j, v, c)
    <3>1. PICK j \in Indexes : j # i /\ IsOf(j, v, c)
      BY <2>1
    <3>2. View[v][c] = pbBlkBuf[j] /\ View'[v][c] = pbBlkBuf'[j]
      BY <1>2, <3>1, ViewBlock, ZenonT(60)
    <3>. QED  BY <1>1, <1>5, <3>1, <3>2
  <2>2. CASE IsOf(i, v, c)
    <3>1. \A j \in Indexes : ~IsOf(j, v, c)'
      <4>1. \A j \in Indexes : j # i => ~IsOf(j, v, c)
        BY <2>2, HeadFields DEF IsOf, IInv, Unique, SameBlock
      <4>. QED  BY <1>2, <1>5, <4>1
    <3>2. View[v][c] = pbBlkBuf[i] /\ View'[v][c] = VictimWritten(i)[v][c]
      BY <2>2, <3>1, ViewBlock
    <3>3. IsUsed(i) /\ aHead[i].bVolNum = v /\ aHead[i].ulBlock = c
      BY <2>2, HeadFields DEF IsOf, IsUsed
    <3>4. CASE IsDirty(i)
      BY <1>5, <3>2, <3>3, <3>4 DEF VictimWritten, IInv, TypeOK
    <3>5. CASE ~IsDirty(i)
      <4>1. View'[v][c] = media[v][c]
        BY <3>2, <3>5 DEF VictimWritten
      <4>2. CASE pbBlkBuf[i] = media[v][c]
        BY <1>5, <3>2, <4>1, <4>2
      <4>3. CASE pbBlkBuf[i] # media[v][c]
        <5>1. fReadOnly[v]
          BY <3>3, <3>5, <4>3 DEF CleanBuffersMatchMedia, IInv, TypeOK
        <5>2. Stale(v, c)
          BY <2>2, <3>5, <4>3 DEF Stale
        <5>. QED  BY <1>5, <4>1, <5>1, <5>2
      <4>. QED  BY <4>2, <4>3
    <3>. QED  BY <3>4, <3>5
  <2>3. CASE \A j \in Indexes : ~IsOf(j, v, c)
    <3>1. \A j \in Indexes : ~IsOf(j, v, c)'
      BY <1>2, <1>5, <2>3
    <3>2. View[v][c] = media[v][c] /\ View'[v][c] = VictimWritten(i)[v][c]
      BY <2>3, <3>1, ViewBlock
    <3>3. VictimWritten(i)[v][c] = media[v][c]
      BY <2>3, VictimWrittenElsewhere
    <3>. QED  BY <1>5, <3>2, <3>3
  <2>. QED  BY <2>1, <2>2, <2>3
<1>. QED  BY <1>4, <1>5

(* Discarded blocks show what the media has.                               *)
LEMMA DiscardedView ==
  ASSUME IInv, IInv', NEW range, Discarded(range),
         \A v \in Volumes, b \in Blocks :
           ~(v = gbRedVolNum /\ b \in range) => media'[v][b] = media[v][b],
         NEW v \in Volumes, NEW c \in Blocks
  PROVE  View'[v][c] = IF v = gbRedVolNum /\ c \in range THEN media'[v][c] ELSE View[v][c]
<1>1. \A j \in Indexes :
        /\ j \in InRange(range) => aHead'[j].ulBlock = BBLK_INVALID
        /\ j \notin InRange(range) => aHead'[j] = aHead[j] /\ pbBlkBuf'[j] = pbBlkBuf[j]
  BY HeadFields DEF Discarded
<1>2. CASE v = gbRedVolNum /\ c \in range
  <2>1. \A j \in Indexes : ~IsOf(j, v, c)'
    BY <1>1, <1>2, HeadFields DEF IsOf, InRange
  <2>. QED  BY <1>2, <2>1, ViewBlock
<1>3. CASE ~(v = gbRedVolNum /\ c \in range)
  <2>1. \A j \in Indexes : IsOf(j, v, c) => j \notin InRange(range)
    BY <1>3 DEF IsOf, InRange
  <2>2. \A j \in Indexes : IsOf(j, v, c)' <=> IsOf(j, v, c)
    BY <1>1, <2>1, HeadFields DEF IsOf
  <2>3. CASE \E j \in Indexes : IsOf(j, v, c)
    <3>1. PICK j \in Indexes : IsOf(j, v, c)
      BY <2>3
    <3>2. View[v][c] = pbBlkBuf[j] /\ View'[v][c] = pbBlkBuf'[j]
      BY <2>2, <3>1, ViewBlock
    <3>. QED  BY <1>1, <1>3, <2>1, <3>1, <3>2
  <2>4. CASE \A j \in Indexes : ~IsOf(j, v, c)
    <3>1. View[v][c] = media[v][c] /\ View'[v][c] = media'[v][c]
      BY <2>2, <2>4, ViewBlock
    <3>. QED  BY <1>3, <3>1
  <2>. QED  BY <2>3, <2>4
<1>. QED  BY <1>2, <1>3

\* What OnlyCallersChangeBlocks allows a step to change.
CallersChange ==
  \/ Kept(View)
  \/ \E i \in Indexes, data \in Values :
       BufferDirty(i, data) /\ Changes(aHead[i].ulBlock, data)
  \/ \E i \in Indexes, b \in Blocks :
       BufferBranch(i, b) /\ Changes(b, pbBlkBuf[i])
  \/ \E b \in Blocks :
       BufferGet(b, TRUE) /\ Kept([View EXCEPT ![gbRedVolNum][b] = Zero])
  \/ \E i \in Indexes :
       BufferDiscard(i)
         /\ Changes(aHead[i].ulBlock, media[gbRedVolNum][aHead[i].ulBlock])
  \/ \E range \in Ranges :
       \/ BufferDiscardRange(range) /\ ChangesRange(range, media[gbRedVolNum])
       \/ \E data \in [range -> Values] :
            \/ BufferWriteRange(range, data) /\ ChangesRange(range, data)
            \/ /\ BufferWriteRangeFails(range, data)
               /\ ChangesRange({b \in range : ~IsBuffered(b)}, data)
  \/ VolRemount /\ View' = [View EXCEPT ![gbRedVolNum] = media[gbRedVolNum]]

(* RedBufferGet of a block without a buffer.                               *)
LEMMA GetView ==
  ASSUME IInv, IInv', CleanBuffersMatchMedia, NEW b \in Blocks,
         (\E fNew \in BOOLEAN : BufferGet(b, fNew)) \/ BufferGetReadFails(b)
  PROVE  CallersChange
<1>1. CASE \E fNew \in BOOLEAN : BufferGet(b, fNew)
  <2>1. PICK fNew \in BOOLEAN : BufferGet(b, fNew)
    BY <1>1
  <2> DEFINE x == IF fNew THEN Zero ELSE media[gbRedVolNum][b]
             e == [ulBlock |-> b, bVolNum |-> gbRedVolNum, bRefCount |-> 1, fDirty |-> fNew]
  <2>2. PICK i \in Indexes :
          /\ media' = VictimWritten(i)
          /\ aHead' = [aHead EXCEPT ![i] = e] /\ pbBlkBuf' = [pbBlkBuf EXCEPT ![i] = x]
    BY <2>1 DEF BufferGet
  <2>3. \A j \in Indexes : ~IsOf(j, gbRedVolNum, b)
    BY <2>1 DEF BufferGet, IsBuffered
  <2>4. e.bVolNum = gbRedVolNum /\ e.ulBlock = b
    OBVIOUS
  <2> HIDE DEF x, e
  <2> DEFINE Shown(v, c) == IF v = gbRedVolNum /\ c = b THEN x ELSE View[v][c]
  <2>5. \A v \in Volumes, c \in Blocks :
          \/ View'[v][c] = Shown(v, c)
          \/ fReadOnly[v] /\ Stale(v, c) /\ View'[v][c] = media[v][c]
    <3>1. /\ aHead'[i] = e /\ pbBlkBuf'[i] = x
          /\ \A j \in Indexes : j # i => aHead'[j] = aHead[j] /\ pbBlkBuf'[j] = pbBlkBuf[j]
      BY <2>2 DEF IInv, TypeOK
    <3>2. \A j \in Indexes : IsUsed(j) => ~SameBlock(aHead[j], aHead'[i])
      BY <2>3, <2>4, <3>1 DEF IsOf, SameBlock
    <3> SUFFICES ASSUME NEW v \in Volumes, NEW c \in Blocks
                 PROVE  \/ View'[v][c] = Shown(v, c)
                        \/ fReadOnly[v] /\ Stale(v, c) /\ View'[v][c] = media[v][c]
      OBVIOUS
    <3>3. \/ View'[v][c] = IF IsOf(i, v, c)' THEN pbBlkBuf'[i] ELSE View[v][c]
          \/ fReadOnly[v] /\ Stale(v, c) /\ View'[v][c] = media[v][c]
      BY <2>2, <3>1, <3>2, ReusedView
    <3>4. IsOf(i, v, c)' <=> v = gbRedVolNum /\ c = b
      BY <2>4, <3>1 DEF IsOf
    <3>. QED  BY <3>1, <3>3, <3>4
  <2>6. CASE fNew
    <3>1. x = Zero /\ BufferGet(b, TRUE)
      BY <2>1, <2>6 DEF x
    <3>2. \A v \in Volumes, c \in Blocks :
            [View EXCEPT ![gbRedVolNum][b] = Zero][v][c] = Shown(v, c)
      BY <3>1 DEF View
    <3> HIDE DEF Shown
    <3>3. Kept([View EXCEPT ![gbRedVolNum][b] = Zero])
      BY <2>5, <3>2 DEF Kept
    <3>. QED  BY <3>1, <3>3 DEF CallersChange
  <2>7. CASE ~fNew
    <3>1. View[gbRedVolNum][b] = media[gbRedVolNum][b] /\ x = media[gbRedVolNum][b]
      BY <2>3, <2>7, ViewBlock DEF x, IInv, TypeOK
    <3>2. \A v \in Volumes, c \in Blocks : Shown(v, c) = View[v][c]
      BY <3>1
    <3> HIDE DEF Shown
    <3>3. Kept(View)
      BY <2>5, <3>2 DEF Kept
    <3>. QED  BY <3>3 DEF CallersChange
  <2>. QED  BY <2>6, <2>7
<1>2. CASE BufferGetReadFails(b)
  <2>1. PICK i \in Indexes :
          /\ media' = VictimWritten(i)
          /\ aHead' = [aHead EXCEPT ![i] = Unused] /\ pbBlkBuf' = [pbBlkBuf EXCEPT ![i] = Zero]
    BY <1>2 DEF BufferGetReadFails
  <2>2. /\ aHead'[i] = Unused
        /\ \A j \in Indexes : j # i => aHead'[j] = aHead[j] /\ pbBlkBuf'[j] = pbBlkBuf[j]
    BY <2>1 DEF IInv, TypeOK
  <2>3. \A j \in Indexes : IsUsed(j) => ~SameBlock(aHead[j], aHead'[i])
    BY <2>2, HeadFields DEF IsUsed, SameBlock
  <2>4. ASSUME NEW v \in Volumes, NEW c \in Blocks
        PROVE  \/ View'[v][c] = View[v][c]
               \/ fReadOnly[v] /\ Stale(v, c) /\ View'[v][c] = media[v][c]
    <3>1. ~IsOf(i, v, c)'
      BY <2>2, HeadFields DEF IsOf
    <3>. QED  BY <2>1, <2>2, <2>3, <3>1, ReusedView
  <2>5. Kept(View)
    BY <2>4 DEF Kept
  <2>. QED  BY <2>5 DEF CallersChange
<1>. QED  BY <1>1, <1>2

(* RedBufferDirty and RedBufferBranch show the contents under the block    *)
(* that the buffer has then.                                               *)
LEMMA DirtyView ==
  ASSUME IInv, IInv', CleanBuffersMatchMedia, NEW i \in Indexes, NEW data \in Values,
         NEW b \in Blocks, BufferDirty(i, data) \/ BufferBranch(i, b)
  PROVE  CallersChange
<1>1. aHead[i] \in Heads /\ aHead[i].bVolNum = gbRedVolNum
  BY HeadOf DEF BufferDirty, BufferBranch, IsHeld
<1>2. aHead[i].ulBlock \in Blocks /\ gbRedVolNum \in Volumes
  BY <1>1, HeadFields DEF IInv, TypeOK
<1>3. CASE BufferDirty(i, data)
  <2>1. \A j \in Indexes : aHead'[j].bVolNum = aHead[j].bVolNum /\ aHead'[j].ulBlock = aHead[j].ulBlock
    BY <1>3, KeptFields DEF BufferDirty
  <2>2. /\ media' = media /\ pbBlkBuf'[i] = data
        /\ \A j \in Indexes : j # i => pbBlkBuf'[j] = pbBlkBuf[j]
    BY <1>3 DEF BufferDirty, IInv, TypeOK
  <2>3. ASSUME NEW v \in Volumes, NEW c \in Blocks
        PROVE  View'[v][c] = IF v = gbRedVolNum /\ c = aHead[i].ulBlock THEN data ELSE View[v][c]
    <3>1. \A j \in Indexes : IsOf(j, v, c)' <=> IsOf(j, v, c)
      BY <2>1 DEF IsOf
    <3>2. CASE \E j \in Indexes : IsOf(j, v, c)
      <4>1. PICK j \in Indexes : IsOf(j, v, c)
        BY <3>2
      <4>2. View[v][c] = pbBlkBuf[j] /\ View'[v][c] = pbBlkBuf'[j]
        BY <3>1, <4>1, ViewBlock
      <4>3. j = i <=> v = gbRedVolNum /\ c = aHead[i].ulBlock
        BY <1>1, <1>2, <4>1, HeadFields DEF IsOf, IInv, Unique, SameBlock
      <4>. QED  BY <2>2, <4>2, <4>3
    <3>3. CASE \A j \in Indexes : ~IsOf(j, v, c)
      <4>1. View[v][c] = media[v][c] /\ View'[v][c] = media'[v][c]
        BY <3>1, <3>3, ViewBlock
      <4>2. ~(v = gbRedVolNum /\ c = aHead[i].ulBlock)
        BY <1>1, <3>3 DEF IsOf
      <4>. QED  BY <2>2, <4>1, <4>2
    <3>. QED  BY <3>2, <3>3
  <2>4. Changes(aHead[i].ulBlock, data)
    <3> DEFINE block == aHead[i].ulBlock
    <3>1. block \in Blocks
      BY <1>2
    <3>2. \A v \in Volumes, c \in Blocks :
            View'[v][c] = IF v = gbRedVolNum /\ c = block THEN data ELSE View[v][c]
      BY <2>3
    <3> HIDE DEF block
    <3>3. Changes(block, data)
      BY <3>1, <3>2, ViewChange
    <3>. QED  BY <3>3 DEF block
  <2>. QED  BY <1>3, <2>4 DEF CallersChange
<1>4. CASE BufferBranch(i, b)
  <2>1. /\ aHead'[i].bVolNum = gbRedVolNum /\ aHead'[i].ulBlock = b
        /\ \A j \in Indexes : j # i => aHead'[j] = aHead[j]
        /\ UNCHANGED <<media, pbBlkBuf>>
    BY <1>1, <1>4 DEF BufferBranch, Heads, IInv, TypeOK
  <2>2. pbBlkBuf[i] = media[gbRedVolNum][aHead[i].ulBlock]
    BY <1>1, <1>4 DEF BufferBranch, IsHeld, IsDirty, MayWrite, CleanBuffersMatchMedia
  <2>3. ASSUME NEW v \in Volumes, NEW c \in Blocks
        PROVE  View'[v][c] = IF v = gbRedVolNum /\ c = b THEN pbBlkBuf[i] ELSE View[v][c]
    <3>1. \A j \in Indexes : j # i => (IsOf(j, v, c)' <=> IsOf(j, v, c))
      BY <2>1 DEF IsOf
    <3>2. IsOf(i, v, c)' <=> v = gbRedVolNum /\ c = b
      BY <2>1 DEF IsOf
    <3>3. IsOf(i, v, c) <=> v = gbRedVolNum /\ c = aHead[i].ulBlock
      BY <1>1 DEF IsOf
    <3>4. CASE v = gbRedVolNum /\ c = b
      <4>1. IsOf(i, v, c)'
        BY <3>2, <3>4
      <4>2. View'[v][c] = pbBlkBuf'[i]
        BY <4>1, ViewBlock
      <4>. QED  BY <2>1, <3>4, <4>2
    <3>5. CASE ~(v = gbRedVolNum /\ c = b) /\ IsOf(i, v, c)
      <4>1. \A j \in Indexes : ~IsOf(j, v, c)'
        <5>1. \A j \in Indexes : j # i => ~IsOf(j, v, c)
          BY <3>5, HeadFields DEF IsOf, IInv, Unique, SameBlock
        <5>. QED  BY <3>1, <3>2, <3>5, <5>1
      <4>2. View[v][c] = pbBlkBuf[i] /\ View'[v][c] = media'[v][c]
        BY <3>5, <4>1, ViewBlock
      <4>. QED  BY <2>1, <2>2, <3>3, <3>5, <4>2
    <3>6. CASE ~(v = gbRedVolNum /\ c = b) /\ \E j \in Indexes : j # i /\ IsOf(j, v, c)
      <4>1. PICK j \in Indexes : j # i /\ IsOf(j, v, c)
        BY <3>6
      <4>2. View[v][c] = pbBlkBuf[j] /\ View'[v][c] = pbBlkBuf'[j]
        BY <3>1, <4>1, ViewBlock, ZenonT(60)
      <4>. QED  BY <2>1, <3>6, <4>2
    <3>7. CASE ~(v = gbRedVolNum /\ c = b) /\ \A j \in Indexes : ~IsOf(j, v, c)
      <4>1. \A j \in Indexes : ~IsOf(j, v, c)'
        BY <3>1, <3>2, <3>7
      <4>2. View[v][c] = media[v][c] /\ View'[v][c] = media'[v][c]
        BY <3>7, <4>1, ViewBlock
      <4>. QED  BY <2>1, <3>7, <4>2
    <3>. QED  BY <3>4, <3>5, <3>6, <3>7
  <2>4. Changes(b, pbBlkBuf[i])
    BY <2>3, ViewChange
  <2>. QED  BY <1>4, <2>4 DEF CallersChange
<1>. QED  BY <1>3, <1>4

(* RedBufferDiscard and RedBufferDiscardRange show the media again, and    *)
(* RedBufferWriteRange what it wrote there.                                *)
LEMMA DiscardView ==
  ASSUME IInv, IInv', NEW i \in Indexes, BufferDiscard(i)
  PROVE  CallersChange
<1>1. aHead[i].ulBlock \in Blocks /\ aHead[i].bVolNum = gbRedVolNum
  BY UsedBlock DEF BufferDiscard, IsHeld
<1>2. /\ aHead'[i] = Unused /\ media' = media
      /\ \A j \in Indexes : j # i => aHead'[j] = aHead[j] /\ pbBlkBuf'[j] = pbBlkBuf[j]
  BY DEF BufferDiscard, IInv, TypeOK
<1>3. ASSUME NEW v \in Volumes, NEW c \in Blocks
      PROVE  View'[v][c] = IF v = gbRedVolNum /\ c = aHead[i].ulBlock
                           THEN media[gbRedVolNum][aHead[i].ulBlock] ELSE View[v][c]
  <2>1. \A j \in Indexes : j # i => (IsOf(j, v, c)' <=> IsOf(j, v, c))
    BY <1>2 DEF IsOf
  <2>2. ~IsOf(i, v, c)'
    BY <1>2, HeadFields DEF IsOf
  <2>3. IsOf(i, v, c) <=> v = gbRedVolNum /\ c = aHead[i].ulBlock
    BY <1>1 DEF IsOf
  <2>4. CASE IsOf(i, v, c)
    <3>1. \A j \in Indexes : j # i => ~IsOf(j, v, c)
      BY <2>4, HeadFields DEF IsOf, IInv, Unique, SameBlock
    <3>2. \A j \in Indexes : ~IsOf(j, v, c)'
      BY <2>1, <2>2, <3>1
    <3>3. View'[v][c] = media'[v][c]
      BY <3>2, ViewBlock
    <3>. QED  BY <1>2, <2>3, <2>4, <3>3
  <2>5. CASE \E j \in Indexes : j # i /\ IsOf(j, v, c)
    <3>1. PICK j \in Indexes : j # i /\ IsOf(j, v, c)
      BY <2>5
    <3>2. View[v][c] = pbBlkBuf[j] /\ View'[v][c] = pbBlkBuf'[j]
      BY <2>1, <3>1, ViewBlock
    <3>3. ~IsOf(i, v, c)
      BY <3>1, HeadFields DEF IsOf, IInv, Unique, SameBlock
    <3>. QED  BY <1>2, <2>3, <3>1, <3>2, <3>3
  <2>6. CASE \A j \in Indexes : ~IsOf(j, v, c)
    <3>1. \A j \in Indexes : ~IsOf(j, v, c)'
      BY <2>1, <2>2, <2>6
    <3>2. View[v][c] = media[v][c] /\ View'[v][c] = media'[v][c]
      BY <2>6, <3>1, ViewBlock
    <3>. QED  BY <1>2, <2>3, <2>6, <3>2
  <2>. QED  BY <2>4, <2>5, <2>6
<1>4. Changes(aHead[i].ulBlock, media[gbRedVolNum][aHead[i].ulBlock])
  <2> DEFINE b == aHead[i].ulBlock
             data == media[gbRedVolNum][aHead[i].ulBlock]
  <2>1. b \in Blocks
    BY <1>1
  <2>2. \A v \in Volumes, c \in Blocks :
          View'[v][c] = IF v = gbRedVolNum /\ c = b THEN data ELSE View[v][c]
    BY <1>3
  <2> HIDE DEF b, data
  <2>3. Changes(b, data)
    BY <2>1, <2>2, ViewChange
  <2>. QED  BY <2>3 DEF b, data
<1>. QED  BY <1>4 DEF CallersChange

LEMMA DiscardRangeView ==
  ASSUME IInv, IInv', NEW range \in Ranges, BufferDiscardRange(range)
  PROVE  CallersChange
<1>1. Discarded(range) /\ media' = media
  BY DEF BufferDiscardRange
<1>2. \A v \in Volumes, c \in Blocks :
        View'[v][c] = IF v = gbRedVolNum /\ c \in range THEN media[gbRedVolNum][c] ELSE View[v][c]
  <2>1. \A v \in Volumes, c \in Blocks :
          View'[v][c] = IF v = gbRedVolNum /\ c \in range THEN media'[v][c] ELSE View[v][c]
    BY <1>1, DiscardedView
  <2>. QED  BY ONLY <1>1, <2>1
<1>3. ChangesRange(range, media[gbRedVolNum])
  BY <1>2, ViewChange
<1>. QED  BY <1>3 DEF CallersChange

LEMMA WriteRangeView ==
  ASSUME IInv, IInv', NEW range \in Ranges, NEW data \in [range -> Values],
         BufferWriteRange(range, data)
  PROVE  CallersChange
<1>1. Discarded(range) /\ media' = Overwritten(range, data)
  BY DEF BufferWriteRange
<1>2. \A v \in Volumes, c \in Blocks :
        media'[v][c] = IF v = gbRedVolNum /\ c \in range THEN data[c] ELSE media[v][c]
  <2>1. \A v \in Volumes, c \in Blocks :
          Overwritten(range, data)[v][c] =
            IF v = gbRedVolNum /\ c \in range THEN data[c] ELSE media[v][c]
    BY ONLY IInv, range \in Ranges, data \in [range -> Values], OverwrittenMedia
  <2>. QED  BY ONLY <1>1, <2>1
<1>3. ASSUME NEW v \in Volumes, NEW c \in Blocks
      PROVE  View'[v][c] = IF v = gbRedVolNum /\ c \in range THEN data[c] ELSE View[v][c]
  <2>1. View'[v][c] = IF v = gbRedVolNum /\ c \in range THEN media'[v][c] ELSE View[v][c]
    BY <1>1, <1>2, DiscardedView
  <2>. QED  BY <1>2, <2>1
<1>4. ChangesRange(range, data)
  BY <1>3, ViewChange
<1>. QED  BY <1>4 DEF CallersChange

(* A direct write that fails shows only in blocks without a buffer.        *)
LEMMA WriteRangeFailsView ==
  ASSUME IInv, IInv', NEW range \in Ranges, NEW data \in [range -> Values],
         BufferWriteRangeFails(range, data)
  PROVE  CallersChange
<1> DEFINE bare == {b \in range : ~IsBuffered(b)}
<1>1. /\ UNCHANGED <<aHead, pbBlkBuf>> /\ gbRedVolNum \in Volumes
      /\ media' = Overwritten(range, data)
  BY DEF BufferWriteRangeFails, poolVars, IInv, TypeOK
<1>2. \A v \in Volumes, c \in Blocks :
        media'[v][c] = IF v = gbRedVolNum /\ c \in range THEN data[c] ELSE media[v][c]
  <2>1. \A v \in Volumes, c \in Blocks :
          Overwritten(range, data)[v][c] =
            IF v = gbRedVolNum /\ c \in range THEN data[c] ELSE media[v][c]
    BY ONLY IInv, range \in Ranges, data \in [range -> Values], OverwrittenMedia
  <2>. QED  BY ONLY <1>1, <2>1
<1>3. ASSUME NEW v \in Volumes, NEW c \in Blocks
      PROVE  View'[v][c] = IF v = gbRedVolNum /\ c \in bare THEN data[c] ELSE View[v][c]
  <2>1. \A j \in Indexes : IsOf(j, v, c)' <=> IsOf(j, v, c)
    BY <1>1 DEF IsOf
  <2>2. CASE \E j \in Indexes : IsOf(j, v, c)
    <3>1. PICK j \in Indexes : IsOf(j, v, c)
      BY <2>2
    <3>2. View[v][c] = pbBlkBuf[j] /\ View'[v][c] = pbBlkBuf'[j]
      BY <2>1, <3>1, ViewBlock
    <3>3. ~(v = gbRedVolNum /\ c \in bare)
      BY <3>1 DEF IsBuffered
    <3>. QED  BY <1>1, <3>2, <3>3
  <2>3. CASE \A j \in Indexes : ~IsOf(j, v, c)
    <3>1. View[v][c] = media[v][c] /\ View'[v][c] = media'[v][c]
      BY <2>1, <2>3, ViewBlock
    <3>2. v = gbRedVolNum => (c \in bare <=> c \in range)
      BY <2>3 DEF IsBuffered
    <3>. QED  BY <1>2, <3>1, <3>2
  <2>. QED  BY <2>2, <2>3
<1> HIDE DEF bare
<1>4. ChangesRange(bare, data)
  BY <1>3, ViewChange
<1>. QED  BY <1>4 DEF CallersChange, bare

(* A volume that is mounted shows the media.                               *)
LEMMA RemountView ==
  ASSUME IInv, IInv', VolRemount
  PROVE  CallersChange
<1>1. Discarded(Blocks) /\ media' = media
  BY DEF VolRemount
<1>2. \A v \in Volumes, c \in Blocks :
        View'[v][c] = IF v = gbRedVolNum THEN media[gbRedVolNum][c] ELSE View[v][c]
  BY <1>1, DiscardedView
<1>3. /\ View = [v \in Volumes |-> [c \in Blocks |-> View[v][c]]]
      /\ View' = [v \in Volumes |-> [c \in Blocks |-> View'[v][c]]]
  BY DEF View
<1>4. gbRedVolNum \in Volumes /\ media[gbRedVolNum] = [c \in Blocks |-> media[gbRedVolNum][c]]
  BY DEF IInv, TypeOK
<1>5. View' = [View EXCEPT ![gbRedVolNum] = media[gbRedVolNum]]
  BY <1>2, <1>3, <1>4
<1>. QED  BY <1>5 DEF CallersChange

(* A flush that fails tears a block with a dirty buffer, and so does        *)
(* RedBufferGet when it cannot write the buffer to reuse.                  *)
LEMMA FlushFailsView ==
  ASSUME IInv, IInv', NEW range \in Ranges, NEW torn \in Values,
         BufferFlushRangeFails(range, torn)
  PROVE  View' = View
<1>1. PICK failed \in DirtyIn(range) :
        /\ FlushFailed(range, torn, failed)
        /\ failed \in Indexes /\ aHead[failed].bVolNum = gbRedVolNum
        /\ gbRedVolNum \in Volumes /\ aHead[failed].ulBlock \in Blocks
  BY FlushFailure
<1> DEFINE before == {i \in DirtyIn(range) : i < failed}
<1>2. before \in SUBSET DirtyIn(range) /\ before \in SUBSET Indexes
  BY DEF DirtyIn, InRange
<1>3. /\ Cleaned(before)
      /\ media' = [Written(before) EXCEPT ![gbRedVolNum][aHead[failed].ulBlock] = torn]
  BY <1>1 DEF FlushFailed
<1> HIDE DEF before
<1>4. \A i \in Indexes : aHead'[i].bVolNum = aHead[i].bVolNum /\ aHead'[i].ulBlock = aHead[i].ulBlock
  BY <1>2, <1>3, CleanedKept
<1>5. ASSUME NEW v \in Volumes, NEW b \in Blocks, \A i \in Indexes : ~IsOf(i, v, b)
      PROVE  media'[v][b] = media[v][b]
  <2>1. Written(before) \in [Volumes -> [Blocks -> Values]]
    BY <1>2, WrittenType
  <2>2. ~(v = gbRedVolNum /\ b = aHead[failed].ulBlock)
    BY <1>1, <1>5 DEF IsOf
  <2>3. media'[v][b] = Written(before)[v][b]
    BY <1>1, <1>3, <2>1, <2>2, TornType
  <2>. QED  BY <1>2, <1>5, <2>3, WrittenElsewhere
<1>6. pbBlkBuf' = pbBlkBuf
  BY DEF BufferFlushRangeFails
<1>. QED  BY <1>4, <1>5, <1>6, SameBlocksView

LEMMA GetWriteFailsView ==
  ASSUME IInv, IInv', NEW b \in Blocks, NEW torn \in Values, BufferGetWriteFails(b, torn)
  PROVE  View' = View
<1>1. UNCHANGED <<aHead, pbBlkBuf>>
  BY DEF BufferGetWriteFails, poolVars
<1>2. \A v \in Volumes, c \in Blocks :
        (\A i \in Indexes : ~IsOf(i, v, c)) => media'[v][c] = media[v][c]
  BY GetWriteFailure
<1>. QED  BY <1>1, <1>2, SameBlocksView

(* Every step changes only what its caller does.                           *)
LEMMA NextChanges ==
  ASSUME IInv, CleanBuffersMatchMedia, Next
  PROVE  CallersChange
<1>1. IInv'
  BY NextIInv
<1>2. CASE \E b \in Blocks : BufferGetFound(b)
  <2>1. PICK b \in Blocks : BufferGetFound(b)
    BY <1>2
  <2> DEFINE i == BufferFind(b)
  <2>2. i \in Indexes
    BY <2>1 DEF BufferGetFound, IsBuffered, BufferFind
  <2>3. /\ aHead' = [aHead EXCEPT ![i].bRefCount = aHead[i].bRefCount + 1]
        /\ UNCHANGED <<pbBlkBuf, media>>
    BY <2>1 DEF BufferGetFound
  <2> HIDE DEF i
  <2>. QED  BY <1>1, <2>2, <2>3, ReferenceView, SameIsKept DEF CallersChange
<1>3. CASE \E b \in Blocks : (\E fNew \in BOOLEAN : BufferGet(b, fNew)) \/ BufferGetReadFails(b)
  BY <1>1, <1>3, GetView
<1>4. CASE \E range \in Ranges : \E data \in [range -> Values] :
             BufferWriteRange(range, data) \/ BufferWriteRangeFails(range, data)
  BY <1>1, <1>4, WriteRangeView, WriteRangeFailsView
<1>5. CASE \E i \in Indexes : BufferPut(i)
  <2>1. PICK i \in Indexes : BufferPut(i)
    BY <1>5
  <2>2. /\ aHead' = [aHead EXCEPT ![i].bRefCount = aHead[i].bRefCount - 1]
        /\ UNCHANGED <<pbBlkBuf, media>>
    BY <2>1 DEF BufferPut
  <2>. QED  BY <1>1, <2>2, ReferenceView, SameIsKept DEF CallersChange
<1>6. CASE \E i \in Indexes : BufferDiscard(i)
  BY <1>1, <1>6, DiscardView
<1>7. CASE \E i \in Indexes, data \in Values : BufferDirty(i, data)
  <2>1. PICK i \in Indexes, data \in Values : BufferDirty(i, data)
    BY <1>7
  <2>2. aHead[i].ulBlock \in Blocks
    BY <2>1, UsedBlock DEF BufferDirty, IsHeld
  <2>. QED  BY <1>1, <2>1, <2>2, DirtyView
<1>8. CASE \E i \in Indexes, b \in Blocks : BufferBranch(i, b)
  BY <1>1, <1>8, DirtyView
<1>9. CASE \E range \in Ranges : BufferDiscardRange(range)
  BY <1>1, <1>9, DiscardRangeView
<1>10. CASE \E range \in Ranges : BufferFlushRange(range)
  <2>1. PICK range \in Ranges :
          media' = Written(DirtyIn(range)) /\ Cleaned(DirtyIn(range)) /\ pbBlkBuf' = pbBlkBuf
    BY <1>10 DEF BufferFlushRange, DirtyIn
  <2>. QED  BY <1>1, <2>1, FlushView, SameIsKept DEF CallersChange
<1>11. CASE \E range \in Ranges, torn \in Values : BufferFlushRangeFails(range, torn)
  BY <1>1, <1>11, FlushFailsView, SameIsKept DEF CallersChange
<1>12. CASE \E b \in Blocks, torn \in Values : BufferGetWriteFails(b, torn)
  BY <1>1, <1>12, GetWriteFailsView, SameIsKept DEF CallersChange
<1>13. CASE \E v \in Volumes : VolSetCurrent(v)
  <2>1. UNCHANGED <<aHead, pbBlkBuf, media>>
    BY <1>13 DEF VolSetCurrent, poolVars
  <2>2. View' = View
    BY <2>1 DEF View, IsOf
  <2>. QED  BY <2>2, SameIsKept DEF CallersChange
<1>14. CASE VolRemount
  BY <1>1, <1>14, RemountView
<1>. QED  BY <1>2, <1>3, <1>4, <1>5, <1>6, <1>7, <1>8, <1>9, <1>10, <1>11, <1>12, <1>13, <1>14 DEF Next

(* What RedBufferGet would return for a block of any volume changes only   *)
(* by a call that changes that block: the pool, shared by all volumes,     *)
(* shows each volume its own blocks whatever is reused, flushed, read past *)
(* the buffers or fails.  The exception are the blocks whose clean buffer  *)
(* a failed direct write of their own volume left stale, until the next    *)
(* mount of that volume.                                                   *)
THEOREM OnlyCallersChange == Spec => OnlyCallersChangeBlocks
<1> DEFINE P ==
      \/ Kept(View)
      \/ \E i \in Indexes, data \in Values :
           BufferDirty(i, data) /\ Changes(aHead[i].ulBlock, data)
      \/ \E i \in Indexes, b \in Blocks :
           BufferBranch(i, b) /\ Changes(b, pbBlkBuf[i])
      \/ \E b \in Blocks :
           BufferGet(b, TRUE) /\ Kept([View EXCEPT ![gbRedVolNum][b] = Zero])
      \/ \E i \in Indexes :
           BufferDiscard(i)
             /\ Changes(aHead[i].ulBlock, media[gbRedVolNum][aHead[i].ulBlock])
      \/ \E range \in Ranges :
           \/ BufferDiscardRange(range) /\ ChangesRange(range, media[gbRedVolNum])
           \/ \E data \in [range -> Values] :
                \/ BufferWriteRange(range, data) /\ ChangesRange(range, data)
                \/ /\ BufferWriteRangeFails(range, data)
                   /\ ChangesRange({b \in range : ~IsBuffered(b)}, data)
      \/ VolRemount /\ View' = [View EXCEPT ![gbRedVolNum] = media[gbRedVolNum]]
<1>1. IInv /\ CleanBuffersMatchMedia /\ [Next]_vars => [P]_vars
  <2>1. IInv /\ CleanBuffersMatchMedia /\ Next => P
    BY NextChanges DEF CallersChange
  <2> HIDE DEF P
  <2>. QED  BY <2>1
<1>. QED  BY <1>1, InvariantHolds, CleanMatchesMedia, PTL DEF Spec, OnlyCallersChangeBlocks
=============================================================================
