---------------------------- MODULE OrphansProofs ----------------------------
(***************************************************************************)
(* Theorems about Orphans, for any number of inodes, handles and tasks.    *)
(***************************************************************************)
EXTENDS Orphans, FiniteSetTheorems, FunctionTheorems, NaturalsInduction, TLAPS

-----------------------------------------------------------------------------
(* Lists of inodes.                                                        *)

N == Cardinality(Inodes)

(* There are finitely many inodes, none of them the invalid one.           *)
LEMMA InodeNumbers ==
  /\ N \in Nat
  /\ INODE_INVALID \notin Inodes /\ ELSEWHERE \notin Inodes /\ ELSEWHERE # INODE_INVALID
  /\ IsFiniteSet(Inodes)
BY OrphansAssumption, FS_CardinalityType DEF N, INODE_INVALID, ELSEWHERE

\* The inode after place k of a list s of n inodes.
At(n, s, k) == IF k < n THEN s[k] ELSE INODE_INVALID

Distinct(n, s) ==
  /\ s \in [0 .. n - 1 -> Inodes]
  /\ \A j, k \in 0 .. n - 1 : s[j] = s[k] => j = k

\* From "head" on, the n inodes s are linked in this order.
Linked(w, head, n, s) ==
  /\ n \in Nat
  /\ Distinct(n, s)
  /\ head = At(n, s, 0)
  /\ \A k \in 0 .. n - 1 : w.node[s[k]].ulNextOrphan = At(n, s, k + 1)

Elements(n, s) == {s[k] : k \in 0 .. n - 1}

(* Every nonempty set of natural numbers has a least member, which is what *)
(* inductions over places in a list rest on.                               *)
LEMMA LeastMember ==
  ASSUME NEW T, T \subseteq Nat, T # {}
  PROVE  \E m \in T : \A k \in T : ~(k < m)
<1>1. PICK m \in T : \A k \in T : ~(<<k, m>> \in OpToRel(<, Nat))
  BY ONLY T \subseteq Nat, T # {}, NatLessThanWellFounded, WFMin
<1>2. \A j, k \in Nat : j < k => <<j, k>> \in OpToRel(<, Nat)
  BY DEF OpToRel
<1>. QED  BY <1>1, <1>2

(* A list without repetition is no longer than there are inodes.           *)
LEMMA ListLength ==
  ASSUME NEW n \in Nat, NEW s, Distinct(n, s)
  PROVE  n <= N
<1>1. s \in Injection(0 .. n - 1, Inodes)
  BY DEF Distinct, Injection, IsInjective
<1>2. Cardinality(0 .. n - 1) <= N
  BY <1>1, InodeNumbers, FS_Injection DEF N
<1>3. Cardinality(0 .. n - 1) = IF 0 > n - 1 THEN 0 ELSE (n - 1) - 0 + 1
  <2>1. 0 \in Int /\ n - 1 \in Int
    OBVIOUS
  <2>. QED  BY ONLY <2>1, FS_Interval
<1>. QED  BY <1>2, <1>3, InodeNumbers

(* Following the links from the head of a list meets its inodes one after  *)
(* the other, and then no more.                                            *)
LEMMA ChainOfList ==
  ASSUME NEW w, NEW head, NEW n, NEW s, Linked(w, head, n, s)
  PROVE  Chain(w, head) = [k \in 0 .. N |-> At(n, s, k)]
<1> DEFINE Next1(c, k) == IF c[k - 1] = INODE_INVALID THEN INODE_INVALID
                          ELSE w.node[c[k - 1]].ulNextOrphan
           Whole(c) == [k \in 0 .. Cardinality(Inodes) |->
                          IF k = 0 THEN head
                          ELSE IF c[k - 1] = INODE_INVALID THEN INODE_INVALID
                          ELSE w.node[c[k - 1]].ulNextOrphan]
           g == [k \in 0 .. N |-> At(n, s, k)]
<1>1. n \in Nat /\ N \in Nat /\ n <= N
  BY InodeNumbers, ListLength DEF Linked
<1>2. \A k \in 1 .. N : g[k] = Next1(g, k)
  <2> SUFFICES ASSUME NEW k \in 1 .. N PROVE g[k] = Next1(g, k)
    OBVIOUS
  <2>0. k - 1 \in 0 .. N /\ (k - 1) + 1 = k /\ g[k - 1] = At(n, s, k - 1) /\ g[k] = At(n, s, k)
    BY <1>1
  <2>1. CASE k - 1 < n
    <3>1. k - 1 \in 0 .. n - 1
      BY <1>1, <2>1
    <3>2. s[k - 1] \in Inodes /\ s[k - 1] # INODE_INVALID
      BY <3>1, InodeNumbers DEF Linked, Distinct
    <3>3. w.node[s[k - 1]].ulNextOrphan = At(n, s, k)
      BY <2>0, <3>1 DEF Linked
    <3>. QED  BY <2>0, <2>1, <3>2, <3>3 DEF At
  <2>2. CASE ~(k - 1 < n)
    BY <1>1, <2>0, <2>2 DEF At
  <2>. QED  BY <2>1, <2>2
<1>3. g[0] = head
  BY <1>1 DEF Linked
<1>4. g = Whole(g)
  <2> HIDE DEF g
  <2>1. g = [k \in 0 .. N |-> g[k]]
    BY DEF g
  <2>2. \A k \in 0 .. N : g[k] = IF k = 0 THEN head ELSE Next1(g, k)
    BY <1>1, <1>2, <1>3
  <2>. QED  BY <2>1, <2>2 DEF N
<1> DEFINE f == CHOOSE f : f = Whole(f)
<1>5. f = Whole(f)
  BY <1>4
<1>6. Chain(w, head) = f
  BY DEF Chain
<1>7. f = [k \in 0 .. N |-> f[k]] /\ f[0] = head /\ \A k \in 1 .. N : f[k] = Next1(f, k)
  <2> HIDE DEF f
  <2>0. 0 \in 0 .. N /\ \A k \in 1 .. N : k \in 0 .. N /\ k # 0
    BY <1>1
  <2>1. PICK h : h = f
    OBVIOUS
  <2>2. h = [k \in 0 .. N |-> IF k = 0 THEN head ELSE Next1(h, k)]
    BY <1>5, <2>1 DEF N
  <2>3. DOMAIN h = 0 .. N /\ h = [k \in 0 .. N |-> h[k]]
    BY ONLY <2>2
  <2>4. h[0] = head
    BY ONLY <2>0, <2>2
  <2>5. \A k \in 1 .. N : h[k] = Next1(h, k)
    BY ONLY <2>0, <2>2
  <2>. QED  BY <2>1, <2>3, <2>4, <2>5
<1> HIDE DEF f, g, Whole
<1>8. \A k \in 0 .. N : f[k] = g[k]
  <2> DEFINE T == {k \in 0 .. N : f[k] # g[k]}
  <2> SUFFICES ASSUME T # {} PROVE FALSE
    OBVIOUS
  <2>1. T \subseteq Nat
    BY <1>1
  <2> HIDE DEF T
  <2>2. PICK k \in T : \A j \in T : ~(j < k)
    BY <2>1, LeastMember
  <2>3. k \in 1 .. N /\ f[k] # g[k]
    BY <1>1, <1>3, <1>7, <2>2 DEF T
  <2>4. f[k - 1] = g[k - 1]
    <3>1. k - 1 \in 0 .. N /\ k - 1 < k
      BY <1>1, <2>3
    <3>. QED  BY <2>2, <3>1 DEF T
  <2>. QED  BY <1>2, <1>7, <2>3, <2>4
<1>9. g = [k \in 0 .. N |-> g[k]]
  BY DEF g
<1>10. f = g
  BY <1>7, <1>8, <1>9
<1>. QED  BY <1>6, <1>10 DEF g

(* What is listed are the inodes of the list.                              *)
LEMMA ListedElements ==
  ASSUME NEW w, NEW head, NEW n, NEW s, Linked(w, head, n, s)
  PROVE  /\ Listed(w, head) = Elements(n, s)
         /\ Elements(n, s) \subseteq Inodes
         /\ \A k \in 0 .. N : Chain(w, head)[k] = At(n, s, k)
         /\ Chain(w, head)[N] = INODE_INVALID
<1>1. n \in Nat /\ N \in Nat /\ n <= N
  BY InodeNumbers, ListLength DEF Linked
<1> DEFINE g == [k \in 0 .. N |-> At(n, s, k)]
<1>2. Chain(w, head) = g
  BY ChainOfList
<1>3. DOMAIN g = 0 .. N /\ \A k \in 0 .. N : g[k] = At(n, s, k)
  OBVIOUS
<1>4. \A k \in 0 .. n - 1 : s[k] \in Inodes
  BY DEF Linked, Distinct
<1> HIDE DEF g
<1>5. {g[k] : k \in DOMAIN g} \ {INODE_INVALID} = Elements(n, s)
  <2>1. \A x : x \in {g[k] : k \in DOMAIN g} \ {INODE_INVALID} => x \in Elements(n, s)
    BY <1>1, <1>3 DEF At, Elements
  <2>2. \A x : x \in Elements(n, s) => x \in {g[k] : k \in DOMAIN g} \ {INODE_INVALID}
    <3> SUFFICES ASSUME NEW k \in 0 .. n - 1
                 PROVE  s[k] \in {g[j] : j \in DOMAIN g} \ {INODE_INVALID}
      BY DEF Elements
    <3>1. k \in 0 .. N /\ g[k] = s[k]
      BY <1>1, <1>3 DEF At
    <3>. QED  BY <1>3, <1>4, <3>1, InodeNumbers
  <2>. QED  BY <2>1, <2>2
<1>6. g[N] = INODE_INVALID
  BY <1>1, <1>3 DEF At
<1>. QED  BY <1>2, <1>3, <1>4, <1>5, <1>6, ZenonT(60) DEF Listed, Elements

-----------------------------------------------------------------------------
(* The volume and its two lists.                                           *)

Orders(n) == {s \in [0 .. n - 1 -> Inodes] : Distinct(n, s)}

Tail(n, s) == IF n = 0 THEN INODE_INVALID ELSE s[n - 1]

\* The orphans are the n inodes s, the defunct orphans the m inodes t.
Lists(w, n, s, m, t) ==
  /\ Linked(w, w.ulOrphanHead, n, s)
  /\ Linked(w, w.ulDefunctOrphanHead, m, t)
  /\ Elements(n, s) \cap Elements(m, t) = {}
  /\ \A i \in Inodes : IsOrphan(w, i) <=> i \in Elements(n, s) \cup Elements(m, t)
  /\ w.ulOrphanTail = Tail(n, s)

VolumeInv(w) ==
  /\ w \in VolumeStates
  /\ \E n, m \in 0 .. N : \E s \in Orders(n), t \in Orders(m) : Lists(w, n, s, m, t)

(* The fields of a volume and of its inodes.                               *)
LEMMA VolumeFields ==
  ASSUME NEW w \in VolumeStates
  PROVE  /\ w = [node |-> w.node, ulDefunctOrphanHead |-> w.ulDefunctOrphanHead,
                 ulOrphanHead |-> w.ulOrphanHead, ulOrphanTail |-> w.ulOrphanTail]
         /\ w.node \in [Inodes -> Nodes]
         /\ w.ulDefunctOrphanHead \in Links /\ w.ulOrphanHead \in Links
         /\ w.ulOrphanTail \in Links
         /\ \A i \in Inodes : /\ w.node[i] \in Nodes
                              /\ w.node[i].uNLink \in -1 .. MaxLinks
                              /\ w.node[i].ulNextOrphan \in Links
                              /\ w.node[i].fDirectory \in BOOLEAN
                              /\ Exists(w, i) <=> w.node[i].uNLink # -1
<1>1. /\ w.node \in [Inodes -> Nodes]
      /\ w.ulDefunctOrphanHead \in Links /\ w.ulOrphanHead \in Links
      /\ w.ulOrphanTail \in Links
      /\ w = [node |-> w.node, ulDefunctOrphanHead |-> w.ulDefunctOrphanHead,
              ulOrphanHead |-> w.ulOrphanHead, ulOrphanTail |-> w.ulOrphanTail]
  BY DEF VolumeStates
<1>2. \A e \in Nodes : /\ e.uNLink \in -1 .. MaxLinks /\ e.ulNextOrphan \in Links
                       /\ e.fDirectory \in BOOLEAN
                       /\ e # Free <=> e.uNLink # -1
  <2>1. /\ MaxLinks \in Nat /\ INODE_INVALID \in Links
        /\ -1 \in -1 .. MaxLinks /\ \A k \in 0 .. MaxLinks : k \in -1 .. MaxLinks /\ k # -1
    BY OrphansAssumption DEF Links
  <2> SUFFICES ASSUME NEW e \in Nodes
               PROVE  /\ e.uNLink \in -1 .. MaxLinks /\ e.ulNextOrphan \in Links
                      /\ e.fDirectory \in BOOLEAN
                      /\ e # Free <=> e.uNLink # -1
    OBVIOUS
  <2>2. Free.uNLink = -1 /\ Free.ulNextOrphan = INODE_INVALID /\ Free.fDirectory = FALSE
    BY DEF Free
  <2>3. CASE e = Free
    BY <2>1, <2>2, <2>3
  <2>4. CASE e \in [uNLink : 0 .. MaxLinks, ulNextOrphan : Links, fDirectory : BOOLEAN]
    BY <2>1, <2>2, <2>4
  <2>. QED  BY <2>3, <2>4 DEF Nodes
<1>. QED  BY <1>1, <1>2 DEF Exists

(* What links, names and lists say of a volume with the lists s and t.     *)
LEMMA ListsOf ==
  ASSUME NEW w, NEW n, NEW s, NEW m, NEW t, Lists(w, n, s, m, t)
  PROVE  /\ Orphans(w) = Elements(n, s) /\ DefunctOrphans(w) = Elements(m, t)
         /\ n \in 0 .. N /\ m \in 0 .. N /\ s \in Orders(n) /\ t \in Orders(m)
         /\ Elements(n, s) \subseteq Inodes /\ Elements(m, t) \subseteq Inodes
<1>1. n \in Nat /\ m \in Nat /\ Distinct(n, s) /\ Distinct(m, t)
  BY DEF Lists, Linked
<1>2. n \in 0 .. N /\ m \in 0 .. N
  BY <1>1, ListLength, InodeNumbers
<1>3. s \in Orders(n) /\ t \in Orders(m)
  BY <1>1 DEF Orders, Distinct
<1>. QED  BY <1>2, <1>3, ListedElements DEF Lists, Orphans, DefunctOrphans

(* A volume with such lists is in order.                                   *)
LEMMA ListsMakeVolume ==
  ASSUME NEW w \in VolumeStates, NEW n, NEW s, NEW m, NEW t, Lists(w, n, s, m, t)
  PROVE  VolumeInv(w)
BY ListsOf DEF VolumeInv

(* The lists are exact, each inode without a name being once in one list.  *)
LEMMA VolumeListsExact ==
  ASSUME NEW w, VolumeInv(w)
  PROVE  ListsExact(w) /\ Orphans(w) \subseteq Inodes /\ DefunctOrphans(w) \subseteq Inodes
<1>1. PICK n, m, s, t : n \in Nat /\ Lists(w, n, s, m, t)
  BY DEF VolumeInv
<1>2. /\ Orphans(w) = Elements(n, s) /\ DefunctOrphans(w) = Elements(m, t)
      /\ Elements(n, s) \subseteq Inodes /\ Elements(m, t) \subseteq Inodes
  BY <1>1, ListsOf
<1>3. Orphans(w) \cap DefunctOrphans(w) = {}
  BY <1>1, <1>2 DEF Lists
<1>4. Orphans(w) \cup DefunctOrphans(w) = {i \in Inodes : IsOrphan(w, i)}
  BY <1>1, <1>2 DEF Lists
<1>5. /\ Chain(w, w.ulOrphanHead)[N] = INODE_INVALID
      /\ Chain(w, w.ulDefunctOrphanHead)[N] = INODE_INVALID
  BY <1>1, ListedElements DEF Lists
<1>6. IF w.ulOrphanHead = INODE_INVALID THEN w.ulOrphanTail = INODE_INVALID
      ELSE /\ w.ulOrphanTail \in Orphans(w)
           /\ w.node[w.ulOrphanTail].ulNextOrphan = INODE_INVALID
  <2>1. CASE n = 0
    BY <1>1, <2>1 DEF Lists, Linked, At, Tail
  <2>2. CASE n # 0
    <3>1. 0 \in 0 .. n - 1 /\ n - 1 \in 0 .. n - 1 /\ n \in Nat /\ 0 < n
      BY <1>1, <2>2
    <3>2. w.ulOrphanHead = s[0] /\ s[0] \in Inodes
      BY <1>1, <3>1 DEF Lists, Linked, Distinct, At
    <3>3. w.ulOrphanTail = s[n - 1]
      BY <1>1, <2>2 DEF Lists, Tail
    <3>4. w.node[s[n - 1]].ulNextOrphan = At(n, s, n)
      <4>1. (n - 1) + 1 = n
        BY <1>1
      <4>. QED  BY <1>1, <3>1, <4>1 DEF Lists, Linked
    <3>. QED  BY <1>2, <3>1, <3>2, <3>3, <3>4, InodeNumbers DEF At, Elements
  <2>. QED  BY <2>1, <2>2
<1>. QED  BY <1>2, <1>3, <1>4, <1>5, <1>6 DEF ListsExact, N

(* A list stays one when its links do.                                     *)
LEMMA LinkedFrame ==
  ASSUME NEW w, NEW v, NEW head, NEW n, NEW s, Linked(w, head, n, s),
         \A i \in Elements(n, s) : v.node[i].ulNextOrphan = w.node[i].ulNextOrphan
  PROVE  Linked(v, head, n, s)
BY DEF Linked, Elements

\* The inodes outside S keep their link counts.
SameLinks(w, v, S) == \A j \in Inodes \ S : v.node[j].uNLink = w.node[j].uNLink

(* The lists are those of before when heads, tail, the orphans and their   *)
(* links are.                                                              *)
LEMMA ListsFrame ==
  ASSUME NEW w, NEW v \in VolumeStates, VolumeInv(w),
         v.ulOrphanHead = w.ulOrphanHead, v.ulOrphanTail = w.ulOrphanTail,
         v.ulDefunctOrphanHead = w.ulDefunctOrphanHead,
         \A i \in Inodes : IsOrphan(v, i) <=> IsOrphan(w, i),
         \A i \in Inodes : IsOrphan(w, i) =>
           v.node[i].ulNextOrphan = w.node[i].ulNextOrphan
  PROVE  VolumeInv(v) /\ Orphans(v) = Orphans(w) /\ DefunctOrphans(v) = DefunctOrphans(w)
<1>1. PICK n, m, s, t : n \in Nat /\ Lists(w, n, s, m, t)
  BY DEF VolumeInv
<1>2. /\ Orphans(w) = Elements(n, s) /\ DefunctOrphans(w) = Elements(m, t)
      /\ Elements(n, s) \subseteq Inodes /\ Elements(m, t) \subseteq Inodes
  BY <1>1, ListsOf
<1>3. \A i \in Elements(n, s) \cup Elements(m, t) :
        v.node[i].ulNextOrphan = w.node[i].ulNextOrphan
  BY <1>1, <1>2 DEF Lists
<1>4. Linked(v, v.ulOrphanHead, n, s) /\ Linked(v, v.ulDefunctOrphanHead, m, t)
  BY <1>1, <1>3, LinkedFrame DEF Lists
<1>5. Lists(v, n, s, m, t)
  BY <1>1, <1>4 DEF Lists
<1>. QED  BY <1>2, <1>5, ListsOf, ListsMakeVolume

(* Changing an inode that has names, or making one, touches no list.       *)
LEMMA NamedNodeChanged ==
  ASSUME NEW w, VolumeInv(w), NEW i \in Inodes, ~IsOrphan(w, i),
         NEW node \in Nodes, node.uNLink # 0, NEW v, v = WithNode(w, i, node)
  PROVE  /\ VolumeInv(v) /\ Orphans(v) = Orphans(w) /\ DefunctOrphans(v) = DefunctOrphans(w)
         /\ SameLinks(w, v, {i}) /\ v.node[i] = node
<1>1. w \in VolumeStates
  BY DEF VolumeInv
<1>2. /\ v \in VolumeStates /\ v.node = [w.node EXCEPT ![i] = node]
      /\ v.ulOrphanHead = w.ulOrphanHead /\ v.ulOrphanTail = w.ulOrphanTail
      /\ v.ulDefunctOrphanHead = w.ulDefunctOrphanHead
  BY <1>1 DEF WithNode, VolumeStates
<1>3. v.node[i] = node /\ \A j \in Inodes \ {i} : v.node[j] = w.node[j]
  BY <1>1, <1>2, VolumeFields
<1>4. \A j \in Inodes : IsOrphan(v, j) <=> IsOrphan(w, j)
  BY <1>3 DEF IsOrphan
<1>5. \A j \in Inodes : IsOrphan(w, j) => v.node[j].ulNextOrphan = w.node[j].ulNextOrphan
  BY <1>3
<1>. QED  BY <1>2, <1>3, <1>4, <1>5, ListsFrame DEF SameLinks

(* An inode that loses its last name while it is open leads the orphans.   *)
LEMMA OrphanAdded ==
  ASSUME NEW w, VolumeInv(w), NEW i \in Inodes, IsNamed(w, i), NEW v, v = Orphaned(w, i)
  PROVE  /\ VolumeInv(v) /\ Orphans(v) = Orphans(w) \cup {i}
         /\ DefunctOrphans(v) = DefunctOrphans(w) /\ i \notin DefunctOrphans(w)
         /\ SameLinks(w, v, {i}) /\ IsOrphan(v, i)
<1>1. w \in VolumeStates /\ w.node[i].uNLink # 0 /\ w.node[i].uNLink # -1
  <2>1. w \in VolumeStates
    BY DEF VolumeInv
  <2>. QED  BY <2>1, VolumeFields DEF IsNamed
<1>2. PICK n, m, s, t : n \in Nat /\ Lists(w, n, s, m, t)
  BY DEF VolumeInv
<1>3. /\ Orphans(w) = Elements(n, s) /\ DefunctOrphans(w) = Elements(m, t)
      /\ Elements(n, s) \subseteq Inodes /\ Elements(m, t) \subseteq Inodes
      /\ s \in Orders(n)
  BY <1>2, ListsOf
<1> DEFINE node == [w.node[i] EXCEPT !.uNLink = 0, !.ulNextOrphan = w.ulOrphanHead]
<1>4. /\ w.node \in [Inodes -> Nodes] /\ w.ulOrphanHead \in Links
      /\ w.ulDefunctOrphanHead \in Links /\ w.ulOrphanTail \in Links
  BY <1>1, VolumeFields
<1>5. node \in Nodes /\ node.uNLink = 0 /\ node.ulNextOrphan = w.ulOrphanHead
  <2>1. w.node[i] # Free
    BY <1>1 DEF Free
  <2>2. w.node[i] \in [uNLink : 0 .. MaxLinks, ulNextOrphan : Links, fDirectory : BOOLEAN]
    BY <1>4, <2>1 DEF Nodes
  <2>3. 0 \in 0 .. MaxLinks
    BY OrphansAssumption
  <2>. QED  BY <1>4, <2>2, <2>3 DEF Nodes
<1> HIDE DEF node
<1> DEFINE u == WithNode(w, i, node)
<1>6. /\ u \in VolumeStates /\ u.node = [w.node EXCEPT ![i] = node]
      /\ u.ulDefunctOrphanHead = w.ulDefunctOrphanHead /\ u.ulOrphanTail = w.ulOrphanTail
  BY <1>1, <1>5 DEF WithNode, VolumeStates
<1>7. /\ v \in VolumeStates /\ v.node = [w.node EXCEPT ![i] = node] /\ v.ulOrphanHead = i
      /\ v.ulDefunctOrphanHead = w.ulDefunctOrphanHead
      /\ v.ulOrphanTail = IF w.ulOrphanTail = INODE_INVALID THEN i ELSE w.ulOrphanTail
  <2>1. v = [u EXCEPT !.ulOrphanHead = i,
                      !.ulOrphanTail = IF @ = INODE_INVALID THEN i ELSE @]
    BY DEF Orphaned, node
  <2> HIDE DEF u
  <2>. QED  BY <1>6, <2>1 DEF VolumeStates, Links
<1>8. /\ v.node[i] = node /\ \A j \in Inodes \ {i} : v.node[j] = w.node[j]
      /\ v.ulOrphanHead = i /\ v.ulDefunctOrphanHead = w.ulDefunctOrphanHead
  BY <1>4, <1>7
<1>9. i \notin Elements(n, s) /\ i \notin Elements(m, t)
  BY <1>1, <1>2 DEF Lists, IsOrphan
<1> DEFINE s2 == [k \in 0 .. n |-> IF k = 0 THEN i ELSE s[k - 1]]
<1>10. /\ \A k \in 0 .. n - 1 : s[k] \in Inodes /\ s[k] # i
       /\ \A j, k \in 0 .. n - 1 : s[j] = s[k] => j = k
  BY <1>3, <1>9 DEF Orders, Distinct, Elements
<1>11. s2[0] = i /\ \A k \in 1 .. n : k - 1 \in 0 .. n - 1 /\ s2[k] = s[k - 1]
  BY <1>2
<1>12. (n + 1) - 1 = n /\ n + 1 \in Nat /\ n + 1 # 0
  BY <1>2
<1>13. Distinct(n + 1, s2)
  <2>1. s2 \in [0 .. n -> Inodes]
    BY <1>2, <1>10
  <2> HIDE DEF s2
  <2>2. \A j, k \in 0 .. n : s2[j] = s2[k] => j = k
    BY <1>2, <1>10, <1>11
  <2>. QED  BY <1>12, <2>1, <2>2 DEF Distinct
<1> HIDE DEF s2
<1>14. Elements(n + 1, s2) = Elements(n, s) \cup {i}
  <2>1. \A k \in 0 .. n : s2[k] \in Elements(n, s) \cup {i}
    BY <1>2, <1>11 DEF Elements
  <2>2. \A k \in 0 .. n - 1 : k + 1 \in 0 .. n /\ s2[k + 1] = s[k]
    <3> SUFFICES ASSUME NEW k \in 0 .. n - 1 PROVE k + 1 \in 0 .. n /\ s2[k + 1] = s[k]
      OBVIOUS
    <3>1. k + 1 \in 1 .. n /\ (k + 1) - 1 = k
      BY <1>2
    <3>. QED  BY <1>11, <3>1
  <2>3. 0 \in 0 .. n
    BY <1>2
  <2>. QED  BY <1>11, <1>12, <2>1, <2>2, <2>3 DEF Elements
<1>15. Linked(v, v.ulOrphanHead, n + 1, s2)
  <2>1. v.ulOrphanHead = At(n + 1, s2, 0)
    BY <1>2, <1>8, <1>11 DEF At
  <2>2. ASSUME NEW k \in 0 .. n PROVE v.node[s2[k]].ulNextOrphan = At(n + 1, s2, k + 1)
    <3>1. CASE k = 0
      <4>1. v.node[s2[0]].ulNextOrphan = At(n, s, 0)
        BY <1>2, <1>5, <1>8, <1>11 DEF Lists, Linked
      <4>2. At(n + 1, s2, 1) = At(n, s, 0)
        <5>1. CASE n = 0
          BY <5>1 DEF At
        <5>2. CASE n # 0
          <6>1. 1 \in 1 .. n /\ 1 < n + 1 /\ 0 < n /\ 1 - 1 = 0
            BY <1>2, <5>2
          <6>. QED  BY <1>11, <6>1 DEF At
        <5>. QED  BY <5>1, <5>2
      <4>. QED  BY <3>1, <4>1, <4>2
    <3>2. CASE k # 0
      <4>1. k \in 1 .. n /\ k - 1 \in 0 .. n - 1 /\ (k - 1) + 1 = k
        BY <1>2, <3>2
      <4>2. s2[k] = s[k - 1] /\ s2[k] \in Inodes \ {i}
        BY <1>10, <1>11, <4>1
      <4>3. v.node[s2[k]].ulNextOrphan = At(n, s, k)
        BY <1>2, <1>8, <4>1, <4>2 DEF Lists, Linked
      <4>4. At(n + 1, s2, k + 1) = At(n, s, k)
        <5>1. CASE k < n
          <6>1. k + 1 \in 1 .. n /\ k + 1 < n + 1 /\ (k + 1) - 1 = k
            BY <1>2, <5>1
          <6>. QED  BY <1>11, <5>1, <6>1 DEF At
        <5>2. CASE ~(k < n)
          <6>1. ~(k + 1 < n + 1)
            BY <1>2, <5>2
          <6>. QED  BY <5>2, <6>1 DEF At
        <5>. QED  BY <5>1, <5>2
      <4>. QED  BY <4>3, <4>4
    <3>. QED  BY <3>1, <3>2
  <2>. QED  BY <1>12, <1>13, <2>1, <2>2 DEF Linked
<1>16. Linked(v, v.ulDefunctOrphanHead, m, t)
  <2>1. \A j \in Elements(m, t) : v.node[j].ulNextOrphan = w.node[j].ulNextOrphan
    BY <1>3, <1>8, <1>9
  <2>. QED  BY <1>2, <1>8, <2>1, LinkedFrame DEF Lists
<1>17. v.ulOrphanTail = Tail(n + 1, s2)
  <2>1. v.ulOrphanTail = IF w.ulOrphanTail = INODE_INVALID THEN i ELSE w.ulOrphanTail
    BY <1>7
  <2>2. w.ulOrphanTail = Tail(n, s)
    BY <1>2 DEF Lists
  <2>3. CASE n = 0
    BY <1>11, <2>1, <2>2, <2>3 DEF Tail
  <2>4. CASE n # 0
    <3>1. n \in 1 .. n /\ n - 1 \in 0 .. n - 1
      BY <1>2, <2>4
    <3>2. Tail(n, s) = s[n - 1] /\ s[n - 1] # INODE_INVALID
      BY <1>10, <2>4, <3>1, InodeNumbers DEF Tail
    <3>3. Tail(n + 1, s2) = s2[n]
      BY <1>12 DEF Tail
    <3>. QED  BY <1>11, <2>1, <2>2, <3>1, <3>2, <3>3
  <2>. QED  BY <2>3, <2>4
<1>18. \A j \in Inodes : IsOrphan(v, j) <=> j \in Elements(n + 1, s2) \cup Elements(m, t)
  <2>1. \A j \in Inodes : IsOrphan(w, j) <=> j \in Elements(n, s) \cup Elements(m, t)
    BY <1>2 DEF Lists
  <2>. QED  BY <1>5, <1>8, <1>14, <2>1 DEF IsOrphan
<1>19. Lists(v, n + 1, s2, m, t)
  BY <1>2, <1>9, <1>14, <1>15, <1>16, <1>17, <1>18 DEF Lists
<1>20. Orphans(v) = Elements(n + 1, s2) /\ DefunctOrphans(v) = Elements(m, t) /\ VolumeInv(v)
  BY <1>7, <1>19, ListsOf, ListsMakeVolume
<1>. QED  BY <1>3, <1>5, <1>8, <1>9, <1>14, <1>20 DEF SameLinks, IsOrphan

(* RedCoreFreeOrphan takes an orphan out of the list, wherever it is.      *)
LEMMA OrphanFreed ==
  ASSUME NEW w, VolumeInv(w), NEW i \in Orphans(w), NEW v, v = FreeOrphan(w, i)
  PROVE  /\ VolumeInv(v) /\ Orphans(v) = Orphans(w) \ {i}
         /\ DefunctOrphans(v) = DefunctOrphans(w) /\ i \notin DefunctOrphans(w)
         /\ SameLinks(w, v, {i}) /\ ~Exists(v, i) /\ i \in Inodes
<1>1. w \in VolumeStates
  BY DEF VolumeInv
<1>2. PICK n, m, s, t : n \in Nat /\ Lists(w, n, s, m, t)
  BY DEF VolumeInv
<1>3. /\ Orphans(w) = Elements(n, s) /\ DefunctOrphans(w) = Elements(m, t)
      /\ Elements(n, s) \subseteq Inodes /\ Elements(m, t) \subseteq Inodes
      /\ s \in Orders(n)
  BY <1>2, ListsOf
<1>4. PICK p \in 0 .. n - 1 : s[p] = i
  BY <1>3 DEF Elements
<1>5. /\ \A k \in 0 .. n - 1 : s[k] \in Inodes /\ s[k] # INODE_INVALID
      /\ \A j, k \in 0 .. n - 1 : s[j] = s[k] => j = k
      /\ i \in Inodes /\ i # INODE_INVALID /\ i \notin Elements(m, t)
      /\ n # 0 /\ n - 1 \in Nat /\ p + 1 \in Nat /\ n - 1 \in 0 .. n - 1 /\ 0 \in 0 .. n - 1
      /\ n - 1 < n /\ 0 < n /\ (n - 1) + 1 = n
  <2>1. \A k \in 0 .. n - 1 : s[k] \in Inodes /\ s[k] # INODE_INVALID
    BY <1>3, InodeNumbers DEF Orders
  <2>2. \A j, k \in 0 .. n - 1 : s[j] = s[k] => j = k
    BY <1>3 DEF Orders, Distinct
  <2>3. i \in Elements(n, s)
    BY <1>3
  <2>4. i \notin Elements(m, t)
    BY <1>2, <2>3 DEF Lists
  <2>5. n # 0
    BY <1>2, <1>4
  <2>. QED  BY <1>2, <1>4, <2>1, <2>2, <2>4, <2>5
<1>6. \A k \in 0 .. n - 1 : w.node[s[k]].ulNextOrphan = At(n, s, k + 1)
  BY <1>2 DEF Lists, Linked
<1> DEFINE next == w.node[i].ulNextOrphan
           prev == {q \in Orphans(w) : w.node[q].ulNextOrphan = i}
<1>7. next = At(n, s, p + 1) /\ next \in Links
  BY <1>1, <1>4, <1>5, <1>6, VolumeFields
\* The inode before the one that goes.
<1>8. prev = IF p = 0 THEN {} ELSE {s[p - 1]}
  <2>1. \A k \in 0 .. n - 1 : w.node[s[k]].ulNextOrphan = i <=> k + 1 = p
    <3> SUFFICES ASSUME NEW k \in 0 .. n - 1
                 PROVE  At(n, s, k + 1) = i <=> k + 1 = p
      BY <1>6
    <3>1. k + 1 < n => k + 1 \in 0 .. n - 1
      BY <1>2
    <3>2. k + 1 = p => k + 1 < n
      BY <1>2
    <3>. QED  BY <1>4, <1>5, <3>1, <3>2 DEF At
  <2>2. CASE p = 0
    <3>1. \A k \in 0 .. n - 1 : k + 1 # p
      BY <1>2, <2>2
    <3>. QED  BY <1>3, <2>1, <2>2, <3>1 DEF Elements
  <2>3. CASE p # 0
    <3>1. p - 1 \in 0 .. n - 1 /\ (p - 1) + 1 = p /\ \A k \in 0 .. n - 1 : k + 1 = p => k = p - 1
      BY <1>2, <2>3
    <3>2. \A q : q \in prev => q = s[p - 1]
      BY <1>3, <2>1, <3>1 DEF Elements
    <3>3. s[p - 1] \in prev
      BY <1>3, <2>1, <3>1 DEF Elements
    <3>. QED  BY <2>3, <3>2, <3>3
  <2>. QED  BY <2>2, <2>3
<1> DEFINE pull == [j \in Inodes |->
                      IF j = i THEN Free
                      ELSE IF j \in prev THEN [w.node[j] EXCEPT !.ulNextOrphan = next]
                      ELSE w.node[j]]
           tail == IF w.ulOrphanTail # i THEN w.ulOrphanTail
                   ELSE IF prev = {} THEN INODE_INVALID
                   ELSE CHOOSE q \in prev : TRUE
<1>9. /\ w.node \in [Inodes -> Nodes] /\ w.ulOrphanHead \in Links
      /\ w.ulDefunctOrphanHead \in Links /\ w.ulOrphanTail \in Links
  BY <1>1, VolumeFields
<1>10. tail \in Links
  BY <1>3, <1>9 DEF Links
<1>11. /\ pull \in [Inodes -> Nodes]
       /\ pull[i] = Free
       /\ \A j \in Inodes \ {i} : /\ pull[j].uNLink = w.node[j].uNLink
                                  /\ j \in prev => pull[j].ulNextOrphan = next
                                  /\ j \notin prev => pull[j] = w.node[j]
  <2>1. \A j \in prev : w.node[j].uNLink = 0 /\ j \in Inodes
    BY <1>2, <1>3 DEF Lists, IsOrphan
  <2>2. \A j \in prev : /\ [w.node[j] EXCEPT !.ulNextOrphan = next] \in Nodes
                        /\ [w.node[j] EXCEPT !.ulNextOrphan = next].uNLink = w.node[j].uNLink
                        /\ [w.node[j] EXCEPT !.ulNextOrphan = next].ulNextOrphan = next
    <3> SUFFICES ASSUME NEW j \in prev
                 PROVE  LET e == [w.node[j] EXCEPT !.ulNextOrphan = next]
                        IN  e \in Nodes /\ e.uNLink = w.node[j].uNLink /\ e.ulNextOrphan = next
      OBVIOUS
    <3>1. w.node[j] # Free
      BY <2>1 DEF Free
    <3>2. w.node[j] \in [uNLink : 0 .. MaxLinks, ulNextOrphan : Links, fDirectory : BOOLEAN]
      BY <1>9, <2>1, <3>1 DEF Nodes
    <3> HIDE DEF next, prev
    <3>. QED  BY <1>7, <3>2 DEF Nodes
  <2>3. Free \in Nodes
    BY DEF Nodes
  <2> HIDE DEF next, prev
  <2>. QED  BY <1>5, <1>9, <2>2, <2>3
<1> HIDE DEF next, prev, pull, tail
<1>12. /\ v \in VolumeStates /\ v.node = pull
       /\ v.ulOrphanHead = IF w.ulOrphanHead = i THEN next ELSE w.ulOrphanHead
       /\ v.ulOrphanTail = tail
       /\ v.ulDefunctOrphanHead = w.ulDefunctOrphanHead
  <2>1. v = [w EXCEPT !.node = pull,
                      !.ulOrphanHead = IF @ = i THEN next ELSE @,
                      !.ulOrphanTail = IF @ # i THEN @
                                       ELSE IF prev = {} THEN INODE_INVALID
                                       ELSE CHOOSE q \in prev : TRUE]
    BY DEF FreeOrphan, next, prev, pull
  <2>. QED  BY <1>1, <1>7, <1>9, <1>10, <1>11, <2>1 DEF VolumeStates, tail
\* The list without it.
<1> DEFINE s2 == [k \in 0 .. (n - 1) - 1 |-> IF k < p THEN s[k] ELSE s[k + 1]]
<1>13. \A k \in 0 .. (n - 1) - 1 : /\ k \in 0 .. n - 1 /\ k + 1 \in 0 .. n - 1
                                   /\ k + 1 < n /\ k < n - 1
  BY <1>2
<1>14. \A k \in 0 .. (n - 1) - 1 : s2[k] = IF k < p THEN s[k] ELSE s[k + 1]
  OBVIOUS
<1>15. Distinct(n - 1, s2)
  <2>1. s2 \in [0 .. (n - 1) - 1 -> Inodes]
    BY <1>5, <1>13
  <2> HIDE DEF s2
  <2>2. \A j, k \in 0 .. (n - 1) - 1 : s2[j] = s2[k] => j = k
    <3> TAKE j, k \in 0 .. (n - 1) - 1
    <3> HAVE s2[j] = s2[k]
    <3>1. (IF j < p THEN j ELSE j + 1) = (IF k < p THEN k ELSE k + 1)
      BY <1>5, <1>13, <1>14
    <3>. QED  BY <1>2, <3>1
  <2>. QED  BY <2>1, <2>2 DEF Distinct
<1> HIDE DEF s2
<1>16. Elements(n - 1, s2) = Elements(n, s) \ {i}
  <2>1. \A k \in 0 .. (n - 1) - 1 : s2[k] \in Elements(n, s) \ {i}
    <3> TAKE k \in 0 .. (n - 1) - 1
    <3>1. CASE k < p
      BY <1>4, <1>5, <1>13, <1>14, <3>1 DEF Elements
    <3>2. CASE ~(k < p)
      <4>1. k + 1 # p
        BY <1>2, <3>2
      <4>. QED  BY <1>4, <1>5, <1>13, <1>14, <3>2, <4>1 DEF Elements
    <3>. QED  BY <3>1, <3>2
  <2>2. \A k \in 0 .. n - 1 : k # p => s[k] \in Elements(n - 1, s2)
    <3> TAKE k \in 0 .. n - 1
    <3> HAVE k # p
    <3>1. CASE k < p
      <4>1. k \in 0 .. (n - 1) - 1
        BY <1>2, <3>1
      <4>. QED  BY <1>14, <3>1, <4>1 DEF Elements
    <3>2. CASE ~(k < p)
      <4>1. k - 1 \in 0 .. (n - 1) - 1 /\ ~(k - 1 < p) /\ (k - 1) + 1 = k
        BY <1>2, <3>2
      <4>. QED  BY <1>14, <4>1 DEF Elements
    <3>. QED  BY <3>1, <3>2
  <2>. QED  BY <1>4, <2>1, <2>2 DEF Elements
<1>17. v.ulOrphanHead = At(n - 1, s2, 0)
  <2>1. w.ulOrphanHead = s[0]
    BY <1>2, <1>5 DEF Lists, Linked, At
  <2>2. CASE p = 0
    <3>1. v.ulOrphanHead = At(n, s, 1)
      BY <1>4, <1>7, <1>12, <2>1, <2>2
    <3>2. CASE 1 < n
      <4>1. 0 \in 0 .. (n - 1) - 1 /\ 0 < n - 1 /\ ~(0 < p)
        BY <1>2, <2>2, <3>2
      <4>. QED  BY <1>14, <3>1, <3>2, <4>1 DEF At
    <3>3. CASE ~(1 < n)
      <4>1. ~(0 < n - 1)
        BY <1>2, <3>3
      <4>. QED  BY <3>1, <3>3, <4>1 DEF At
    <3>. QED  BY <3>2, <3>3
  <2>3. CASE p # 0
    <3>1. 0 \in 0 .. (n - 1) - 1 /\ 0 < n - 1 /\ 0 < p
      BY <1>2, <2>3
    <3>2. s[0] # i
      BY <1>4, <1>5, <2>3
    <3>. QED  BY <1>12, <1>14, <2>1, <3>1, <3>2 DEF At
  <2>. QED  BY <2>2, <2>3
<1>18. ASSUME NEW k \in 0 .. (n - 1) - 1
       PROVE  v.node[s2[k]].ulNextOrphan = At(n - 1, s2, k + 1)
  <2>1. CASE k >= p
    <3>1. s2[k] = s[k + 1] /\ k + 1 # p /\ ~(k < p) /\ p # k + 2 /\ (k + 1) + 1 = k + 2
      BY <1>2, <1>14, <2>1
    <3>2. s[k + 1] \in Inodes \ {i}
      BY <1>4, <1>5, <1>13, <3>1
    <3>3. s[k + 1] \notin prev
      <4>1. p # 0 => p - 1 \in 0 .. n - 1 /\ p - 1 # k + 1
        BY <1>2, <2>1
      <4>. QED  BY <1>5, <1>8, <1>13, <4>1
    <3>4. v.node[s2[k]].ulNextOrphan = At(n, s, k + 2)
      BY <1>6, <1>11, <1>12, <1>13, <3>1, <3>2, <3>3
    <3>5. At(n - 1, s2, k + 1) = At(n, s, k + 2)
      <4>1. CASE k + 1 < n - 1
        <5>1. k + 1 \in 0 .. (n - 1) - 1 /\ ~(k + 1 < p) /\ k + 2 < n
          BY <1>2, <2>1, <4>1
        <5>. QED  BY <1>14, <3>1, <4>1, <5>1 DEF At
      <4>2. CASE ~(k + 1 < n - 1)
        <5>1. ~(k + 2 < n)
          BY <1>2, <4>2
        <5>. QED  BY <4>2, <5>1 DEF At
      <4>. QED  BY <4>1, <4>2
    <3>. QED  BY <3>4, <3>5
  <2>2. CASE k + 1 = p
    <3>1. s2[k] = s[k] /\ k < p /\ p # 0 /\ p - 1 = k
      BY <1>2, <1>14, <2>2
    <3>2. s[k] \in Inodes \ {i} /\ s[k] \in prev
      BY <1>4, <1>5, <1>8, <1>13, <2>2, <3>1
    <3>3. v.node[s2[k]].ulNextOrphan = At(n, s, p + 1)
      BY <1>7, <1>11, <1>12, <3>1, <3>2
    <3>4. At(n - 1, s2, k + 1) = At(n, s, p + 1)
      <4>1. CASE p < n - 1
        <5>1. p \in 0 .. (n - 1) - 1 /\ ~(p < p) /\ p + 1 < n
          BY <1>2, <4>1
        <5>. QED  BY <1>14, <2>2, <4>1, <5>1 DEF At
      <4>2. CASE ~(p < n - 1)
        <5>1. ~(p + 1 < n)
          BY <1>2, <4>2
        <5>. QED  BY <2>2, <4>2, <5>1 DEF At
      <4>. QED  BY <4>1, <4>2
    <3>. QED  BY <3>3, <3>4
  <2>3. CASE k + 1 < p
    <3>1. s2[k] = s[k] /\ k < p /\ k # p /\ k + 1 < n /\ k + 1 < n - 1 /\ k + 1 \in 0 .. (n - 1) - 1
      BY <1>2, <1>14, <2>3
    <3>2. s[k] \in Inodes \ {i}
      BY <1>4, <1>5, <1>13, <3>1
    <3>3. s[k] \notin prev
      <4>1. p - 1 \in 0 .. n - 1 /\ p - 1 # k
        BY <1>2, <2>3
      <4>. QED  BY <1>5, <1>8, <1>13, <4>1
    <3>4. v.node[s2[k]].ulNextOrphan = s[k + 1]
      BY <1>6, <1>11, <1>12, <1>13, <3>1, <3>2, <3>3 DEF At
    <3>. QED  BY <1>14, <2>3, <3>1, <3>4 DEF At
  <2>4. k >= p \/ k + 1 = p \/ k + 1 < p
    BY <1>2
  <2>. QED  BY <2>1, <2>2, <2>3, <2>4
<1>19. Linked(v, v.ulOrphanHead, n - 1, s2)
  BY <1>5, <1>15, <1>17, <1>18 DEF Linked
<1>20. Linked(v, v.ulDefunctOrphanHead, m, t)
  <2>1. prev \subseteq Orphans(w)
    BY DEF prev
  <2>2. \A j \in Elements(m, t) : j \in Inodes \ {i} /\ j \notin prev
    BY <1>2, <1>3, <1>5, <2>1 DEF Lists
  <2>3. \A j \in Elements(m, t) : v.node[j].ulNextOrphan = w.node[j].ulNextOrphan
    BY <1>11, <1>12, <2>2
  <2>. QED  BY <1>2, <1>12, <2>3, LinkedFrame DEF Lists
<1>21. v.ulOrphanTail = Tail(n - 1, s2)
  <2>1. w.ulOrphanTail = s[n - 1]
    BY <1>2, <1>5 DEF Lists, Tail
  <2>2. CASE p # n - 1
    <3>1. n - 1 # 0 /\ (n - 1) - 1 \in 0 .. (n - 1) - 1 /\ ~((n - 1) - 1 < p) /\ ((n - 1) - 1) + 1 = n - 1
      BY <1>2, <2>2
    <3>2. s[n - 1] # i
      BY <1>4, <1>5, <2>2
    <3>. QED  BY <1>12, <1>14, <2>1, <3>1, <3>2 DEF Tail, tail
  <2>3. CASE p = n - 1 /\ p = 0
    BY <1>4, <1>8, <1>12, <2>1, <2>3 DEF Tail, tail
  <2>4. CASE p = n - 1 /\ p # 0
    <3>1. n - 1 # 0 /\ (n - 1) - 1 \in 0 .. (n - 1) - 1 /\ (n - 1) - 1 < p /\ p - 1 = (n - 1) - 1
      BY <1>2, <2>4
    <3>2. tail = s[p - 1]
      BY <1>4, <1>8, <2>1, <2>4 DEF tail
    <3>. QED  BY <1>12, <1>14, <2>4, <3>1, <3>2 DEF Tail
  <2>. QED  BY <2>2, <2>3, <2>4
<1>22. \A j \in Inodes : IsOrphan(v, j) <=> j \in Elements(n - 1, s2) \cup Elements(m, t)
  <2>1. \A j \in Inodes : IsOrphan(w, j) <=> j \in Elements(n, s) \cup Elements(m, t)
    BY <1>2 DEF Lists
  <2>2. Free.uNLink = -1
    BY DEF Free
  <2>. QED  BY <1>5, <1>11, <1>12, <1>16, <2>1, <2>2 DEF IsOrphan
<1>23. Lists(v, n - 1, s2, m, t)
  BY <1>2, <1>16, <1>19, <1>20, <1>21, <1>22 DEF Lists
<1>24. Orphans(v) = Elements(n - 1, s2) /\ DefunctOrphans(v) = Elements(m, t) /\ VolumeInv(v)
  BY <1>12, <1>23, ListsOf, ListsMakeVolume
<1>. QED  BY <1>3, <1>5, <1>11, <1>12, <1>16, <1>24 DEF SameLinks, Exists

(* RedVolFreeOrphans frees the defunct orphans that lead their list.       *)
LEMMA DefunctFreed ==
  ASSUME NEW w, VolumeInv(w), NEW ulCount \in 0 .. N, NEW v, v = FreeDefunct(w, ulCount)
  PROVE  /\ VolumeInv(v) /\ Orphans(v) = Orphans(w)
         /\ DefunctOrphans(v) \subseteq DefunctOrphans(w)
         /\ SameLinks(w, v, DefunctOrphans(w))
         /\ \A i \in DefunctOrphans(w) \ DefunctOrphans(v) : ~Exists(v, i)
         /\ ulCount # 0 => w.ulDefunctOrphanHead \notin DefunctOrphans(v)
         /\ ulCount = N => v.ulDefunctOrphanHead = INODE_INVALID
<1>1. w \in VolumeStates
  BY DEF VolumeInv
<1>2. PICK n, m, s, t : m \in Nat /\ Lists(w, n, s, m, t)
  BY DEF VolumeInv
<1>3. /\ Orphans(w) = Elements(n, s) /\ DefunctOrphans(w) = Elements(m, t)
      /\ Elements(n, s) \subseteq Inodes /\ Elements(m, t) \subseteq Inodes
      /\ t \in Orders(m) /\ m <= N
  BY <1>2, ListsOf
<1>4. /\ \A k \in 0 .. m - 1 : t[k] \in Inodes /\ t[k] # INODE_INVALID
      /\ \A j, k \in 0 .. m - 1 : t[j] = t[k] => j = k
      /\ \A k \in 0 .. m - 1 : w.node[t[k]].ulNextOrphan = At(m, t, k + 1)
  <2>1. \A k \in 0 .. m - 1 : t[k] \in Inodes /\ t[k] # INODE_INVALID
    BY <1>3, InodeNumbers DEF Orders
  <2>. QED  BY <1>2, <1>3, <2>1 DEF Lists, Linked, Orders, Distinct
<1> DEFINE c == Chain(w, w.ulDefunctOrphanHead)
           freed == {c[k] : k \in 0 .. ulCount - 1}
           pull == [j \in Inodes |-> IF j \in freed THEN Free ELSE w.node[j]]
<1>5. N \in Nat /\ ulCount \in Nat /\ ulCount <= N
  BY InodeNumbers
<1>6. \A k \in 0 .. N : c[k] = At(m, t, k)
  BY <1>2, ListedElements DEF Lists
<1> PICK d : d = IF ulCount < m THEN ulCount ELSE m
  OBVIOUS
<1>7. d \in Nat /\ d <= m /\ d <= ulCount /\ m - d \in Nat
  BY <1>2, <1>5
<1> HIDE DEF c
<1>8. \A i \in Inodes : i \in freed <=> \E k \in 0 .. d - 1 : i = t[k]
  <2> TAKE i \in Inodes
  <2>1. ASSUME NEW k \in 0 .. ulCount - 1, i = c[k] PROVE \E j \in 0 .. d - 1 : i = t[j]
    <3>1. k \in 0 .. N /\ c[k] = At(m, t, k)
      BY <1>5, <1>6
    <3>2. k < m
      BY <2>1, <3>1, InodeNumbers DEF At
    <3>3. k \in 0 .. d - 1
      BY <1>2, <1>5, <3>2
    <3>. QED  BY <2>1, <3>1, <3>2, <3>3 DEF At
  <2>2. ASSUME NEW k \in 0 .. d - 1, i = t[k] PROVE i \in freed
    <3>1. k \in 0 .. N /\ k < m /\ k \in 0 .. ulCount - 1
      BY <1>2, <1>5, <1>7
    <3>. QED  BY <1>6, <2>2, <3>1 DEF At
  <2>. QED  BY <2>1, <2>2
<1> HIDE DEF freed
<1>9. w.node \in [Inodes -> Nodes]
  BY <1>1, VolumeFields
<1>10. c[ulCount] = At(m, t, d) /\ c[ulCount] \in Links
  <2>1. ulCount \in 0 .. N
    BY <1>5
  <2>2. At(m, t, ulCount) = At(m, t, d)
    BY <1>2, <1>5 DEF At
  <2>3. At(m, t, d) \in Links
    <3>1. d < m => d \in 0 .. m - 1
      BY <1>2, <1>7
    <3>. QED  BY <1>4, <3>1 DEF At, Links
  <2>. QED  BY <1>6, <2>1, <2>2, <2>3
<1>11. /\ v \in VolumeStates /\ v.node = pull
       /\ v.ulOrphanHead = w.ulOrphanHead /\ v.ulOrphanTail = w.ulOrphanTail
       /\ v.ulDefunctOrphanHead = At(m, t, d)
  <2>1. v = [w EXCEPT !.node = pull, !.ulDefunctOrphanHead = c[ulCount]]
    BY DEF FreeDefunct, c, freed
  <2>2. pull \in [Inodes -> Nodes]
    BY <1>9 DEF Nodes
  <2> HIDE DEF pull
  <2>. QED  BY <1>1, <1>10, <2>1, <2>2 DEF VolumeStates
<1>12. \A j \in Inodes : v.node[j] = IF j \in freed THEN Free ELSE w.node[j]
  BY <1>11
<1> HIDE DEF pull
\* The defunct orphans that are left.
<1> DEFINE t2 == [k \in 0 .. (m - d) - 1 |-> t[k + d]]
<1>13. \A k \in 0 .. (m - d) - 1 : k + d \in 0 .. m - 1 /\ t2[k] = t[k + d] /\ ~(k + d < d)
  BY <1>2, <1>7
<1>14. Distinct(m - d, t2)
  <2>1. t2 \in [0 .. (m - d) - 1 -> Inodes]
    BY <1>4, <1>13
  <2> HIDE DEF t2
  <2>2. \A j, k \in 0 .. (m - d) - 1 : t2[j] = t2[k] => j = k
    <3> TAKE j, k \in 0 .. (m - d) - 1
    <3> HAVE t2[j] = t2[k]
    <3>1. j + d = k + d
      BY <1>4, <1>13
    <3>. QED  BY <1>7, <3>1
  <2>. QED  BY <2>1, <2>2 DEF Distinct
<1> HIDE DEF t2
<1>15. Elements(m - d, t2) \subseteq Elements(m, t)
  BY <1>13 DEF Elements
<1>16. \A j \in Elements(m, t) : j \in Elements(m - d, t2) <=> j \notin freed
  <2> SUFFICES ASSUME NEW k \in 0 .. m - 1
               PROVE  t[k] \in Elements(m - d, t2) <=> t[k] \notin freed
    BY DEF Elements
  <2>1. t[k] \in freed <=> k < d
    <3>1. k < d <=> k \in 0 .. d - 1
      BY <1>2, <1>7
    <3>2. \A j \in 0 .. d - 1 : j \in 0 .. m - 1
      BY <1>2, <1>7
    <3>. QED  BY <1>4, <1>8, <3>1, <3>2
  <2>2. CASE k < d
    <3>1. \A j \in 0 .. (m - d) - 1 : j + d # k
      BY <1>7, <2>2
    <3>2. t[k] \notin Elements(m - d, t2)
      BY <1>4, <1>13, <3>1 DEF Elements
    <3>. QED  BY <2>1, <2>2, <3>2
  <2>3. CASE ~(k < d)
    <3>1. k - d \in 0 .. (m - d) - 1 /\ (k - d) + d = k
      BY <1>2, <1>7, <2>3
    <3>2. t[k] = t2[k - d]
      BY <1>13, <3>1
    <3>. QED  BY <2>1, <2>3, <3>1, <3>2 DEF Elements
  <2>. QED  BY <2>2, <2>3
<1>17. freed \cap Inodes \subseteq Elements(m, t)
  <2>1. \A k \in 0 .. d - 1 : k \in 0 .. m - 1
    BY <1>2, <1>7
  <2>. QED  BY <1>8, <2>1 DEF Elements
<1>18. Linked(v, v.ulDefunctOrphanHead, m - d, t2)
  <2>1. v.ulDefunctOrphanHead = At(m - d, t2, 0)
    <3>1. CASE d < m
      <4>1. 0 \in 0 .. (m - d) - 1 /\ 0 < m - d /\ 0 + d = d
        BY <1>2, <1>7, <3>1
      <4>. QED  BY <1>11, <1>13, <3>1, <4>1 DEF At
    <3>2. CASE ~(d < m)
      <4>1. ~(0 < m - d)
        BY <1>2, <1>7, <3>2
      <4>. QED  BY <1>11, <3>2, <4>1 DEF At
    <3>. QED  BY <3>1, <3>2
  <2>2. ASSUME NEW k \in 0 .. (m - d) - 1
        PROVE  v.node[t2[k]].ulNextOrphan = At(m - d, t2, k + 1)
    <3>1. t2[k] \in Elements(m, t) /\ t2[k] \in Inodes /\ t2[k] \notin freed
      <4>1. t2[k] \in Elements(m - d, t2)
        BY DEF Elements
      <4>. QED  BY <1>3, <1>15, <1>16, <4>1
    <3>2. v.node[t2[k]].ulNextOrphan = At(m, t, (k + d) + 1)
      BY <1>4, <1>12, <1>13, <3>1
    <3>3. At(m, t, (k + d) + 1) = At(m - d, t2, k + 1)
      <4>1. CASE k + 1 < m - d
        <5>1. k + 1 \in 0 .. (m - d) - 1 /\ (k + 1) + d = (k + d) + 1 /\ (k + d) + 1 < m
          BY <1>2, <1>7, <4>1
        <5>. QED  BY <1>13, <4>1, <5>1 DEF At
      <4>2. CASE ~(k + 1 < m - d)
        <5>1. ~((k + d) + 1 < m)
          BY <1>2, <1>7, <4>2
        <5>. QED  BY <4>2, <5>1 DEF At
      <4>. QED  BY <4>1, <4>2
    <3>. QED  BY <3>2, <3>3
  <2>. QED  BY <1>7, <1>14, <2>1, <2>2 DEF Linked
<1>19. Linked(v, v.ulOrphanHead, n, s)
  <2>1. \A j \in Elements(n, s) : j \in Inodes /\ j \notin freed
    BY <1>2, <1>3, <1>17 DEF Lists
  <2>. QED  BY <1>2, <1>11, <1>12, <2>1, LinkedFrame DEF Lists
<1>20. \A j \in Inodes : IsOrphan(v, j) <=> j \in Elements(n, s) \cup Elements(m - d, t2)
  <2>1. \A j \in Inodes : IsOrphan(w, j) <=> j \in Elements(n, s) \cup Elements(m, t)
    BY <1>2 DEF Lists
  <2>2. Free.uNLink # 0
    BY DEF Free
  <2>3. Elements(n, s) \cap Elements(m, t) = {}
    BY <1>2 DEF Lists
  <2> TAKE j \in Inodes
  <2>4. CASE j \in freed
    BY <1>12, <1>15, <1>16, <1>17, <2>2, <2>3, <2>4 DEF IsOrphan
  <2>5. CASE j \notin freed
    <3>1. IsOrphan(v, j) <=> IsOrphan(w, j)
      BY <1>12, <2>5 DEF IsOrphan
    <3>. QED  BY <1>15, <1>16, <2>1, <2>5, <3>1
  <2>. QED  BY <2>4, <2>5
<1>21. Lists(v, n, s, m - d, t2)
  BY <1>2, <1>11, <1>15, <1>18, <1>19, <1>20 DEF Lists
<1>22. Orphans(v) = Elements(n, s) /\ DefunctOrphans(v) = Elements(m - d, t2) /\ VolumeInv(v)
  BY <1>11, <1>21, ListsOf, ListsMakeVolume
<1>23. \A i \in DefunctOrphans(w) \ DefunctOrphans(v) : ~Exists(v, i)
  BY <1>3, <1>12, <1>16, <1>22 DEF Exists
<1>24. SameLinks(w, v, DefunctOrphans(w))
  BY <1>3, <1>12, <1>17 DEF SameLinks
<1>25. ulCount # 0 => w.ulDefunctOrphanHead \notin DefunctOrphans(v)
  <2> HAVE ulCount # 0
  <2>1. w.ulDefunctOrphanHead = At(m, t, 0)
    BY <1>2 DEF Lists, Linked
  <2>2. CASE m = 0
    BY <1>3, <1>15, <1>22, <2>1, <2>2, InodeNumbers DEF At
  <2>3. CASE m # 0
    <3>1. 0 \in 0 .. m - 1 /\ 0 < m /\ 0 \in 0 .. d - 1
      BY <1>2, <1>5, <2>3
    <3>2. t[0] \in freed /\ t[0] \in Elements(m, t)
      BY <1>4, <1>8, <3>1 DEF Elements
    <3>. QED  BY <1>16, <1>22, <2>1, <3>1, <3>2 DEF At
  <2>. QED  BY <2>2, <2>3
<1>26. ulCount = N => v.ulDefunctOrphanHead = INODE_INVALID
  <2> HAVE ulCount = N
  <2>1. ~(d < m)
    BY <1>2, <1>3, <1>5
  <2>. QED  BY <1>11, <2>1 DEF At
<1>. QED  BY <1>3, <1>15, <1>22, <1>23, <1>24, <1>25, <1>26

(* Moving the list of orphans to an empty list of defunct ones.            *)
LEMMA OrphansMadeDefunct ==
  ASSUME NEW w, VolumeInv(w), w.ulDefunctOrphanHead = INODE_INVALID,
         NEW v, v = MadeDefunct(w)
  PROVE  VolumeInv(v)
<1>1. w \in VolumeStates
  BY DEF VolumeInv
<1>2. PICK n, m, s, t : n \in Nat /\ m \in Nat /\ Lists(w, n, s, m, t)
  BY DEF VolumeInv
<1>3. m = 0
  <2>1. t \in Orders(m) /\ At(m, t, 0) = INODE_INVALID
    BY <1>2, ListsOf DEF Lists, Linked
  <2>2. m # 0 => 0 \in 0 .. m - 1 /\ 0 < m
    BY <1>2
  <2>. QED  BY <2>1, <2>2, InodeNumbers DEF Orders, At
<1>4. /\ v \in VolumeStates /\ v.node = w.node
      /\ v.ulDefunctOrphanHead = w.ulOrphanHead
      /\ v.ulOrphanHead = INODE_INVALID /\ v.ulOrphanTail = INODE_INVALID
  BY <1>1 DEF MadeDefunct, VolumeStates, Links
<1>5. Linked(v, v.ulDefunctOrphanHead, n, s) /\ Linked(v, v.ulOrphanHead, m, t)
  BY <1>2, <1>3, <1>4, LinkedFrame DEF Lists
<1>6. \A j \in Inodes : IsOrphan(v, j) <=> IsOrphan(w, j)
  BY <1>4 DEF IsOrphan
<1>7. Lists(v, m, t, n, s)
  BY <1>2, <1>3, <1>4, <1>5, <1>6 DEF Lists, Tail
<1>. QED  BY <1>4, <1>7, ListsMakeVolume

(* Joining the lists, with the orphans first.                              *)
LEMMA ListsConcatenated ==
  ASSUME NEW w, VolumeInv(w), w.ulOrphanHead # INODE_INVALID,
         NEW v, v = ConcatOrphanLists(w)
  PROVE  VolumeInv(v)
<1>1. w \in VolumeStates
  BY DEF VolumeInv
<1>2. PICK n, m, s, t : n \in Nat /\ m \in Nat /\ Lists(w, n, s, m, t)
  BY DEF VolumeInv
<1>3. /\ s \in Orders(n) /\ t \in Orders(m)
      /\ Elements(n, s) \subseteq Inodes /\ Elements(m, t) \subseteq Inodes
  BY <1>2, ListsOf
<1>4. n # 0
  BY <1>2 DEF Lists, Linked, At
<1> PICK q : q = s[n - 1]
  OBVIOUS
<1>5. /\ \A k \in 0 .. n - 1 : s[k] \in Inodes
      /\ \A k \in 0 .. m - 1 : t[k] \in Inodes
      /\ \A j, k \in 0 .. n - 1 : s[j] = s[k] => j = k
      /\ \A j, k \in 0 .. m - 1 : t[j] = t[k] => j = k
      /\ \A j \in 0 .. n - 1, k \in 0 .. m - 1 : s[j] # t[k]
  <2>1. \A j \in 0 .. n - 1, k \in 0 .. m - 1 : s[j] # t[k]
    <3>1. Elements(n, s) \cap Elements(m, t) = {}
      BY <1>2 DEF Lists
    <3>. QED  BY <3>1 DEF Elements
  <2>. QED  BY <1>3, <2>1 DEF Orders, Distinct
<1>6. n - 1 \in 0 .. n - 1 /\ 0 \in 0 .. n - 1 /\ 0 < n /\ (n - 1) + 1 = n /\ n + m \in Nat
  BY <1>2, <1>4
<1>7. q \in Inodes /\ q \in Elements(n, s) /\ w.ulOrphanTail = q
  BY <1>2, <1>4, <1>5, <1>6 DEF Lists, Tail, Elements
<1> DEFINE node == [w.node[q] EXCEPT !.ulNextOrphan = w.ulDefunctOrphanHead]
<1>8. w.node \in [Inodes -> Nodes] /\ w.ulOrphanHead \in Links /\ w.ulDefunctOrphanHead \in Links
  BY <1>1, VolumeFields
<1>9. /\ node \in Nodes /\ node.uNLink = w.node[q].uNLink
      /\ node.ulNextOrphan = w.ulDefunctOrphanHead
  <2>1. w.node[q] # Free
    BY <1>2, <1>7 DEF Lists, IsOrphan, Free
  <2>2. w.node[q] \in [uNLink : 0 .. MaxLinks, ulNextOrphan : Links, fDirectory : BOOLEAN]
    BY <1>7, <1>8, <2>1 DEF Nodes
  <2>. QED  BY <1>8, <2>2 DEF Nodes
<1> DEFINE u == [w EXCEPT !.node[w.ulOrphanTail].ulNextOrphan = w.ulDefunctOrphanHead]
<1>10. /\ u \in VolumeStates /\ u.node = [w.node EXCEPT ![q] = node]
       /\ u.ulOrphanHead = w.ulOrphanHead
  <2>1. u = [w EXCEPT !.node[q] = node]
    BY <1>7 DEF VolumeStates
  <2> HIDE DEF u, node
  <2>. QED  BY <1>1, <1>9, <2>1 DEF VolumeStates
<1>11. v = MadeDefunct(u)
  BY DEF ConcatOrphanLists
<1> HIDE DEF u, node
<1>12. /\ v \in VolumeStates /\ v.node = [w.node EXCEPT ![q] = node]
       /\ v.ulDefunctOrphanHead = w.ulOrphanHead
       /\ v.ulOrphanHead = INODE_INVALID /\ v.ulOrphanTail = INODE_INVALID
  BY <1>10, <1>11 DEF MadeDefunct, VolumeStates, Links
<1>13. v.node[q] = node /\ \A j \in Inodes \ {q} : v.node[j] = w.node[j]
  BY <1>7, <1>8, <1>12
\* The joined list, and the empty one.
<1> DEFINE r == [k \in 0 .. (n + m) - 1 |-> IF k < n THEN s[k] ELSE t[k - n]]
           e == [k \in 0 .. 0 - 1 |-> INODE_INVALID]
<1>14. \A k \in 0 .. (n + m) - 1 : /\ k < n => k \in 0 .. n - 1 /\ r[k] = s[k]
                                   /\ ~(k < n) => k - n \in 0 .. m - 1 /\ r[k] = t[k - n]
  BY <1>2
<1>15. Distinct(n + m, r)
  <2>1. r \in [0 .. (n + m) - 1 -> Inodes]
    BY <1>2, <1>5
  <2> HIDE DEF r
  <2>2. \A j, k \in 0 .. (n + m) - 1 : r[j] = r[k] => j = k
    <3> TAKE j, k \in 0 .. (n + m) - 1
    <3> HAVE r[j] = r[k]
    <3>1. CASE j < n /\ k < n
      BY <1>5, <1>14, <3>1
    <3>2. CASE ~(j < n) /\ ~(k < n)
      <4>1. j - n = k - n
        BY <1>5, <1>14, <3>2
      <4>. QED  BY <1>2, <4>1
    <3>3. CASE (j < n /\ ~(k < n)) \/ (~(j < n) /\ k < n)
      BY <1>5, <1>14, <3>3
    <3>. QED  BY <3>1, <3>2, <3>3
  <2>. QED  BY <2>1, <2>2 DEF Distinct
<1> HIDE DEF r
<1>16. Elements(n + m, r) = Elements(n, s) \cup Elements(m, t)
  <2>1. \A k \in 0 .. (n + m) - 1 : r[k] \in Elements(n, s) \cup Elements(m, t)
    BY <1>14 DEF Elements
  <2>2. \A k \in 0 .. n - 1 : s[k] \in Elements(n + m, r)
    <3> TAKE k \in 0 .. n - 1
    <3>1. k \in 0 .. (n + m) - 1 /\ k < n
      BY <1>2
    <3>. QED  BY <1>14, <3>1 DEF Elements
  <2>3. \A k \in 0 .. m - 1 : t[k] \in Elements(n + m, r)
    <3> TAKE k \in 0 .. m - 1
    <3>1. k + n \in 0 .. (n + m) - 1 /\ ~(k + n < n) /\ (k + n) - n = k
      BY <1>2
    <3>. QED  BY <1>14, <3>1 DEF Elements
  <2>. QED  BY <2>1, <2>2, <2>3 DEF Elements
<1>17. Linked(v, v.ulDefunctOrphanHead, n + m, r)
  <2>1. v.ulDefunctOrphanHead = At(n + m, r, 0)
    <3>1. 0 \in 0 .. (n + m) - 1 /\ 0 < n + m
      BY <1>2, <1>4
    <3>. QED  BY <1>2, <1>6, <1>12, <1>14, <3>1 DEF At, Lists, Linked
  <2>2. ASSUME NEW k \in 0 .. (n + m) - 1
        PROVE  v.node[r[k]].ulNextOrphan = At(n + m, r, k + 1)
    <3>1. CASE k < n - 1
      <4>1. /\ k < n /\ k + 1 < n /\ k + 1 < n + m /\ k + 1 \in 0 .. (n + m) - 1
            /\ k \in 0 .. n - 1 /\ k # n - 1
        BY <1>2, <1>6, <3>1
      <4>2. s[k] # q /\ s[k] \in Inodes /\ r[k] = s[k]
        BY <1>5, <1>6, <1>14, <4>1
      <4>3. v.node[r[k]].ulNextOrphan = At(n, s, k + 1)
        BY <1>2, <1>13, <4>1, <4>2 DEF Lists, Linked
      <4>. QED  BY <1>14, <4>1, <4>3 DEF At
    <3>2. CASE k = n - 1
      <4>1. k < n /\ k + 1 = n /\ ~(k + 1 < n) /\ n - n = 0
        BY <1>2, <1>6, <3>2
      <4>2. v.node[r[k]].ulNextOrphan = At(m, t, 0)
        BY <1>2, <1>9, <1>13, <1>14, <3>2, <4>1 DEF Lists, Linked
      <4>3. CASE 0 < m
        <5>1. n \in 0 .. (n + m) - 1 /\ n < n + m /\ ~(n < n)
          BY <1>2, <4>3
        <5>. QED  BY <1>14, <4>1, <4>2, <4>3, <5>1 DEF At
      <4>4. CASE ~(0 < m)
        <5>1. ~(n < n + m)
          BY <1>2, <4>4
        <5>. QED  BY <4>1, <4>2, <4>4, <5>1 DEF At
      <4>. QED  BY <4>3, <4>4
    <3>3. CASE ~(k < n)
      <4>1. k - n \in 0 .. m - 1 /\ r[k] = t[k - n] /\ t[k - n] \in Inodes /\ t[k - n] # q
        BY <1>5, <1>6, <1>14, <3>3
      <4>2. v.node[r[k]].ulNextOrphan = At(m, t, (k - n) + 1)
        BY <1>2, <1>13, <4>1 DEF Lists, Linked
      <4>3. CASE (k - n) + 1 < m
        <5>1. k + 1 \in 0 .. (n + m) - 1 /\ k + 1 < n + m /\ ~(k + 1 < n) /\ (k + 1) - n = (k - n) + 1
          BY <1>2, <3>3, <4>3
        <5>. QED  BY <1>14, <4>2, <4>3, <5>1 DEF At
      <4>4. CASE ~((k - n) + 1 < m)
        <5>1. ~(k + 1 < n + m)
          BY <1>2, <4>4
        <5>. QED  BY <4>2, <4>4, <5>1 DEF At
      <4>. QED  BY <4>3, <4>4
    <3>4. k < n - 1 \/ k = n - 1 \/ ~(k < n)
      BY <1>2, <1>6
    <3>. QED  BY <3>1, <3>2, <3>3, <3>4
  <2>. QED  BY <1>6, <1>15, <2>1, <2>2 DEF Linked
<1>18. Linked(v, v.ulOrphanHead, 0, e) /\ Elements(0, e) = {} /\ Tail(0, e) = INODE_INVALID
  BY <1>12 DEF Linked, Distinct, At, Elements, Tail
<1>19. \A j \in Inodes : IsOrphan(v, j) <=> j \in Elements(n + m, r)
  <2>1. \A j \in Inodes : IsOrphan(w, j) <=> j \in Elements(n, s) \cup Elements(m, t)
    BY <1>2 DEF Lists
  <2>. QED  BY <1>7, <1>9, <1>13, <1>16, <2>1 DEF IsOrphan
<1> HIDE DEF e
<1>20. Lists(v, 0, e, n + m, r)
  BY <1>12, <1>17, <1>18, <1>19 DEF Lists
<1>. QED  BY <1>12, <1>20, ListsMakeVolume

(* What a mount makes of the lists, whether it frees the orphans or not.   *)
LEMMA MountedLists ==
  ASSUME NEW w, VolumeInv(w)
  PROVE  VolumeInv(Purged(w)) /\ VolumeInv(Postponed(w))
<1>1. N \in 0 .. N /\ AllDefunct = N
  BY InodeNumbers DEF AllDefunct, N
<1>2. VolumeInv(Purged(w))
  <2>1. PICK u : u = FreeDefunct(w, AllDefunct)
    OBVIOUS
  <2>2. PICK v : v = MadeDefunct(u)
    OBVIOUS
  <2>3. PICK x : x = FreeDefunct(v, AllDefunct)
    OBVIOUS
  <2>4. VolumeInv(u) /\ u.ulDefunctOrphanHead = INODE_INVALID
    BY <1>1, <2>1, DefunctFreed
  <2>5. VolumeInv(v)
    BY <2>2, <2>4, OrphansMadeDefunct
  <2>6. VolumeInv(x)
    BY <1>1, <2>3, <2>5, DefunctFreed
  <2>. QED  BY <2>1, <2>2, <2>3, <2>6 DEF Purged
<1>3. VolumeInv(Postponed(w))
  BY OrphansMadeDefunct, ListsConcatenated DEF Postponed
<1>. QED  BY <1>2, <1>3

(* Unmounting frees the orphans of any set of inodes, one after the other. *)
LEMMA OrphansAllFreed ==
  ASSUME NEW w, VolumeInv(w), NEW S, S \subseteq Orphans(w)
  PROVE  VolumeInv(AllFreed(w, S))
<1> DEFINE Some(T) == CHOOSE x \in T : TRUE
           One(g, T) == IF T = {} THEN w ELSE FreeOrphan(g[T \ {Some(T)}], Some(T))
           Whole(g) == [T \in SUBSET S |->
                          IF T = {} THEN w
                          ELSE FreeOrphan(g[T \ {CHOOSE x \in T : TRUE}], CHOOSE x \in T : TRUE)]
           Upto(k) == \E g : /\ g = [T \in SUBSET S |-> g[T]]
                             /\ \A T \in SUBSET S : Cardinality(T) <= k => g[T] = One(g, T)
<1>1. S \subseteq Inodes /\ IsFiniteSet(S)
  BY InodeNumbers, VolumeListsExact, FS_Subset
<1>2. \A T \in SUBSET S : IsFiniteSet(T) /\ Cardinality(T) \in Nat /\ Cardinality(T) <= Cardinality(S)
  BY <1>1, FS_Subset, FS_CardinalityType
<1>3. \A T \in SUBSET S : T # {} => /\ Some(T) \in T /\ T \ {Some(T)} \in SUBSET S
                                    /\ Cardinality(T \ {Some(T)}) = Cardinality(T) - 1
                                    /\ Cardinality(T) # 0
  <2> SUFFICES ASSUME NEW T \in SUBSET S, T # {}
               PROVE  /\ Some(T) \in T /\ T \ {Some(T)} \in SUBSET S
                      /\ Cardinality(T \ {Some(T)}) = Cardinality(T) - 1
                      /\ Cardinality(T) # 0
    OBVIOUS
  <2>1. Some(T) \in T
    OBVIOUS
  <2> HIDE DEF Some
  <2>. QED  BY <1>2, <2>1, FS_RemoveElement, FS_EmptySet
<1>4. \A k \in Nat : Upto(k)
  <2> DEFINE K == {k \in Nat : ~Upto(k)}
  <2> SUFFICES ASSUME K # {} PROVE FALSE
    OBVIOUS
  <2> HIDE DEF K, Upto, One, Some
  <2>1. K \subseteq Nat
    BY DEF K
  <2>2. PICK k \in K : \A j \in K : ~(j < k)
    BY <2>1, LeastMember
  <2>3. k \in Nat /\ ~Upto(k)
    BY <2>2 DEF K
  <2>4. k # 0
    <3> DEFINE g == [T \in SUBSET S |-> w]
    <3>1. g = [T \in SUBSET S |-> g[T]]
      OBVIOUS
    <3>2. \A T \in SUBSET S : Cardinality(T) <= 0 => g[T] = One(g, T)
      <4> SUFFICES ASSUME NEW T \in SUBSET S, Cardinality(T) <= 0 PROVE g[T] = One(g, T)
        OBVIOUS
      <4>1. Cardinality(T) = 0
        BY <1>2
      <4>2. T = {}
        BY <1>3, <4>1
      <4>. QED  BY <4>2 DEF One
    <3> HIDE DEF g
    <3>3. Upto(0)
      BY <3>1, <3>2 DEF Upto
    <3>. QED  BY <2>3, <3>3
  <2>5. k - 1 \in Nat /\ Upto(k - 1)
    <3>1. k - 1 \in Nat /\ k - 1 < k
      BY <2>3, <2>4
    <3>. QED  BY <2>2, <3>1 DEF K
  <2>6. PICK g : /\ g = [T \in SUBSET S |-> g[T]]
                 /\ \A T \in SUBSET S : Cardinality(T) <= k - 1 => g[T] = One(g, T)
    BY <2>5 DEF Upto
  <2> DEFINE h == [T \in SUBSET S |-> IF Cardinality(T) = k THEN One(g, T) ELSE g[T]]
  <2>7. h = [T \in SUBSET S |-> h[T]]
    OBVIOUS
  <2>8. \A T \in SUBSET S : h[T] = IF Cardinality(T) = k THEN One(g, T) ELSE g[T]
    OBVIOUS
  <2> HIDE DEF h
  <2>9. \A T \in SUBSET S : Cardinality(T) <= k => h[T] = One(h, T)
    <3> TAKE T \in SUBSET S
    <3> HAVE Cardinality(T) <= k
    <3>1. h[T] = One(g, T)
      <4>1. CASE Cardinality(T) = k
        BY <2>8, <4>1
      <4>2. CASE Cardinality(T) # k
        <5>1. Cardinality(T) \in Nat
          BY <1>2
        <5>2. Cardinality(T) <= k - 1
          BY <2>3, <4>2, <5>1
        <5>. QED  BY <2>6, <2>8, <4>2, <5>2
      <4>. QED  BY <4>1, <4>2
    <3>2. One(h, T) = One(g, T)
      <4>1. CASE T = {}
        BY <4>1 DEF One
      <4>2. CASE T # {}
        <5>1. T \ {Some(T)} \in SUBSET S /\ Cardinality(T \ {Some(T)}) # k
          BY <1>2, <1>3, <2>3, <4>2
        <5>2. h[T \ {Some(T)}] = g[T \ {Some(T)}]
          BY <2>8, <5>1
        <5>. QED  BY <4>2, <5>2 DEF One
      <4>. QED  BY <4>1, <4>2
    <3>. QED  BY <3>1, <3>2
  <2>10. Upto(k)
    BY <2>7, <2>9 DEF Upto
  <2>. QED  BY <2>3, <2>10
<1>5. PICK g : g = Whole(g)
  <2>1. Cardinality(S) \in Nat
    BY <1>1, FS_CardinalityType
  <2>2. PICK g : /\ g = [T \in SUBSET S |-> g[T]]
                 /\ \A T \in SUBSET S : Cardinality(T) <= Cardinality(S) => g[T] = One(g, T)
    BY <1>4, <2>1
  <2>3. \A T \in SUBSET S : g[T] = One(g, T)
    BY <1>2, <2>2
  <2>4. g = Whole(g)
    BY <2>2, <2>3
  <2>. QED  BY <2>4
<1> DEFINE f == CHOOSE f : f = Whole(f)
<1>6. f = Whole(f)
  BY <1>5
<1>7. AllFreed(w, S) = f[S]
  BY Zenon DEF AllFreed, FoldSet, MapThenFoldSet
<1>8. \A T \in SUBSET S : f[T] = One(f, T)
  <2> HIDE DEF f
  <2>1. \A T \in SUBSET S : f[T] = Whole(f)[T]
    BY <1>6
  <2>. QED  BY <2>1
<1> HIDE DEF f, One, Some, Whole
<1> DEFINE Good(T) == VolumeInv(f[T]) /\ Orphans(f[T]) = Orphans(w) \ T
<1>9. \A T \in SUBSET S : Good(T)
  <2> DEFINE K == {Cardinality(T) : T \in {U \in SUBSET S : ~Good(U)}}
  <2> SUFFICES ASSUME K # {} PROVE FALSE
    OBVIOUS
  <2> HIDE DEF Good
  <2>1. K \subseteq Nat
    BY <1>2
  <2>2. PICK k \in K : \A j \in K : ~(j < k)
    <3> HIDE DEF K
    <3>. QED  BY <2>1, LeastMember
  <2>3. PICK T \in SUBSET S : ~Good(T) /\ \A U \in SUBSET S : ~Good(U) => ~(Cardinality(U) < Cardinality(T))
    BY <2>2
  <2>4. T # {}
    BY <1>8, <2>3 DEF Good, One
  <2> DEFINE x == Some(T)
             u == f[T \ {x}]
  <2>5. x \in T /\ T \ {x} \in SUBSET S /\ Cardinality(T \ {x}) < Cardinality(T)
    BY <1>2, <1>3, <2>4
  <2>6. VolumeInv(u) /\ Orphans(u) = Orphans(w) \ (T \ {x})
    BY <2>3, <2>5 DEF Good
  <2>7. f[T] = FreeOrphan(u, x)
    BY <1>8, <2>4 DEF One
  <2> HIDE DEF x, u
  <2>8. x \in Orphans(u)
    BY <2>5, <2>6
  <2>9. VolumeInv(f[T]) /\ Orphans(f[T]) = Orphans(u) \ {x}
    BY <2>6, <2>7, <2>8, OrphanFreed
  <2>. QED  BY <2>3, <2>5, <2>6, <2>9 DEF Good
<1>. QED  BY <1>7, <1>9 DEF Good

-----------------------------------------------------------------------------
(* References.                                                             *)

Users(f, S, i) == {x \in S : f[x] = i}

OpenInodes == [Inodes -> [uRefs : Nat, fOrphan : BOOLEAN]]

\* The references of the open inodes are those of handles and directories.
RefsExact(inos, handles, cwds) ==
  /\ inos \in OpenInodes
  /\ handles \in [Handles -> Links]
  /\ cwds \in [Tasks -> Inodes \cup {ELSEWHERE}]
  /\ \A i \in Inodes :
       /\ inos[i].uRefs = Cardinality(Users(handles, Handles, i))
                            + Cardinality(Users(cwds, Tasks, i))
       /\ inos[i].uRefs = 0 => ~inos[i].fOrphan

(* Users are counted, no more of them than there are.                      *)
LEMMA UsersCounted ==
  ASSUME NEW S, IsFiniteSet(S), NEW f, NEW i
  PROVE  /\ IsFiniteSet(Users(f, S, i)) /\ Cardinality(Users(f, S, i)) \in Nat
         /\ Cardinality(S) \in Nat /\ Cardinality(Users(f, S, i)) <= Cardinality(S)
<1>1. Users(f, S, i) \in SUBSET S
  BY DEF Users
<1>. QED  BY <1>1, FS_Subset, FS_CardinalityType

(* When user x changes from f[x] to g[x], the one loses it and the other   *)
(* gains it.                                                               *)
LEMMA UserChanges ==
  ASSUME NEW S, IsFiniteSet(S), NEW f, NEW g, NEW x \in S,
         \A y \in S \ {x} : g[y] = f[y], NEW i
  PROVE  /\ i = g[x] /\ i # f[x] =>
              Cardinality(Users(g, S, i)) = Cardinality(Users(f, S, i)) + 1
         /\ i # g[x] /\ i = f[x] =>
              /\ Cardinality(Users(g, S, i)) = Cardinality(Users(f, S, i)) - 1
              /\ Cardinality(Users(f, S, i)) # 0
         /\ (i = g[x] <=> i = f[x]) => Users(g, S, i) = Users(f, S, i)
<1>2. IsFiniteSet(Users(f, S, i))
  BY UsersCounted
<1>3. ASSUME i = g[x], i # f[x] PROVE Cardinality(Users(g, S, i)) = Cardinality(Users(f, S, i)) + 1
  <2>1. Users(g, S, i) = Users(f, S, i) \cup {x} /\ x \notin Users(f, S, i)
    BY <1>3 DEF Users
  <2>. QED  BY <1>2, <2>1, FS_AddElement
<1>4. ASSUME i # g[x], i = f[x]
      PROVE  /\ Cardinality(Users(g, S, i)) = Cardinality(Users(f, S, i)) - 1
             /\ Cardinality(Users(f, S, i)) # 0
  <2>1. Users(g, S, i) = Users(f, S, i) \ {x} /\ x \in Users(f, S, i)
    BY <1>4 DEF Users
  <2>. QED  BY <1>2, <2>1, FS_RemoveElement, FS_EmptySet
<1>5. ASSUME i = g[x] <=> i = f[x] PROVE Users(g, S, i) = Users(f, S, i)
  BY <1>5 DEF Users
<1>. QED  BY <1>3, <1>4, <1>5

(* A reference more, a reference less.                                     *)
LEMMA ReferenceChanges ==
  ASSUME NEW inos \in OpenInodes, NEW i \in Inodes
  PROVE  /\ WithRef(inos, i) \in OpenInodes
         /\ WithRef(inos, i)[i].uRefs = inos[i].uRefs + 1
         /\ WithRef(inos, i)[i].fOrphan = inos[i].fOrphan
         /\ inos[i].uRefs # 0 =>
              /\ WithoutRef(inos, i) \in OpenInodes
              /\ WithoutRef(inos, i)[i].uRefs = inos[i].uRefs - 1
              /\ WithoutRef(inos, i)[i].fOrphan =
                   IF inos[i].uRefs = 1 THEN FALSE ELSE inos[i].fOrphan
         /\ \A j \in Inodes \ {i} : WithRef(inos, i)[j] = inos[j] /\ WithoutRef(inos, i)[j] = inos[j]
<1>1. inos[i] \in [uRefs : Nat, fOrphan : BOOLEAN]
  BY DEF OpenInodes
<1>2. /\ WithRef(inos, i) \in OpenInodes
      /\ WithRef(inos, i)[i].uRefs = inos[i].uRefs + 1
      /\ WithRef(inos, i)[i].fOrphan = inos[i].fOrphan
      /\ \A j \in Inodes \ {i} : WithRef(inos, i)[j] = inos[j]
  BY <1>1 DEF WithRef, OpenInodes
<1>3. \A j \in Inodes \ {i} : WithoutRef(inos, i)[j] = inos[j]
  BY DEF WithoutRef, OpenInodes
<1>4. ASSUME inos[i].uRefs # 0
      PROVE  /\ WithoutRef(inos, i) \in OpenInodes
             /\ WithoutRef(inos, i)[i].uRefs = inos[i].uRefs - 1
             /\ WithoutRef(inos, i)[i].fOrphan =
                  IF inos[i].uRefs = 1 THEN FALSE ELSE inos[i].fOrphan
  BY <1>1, <1>4 DEF WithoutRef, OpenInodes, Closed
<1>. QED  BY <1>2, <1>3, <1>4

(* A free handle is opened for inode i.                                    *)
LEMMA HandleRefOpened ==
  ASSUME NEW inos, NEW handles, NEW cwds, RefsExact(inos, handles, cwds),
         NEW h \in Handles, NEW i \in Inodes, handles[h] = INODE_INVALID
  PROVE  RefsExact(WithRef(inos, i), [handles EXCEPT ![h] = i], cwds)
<1> DEFINE g == [handles EXCEPT ![h] = i]
<1>1. inos \in OpenInodes /\ handles \in [Handles -> Links] /\ cwds \in [Tasks -> Inodes \cup {ELSEWHERE}]
  BY DEF RefsExact
<1>2. g \in [Handles -> Links] /\ g[h] = i /\ \A y \in Handles \ {h} : g[y] = handles[y]
  BY <1>1 DEF Links
<1>3. \A j \in Inodes : j # INODE_INVALID
  BY InodeNumbers
<1>4. \A j \in Inodes : Cardinality(Users(handles, Handles, j)) \in Nat /\ Cardinality(Users(cwds, Tasks, j)) \in Nat
  BY UsersCounted, OrphansAssumption
<1>5. /\ Cardinality(Users(g, Handles, i)) = Cardinality(Users(handles, Handles, i)) + 1
      /\ \A j \in Inodes \ {i} : Users(g, Handles, j) = Users(handles, Handles, j)
  <2> HIDE DEF g
  <2>1. IsFiniteSet(Handles) /\ h \in Handles
    BY OrphansAssumption
  <2>. QED  BY <1>2, <1>3, <2>1, UserChanges
<1> HIDE DEF g
<1>6. WithRef(inos, i)[i].uRefs = Cardinality(Users(g, Handles, i)) + Cardinality(Users(cwds, Tasks, i))
      /\ WithRef(inos, i)[i].uRefs # 0
  <2>1. inos[i].uRefs = Cardinality(Users(handles, Handles, i)) + Cardinality(Users(cwds, Tasks, i))
    BY DEF RefsExact
  <2>2. WithRef(inos, i)[i].uRefs = inos[i].uRefs + 1 /\ inos[i].uRefs \in Nat
    BY <1>1, ReferenceChanges DEF OpenInodes
  <2>3. /\ Cardinality(Users(handles, Handles, i)) \in Nat
        /\ Cardinality(Users(cwds, Tasks, i)) \in Nat
    BY <1>4
  <2>. QED  BY <1>5, <2>1, <2>2, <2>3
<1>7. RefsExact(WithRef(inos, i), g, cwds)
  <2>1. WithRef(inos, i) \in OpenInodes
    BY <1>1, ReferenceChanges
  <2>2. \A j \in Inodes \ {i} : WithRef(inos, i)[j] = inos[j]
    BY <1>1, ReferenceChanges
  <2>. QED  BY <1>1, <1>2, <1>5, <1>6, <2>1, <2>2 DEF RefsExact
<1>. QED  BY <1>7 DEF g

(* A handle is closed.                                                     *)
LEMMA HandleRefClosed ==
  ASSUME NEW inos, NEW handles, NEW cwds, RefsExact(inos, handles, cwds),
         NEW h \in Handles, handles[h] # INODE_INVALID
  PROVE  /\ RefsExact(WithoutRef(inos, handles[h]), [handles EXCEPT ![h] = INODE_INVALID], cwds)
         /\ handles[h] \in Inodes /\ inos[handles[h]].uRefs # 0
<1> DEFINE g == [handles EXCEPT ![h] = INODE_INVALID]
<1> PICK i : i = handles[h]
  OBVIOUS
<1>1. inos \in OpenInodes /\ handles \in [Handles -> Links] /\ cwds \in [Tasks -> Inodes \cup {ELSEWHERE}]
  BY DEF RefsExact
<1>2. /\ g \in [Handles -> Links] /\ i \in Inodes
      /\ g[h] = INODE_INVALID /\ \A y \in Handles \ {h} : g[y] = handles[y]
  BY <1>1 DEF Links
<1>3. \A j \in Inodes : j # INODE_INVALID
  BY InodeNumbers
<1>4. \A j \in Inodes : Cardinality(Users(handles, Handles, j)) \in Nat /\ Cardinality(Users(cwds, Tasks, j)) \in Nat
  BY UsersCounted, OrphansAssumption
<1>5. /\ Cardinality(Users(g, Handles, i)) = Cardinality(Users(handles, Handles, i)) - 1
      /\ Cardinality(Users(handles, Handles, i)) # 0
      /\ \A j \in Inodes \ {i} : Users(g, Handles, j) = Users(handles, Handles, j)
  <2> HIDE DEF g
  <2>1. IsFiniteSet(Handles) /\ h \in Handles
    BY OrphansAssumption
  <2>. QED  BY <1>2, <1>3, <2>1, UserChanges
<1> HIDE DEF g
<1>6. inos[i].uRefs = Cardinality(Users(handles, Handles, i)) + Cardinality(Users(cwds, Tasks, i))
      /\ inos[i].uRefs # 0
  <2>1. inos[i].uRefs = Cardinality(Users(handles, Handles, i)) + Cardinality(Users(cwds, Tasks, i))
    BY <1>2 DEF RefsExact
  <2>. QED  BY <1>2, <1>4, <1>5, <2>1
<1>7. WithoutRef(inos, i)[i].uRefs = Cardinality(Users(g, Handles, i)) + Cardinality(Users(cwds, Tasks, i))
      /\ (WithoutRef(inos, i)[i].uRefs = 0 => ~WithoutRef(inos, i)[i].fOrphan)
  <2>1. inos[i].uRefs \in Nat
    BY <1>1, <1>2 DEF OpenInodes
  <2>2. /\ WithoutRef(inos, i)[i].uRefs = inos[i].uRefs - 1
        /\ WithoutRef(inos, i)[i].fOrphan = IF inos[i].uRefs = 1 THEN FALSE ELSE inos[i].fOrphan
    BY <1>1, <1>2, <1>6, ReferenceChanges
  <2>. QED  BY <1>2, <1>4, <1>5, <1>6, <2>1, <2>2
<1>8. RefsExact(WithoutRef(inos, i), g, cwds)
  <2>1. WithoutRef(inos, i) \in OpenInodes
    BY <1>1, <1>2, <1>6, ReferenceChanges
  <2>2. \A j \in Inodes \ {i} : WithoutRef(inos, i)[j] = inos[j]
    BY <1>1, <1>2, ReferenceChanges
  <2>. QED  BY <1>1, <1>2, <1>5, <1>7, <2>1, <2>2 DEF RefsExact
<1>. QED  BY <1>2, <1>6, <1>8 DEF g

(* A task leaves its working directory,                                    *)
LEMMA DirectoryRefDropped ==
  ASSUME NEW inos, NEW handles, NEW cwds, RefsExact(inos, handles, cwds),
         NEW t \in Tasks, cwds[t] # ELSEWHERE
  PROVE  /\ RefsExact(WithoutRef(inos, cwds[t]), handles, [cwds EXCEPT ![t] = ELSEWHERE])
         /\ cwds[t] \in Inodes /\ inos[cwds[t]].uRefs # 0
<1> DEFINE g == [cwds EXCEPT ![t] = ELSEWHERE]
<1> PICK i : i = cwds[t]
  OBVIOUS
<1>1. inos \in OpenInodes /\ handles \in [Handles -> Links] /\ cwds \in [Tasks -> Inodes \cup {ELSEWHERE}]
  BY DEF RefsExact
<1>2. /\ g \in [Tasks -> Inodes \cup {ELSEWHERE}] /\ i \in Inodes
      /\ g[t] = ELSEWHERE /\ \A y \in Tasks \ {t} : g[y] = cwds[y]
  BY <1>1
<1>3. \A j \in Inodes : j # ELSEWHERE
  BY InodeNumbers
<1>4. \A j \in Inodes : Cardinality(Users(handles, Handles, j)) \in Nat /\ Cardinality(Users(cwds, Tasks, j)) \in Nat
  BY UsersCounted, OrphansAssumption
<1>5. /\ Cardinality(Users(g, Tasks, i)) = Cardinality(Users(cwds, Tasks, i)) - 1
      /\ Cardinality(Users(cwds, Tasks, i)) # 0
      /\ \A j \in Inodes \ {i} : Users(g, Tasks, j) = Users(cwds, Tasks, j)
  <2> HIDE DEF g
  <2>1. IsFiniteSet(Tasks) /\ t \in Tasks
    BY OrphansAssumption
  <2>. QED  BY <1>2, <1>3, <2>1, UserChanges
<1> HIDE DEF g
<1>6. inos[i].uRefs = Cardinality(Users(handles, Handles, i)) + Cardinality(Users(cwds, Tasks, i))
      /\ inos[i].uRefs # 0
  <2>1. inos[i].uRefs = Cardinality(Users(handles, Handles, i)) + Cardinality(Users(cwds, Tasks, i))
    BY <1>2 DEF RefsExact
  <2>. QED  BY <1>2, <1>4, <1>5, <2>1
<1>7. WithoutRef(inos, i)[i].uRefs = Cardinality(Users(handles, Handles, i)) + Cardinality(Users(g, Tasks, i))
      /\ (WithoutRef(inos, i)[i].uRefs = 0 => ~WithoutRef(inos, i)[i].fOrphan)
  <2>1. inos[i].uRefs \in Nat
    BY <1>1, <1>2 DEF OpenInodes
  <2>2. /\ WithoutRef(inos, i)[i].uRefs = inos[i].uRefs - 1
        /\ WithoutRef(inos, i)[i].fOrphan = IF inos[i].uRefs = 1 THEN FALSE ELSE inos[i].fOrphan
    BY <1>1, <1>2, <1>6, ReferenceChanges
  <2>. QED  BY <1>2, <1>4, <1>5, <1>6, <2>1, <2>2
<1>8. RefsExact(WithoutRef(inos, i), handles, g)
  <2>1. WithoutRef(inos, i) \in OpenInodes
    BY <1>1, <1>2, <1>6, ReferenceChanges
  <2>2. \A j \in Inodes \ {i} : WithoutRef(inos, i)[j] = inos[j]
    BY <1>1, <1>2, ReferenceChanges
  <2>. QED  BY <1>1, <1>2, <1>5, <1>7, <2>1, <2>2 DEF RefsExact
<1>. QED  BY <1>2, <1>6, <1>8 DEF g

(* and enters another.                                                     *)
LEMMA DirectoryRefAdded ==
  ASSUME NEW inos, NEW handles, NEW cwds, RefsExact(inos, handles, cwds),
         NEW t \in Tasks, NEW i \in Inodes, cwds[t] = ELSEWHERE
  PROVE  RefsExact(WithRef(inos, i), handles, [cwds EXCEPT ![t] = i])
<1> DEFINE g == [cwds EXCEPT ![t] = i]
<1>1. inos \in OpenInodes /\ handles \in [Handles -> Links] /\ cwds \in [Tasks -> Inodes \cup {ELSEWHERE}]
  BY DEF RefsExact
<1>2. g \in [Tasks -> Inodes \cup {ELSEWHERE}] /\ g[t] = i /\ \A y \in Tasks \ {t} : g[y] = cwds[y]
  BY <1>1
<1>3. \A j \in Inodes : j # ELSEWHERE
  BY InodeNumbers
<1>4. \A j \in Inodes : Cardinality(Users(handles, Handles, j)) \in Nat /\ Cardinality(Users(cwds, Tasks, j)) \in Nat
  BY UsersCounted, OrphansAssumption
<1>5. /\ Cardinality(Users(g, Tasks, i)) = Cardinality(Users(cwds, Tasks, i)) + 1
      /\ \A j \in Inodes \ {i} : Users(g, Tasks, j) = Users(cwds, Tasks, j)
  <2> HIDE DEF g
  <2>1. IsFiniteSet(Tasks) /\ t \in Tasks
    BY OrphansAssumption
  <2>. QED  BY <1>2, <1>3, <2>1, UserChanges
<1> HIDE DEF g
<1>6. WithRef(inos, i)[i].uRefs = Cardinality(Users(handles, Handles, i)) + Cardinality(Users(g, Tasks, i))
      /\ WithRef(inos, i)[i].uRefs # 0
  <2>1. inos[i].uRefs = Cardinality(Users(handles, Handles, i)) + Cardinality(Users(cwds, Tasks, i))
    BY DEF RefsExact
  <2>2. WithRef(inos, i)[i].uRefs = inos[i].uRefs + 1 /\ inos[i].uRefs \in Nat
    BY <1>1, ReferenceChanges DEF OpenInodes
  <2>3. /\ Cardinality(Users(handles, Handles, i)) \in Nat
        /\ Cardinality(Users(cwds, Tasks, i)) \in Nat
    BY <1>4
  <2>. QED  BY <1>5, <2>1, <2>2, <2>3
<1>7. RefsExact(WithRef(inos, i), handles, g)
  <2>1. WithRef(inos, i) \in OpenInodes
    BY <1>1, ReferenceChanges
  <2>2. \A j \in Inodes \ {i} : WithRef(inos, i)[j] = inos[j]
    BY <1>1, ReferenceChanges
  <2>. QED  BY <1>1, <1>2, <1>5, <1>6, <2>1, <2>2 DEF RefsExact
<1>. QED  BY <1>7 DEF g

-----------------------------------------------------------------------------
(* What references, flags and lists have to do with each other.            *)

Opened(inos, i) == inos[i].uRefs > 0

\* An inode in use exists, may not be reclaimed, and is flagged if it is an
\* orphan.
UseOK(inos, w) ==
  \A i \in Inodes : Opened(inos, i) =>
    /\ Exists(w, i) /\ i \notin DefunctOrphans(w)
    /\ IsOrphan(w, i) => inos[i].fOrphan

\* Only orphans are flagged.
FlagsOK(inos, w) == \A i \in Inodes : inos[i].fOrphan => IsOrphan(w, i)

StrandedIn(inos, w) == {i \in Orphans(w) : ~Opened(inos, i)}

\* References are counted whatever fails.
RefsInv ==
  /\ RefsExact(gaOpenInos, gaHandle, pCwd)
  /\ \A i \in Inodes : Opened(gaOpenInos, i) => fMounted

Sound(inos, w) == VolumeInv(w) /\ UseOK(inos, w)

FlagInv == ~fReadOnly => FlagsOK(gaOpenInos, work)

\* An I/O error may leave any working state, but on a read-only volume.
IInv ==
  /\ work \in VolumeStates /\ VolumeInv(cmt)
  /\ {fBranched, fMounted, fReadOnly, fDeviceOpen} \subseteq BOOLEAN
  /\ RefsInv
  /\ ~fReadOnly => Sound(gaOpenInos, work)

(* Nothing is open at first, after a rollback, an unmount and a loss of    *)
(* power.                                                                  *)
LEMMA NothingIsOpen ==
  ASSUME NEW inos, NEW handles, NEW cwds, inos = [i \in Inodes |-> Closed],
         handles = [h \in Handles |-> INODE_INVALID], cwds = [t \in Tasks |-> ELSEWHERE]
  PROVE  /\ RefsExact(inos, handles, cwds)
         /\ \A i \in Inodes : ~Opened(inos, i)
         /\ \A w : UseOK(inos, w) /\ FlagsOK(inos, w)
<1>1. inos \in OpenInodes /\ \A i \in Inodes : inos[i].uRefs = 0 /\ ~inos[i].fOrphan
  BY DEF Closed, OpenInodes
<1>2. handles \in [Handles -> Links] /\ cwds \in [Tasks -> Inodes \cup {ELSEWHERE}]
  BY DEF Links
<1>3. \A i \in Inodes : Users(handles, Handles, i) = {} /\ Users(cwds, Tasks, i) = {}
  BY InodeNumbers DEF Users
<1>4. Cardinality({}) = 0
  BY FS_EmptySet
<1>5. RefsExact(inos, handles, cwds)
  <2>1. \A i \in Inodes : inos[i].uRefs = Cardinality(Users(handles, Handles, i)) + Cardinality(Users(cwds, Tasks, i))
    BY <1>1, <1>3, <1>4
  <2>. QED  BY <1>1, <1>2, <2>1 DEF RefsExact
<1>. QED  BY <1>1, <1>5 DEF Opened, UseOK, FlagsOK

(* The volume changes under the open inodes, which stay as they are.       *)
LEMMA UseFrame ==
  ASSUME NEW inos, NEW w, NEW v, UseOK(inos, w),
         \A i \in Inodes : inos[i].uRefs = 0 => ~inos[i].fOrphan, inos \in OpenInodes,
         DefunctOrphans(v) \subseteq DefunctOrphans(w),
         \A i \in Inodes : Opened(inos, i) =>
           Exists(v, i) /\ (IsOrphan(v, i) <=> IsOrphan(w, i))
  PROVE  UseOK(inos, v) /\ (FlagsOK(inos, w) => FlagsOK(inos, v))
<1>1. UseOK(inos, v)
  BY DEF UseOK
<1>2. \A i \in Inodes : inos[i].fOrphan => Opened(inos, i)
  BY DEF Opened, OpenInodes
<1>. QED  BY <1>1, <1>2 DEF FlagsOK

(* An inode with a name is given one more reference.                       *)
LEMMA UseAdded ==
  ASSUME NEW inos \in OpenInodes, NEW w, UseOK(inos, w), NEW i \in Inodes, VolumeInv(w),
         IsNamed(w, i)
  PROVE  /\ UseOK(WithRef(inos, i), w) /\ (FlagsOK(inos, w) => FlagsOK(WithRef(inos, i), w))
         /\ StrandedIn(WithRef(inos, i), w) \subseteq StrandedIn(inos, w)
         /\ Opened(WithRef(inos, i), i)
         /\ \A j \in Inodes : Opened(WithRef(inos, i), j) => Opened(inos, j) \/ j = i
<1>1. /\ WithRef(inos, i)[i].uRefs = inos[i].uRefs + 1 /\ inos[i].uRefs \in Nat
      /\ WithRef(inos, i)[i].fOrphan = inos[i].fOrphan
      /\ \A j \in Inodes \ {i} : WithRef(inos, i)[j] = inos[j]
  BY ReferenceChanges DEF OpenInodes
<1>2. Exists(w, i) /\ ~IsOrphan(w, i) /\ i \notin DefunctOrphans(w) /\ i \notin Orphans(w)
  <2>1. Exists(w, i) /\ ~IsOrphan(w, i)
    BY VolumeFields DEF VolumeInv, IsNamed, IsOrphan
  <2>. QED  BY <2>1, VolumeListsExact DEF ListsExact
<1>3. Opened(WithRef(inos, i), i) /\ \A j \in Inodes \ {i} : Opened(WithRef(inos, i), j) <=> Opened(inos, j)
  BY <1>1 DEF Opened
<1>4. Orphans(w) \subseteq Inodes
  BY VolumeListsExact
<1>. QED  BY <1>1, <1>2, <1>3, <1>4 DEF UseOK, FlagsOK, StrandedIn

(* A reference is dropped.                                                 *)
LEMMA UseDropped ==
  ASSUME NEW inos \in OpenInodes, NEW w, UseOK(inos, w), NEW i \in Inodes, inos[i].uRefs # 0
  PROVE  /\ UseOK(WithoutRef(inos, i), w)
         /\ FlagsOK(inos, w) => FlagsOK(WithoutRef(inos, i), w)
         /\ \A j \in Inodes : Opened(WithoutRef(inos, i), j) <=>
                                Opened(inos, j) /\ ~(j = i /\ inos[i].uRefs = 1)
<1>1. /\ WithoutRef(inos, i)[i].uRefs = inos[i].uRefs - 1 /\ inos[i].uRefs \in Nat
      /\ WithoutRef(inos, i)[i].fOrphan = IF inos[i].uRefs = 1 THEN FALSE ELSE inos[i].fOrphan
      /\ \A j \in Inodes \ {i} : WithoutRef(inos, i)[j] = inos[j]
  BY ReferenceChanges DEF OpenInodes
<1>2. \A j \in Inodes : Opened(WithoutRef(inos, i), j) <=>
                          Opened(inos, j) /\ ~(j = i /\ inos[i].uRefs = 1)
  BY <1>1 DEF Opened
<1>3. UseOK(WithoutRef(inos, i), w)
  <2> SUFFICES ASSUME NEW j \in Inodes, Opened(WithoutRef(inos, i), j)
               PROVE  /\ Exists(w, j) /\ j \notin DefunctOrphans(w)
                      /\ IsOrphan(w, j) => WithoutRef(inos, i)[j].fOrphan
    BY DEF UseOK
  <2>1. Opened(inos, j) /\ ~(j = i /\ inos[i].uRefs = 1)
    BY <1>2
  <2>2. WithoutRef(inos, i)[j].fOrphan = inos[j].fOrphan
    BY <1>1, <2>1
  <2>. QED  BY <2>1, <2>2 DEF UseOK
<1>4. FlagsOK(inos, w) => FlagsOK(WithoutRef(inos, i), w)
  BY <1>1 DEF FlagsOK
<1>. QED  BY <1>2, <1>3, <1>4

-----------------------------------------------------------------------------
(* What calls make of the working state.                                   *)

(* The leading defunct orphan is one.                                      *)
LEMMA DefunctHeadListed ==
  ASSUME NEW w, VolumeInv(w), w.ulDefunctOrphanHead # INODE_INVALID
  PROVE  w.ulDefunctOrphanHead \in DefunctOrphans(w)
<1>1. PICK n, m, s, t : m \in Nat /\ Lists(w, n, s, m, t)
  BY DEF VolumeInv
<1>2. w.ulDefunctOrphanHead = At(m, t, 0)
  BY <1>1 DEF Lists, Linked
<1>3. 0 < m /\ 0 \in 0 .. m - 1
  BY <1>1, <1>2 DEF At
<1>. QED  BY <1>1, <1>2, <1>3, ListsOf DEF At, Elements

(* Orphans have no name and exist; they are in one of the lists.           *)
LEMMA OrphanKinds ==
  ASSUME NEW w, VolumeInv(w), NEW i \in Inodes
  PROVE  /\ IsOrphan(w, i) <=> i \in Orphans(w) \/ i \in DefunctOrphans(w)
         /\ ~(i \in Orphans(w) /\ i \in DefunctOrphans(w))
         /\ IsOrphan(w, i) => Exists(w, i) /\ ~IsNamed(w, i)
         /\ IsNamed(w, i) => Exists(w, i) /\ ~IsOrphan(w, i)
         /\ Exists(w, i) => IsOrphan(w, i) \/ IsNamed(w, i)
<1>1. ListsExact(w) /\ w \in VolumeStates
  BY VolumeListsExact DEF VolumeInv
<1>2. /\ w.node[i].uNLink \in -1 .. MaxLinks
      /\ Exists(w, i) <=> w.node[i].uNLink # -1
      /\ MaxLinks \in Nat
  BY <1>1, VolumeFields, OrphansAssumption
<1>3. /\ IsOrphan(w, i) => Exists(w, i) /\ ~IsNamed(w, i)
      /\ IsNamed(w, i) => Exists(w, i) /\ ~IsOrphan(w, i)
      /\ Exists(w, i) => IsOrphan(w, i) \/ IsNamed(w, i)
  BY <1>2 DEF IsOrphan, IsNamed
<1>4. IsOrphan(w, i) <=> i \in Orphans(w) \/ i \in DefunctOrphans(w)
  BY <1>1 DEF ListsExact
<1>5. ~(i \in Orphans(w) /\ i \in DefunctOrphans(w))
  BY <1>1 DEF ListsExact
<1>. QED  BY <1>3, <1>4, <1>5

\* v is w after a call that neither flags nor closes any inode.
Calm(inos, w, v) ==
  /\ VolumeInv(v)
  /\ Orphans(v) = Orphans(w)
  /\ DefunctOrphans(v) \subseteq DefunctOrphans(w)
  /\ \A i \in Inodes : Opened(inos, i) =>
       Exists(v, i) /\ (IsOrphan(v, i) <=> IsOrphan(w, i)) /\ (IsNamed(w, i) => IsNamed(v, i))

(* Reclaiming defunct orphans, none of which is open, is such a call.      *)
LEMMA ReclaimIsCalm ==
  ASSUME NEW inos, NEW w, VolumeInv(w), UseOK(inos, w), NEW ulCount \in 0 .. N,
         NEW v, v = FreeDefunct(w, ulCount)
  PROVE  Calm(inos, w, v)
<1>1. /\ VolumeInv(v) /\ Orphans(v) = Orphans(w)
      /\ DefunctOrphans(v) \subseteq DefunctOrphans(w)
      /\ SameLinks(w, v, DefunctOrphans(w))
  BY DefunctFreed
<1>2. \A i \in Inodes : Opened(inos, i) => Exists(w, i) /\ v.node[i].uNLink = w.node[i].uNLink
  BY <1>1 DEF UseOK, SameLinks
<1>3. w \in VolumeStates /\ v \in VolumeStates
  BY <1>1 DEF VolumeInv
<1>4. \A i \in Inodes : Opened(inos, i) => Exists(v, i)
  BY <1>2, <1>3, VolumeFields
<1>. QED  BY <1>1, <1>2, <1>4 DEF Calm, IsOrphan, IsNamed

(* So is creating an inode, in a free one or in a defunct orphan,          *)
LEMMA CreateIsCalm ==
  ASSUME NEW inos, VolumeInv(work), UseOK(inos, work), NEW i \in Inodes, IsNewInode(i),
         NEW fDirectory \in BOOLEAN, NEW v, v = NewInode(i, fDirectory)
  PROVE  Calm(inos, work, v) /\ IsNamed(v, i)
<1> DEFINE node == [uNLink |-> 1, ulNextOrphan |-> INODE_INVALID, fDirectory |-> fDirectory]
           u == IF Exists(work, i) THEN FreeDefunct(work, 1) ELSE work
<1>1. node \in Nodes /\ node.uNLink = 1
  <2>1. 1 \in 0 .. MaxLinks
    BY OrphansAssumption
  <2>. QED  BY <2>1 DEF Nodes, Links
<1>2. v = WithNode(u, i, node)
  BY DEF NewInode
<1>3. ~Opened(inos, i) /\ Calm(inos, work, u) /\ ~Exists(u, i)
  <2>1. CASE ~Exists(work, i)
    <3>1. ~Opened(inos, i)
      BY <2>1 DEF UseOK
    <3>2. Calm(inos, work, work)
      BY DEF Calm, UseOK
    <3>. QED  BY <2>1, <3>1, <3>2
  <2>2. CASE Exists(work, i)
    <3>1. i = work.ulDefunctOrphanHead
      BY <2>2 DEF IsNewInode
    <3>2. i \in DefunctOrphans(work)
      BY <3>1, DefunctHeadListed, InodeNumbers
    <3>3. 1 \in 0 .. N /\ 1 # 0
      <4>1. N # 0
        BY InodeNumbers, FS_EmptySet DEF N
      <4>. QED  BY <4>1, InodeNumbers
    <3>4. u = FreeDefunct(work, 1)
      BY <2>2
    <3> HIDE DEF u
    <3>5. Calm(inos, work, u)
      BY <3>3, <3>4, ReclaimIsCalm
    <3>6. ~Exists(u, i)
      <4>1. i \notin DefunctOrphans(u)
        BY <3>1, <3>3, <3>4, DefunctFreed
      <4>. QED  BY <3>2, <3>3, <3>4, <4>1, DefunctFreed
    <3>. QED  BY <3>2, <3>5, <3>6 DEF UseOK
  <2>. QED  BY <2>1, <2>2
<1> HIDE DEF u, node
<1>4. VolumeInv(u) /\ ~IsOrphan(u, i)
  BY <1>3, OrphanKinds DEF Calm
<1>5. /\ VolumeInv(v) /\ Orphans(v) = Orphans(u) /\ DefunctOrphans(v) = DefunctOrphans(u)
      /\ SameLinks(u, v, {i}) /\ v.node[i] = node
  BY <1>1, <1>2, <1>4, NamedNodeChanged
<1>6. \A j \in Inodes : Opened(inos, j) => v.node[j].uNLink = u.node[j].uNLink
  BY <1>3, <1>5 DEF SameLinks
<1>7. u \in VolumeStates /\ v \in VolumeStates
  BY <1>4, <1>5 DEF VolumeInv
<1>8. \A j \in Inodes : Opened(inos, j) => Exists(v, j) /\ (IsOrphan(v, j) <=> IsOrphan(u, j))
                                           /\ (IsNamed(u, j) => IsNamed(v, j))
  <2>1. \A j \in Inodes : Opened(inos, j) => Exists(u, j)
    BY <1>3 DEF Calm
  <2>. QED  BY <1>6, <1>7, <2>1, VolumeFields DEF IsOrphan, IsNamed
<1>9. Calm(inos, work, v)
  BY <1>3, <1>5, <1>8 DEF Calm
<1>. QED  BY <1>1, <1>5, <1>9 DEF IsNamed

(* and giving a named inode one more name.                                 *)
LEMMA LinkIsCalm ==
  ASSUME NEW inos, NEW w, VolumeInv(w), UseOK(inos, w), NEW i \in Inodes, IsNamed(w, i),
         NEW n \in 1 .. MaxLinks, NEW v, v = [w EXCEPT !.node[i].uNLink = n]
  PROVE  Calm(inos, w, v)
<1> DEFINE node == [w.node[i] EXCEPT !.uNLink = n]
<1>1. w.node \in [Inodes -> Nodes] /\ w.node[i] # Free /\ w \in VolumeStates
  <2>1. w \in VolumeStates /\ Exists(w, i)
    BY OrphanKinds DEF VolumeInv
  <2>. QED  BY <2>1, VolumeFields DEF Exists
<1>2. node \in Nodes /\ node.uNLink = n
  <2>1. w.node[i] \in [uNLink : 0 .. MaxLinks, ulNextOrphan : Links, fDirectory : BOOLEAN]
    BY <1>1 DEF Nodes
  <2>2. n \in 0 .. MaxLinks
    BY OrphansAssumption
  <2>. QED  BY <2>1, <2>2 DEF Nodes
<1>3. v = WithNode(w, i, node)
  BY <1>1 DEF WithNode, VolumeStates
<1> HIDE DEF node
<1>4. n # 0 /\ n > 0
  OBVIOUS
<1>5. /\ VolumeInv(v) /\ Orphans(v) = Orphans(w) /\ DefunctOrphans(v) = DefunctOrphans(w)
      /\ SameLinks(w, v, {i}) /\ v.node[i] = node
  <2>1. ~IsOrphan(w, i) /\ node.uNLink # 0
    BY <1>2, <1>4, OrphanKinds
  <2>2. VolumeInv(w) /\ i \in Inodes
    OBVIOUS
  <2>. QED  BY ONLY <1>2, <1>3, <2>1, <2>2, NamedNodeChanged
<1>6. IsNamed(v, i) /\ \A j \in Inodes \ {i} : IsNamed(v, j) <=> IsNamed(w, j)
  BY <1>2, <1>4, <1>5 DEF IsNamed, SameLinks
<1>7. \A j \in Inodes \ {i} : IsOrphan(v, j) <=> IsOrphan(w, j)
  BY <1>5 DEF IsOrphan, SameLinks
<1>8. \A j \in Inodes : Exists(w, j) => Exists(v, j)
  BY <1>5, <1>6, <1>7, OrphanKinds
<1>9. IsOrphan(v, i) <=> IsOrphan(w, i)
  BY <1>5, <1>6, OrphanKinds
<1>. QED  BY <1>5, <1>6, <1>7, <1>8, <1>9 DEF Calm, UseOK

(* Nothing is stranded, flagged or lost in such a call.                    *)
LEMMA CalmKeeps ==
  ASSUME NEW inos, NEW handles, NEW cwds, RefsExact(inos, handles, cwds),
         NEW w, NEW v, UseOK(inos, w), Calm(inos, w, v)
  PROVE  /\ UseOK(inos, v)
         /\ FlagsOK(inos, w) => FlagsOK(inos, v)
         /\ StrandedIn(inos, v) = StrandedIn(inos, w)
<1>1. inos \in OpenInodes /\ \A i \in Inodes : inos[i].uRefs = 0 => ~inos[i].fOrphan
  BY DEF RefsExact
<1>2. /\ Orphans(v) = Orphans(w) /\ DefunctOrphans(v) \subseteq DefunctOrphans(w)
      /\ \A i \in Inodes : Opened(inos, i) =>
           Exists(v, i) /\ (IsOrphan(v, i) <=> IsOrphan(w, i))
  BY DEF Calm
<1>. QED  BY <1>1, <1>2, UseFrame DEF StrandedIn

(* An inode loses a name: it has more of them, or becomes a flagged        *)
(* orphan, or is freed because nothing refers to it.                       *)
LEMMA LinkDecreased ==
  ASSUME IInv, ~fReadOnly, NEW i \in Inodes, IsNamed(work, i),
         NEW v, v = LinkDec(i), NEW inos, inos = Flagged(i)
  PROVE  /\ VolumeInv(v) /\ RefsExact(inos, gaHandle, pCwd) /\ UseOK(inos, v)
         /\ FlagsOK(gaOpenInos, work) => FlagsOK(inos, v)
         /\ StrandedIn(inos, v) \subseteq StrandedIn(gaOpenInos, work)
         /\ \A j \in Inodes : Opened(inos, j) => Opened(gaOpenInos, j)
<1> PICK w : w = work
  OBVIOUS
<1> PICK old : old = gaOpenInos
  OBVIOUS
<1>1. /\ VolumeInv(w) /\ w \in VolumeStates /\ RefsExact(old, gaHandle, pCwd)
      /\ UseOK(old, w) /\ IsNamed(w, i)
  BY DEF IInv, RefsInv, Sound, VolumeInv
<1>2. /\ w.node[i].uNLink \in 1 .. MaxLinks /\ ~IsOrphan(w, i)
      /\ Orphans(w) \subseteq Inodes
  <2>1. w.node[i].uNLink \in -1 .. MaxLinks /\ w.node[i].uNLink > 0
    BY <1>1, VolumeFields DEF IsNamed
  <2>. QED  BY <1>1, <2>1, OrphanKinds, VolumeListsExact, OrphansAssumption
<1>3. ASSUME inos = old, Calm(old, w, v)
      PROVE  /\ VolumeInv(v) /\ RefsExact(inos, gaHandle, pCwd) /\ UseOK(inos, v)
             /\ FlagsOK(old, w) => FlagsOK(inos, v)
             /\ StrandedIn(inos, v) \subseteq StrandedIn(old, w)
             /\ \A j \in Inodes : Opened(inos, j) => Opened(old, j)
  BY <1>1, <1>3, CalmKeeps DEF Calm
<1>4. CASE w.node[i].uNLink > 1
  <2>1. inos = old /\ v = [w EXCEPT !.node[i].uNLink = w.node[i].uNLink - 1]
    BY <1>1, <1>4 DEF Flagged, BecomesOrphan, LinkDec
  <2> PICK n : n = w.node[i].uNLink - 1
    OBVIOUS
  <2>2. n \in 1 .. MaxLinks /\ v = [w EXCEPT !.node[i].uNLink = n]
    <3>1. n \in 1 .. MaxLinks
      BY <1>2, <1>4, OrphansAssumption
    <3>. QED  BY <2>1, <3>1
  <2>3. Calm(old, w, v)
    BY <1>1, <2>2, LinkIsCalm
  <2>. QED  BY <1>3, <2>1, <2>3
<1>5. CASE w.node[i].uNLink = 1 /\ ~Opened(old, i)
  <2>1. inos = old /\ v = WithNode(w, i, Free)
    BY <1>5 DEF Flagged, BecomesOrphan, LinkDec, IsOpen, Opened
  <2>2. Free \in Nodes /\ Free.uNLink # 0
    BY DEF Nodes, Free
  <2>3. /\ VolumeInv(v) /\ Orphans(v) = Orphans(w) /\ DefunctOrphans(v) = DefunctOrphans(w)
        /\ SameLinks(w, v, {i})
    BY <1>1, <1>2, <2>1, <2>2, NamedNodeChanged
  <2>4. \A j \in Inodes : Opened(old, j) => v.node[j].uNLink = w.node[j].uNLink
    BY <1>5, <2>3 DEF SameLinks
  <2>5. \A j \in Inodes : Opened(old, j) => Exists(v, j) /\ Exists(w, j)
    BY <1>1, <2>3, <2>4, VolumeFields DEF UseOK, VolumeInv
  <2>6. Calm(old, w, v)
    BY <2>3, <2>4, <2>5 DEF Calm, IsOrphan, IsNamed
  <2>. QED  BY <1>3, <2>1, <2>6
<1>6. CASE w.node[i].uNLink = 1 /\ Opened(old, i)
  <2>1. inos = [old EXCEPT ![i].fOrphan = TRUE] /\ v = Orphaned(w, i)
    BY <1>6 DEF Flagged, BecomesOrphan, LinkDec, IsOpen, Opened
  <2>2. /\ VolumeInv(v) /\ Orphans(v) = Orphans(w) \cup {i}
        /\ DefunctOrphans(v) = DefunctOrphans(w) /\ i \notin DefunctOrphans(w)
        /\ SameLinks(w, v, {i}) /\ IsOrphan(v, i)
    BY <1>1, <2>1, OrphanAdded
  <2>3. old \in OpenInodes
    BY <1>1 DEF RefsExact
  <2>4. /\ inos \in OpenInodes /\ inos[i].fOrphan /\ inos[i].uRefs = old[i].uRefs
        /\ \A j \in Inodes \ {i} : inos[j] = old[j]
    BY <2>1, <2>3, ZenonT(60) DEF OpenInodes
  <2>5. old[i].uRefs # 0
    BY <1>6, <2>3 DEF OpenInodes, Opened
  <2>6. RefsExact(inos, gaHandle, pCwd)
    BY <1>1, <2>4, <2>5 DEF RefsExact
  <2>7. \A j \in Inodes : Opened(inos, j) <=> Opened(old, j)
    BY <2>4 DEF Opened
  <2>8. \A j \in Inodes : Opened(inos, j) =>
          Exists(v, j) /\ j \notin DefunctOrphans(v) /\ (IsOrphan(v, j) => inos[j].fOrphan)
    <3>1. \A j \in Inodes \ {i} : v.node[j].uNLink = w.node[j].uNLink
      BY <2>2 DEF SameLinks
    <3>2. v \in VolumeStates
      BY <2>2 DEF VolumeInv
    <3>3. \A j \in Inodes \ {i} : Exists(v, j) <=> Exists(w, j)
      BY <1>1, <3>1, <3>2, VolumeFields
    <3>4. Exists(v, i)
      BY <2>2, OrphanKinds
    <3>. QED  BY <1>1, <2>2, <2>4, <2>7, <3>1, <3>3, <3>4 DEF UseOK, IsOrphan
  <2>9. FlagsOK(old, w) => FlagsOK(inos, v)
    BY <2>2, <2>4 DEF FlagsOK, IsOrphan, SameLinks
  <2>10. StrandedIn(inos, v) \subseteq StrandedIn(old, w)
    BY <1>2, <1>6, <2>2, <2>7 DEF StrandedIn
  <2>. QED  BY <2>2, <2>6, <2>7, <2>8, <2>9, <2>10 DEF UseOK
<1>. QED  BY <1>2, <1>4, <1>5, <1>6

(* An inode gives up a reference, with its cleanup: an orphan which nobody *)
(* refers to any more is freed.                                            *)
LEMMA ReferenceCleaned ==
  ASSUME IInv, ~fReadOnly, NEW i \in Inodes, gaOpenInos[i].uRefs # 0,
         NEW v, v = Cleaned(work, i), NEW inos, inos = WithoutRef(gaOpenInos, i)
  PROVE  /\ VolumeInv(v) /\ UseOK(inos, v)
         /\ FlagsOK(gaOpenInos, work) => FlagsOK(inos, v)
         /\ StrandedIn(inos, v) \subseteq StrandedIn(gaOpenInos, work)
         /\ \A j \in Inodes : IsNamed(work, j) => IsNamed(v, j)
<1> PICK w : w = work
  OBVIOUS
<1> PICK old : old = gaOpenInos
  OBVIOUS
<1>1. /\ VolumeInv(w) /\ w \in VolumeStates /\ old \in OpenInodes
      /\ UseOK(old, w) /\ old[i].uRefs \in Nat /\ old[i].uRefs # 0
  BY DEF IInv, RefsInv, Sound, VolumeInv, RefsExact, OpenInodes
<1>2. /\ UseOK(inos, w)
      /\ FlagsOK(old, w) => FlagsOK(inos, w)
      /\ \A j \in Inodes : Opened(inos, j) <=> Opened(old, j) /\ ~(j = i /\ old[i].uRefs = 1)
  BY <1>1, UseDropped
<1>3. CASE old[i].uRefs = 1 /\ i \in Orphans(w)
  <2>1. IsOrphan(w, i) /\ Opened(old, i)
    BY <1>1, <1>3, OrphanKinds DEF Opened
  <2>2. old[i].fOrphan
    BY <1>1, <2>1 DEF UseOK
  <2>3. v = FreeOrphan(w, i)
    BY <1>3, <2>2 DEF Cleaned, NeedsFreeing, CanFree, LastRef
  <2>4. /\ VolumeInv(v) /\ Orphans(v) = Orphans(w) \ {i}
        /\ DefunctOrphans(v) = DefunctOrphans(w) /\ SameLinks(w, v, {i})
    BY <1>1, <1>3, <2>3, OrphanFreed
  <2>5. v \in VolumeStates /\ \A j \in Inodes \ {i} : v.node[j].uNLink = w.node[j].uNLink
    BY <2>4 DEF VolumeInv, SameLinks
  <2>6. \A j \in Inodes \ {i} : /\ Exists(v, j) <=> Exists(w, j)
                                /\ IsOrphan(v, j) <=> IsOrphan(w, j)
                                /\ IsNamed(v, j) <=> IsNamed(w, j)
    BY <1>1, <2>5, VolumeFields DEF IsOrphan, IsNamed
  <2>7. UseOK(inos, v)
    BY <1>2, <1>3, <2>4, <2>6 DEF UseOK
  <2>8. ~inos[i].fOrphan
    BY <1>1, <1>3, ReferenceChanges
  <2>9. FlagsOK(inos, w) => FlagsOK(inos, v)
    BY <2>6, <2>8 DEF FlagsOK
  <2>10. Orphans(w) \subseteq Inodes
    BY <1>1, VolumeListsExact
  <2>11. StrandedIn(inos, v) \subseteq StrandedIn(old, w)
    BY <1>2, <2>4, <2>10 DEF StrandedIn
  <2>12. \A j \in Inodes : IsNamed(w, j) => IsNamed(v, j)
    BY <1>1, <2>1, <2>6, OrphanKinds
  <2>. QED  BY <1>2, <2>4, <2>7, <2>9, <2>11, <2>12
<1>4. CASE ~(old[i].uRefs = 1 /\ i \in Orphans(w))
  <2>1. v = w
    BY <1>4 DEF Cleaned, NeedsFreeing, CanFree, LastRef
  <2>2. Orphans(w) \subseteq Inodes
    BY <1>1, VolumeListsExact
  <2>3. StrandedIn(inos, w) \subseteq StrandedIn(old, w)
    BY <1>2, <1>4, <2>2 DEF StrandedIn
  <2>. QED  BY <1>1, <1>2, <2>1, <2>3
<1>. QED  BY <1>3, <1>4

-----------------------------------------------------------------------------
(* Steps.                                                                  *)

\* What a step keeps.
Kept ==
  /\ IInv'
  /\ ~SameNameRenames /\ FlagInv => FlagInv'
  /\ ~OtherReadOnly /\ Writeable /\ Writeable' /\ ~Rollback => Stranded' \subseteq Stranded

(* What has to be shown of a step that leaves the sound state v,           *)
LEMMA KeptWhen ==
  ASSUME IInv, NEW v, NEW inos, work' = v, VolumeInv(v), cmt' \in {cmt, v},
         {fBranched', fMounted', fReadOnly', fDeviceOpen'} \subseteq BOOLEAN,
         gaOpenInos' = inos, RefsExact(inos, gaHandle', pCwd'), UseOK(inos, v),
         \A i \in Inodes : Opened(inos, i) => fMounted',
         ~SameNameRenames /\ FlagInv => FlagsOK(inos, v),
         ~OtherReadOnly /\ Writeable /\ Writeable' /\ ~Rollback =>
           StrandedIn(inos, v) \subseteq StrandedIn(gaOpenInos, work)
  PROVE  Kept
<1>1. work' \in VolumeStates /\ VolumeInv(cmt')
  BY DEF IInv, VolumeInv
<1>2. RefsInv' /\ Sound(gaOpenInos', work')
  BY DEF RefsInv, Sound
<1>3. IInv'
  BY <1>1, <1>2 DEF IInv
<1>4. ~SameNameRenames /\ FlagInv => FlagInv'
  BY DEF FlagInv
<1>5. Stranded' = StrandedIn(inos, v) /\ Stranded = StrandedIn(gaOpenInos, work)
  BY DEF Stranded, StrandedIn, IsOpen, Opened
<1>. QED  BY <1>3, <1>4, <1>5 DEF Kept

(* and of one that leaves the volume read-only.                            *)
LEMMA KeptReadOnly ==
  ASSUME fReadOnly' = TRUE, work' \in VolumeStates, VolumeInv(cmt'),
         {fBranched', fMounted', fDeviceOpen'} \subseteq BOOLEAN, RefsInv'
  PROVE  Kept
<1>1. IInv'
  BY DEF IInv
<1>2. FlagInv' /\ ~Writeable'
  BY DEF FlagInv, Writeable
<1>. QED  BY <1>1, <1>2 DEF Kept

\* What a call that fails leaves alone.
Rest == <<fMounted, fDeviceOpen>>

(* An I/O error in a call that left the working state v,                   *)
LEMMA AbortKeeps ==
  ASSUME IInv, NEW v \in VolumeStates, Aborts(v),
         {fMounted', fDeviceOpen'} \subseteq BOOLEAN, RefsInv'
  PROVE  Kept
<1>1. fReadOnly' = TRUE /\ work' = v /\ cmt' = cmt /\ fBranched' \in BOOLEAN
  BY DEF Aborts, IInv
<1>2. VolumeInv(cmt') /\ work' \in VolumeStates
  BY <1>1 DEF IInv
<1>. QED  BY <1>1, <1>2, KeptReadOnly

(* or in the transaction point at its end.                                 *)
LEMMA TransactFailsKeeps ==
  ASSUME IInv, NEW v, VolumeInv(v), NEW branched, TransactFails(v, branched),
         UNCHANGED Rest, RefsInv'
  PROVE  Kept
<1>1. fReadOnly' = TRUE /\ work' = v /\ cmt' \in {cmt, v} /\ fBranched' = TRUE
  BY DEF TransactFails
<1>2. VolumeInv(cmt') /\ work' \in VolumeStates
  BY <1>1 DEF IInv, VolumeInv
<1>3. {fBranched', fMounted', fDeviceOpen'} \subseteq BOOLEAN
  BY <1>1 DEF IInv, Rest
<1>. QED  BY <1>1, <1>2, <1>3, KeptReadOnly

(* No reference changes.                                                   *)
LEMMA SameReferences ==
  ASSUME IInv, UNCHANGED <<gaOpenInos, gaHandle, pCwd, fMounted>>
  PROVE  RefsInv'
<1>1. RefsInv
  BY DEF IInv
<1>. QED  BY <1>1 DEF RefsInv

(* A call that leaves the working state v.                                 *)
LEMMA CallEnds ==
  ASSUME IInv, NEW v, VolumeInv(v), EndsWith(v, TRUE), UNCHANGED Rest
  PROVE  /\ work' = v /\ cmt' \in {cmt, v}
         /\ {fBranched', fMounted', fReadOnly', fDeviceOpen'} \subseteq BOOLEAN
         /\ fMounted' = fMounted
BY DEF IInv, EndsWith, Stays, Transacts, Rest

(* A calm call keeps the invariant when no reference changes.              *)
LEMMA CalmCall ==
  ASSUME IInv, ~fReadOnly, NEW v, Calm(gaOpenInos, work, v),
         EndsWith(v, TRUE) \/ TransactFails(v, TRUE),
         UNCHANGED <<Rest, useVars>>
  PROVE  Kept
<1>1. VolumeInv(v) /\ UNCHANGED Rest
  BY DEF Calm
<1>2. CASE TransactFails(v, TRUE)
  <2>1. RefsInv'
    BY SameReferences DEF Rest, useVars
  <2>. QED  BY <1>1, <1>2, <2>1, TransactFailsKeeps
<1>3. CASE EndsWith(v, TRUE)
  <2>1. PICK inos : inos = gaOpenInos /\ gaOpenInos' = inos
    BY DEF useVars
  <2>2. RefsExact(inos, gaHandle', pCwd') /\ RefsExact(inos, gaHandle, pCwd)
    BY <2>1 DEF useVars, IInv, RefsInv
  <2>3. PICK w : w = work
    OBVIOUS
  <2>4. /\ UseOK(inos, v)
        /\ FlagsOK(inos, w) => FlagsOK(inos, v)
        /\ StrandedIn(inos, v) = StrandedIn(inos, w)
    <3>1. UseOK(inos, w) /\ Calm(inos, w, v)
      BY <2>1, <2>3 DEF IInv, Sound
    <3>. QED  BY <2>2, <3>1, CalmKeeps
  <2>5. /\ work' = v /\ cmt' \in {cmt, v}
        /\ {fBranched', fMounted', fReadOnly', fDeviceOpen'} \subseteq BOOLEAN
        /\ fMounted' = fMounted
    BY <1>1, <1>3, CallEnds
  <2>6. \A i \in Inodes : Opened(inos, i) => fMounted'
    BY <2>1, <2>5 DEF IInv, RefsInv
  <2>7. ~SameNameRenames /\ FlagInv => FlagsOK(inos, v)
    BY <2>1, <2>3, <2>4 DEF FlagInv
  <2>. QED  BY <1>1, <2>1, <2>2, <2>3, <2>4, <2>5, <2>6, <2>7, KeptWhen
<1>. QED  BY <1>2, <1>3

(* Calls on names: a new directory.                                        *)
LEMMA MakeDirectoryKeeps ==
  ASSUME IInv, NEW i \in Inodes, MakeDirectory(i)
  PROVE  Kept
<1>1. PICK v : v = NewInode(i, TRUE)
  OBVIOUS
<1>2. /\ EndsWith(v, TRUE) \/ TransactFails(v, TRUE)
      /\ UNCHANGED <<Rest, useVars>> /\ ~fReadOnly /\ IsNewInode(i)
  BY <1>1 DEF MakeDirectory, Rest, Writeable
<1>3. Calm(gaOpenInos, work, v)
  <2>1. VolumeInv(work) /\ UseOK(gaOpenInos, work)
    BY <1>2 DEF IInv, Sound
  <2>2. PICK inos : inos = gaOpenInos
    OBVIOUS
  <2>3. Calm(inos, work, v)
    BY <1>1, <1>2, <2>1, <2>2, CreateIsCalm
  <2>. QED  BY <2>2, <2>3
<1>. QED  BY <1>2, <1>3, CalmCall

(* A new name of an inode.                                                 *)
LEMMA LinkKeeps ==
  ASSUME IInv, NEW i \in Inodes, Link(i)
  PROVE  Kept
<1>1. PICK w : w = work
  OBVIOUS
<1>2. PICK n : n = w.node[i].uNLink + 1
  OBVIOUS
<1>3. PICK v : v = [w EXCEPT !.node[i].uNLink = n]
  OBVIOUS
<1>4. /\ VolumeInv(w) /\ UseOK(gaOpenInos, w) /\ IsNamed(w, i) /\ w.node[i].uNLink < MaxLinks
      /\ ~fReadOnly
  BY <1>1 DEF IInv, Sound, Link, Writeable
<1>5. n \in 1 .. MaxLinks
  <2>1. w.node[i].uNLink \in -1 .. MaxLinks /\ w.node[i].uNLink > 0
    BY <1>4, VolumeFields DEF VolumeInv, IsNamed
  <2>. QED  BY <1>2, <1>4, <2>1, OrphansAssumption
<1>6. Calm(gaOpenInos, work, v)
  <2>1. PICK inos : inos = gaOpenInos
    OBVIOUS
  <2>2. Calm(inos, w, v)
    BY <1>3, <1>4, <1>5, <2>1, LinkIsCalm
  <2>. QED  BY <1>1, <2>1, <2>2
<1>7. v = [work EXCEPT !.node[i].uNLink = @ + 1]
  BY <1>1, <1>2, <1>3
<1>8. (EndsWith(v, TRUE) \/ TransactFails(v, TRUE)) /\ UNCHANGED <<Rest, useVars>>
  BY <1>7 DEF Link, Rest
<1>. QED  BY <1>4, <1>6, <1>8, CalmCall

(* A handle is opened for inode i: the references are counted,             *)
LEMMA HandleOpenCounted ==
  ASSUME IInv, NEW h \in Handles, NEW i \in Inodes, HandleOpen(h, i), UNCHANGED pCwd
  PROVE  RefsExact(WithRef(gaOpenInos, i), gaHandle', pCwd')
<1>1. PICK old, handles, cwds : old = gaOpenInos /\ handles = gaHandle /\ cwds = pCwd
  OBVIOUS
<1>2. RefsExact(old, handles, cwds) /\ handles[h] = INODE_INVALID
  BY <1>1 DEF IInv, RefsInv, HandleOpen
<1>3. RefsExact(WithRef(old, i), [handles EXCEPT ![h] = i], cwds)
  BY <1>2, HandleRefOpened
<1>. QED  BY <1>1, <1>3 DEF HandleOpen

(* and the inode has a name, after a calm call.                            *)
LEMMA HandleOpenKeeps ==
  ASSUME IInv, ~fReadOnly, NEW h \in Handles, NEW i \in Inodes, HandleOpen(h, i),
         UNCHANGED <<pCwd, fReadOnly, Rest>>, fMounted,
         NEW v, Calm(gaOpenInos, work, v), IsNamed(v, i), work' = v, cmt' \in {cmt, v},
         fBranched' \in BOOLEAN
  PROVE  Kept
<1>1. PICK old : old = gaOpenInos
  OBVIOUS
<1>2. PICK inos : inos = WithRef(old, i)
  OBVIOUS
<1>3. PICK w : w = work
  OBVIOUS
<1>4. /\ RefsExact(old, gaHandle, pCwd) /\ old \in OpenInodes /\ UseOK(old, w)
      /\ Calm(old, w, v) /\ VolumeInv(v)
  BY <1>1, <1>3 DEF IInv, RefsInv, Sound, RefsExact, Calm
<1>5. RefsExact(inos, gaHandle', pCwd')
  BY <1>1, <1>2, HandleOpenCounted
<1>6. /\ UseOK(old, v)
      /\ FlagsOK(old, w) => FlagsOK(old, v)
      /\ StrandedIn(old, v) = StrandedIn(old, w)
  BY <1>4, CalmKeeps
<1>7. /\ UseOK(inos, v)
      /\ FlagsOK(old, v) => FlagsOK(inos, v)
      /\ StrandedIn(inos, v) \subseteq StrandedIn(old, v)
  BY <1>2, <1>4, <1>6, UseAdded
<1>8. gaOpenInos' = inos
  BY <1>1, <1>2 DEF HandleOpen
<1>9. {fBranched', fMounted', fReadOnly', fDeviceOpen'} \subseteq BOOLEAN /\ fMounted'
  BY DEF IInv, Rest
<1>10. StrandedIn(inos, v) \subseteq StrandedIn(gaOpenInos, work)
  BY <1>1, <1>3, <1>6, <1>7
<1>11. ~SameNameRenames /\ FlagInv => FlagsOK(inos, v)
  BY <1>1, <1>3, <1>6, <1>7 DEF FlagInv
<1>. QED  BY <1>4, <1>5, <1>7, <1>8, <1>9, <1>10, <1>11, KeptWhen

(* A file whose name exists is opened, also on a read-only volume,         *)
LEMMA OpenKeeps ==
  ASSUME IInv, NEW h \in Handles, NEW i \in Inodes, Open(h, i)
  PROVE  Kept
<1>1. PICK v : v = work
  OBVIOUS
<1>2. /\ work' = v /\ cmt' = cmt /\ fBranched' = fBranched /\ fMounted /\ IsNamed(v, i)
      /\ UNCHANGED <<fReadOnly, Rest, pCwd>> /\ HandleOpen(h, i)
  BY <1>1 DEF Open, Accessible, volVars, Rest
<1>3. CASE ~fReadOnly
  <2>1. Calm(gaOpenInos, work, v)
    BY <1>1, <1>3 DEF Calm, IInv, Sound, UseOK
  <2>2. fBranched' \in BOOLEAN
    BY <1>2 DEF IInv
  <2>. QED  BY <1>2, <1>3, <2>1, <2>2, HandleOpenKeeps
<1>4. CASE fReadOnly
  <2>1. /\ fReadOnly' = TRUE /\ work' \in VolumeStates /\ VolumeInv(cmt')
        /\ {fBranched', fMounted', fDeviceOpen'} \subseteq BOOLEAN
    BY <1>1, <1>2, <1>4 DEF IInv, Rest
  <2>2. RefsExact(gaOpenInos', gaHandle', pCwd') /\ fMounted'
    <3>1. gaOpenInos' = WithRef(gaOpenInos, i)
      BY <1>2 DEF HandleOpen
    <3>. QED  BY <1>2, <3>1, HandleOpenCounted DEF Rest
  <2>3. RefsInv'
    BY <2>2 DEF RefsInv
  <2>. QED  BY <2>1, <2>3, KeptReadOnly
<1>5. fReadOnly \in BOOLEAN
  BY DEF IInv
<1>. QED  BY <1>3, <1>4

(* or one that is created.                                                 *)
LEMMA OpenNewKeeps ==
  ASSUME IInv, NEW h \in Handles, NEW i \in Inodes, OpenNew(h, i)
  PROVE  Kept
<1>1. PICK v : v = NewInode(i, FALSE)
  OBVIOUS
<1>2. /\ \/ EndsWith(v, TRUE) /\ HandleOpen(h, i)
         \/ TransactFails(v, TRUE) /\ UNCHANGED <<gaOpenInos, gaHandle>>
      /\ UNCHANGED <<Rest, pCwd>> /\ fMounted /\ ~fReadOnly /\ IsNewInode(i)
  BY <1>1 DEF OpenNew, Rest, Writeable, Accessible
<1>3. Calm(gaOpenInos, work, v) /\ IsNamed(v, i)
  <2>1. VolumeInv(work) /\ UseOK(gaOpenInos, work)
    BY <1>2 DEF IInv, Sound
  <2>2. PICK inos : inos = gaOpenInos
    OBVIOUS
  <2>3. Calm(inos, work, v) /\ IsNamed(v, i)
    BY <1>1, <1>2, <2>1, <2>2, CreateIsCalm
  <2>. QED  BY <2>2, <2>3
<1>4. VolumeInv(v)
  BY <1>3 DEF Calm
<1>5. CASE EndsWith(v, TRUE) /\ HandleOpen(h, i)
  <2>1. work' = v /\ cmt' \in {cmt, v} /\ fBranched' \in BOOLEAN
    BY <1>2, <1>4, <1>5, CallEnds
  <2>2. UNCHANGED <<pCwd, fReadOnly, Rest>>
    BY <1>2, <1>5 DEF EndsWith
  <2>. QED  BY <1>2, <1>3, <1>5, <2>1, <2>2, HandleOpenKeeps
<1>6. CASE TransactFails(v, TRUE) /\ UNCHANGED <<gaOpenInos, gaHandle>>
  <2>1. RefsInv'
    BY <1>2, <1>6, SameReferences DEF Rest
  <2>. QED  BY <1>2, <1>4, <1>6, <2>1, TransactFailsKeeps
<1>. QED  BY <1>2, <1>5, <1>6

(* Taking a name from an inode.                                            *)
LEMMA UnlinkKeeps ==
  ASSUME IInv, NEW i \in Inodes, Unlink(i)
  PROVE  Kept
<1>1. PICK v : v = LinkDec(i)
  OBVIOUS
<1>2. PICK inos : inos = Flagged(i)
  OBVIOUS
<1>3. /\ IsNamed(work, i) /\ UNCHANGED <<Rest, gaHandle, pCwd>> /\ fMounted /\ ~fReadOnly
      /\ \/ EndsWith(v, TRUE) /\ gaOpenInos' = inos
         \/ TransactFails(v, TRUE) /\ UNCHANGED gaOpenInos
  BY <1>1, <1>2 DEF Unlink, Rest, Writeable, Accessible
<1>4. /\ VolumeInv(v) /\ RefsExact(inos, gaHandle, pCwd) /\ UseOK(inos, v)
      /\ FlagsOK(gaOpenInos, work) => FlagsOK(inos, v)
      /\ StrandedIn(inos, v) \subseteq StrandedIn(gaOpenInos, work)
  BY <1>1, <1>2, <1>3, LinkDecreased
<1>5. CASE EndsWith(v, TRUE) /\ gaOpenInos' = inos
  <2>1. /\ work' = v /\ cmt' \in {cmt, v}
        /\ {fBranched', fMounted', fReadOnly', fDeviceOpen'} \subseteq BOOLEAN
        /\ fMounted' = fMounted
    BY <1>3, <1>4, <1>5, CallEnds
  <2>2. RefsExact(inos, gaHandle', pCwd')
    BY <1>3, <1>4
  <2>3. FlagInv => FlagsOK(inos, v)
    BY <1>3, <1>4 DEF FlagInv
  <2>. QED  BY <1>3, <1>4, <1>5, <2>1, <2>2, <2>3, KeptWhen
<1>6. CASE TransactFails(v, TRUE) /\ UNCHANGED gaOpenInos
  <2>1. RefsInv'
    BY <1>3, <1>6, SameReferences DEF Rest
  <2>. QED  BY <1>3, <1>4, <1>6, <2>1, TransactFailsKeeps
<1>. QED  BY <1>3, <1>5, <1>6

(* Renaming over a name of j.  Only flags change when both names are of    *)
(* one inode, and only when they are the same name are flags wrong.        *)
LEMMA RenameKeeps ==
  ASSUME IInv, NEW i \in Inodes, NEW j \in Inodes, Rename(i, j)
  PROVE  Kept
<1>1. PICK v : v = IF i = j THEN work ELSE LinkDec(j)
  OBVIOUS
<1>2. PICK inos : inos = Flagged(j)
  OBVIOUS
<1>3. /\ IsNamed(work, j) /\ UNCHANGED <<Rest, gaHandle, pCwd>> /\ fMounted /\ ~fReadOnly
      /\ i = j => work.node[i].uNLink > 1 \/ SameNameRenames
      /\ \/ EndsWith(v, TRUE) /\ gaOpenInos' = inos
         \/ TransactFails(v, TRUE) /\ UNCHANGED gaOpenInos
  BY <1>1, <1>2 DEF Rename, Rest, Writeable, Accessible
<1>4. /\ VolumeInv(v) /\ RefsExact(inos, gaHandle, pCwd) /\ UseOK(inos, v)
      /\ ~SameNameRenames /\ FlagsOK(gaOpenInos, work) => FlagsOK(inos, v)
      /\ StrandedIn(inos, v) \subseteq StrandedIn(gaOpenInos, work)
  <2>1. CASE i # j
    <3>1. v = LinkDec(j)
      BY <1>1, <2>1
    <3>. QED  BY <1>2, <1>3, <3>1, LinkDecreased
  <2>2. CASE i = j
    <3>1. PICK w, old : w = work /\ old = gaOpenInos
      OBVIOUS
    <3>2. /\ v = w /\ VolumeInv(w) /\ UseOK(old, w) /\ RefsExact(old, gaHandle, pCwd)
          /\ old \in OpenInodes
      BY <1>1, <1>3, <2>2, <3>1 DEF IInv, RefsInv, Sound, RefsExact
    <3>3. CASE inos = old
      BY <3>1, <3>2, <3>3
    <3>4. CASE inos # old
      <4>1. /\ inos = [old EXCEPT ![j].fOrphan = TRUE]
            /\ Opened(old, j) /\ w.node[j].uNLink = 1
        BY <1>2, <3>1, <3>4 DEF Flagged, BecomesOrphan, IsOpen, Opened
      <4>2. SameNameRenames
        BY <1>3, <2>2, <3>1, <4>1
      <4>3. /\ inos \in OpenInodes /\ inos[j].uRefs = old[j].uRefs /\ inos[j].fOrphan
            /\ \A k \in Inodes \ {j} : inos[k] = old[k]
        BY <3>2, <4>1 DEF OpenInodes
      <4>4. old[j].uRefs # 0
        BY <3>2, <4>1 DEF OpenInodes, Opened
      <4>5. RefsExact(inos, gaHandle, pCwd)
        BY <3>2, <4>3, <4>4 DEF RefsExact
      <4>6. \A k \in Inodes : Opened(inos, k) <=> Opened(old, k)
        BY <4>3 DEF Opened
      <4>7. UseOK(inos, v)
        BY <3>2, <4>3, <4>6 DEF UseOK
      <4>8. StrandedIn(inos, v) \subseteq StrandedIn(old, w)
        <5>1. Orphans(w) \subseteq Inodes
          BY <3>2, VolumeListsExact
        <5>. QED  BY <3>2, <4>6, <5>1 DEF StrandedIn
      <4>. QED  BY <3>1, <3>2, <4>2, <4>5, <4>7, <4>8
    <3>. QED  BY <3>3, <3>4
  <2>. QED  BY <2>1, <2>2
<1>5. CASE EndsWith(v, TRUE) /\ gaOpenInos' = inos
  <2>1. /\ work' = v /\ cmt' \in {cmt, v}
        /\ {fBranched', fMounted', fReadOnly', fDeviceOpen'} \subseteq BOOLEAN
        /\ fMounted' = fMounted
    BY <1>3, <1>4, <1>5, CallEnds
  <2>2. RefsExact(inos, gaHandle', pCwd')
    BY <1>3, <1>4
  <2>3. ~SameNameRenames /\ FlagInv => FlagsOK(inos, v)
    BY <1>3, <1>4 DEF FlagInv
  <2>. QED  BY <1>3, <1>4, <1>5, <2>1, <2>2, <2>3, KeptWhen
<1>6. CASE TransactFails(v, TRUE) /\ UNCHANGED gaOpenInos
  <2>1. RefsInv'
    BY <1>3, <1>6, SameReferences DEF Rest
  <2>. QED  BY <1>3, <1>4, <1>6, <2>1, TransactFailsKeeps
<1>. QED  BY <1>3, <1>5, <1>6

(* A handle is closed: the references are counted,                         *)
LEMMA HandleClosedCounted ==
  ASSUME IInv, NEW h \in Handles, gaHandle[h] # INODE_INVALID, HandleClosed(h),
         NEW i, i = gaHandle[h]
  PROVE  /\ i \in Inodes /\ gaOpenInos[i].uRefs # 0
         /\ gaOpenInos' = WithoutRef(gaOpenInos, i)
         /\ RefsExact(gaOpenInos', gaHandle', pCwd')
<1>1. PICK old, handles, cwds : old = gaOpenInos /\ handles = gaHandle /\ cwds = pCwd
  OBVIOUS
<1>2. RefsExact(old, handles, cwds) /\ handles[h] # INODE_INVALID /\ handles[h] = i
  BY <1>1 DEF IInv, RefsInv
<1>3. /\ RefsExact(WithoutRef(old, handles[h]), [handles EXCEPT ![h] = INODE_INVALID], cwds)
      /\ handles[h] \in Inodes /\ old[handles[h]].uRefs # 0
  BY <1>2, HandleRefClosed
<1>4. /\ gaOpenInos' = WithoutRef(old, i)
      /\ gaHandle' = [handles EXCEPT ![h] = INODE_INVALID] /\ pCwd' = cwds
  BY <1>1 DEF HandleClosed
<1>. QED  BY <1>1, <1>2, <1>3, <1>4

(* and the volume remains mounted.                                         *)
LEMMA HandleClosedRefs ==
  ASSUME IInv, NEW h \in Handles, gaHandle[h] # INODE_INVALID, HandleClosed(h), fMounted'
  PROVE  RefsInv'
<1>1. RefsExact(gaOpenInos', gaHandle', pCwd')
  BY HandleClosedCounted
<1>. QED  BY <1>1 DEF RefsInv

(* Closing a handle.                                                       *)
LEMMA HandleCloseKeeps ==
  ASSUME IInv, NEW h \in Handles, HandleClose(h)
  PROVE  Kept
<1>1. PICK i : i = gaHandle[h]
  OBVIOUS
<1>2. PICK v : v = IF fReadOnly THEN work ELSE Cleaned(work, i)
  OBVIOUS
<1>3. PICK branched : branched = (fBranched \/ v # work)
  OBVIOUS
<1>4. /\ gaHandle[h] # INODE_INVALID /\ HandleClosed(h) /\ fMounted /\ UNCHANGED Rest
      /\ \/ UNCHANGED fReadOnly /\ Stays(v, branched)
         \/ ~fReadOnly /\ (EndsWith(v, branched) \/ TransactFails(v, branched))
  BY <1>1, <1>2, <1>3 DEF HandleClose, Accessible, Rest
<1>5. PICK inos : inos = WithoutRef(gaOpenInos, i)
  OBVIOUS
<1>6. /\ i \in Inodes /\ gaOpenInos[i].uRefs # 0 /\ gaOpenInos' = inos
      /\ RefsExact(inos, gaHandle', pCwd') /\ fMounted' /\ RefsInv'
  BY <1>1, <1>4, <1>5, HandleClosedCounted, HandleClosedRefs DEF Rest
<1>7. CASE fReadOnly
  <2>1. work' = work /\ cmt' = cmt /\ fBranched' = branched /\ fReadOnly' = TRUE
    BY <1>2, <1>4, <1>7 DEF Stays, IInv
  <2>2. /\ work' \in VolumeStates /\ VolumeInv(cmt')
        /\ {fBranched', fMounted', fDeviceOpen'} \subseteq BOOLEAN
    BY <1>3, <1>4, <2>1 DEF IInv, Rest
  <2>. QED  BY <1>6, <2>1, <2>2, KeptReadOnly
<1>8. CASE ~fReadOnly
  <2>1. /\ VolumeInv(v) /\ UseOK(inos, v)
        /\ FlagsOK(gaOpenInos, work) => FlagsOK(inos, v)
        /\ StrandedIn(inos, v) \subseteq StrandedIn(gaOpenInos, work)
    <3>1. v = Cleaned(work, i)
      BY <1>2, <1>8
    <3>. QED  BY <1>5, <1>6, <1>8, <3>1, ReferenceCleaned
  <2>2. CASE TransactFails(v, branched)
    BY <1>4, <1>6, <2>1, <2>2, TransactFailsKeeps
  <2>3. CASE ~TransactFails(v, branched)
    <3>1. /\ work' = v /\ cmt' \in {cmt, v} /\ fReadOnly' = fReadOnly
          /\ fBranched' \in {branched, FALSE}
      BY <1>4, <2>3 DEF EndsWith, Stays, Transacts
    <3>2. {fBranched', fMounted', fReadOnly', fDeviceOpen'} \subseteq BOOLEAN
      BY <1>3, <1>4, <3>1 DEF IInv, Rest
    <3>3. FlagInv => FlagsOK(inos, v)
      BY <1>8, <2>1 DEF FlagInv
    <3>. QED  BY <1>6, <2>1, <3>1, <3>2, <3>3, KeptWhen
  <2>. QED  BY <2>2, <2>3
<1>. QED  BY <1>7, <1>8

(* RedCoreFreeOrphan fails: whatever it has done, the volume is read-only. *)
LEMMA CleanupFailsKeeps ==
  ASSUME IInv, NEW i, CleanupFails(i), RefsInv'
  PROVE  Kept
<1>1. /\ \E v \in PartlyFreed(work, i) : Aborts(v)
      /\ UNCHANGED <<fMounted, fDeviceOpen>>
  BY DEF CleanupFails
<1>2. PICK w : w = work
  OBVIOUS
<1>3. w \in VolumeStates /\ w.node \in [Inodes -> Nodes] /\ Free \in Nodes
  <2>1. w \in VolumeStates
    BY <1>2 DEF IInv
  <2>. QED  BY <2>1, VolumeFields DEF Nodes
<1>4. WithNode(w, i, Free) \in VolumeStates
  BY <1>3 DEF WithNode, VolumeStates
<1>5. PICK v \in VolumeStates : Aborts(v)
  BY <1>1, <1>2, <1>3, <1>4 DEF PartlyFreed
<1>6. {fMounted', fDeviceOpen'} \subseteq BOOLEAN
  BY <1>1 DEF IInv
<1>. QED  BY <1>5, <1>6, AbortKeeps

(* So does the close that cleans up, with the handle kept or given up.     *)
LEMMA HandleCloseFailsKeeps ==
  ASSUME IInv, NEW h \in Handles, HandleCloseFails(h)
  PROVE  Kept
<1>1. /\ gaHandle[h] # INODE_INVALID /\ CleanupFails(gaHandle[h])
      /\ UNCHANGED useVars \/ HandleClosed(h)
      /\ fMounted /\ fMounted' = fMounted
  BY DEF HandleCloseFails, CleanupFails, Writeable, Accessible
<1>2. RefsInv'
  <2>1. CASE UNCHANGED useVars
    BY <1>1, <2>1, SameReferences DEF useVars
  <2>2. CASE HandleClosed(h)
    BY <1>1, <2>2, HandleClosedRefs
  <2>. QED  BY <1>1, <2>1, <2>2
<1>. QED  BY <1>1, <1>2, CleanupFailsKeeps

(* A task changes its working directory: the reference to the old one is   *)
(* dropped, then the new one gains it.                                     *)
LEMMA MovesToCounted ==
  ASSUME IInv, NEW t \in Tasks, NEW d \in Inodes \cup {ELSEWHERE},
         NEW fCurrentReadOnly \in BOOLEAN, MovesTo(t, d, fCurrentReadOnly),
         d # ELSEWHERE => fMounted,
         NEW i, i = pCwd[t], NEW old, old = gaOpenInos,
         NEW dropped, dropped = IF i # ELSEWHERE THEN WithoutRef(old, i) ELSE old
  PROVE  /\ i # ELSEWHERE => i \in Inodes /\ old[i].uRefs # 0
         /\ dropped \in OpenInodes
         /\ gaOpenInos' = IF d = ELSEWHERE THEN dropped ELSE WithRef(dropped, d)
         /\ UNCHANGED <<fMounted, fDeviceOpen>>
         /\ RefsExact(gaOpenInos', gaHandle', pCwd') /\ RefsInv'
<1>1. PICK left : left = [pCwd EXCEPT ![t] = ELSEWHERE]
  OBVIOUS
<1>2. PICK inos : inos = IF d = ELSEWHERE THEN dropped ELSE WithRef(dropped, d)
  OBVIOUS
<1>3. /\ RefsExact(old, gaHandle, pCwd) /\ old \in OpenInodes
      /\ \A j \in Inodes : Opened(old, j) => fMounted
  BY DEF IInv, RefsInv, RefsExact
<1>4. /\ gaOpenInos' = inos /\ pCwd' = [pCwd EXCEPT ![t] = d] /\ gaHandle' = gaHandle
      /\ UNCHANGED <<fMounted, fDeviceOpen>>
  BY <1>2 DEF MovesTo, CleanupFails
<1>5. /\ RefsExact(dropped, gaHandle, left) /\ left[t] = ELSEWHERE
      /\ i # ELSEWHERE => i \in Inodes /\ old[i].uRefs # 0
  <2>1. PICK handles, cwds : handles = gaHandle /\ cwds = pCwd
    OBVIOUS
  <2>2. RefsExact(old, handles, cwds) /\ i = cwds[t] /\ left = [cwds EXCEPT ![t] = ELSEWHERE]
    BY <1>1, <1>3, <2>1
  <2>3. cwds \in [Tasks -> Inodes \cup {ELSEWHERE}] /\ left[t] = ELSEWHERE
    BY <2>2 DEF RefsExact
  <2>4. CASE i # ELSEWHERE
    <3>1. /\ RefsExact(WithoutRef(old, cwds[t]), handles, [cwds EXCEPT ![t] = ELSEWHERE])
          /\ cwds[t] \in Inodes /\ old[cwds[t]].uRefs # 0
      BY <2>2, <2>4, DirectoryRefDropped
    <3>. QED  BY <2>1, <2>2, <2>3, <2>4, <3>1
  <2>5. CASE i = ELSEWHERE
    <3>1. left = cwds
      BY <2>2, <2>3, <2>5
    <3>. QED  BY <2>1, <2>2, <2>3, <2>5, <3>1
  <2>. QED  BY <2>4, <2>5
<1>6. dropped \in OpenInodes
  BY <1>5 DEF RefsExact
<1>7. RefsExact(inos, gaHandle', pCwd')
  <2>1. CASE d = ELSEWHERE
    <3>1. inos = dropped /\ pCwd' = left
      BY <1>1, <1>2, <1>4, <2>1
    <3>. QED  BY <1>4, <1>5, <3>1
  <2>2. CASE d # ELSEWHERE
    <3>1. PICK handles : handles = gaHandle
      OBVIOUS
    <3>2. d \in Inodes /\ inos = WithRef(dropped, d)
      BY <1>2, <2>2
    <3>3. RefsExact(inos, handles, [left EXCEPT ![t] = d])
      BY <1>5, <3>1, <3>2, DirectoryRefAdded
    <3>4. [left EXCEPT ![t] = d] = [pCwd EXCEPT ![t] = d]
      BY <1>1, <1>3 DEF RefsExact
    <3>. QED  BY <1>4, <3>1, <3>3, <3>4
  <2>. QED  BY <2>1, <2>2
<1>8. \A j \in Inodes : Opened(inos, j) => fMounted'
  <2>1. CASE d # ELSEWHERE
    BY <1>4, <2>1
  <2>2. CASE d = ELSEWHERE
    <3>1. inos = dropped
      BY <1>2, <2>2
    <3>2. CASE i = ELSEWHERE
      BY <1>3, <1>4, <3>1, <3>2
    <3>3. CASE i # ELSEWHERE
      <4>1. i \in Inodes /\ old[i].uRefs # 0 /\ dropped = WithoutRef(old, i)
        BY <1>5, <3>3
      <4>2. old[i].uRefs \in Nat
        BY <1>3, <4>1 DEF OpenInodes
      <4>3. /\ WithoutRef(old, i)[i].uRefs = old[i].uRefs - 1
            /\ \A j \in Inodes \ {i} : WithoutRef(old, i)[j] = old[j]
        <5>1. old \in OpenInodes /\ i \in Inodes /\ old[i].uRefs # 0
          BY <1>3, <4>1
        <5>. QED  BY ONLY <5>1, ReferenceChanges
      <4>4. \A j \in Inodes : Opened(dropped, j) => Opened(old, j)
        BY <4>1, <4>2, <4>3 DEF Opened
      <4>. QED  BY <1>3, <1>4, <3>1, <4>4
    <3>. QED  BY <3>2, <3>3
  <2>. QED  BY <2>1, <2>2
<1>9. RefsInv'
  BY <1>4, <1>7, <1>8 DEF RefsInv
<1>. QED  BY <1>2, <1>4, <1>5, <1>6, <1>7, <1>9

(* With its cleanup, the old one is freed if nobody else refers to it; the *)
(* new one has a name.                                                     *)
LEMMA MovesToKeeps ==
  ASSUME IInv, NEW t \in Tasks, NEW d \in Inodes \cup {ELSEWHERE},
         NEW fCurrentReadOnly \in BOOLEAN, MovesTo(t, d, fCurrentReadOnly),
         d # ELSEWHERE => IsNamed(work, d) /\ fMounted,
         ~OtherReadOnly /\ Writeable => ~fCurrentReadOnly
  PROVE  Kept
<1>1. PICK old, w : old = gaOpenInos /\ w = work
  OBVIOUS
<1>2. PICK i : i = pCwd[t]
  OBVIOUS
<1>3. PICK v : v = IF i # ELSEWHERE /\ ~fCurrentReadOnly /\ ~fReadOnly THEN Cleaned(work, i) ELSE work
  OBVIOUS
<1>4. PICK dropped : dropped = IF i # ELSEWHERE THEN WithoutRef(old, i) ELSE old
  OBVIOUS
<1>5. PICK inos : inos = IF d = ELSEWHERE THEN dropped ELSE WithRef(dropped, d)
  OBVIOUS
<1>6. /\ gaOpenInos' = inos /\ dropped \in OpenInodes
      /\ i # ELSEWHERE => i \in Inodes /\ old[i].uRefs # 0
      /\ UNCHANGED <<fMounted, fDeviceOpen>>
      /\ RefsExact(inos, gaHandle', pCwd') /\ RefsInv'
  BY <1>1, <1>2, <1>4, <1>5, MovesToCounted
<1>7. CASE CleanupFails(i)
  BY <1>6, <1>7, CleanupFailsKeeps
<1>8. CASE ~CleanupFails(i)
  <2>1. /\ work' = v /\ cmt' = cmt /\ fBranched' = (fBranched \/ v # work)
        /\ UNCHANGED fReadOnly
    BY <1>1, <1>2, <1>3, <1>8 DEF MovesTo, Stays
  <2>2. {fBranched', fMounted', fReadOnly', fDeviceOpen'} \subseteq BOOLEAN /\ VolumeInv(cmt')
    BY <1>6, <2>1 DEF IInv
  <2>3. CASE fReadOnly
    <3>1. fReadOnly' = TRUE /\ work' \in VolumeStates
      BY <1>3, <2>1, <2>3 DEF IInv
    <3>. QED  BY <1>6, <2>2, <3>1, KeptReadOnly
  <2>4. CASE ~fReadOnly
    <3>1. VolumeInv(w) /\ UseOK(old, w) /\ old \in OpenInodes
      BY <1>1, <2>4 DEF IInv, RefsInv, Sound, RefsExact
    <3>2. /\ VolumeInv(v) /\ UseOK(dropped, v)
          /\ FlagsOK(old, w) => FlagsOK(dropped, v)
          /\ ~OtherReadOnly /\ Writeable => StrandedIn(dropped, v) \subseteq StrandedIn(old, w)
          /\ \A j \in Inodes : IsNamed(w, j) => IsNamed(v, j)
      <4>1. CASE i = ELSEWHERE
        <5>1. v = w /\ dropped = old
          BY <1>1, <1>3, <1>4, <4>1
        <5>. QED  BY <3>1, <5>1
      <4>2. CASE i # ELSEWHERE /\ ~fCurrentReadOnly
        <5>1. v = Cleaned(work, i) /\ dropped = WithoutRef(gaOpenInos, i)
          BY <1>1, <1>3, <1>4, <2>4, <4>2
        <5>2. i \in Inodes /\ gaOpenInos[i].uRefs # 0
          BY <1>1, <1>6, <4>2
        <5>. QED  BY <1>1, <2>4, <5>1, <5>2, ReferenceCleaned
      <4>3. CASE i # ELSEWHERE /\ fCurrentReadOnly
        <5>1. v = w /\ dropped = WithoutRef(old, i) /\ i \in Inodes /\ old[i].uRefs # 0
          BY <1>1, <1>3, <1>4, <1>6, <4>3
        <5>2. ~(~OtherReadOnly /\ Writeable)
          BY <4>3
        <5>3. UseOK(dropped, w) /\ (FlagsOK(old, w) => FlagsOK(dropped, w))
          BY <3>1, <5>1, UseDropped
        <5>. QED  BY <3>1, <5>1, <5>2, <5>3
      <4>. QED  BY <4>1, <4>2, <4>3
    <3>3. /\ UseOK(inos, v)
          /\ FlagsOK(old, w) => FlagsOK(inos, v)
          /\ ~OtherReadOnly /\ Writeable => StrandedIn(inos, v) \subseteq StrandedIn(old, w)
      <4>1. CASE d = ELSEWHERE
        <5>1. inos = dropped
          BY <1>5, <4>1
        <5>. QED  BY <3>2, <5>1
      <4>2. CASE d # ELSEWHERE
        <5>1. d \in Inodes /\ IsNamed(v, d) /\ inos = WithRef(dropped, d)
          BY <1>1, <1>5, <3>2, <4>2
        <5>2. /\ UseOK(inos, v)
              /\ FlagsOK(dropped, v) => FlagsOK(inos, v)
              /\ StrandedIn(inos, v) \subseteq StrandedIn(dropped, v)
          BY <1>6, <3>2, <5>1, UseAdded
        <5>. QED  BY <3>2, <5>2
      <4>. QED  BY <4>1, <4>2
    <3>4. \A j \in Inodes : Opened(inos, j) => fMounted'
      BY <1>6 DEF RefsInv
    <3>5. ~SameNameRenames /\ FlagInv => FlagsOK(inos, v)
      BY <1>1, <2>4, <3>3 DEF FlagInv
    <3>6. /\ work' = v /\ cmt' \in {cmt, v} /\ gaOpenInos' = inos
          /\ ~OtherReadOnly /\ Writeable => StrandedIn(inos, v) \subseteq StrandedIn(gaOpenInos, work)
      BY <1>1, <1>6, <2>1, <3>3
    <3>. QED  BY <1>6, <2>2, <3>2, <3>3, <3>4, <3>5, <3>6, KeptWhen
  <2>. QED  BY <2>3, <2>4
<1>. QED  BY <1>7, <1>8

(* A task moves within the volume, or away from it.                        *)
LEMMA DirectoryKeeps ==
  ASSUME IInv, NEW t \in Tasks
  PROVE  /\ \A d \in Inodes : ChangeDirectory(t, d) => Kept
         /\ LeaveDirectory(t) => Kept
<1>1. ASSUME NEW d \in Inodes, ChangeDirectory(t, d) PROVE Kept
  <2>1. PICK ro : ro = fReadOnly
    OBVIOUS
  <2>2. ro \in BOOLEAN /\ (Writeable => ~ro)
    BY <2>1 DEF IInv, Writeable
  <2>3. IsNamed(work, d) /\ fMounted /\ MovesTo(t, d, ro)
    BY <1>1, <2>1 DEF ChangeDirectory, MovesTo, Accessible
  <2>. QED  BY <2>2, <2>3, MovesToKeeps
<1>2. ASSUME LeaveDirectory(t) PROVE Kept
  <2>1. PICK ro : ro \in {fReadOnly, OtherReadOnly} /\ MovesTo(t, ELSEWHERE, ro)
    BY <1>2 DEF LeaveDirectory, MovesTo
  <2>2. ro \in BOOLEAN /\ (~OtherReadOnly /\ Writeable => ~ro)
    BY <2>1, OrphansAssumption DEF IInv, Writeable
  <2>. QED  BY <2>1, <2>2, MovesToKeeps
<1>. QED  BY <1>1, <1>2

(* Reclaiming, and a transaction point.                                    *)
LEMMA ReclaimKeeps ==
  ASSUME IInv, \/ \E ulCount \in 1 .. AllDefunct : FreeOrphans(ulCount)
               \/ CoreFull \/ Transact
  PROVE  Kept
<1>1. PICK inos, w : inos = gaOpenInos /\ w = work
  OBVIOUS
<1>2. VolumeInv(w) /\ UseOK(inos, w) /\ ~fReadOnly
  BY <1>1 DEF IInv, Sound, FreeOrphans, CoreFull, Transact, Writeable
<1>3. AllDefunct = N /\ N \in Nat /\ N \in 0 .. N /\ \A ulCount \in 1 .. N : ulCount \in 0 .. N
  BY InodeNumbers DEF AllDefunct, N
<1>4. ASSUME NEW ulCount \in 1 .. AllDefunct, FreeOrphans(ulCount) PROVE Kept
  <2>1. PICK v : v = FreeDefunct(w, ulCount)
    OBVIOUS
  <2>2. Calm(gaOpenInos, work, v)
    BY <1>1, <1>2, <1>3, <2>1, ReclaimIsCalm
  <2>3. EndsWith(v, TRUE) /\ UNCHANGED <<Rest, useVars>>
    BY <1>1, <1>4, <2>1 DEF FreeOrphans, EndsWith, Stays, Rest
  <2>. QED  BY <1>2, <2>2, <2>3, CalmCall
<1>5. ASSUME CoreFull PROVE Kept
  <2>1. PICK v : v = FreeDefunct(w, N)
    OBVIOUS
  <2>2. Calm(gaOpenInos, work, v)
    BY <1>1, <1>2, <1>3, <2>1, ReclaimIsCalm
  <2>3. (EndsWith(v, TRUE) \/ TransactFails(v, TRUE)) /\ UNCHANGED <<Rest, useVars>>
    BY <1>1, <1>3, <1>5, <2>1 DEF CoreFull, Rest
  <2>. QED  BY <1>2, <2>2, <2>3, CalmCall
<1>6. ASSUME Transact PROVE Kept
  <2>1. Calm(gaOpenInos, work, w)
    BY <1>1, <1>2 DEF Calm, UseOK
  <2>2. (EndsWith(w, TRUE) \/ TransactFails(w, TRUE)) /\ UNCHANGED <<Rest, useVars>>
    BY <1>1, <1>6 DEF Transact, EndsWith, Rest
  <2>. QED  BY <1>2, <2>1, <2>2, CalmCall
<1>. QED  BY <1>4, <1>5, <1>6

(* Nothing is open any more.                                               *)
LEMMA NoReferences ==
  ASSUME NothingOpen
  PROVE  /\ RefsInv'
         /\ \A w : UseOK(gaOpenInos', w) /\ FlagsOK(gaOpenInos', w)
<1>1. PICK inos, handles, cwds :
        /\ inos = [i \in Inodes |-> Closed] /\ handles = [h \in Handles |-> INODE_INVALID]
        /\ cwds = [t \in Tasks |-> ELSEWHERE]
  OBVIOUS
<1>2. /\ RefsExact(inos, handles, cwds)
      /\ \A i \in Inodes : ~Opened(inos, i)
      /\ \A w : UseOK(inos, w) /\ FlagsOK(inos, w)
  BY <1>1, NothingIsOpen
<1>3. gaOpenInos' = inos /\ gaHandle' = handles /\ pCwd' = cwds
  BY <1>1 DEF NothingOpen
<1>. QED  BY <1>2, <1>3 DEF RefsInv

(* What an unmount frees.                                                  *)
LEMMA FreeableFreed ==
  ASSUME IInv, ~fReadOnly
  PROVE  VolumeInv(AllFreed(work, Freeable))
<1>1. PICK w, S : w = work /\ S = {i \in Orphans(work) : gaOpenInos[i].fOrphan}
  OBVIOUS
<1>2. VolumeInv(w) /\ S \subseteq Orphans(w)
  BY <1>1 DEF IInv, Sound
<1>3. VolumeInv(AllFreed(w, S))
  BY <1>2, OrphansAllFreed
<1>4. S = Freeable
  BY <1>1 DEF Freeable
<1>. QED  BY <1>1, <1>3, <1>4

(* Rollback, unmount and loss of power leave nothing open.                 *)
LEMMA ClosingKeeps ==
  ASSUME IInv, Rollback \/ Unmount \/ PowerLoss
  PROVE  Kept
<1>1. /\ NothingOpen /\ {fBranched', fMounted', fReadOnly', fDeviceOpen'} \subseteq BOOLEAN
      /\ Rollback \/ ~Writeable'
  BY DEF Rollback, Unmount, PowerLoss, Stays, IInv, Writeable, Accessible
<1>2. \E v : VolumeInv(v) /\ work' = v /\ cmt' \in {cmt, v}
  <2>1. VolumeInv(cmt) /\ (~fReadOnly => VolumeInv(work))
    BY DEF IInv, Sound
  <2>2. CASE Rollback \/ PowerLoss
    BY <2>1, <2>2 DEF Rollback, PowerLoss, Stays, Writeable
  <2>3. CASE Unmount
    <3>1. PICK w : w = AllFreed(work, Freeable)
      OBVIOUS
    <3>2. work' = cmt' /\ (cmt' = cmt \/ (~fReadOnly /\ cmt' = w))
      BY <2>3, <3>1 DEF Unmount
    <3>3. ~fReadOnly => VolumeInv(w)
      BY <3>1, FreeableFreed
    <3>. QED  BY <2>1, <3>2, <3>3
  <2>. QED  BY <2>2, <2>3
<1>3. PICK v : VolumeInv(v) /\ work' = v /\ cmt' \in {cmt, v}
  BY <1>2
<1>4. PICK inos : gaOpenInos' = inos
  OBVIOUS
<1>5. /\ RefsExact(inos, gaHandle', pCwd') /\ UseOK(inos, v) /\ FlagsOK(inos, v)
      /\ \A i \in Inodes : Opened(inos, i) => fMounted'
  BY <1>1, <1>4, NoReferences DEF RefsInv
<1>. QED  BY <1>1, <1>3, <1>4, <1>5, KeptWhen

(* An error of a rollback leaves the references, one of an unmount does    *)
(* not.                                                                    *)
LEMMA ClosingFailsKeeps ==
  ASSUME IInv, RollbackFails \/ UnmountFails
  PROVE  Kept
<1>1. CASE RollbackFails
  <2>1. /\ fReadOnly' = TRUE /\ work' \in {work, cmt}
        /\ UNCHANGED <<cmt, fBranched, fMounted, fDeviceOpen, gaOpenInos, gaHandle, pCwd>>
    BY <1>1 DEF RollbackFails, useVars
  <2>2. /\ work' \in VolumeStates /\ VolumeInv(cmt')
        /\ {fBranched', fMounted', fDeviceOpen'} \subseteq BOOLEAN
    BY <2>1 DEF IInv, VolumeInv
  <2>3. RefsInv'
    BY <2>1, SameReferences
  <2>. QED  BY <2>1, <2>2, <2>3, KeptReadOnly
<1>2. CASE UnmountFails
  <2>1. PICK w, branched : w = AllFreed(work, Freeable) /\ branched = (fBranched \/ w # work)
    OBVIOUS
  <2>2. /\ ~fReadOnly /\ NothingOpen
        /\ \/ Aborts(work) /\ fMounted' = FALSE /\ fDeviceOpen' = FALSE
           \/ TransactFails(w, branched) /\ UNCHANGED Rest
    BY <1>2, <2>1 DEF UnmountFails, Writeable, Rest
  <2>3. RefsInv'
    BY <2>2, NoReferences
  <2>4. CASE Aborts(work) /\ fMounted' = FALSE /\ fDeviceOpen' = FALSE
    <3>1. work \in VolumeStates
      BY DEF IInv
    <3>. QED  BY <2>3, <2>4, <3>1, AbortKeeps
  <2>5. CASE TransactFails(w, branched) /\ UNCHANGED Rest
    <3>1. VolumeInv(w)
      BY <2>1, <2>2, FreeableFreed
    <3>. QED  BY <2>3, <2>5, <3>1, TransactFailsKeeps
  <2>. QED  BY <2>2, <2>4, <2>5
<1>. QED  BY <1>1, <1>2

(* A volume that is not mounted has nothing open when it is mounted.       *)
LEMMA MountKeeps ==
  ASSUME IInv, MountFails \/ \E ulFlags \in SUBSET {"RDONLY", "SKIP_DELETE"} : Mount(ulFlags)
  PROVE  Kept
<1>1. /\ ~fMounted /\ UNCHANGED useVars /\ cmt' = cmt
      /\ work' \in {Postponed(cmt), Purged(cmt), cmt}
      /\ {fBranched', fMounted', fReadOnly', fDeviceOpen'} \subseteq BOOLEAN
  <2>1. CASE MountFails
    BY <2>1 DEF MountFails, Stays, IInv
  <2>2. ASSUME NEW ulFlags \in SUBSET {"RDONLY", "SKIP_DELETE"}, Mount(ulFlags)
        PROVE  /\ ~fMounted /\ UNCHANGED useVars /\ cmt' = cmt
               /\ work' \in {Postponed(cmt), Purged(cmt), cmt}
               /\ {fBranched', fMounted', fReadOnly', fDeviceOpen'} \subseteq BOOLEAN
    BY <2>2 DEF Mount, Stays, IInv
  <2>. QED  BY <2>1, <2>2
<1>2. PICK c : c = cmt
  OBVIOUS
<1>3. PICK v : work' = v
  OBVIOUS
<1>4. VolumeInv(v)
  <2>1. VolumeInv(c)
    BY <1>2 DEF IInv
  <2>. QED  BY <1>1, <1>2, <1>3, <2>1, MountedLists
<1>5. PICK inos : inos = gaOpenInos
  OBVIOUS
<1>6. /\ gaOpenInos' = inos /\ RefsExact(inos, gaHandle', pCwd')
      /\ \A i \in Inodes : ~Opened(inos, i)
  BY <1>1, <1>5 DEF useVars, IInv, RefsInv
<1>7. UseOK(inos, v) /\ FlagsOK(inos, v)
  <2>1. \A i \in Inodes : ~inos[i].fOrphan
    BY <1>6 DEF RefsExact, Opened, OpenInodes
  <2>. QED  BY <1>6, <2>1 DEF UseOK, FlagsOK
<1>8. ~Writeable
  BY <1>1 DEF Writeable, Accessible
<1>. QED  BY <1>1, <1>3, <1>4, <1>6, <1>7, <1>8, KeptWhen

(* An error in another call makes the volume read-only.                    *)
LEMMA IoErrorKeeps ==
  ASSUME IInv, IoError
  PROVE  Kept
<1>1. /\ ~fReadOnly /\ UNCHANGED <<fMounted, fDeviceOpen, gaOpenInos, gaHandle, pCwd>>
      /\ \/ \E count \in 0 .. AllDefunct : Aborts(FreeDefunct(work, count))
         \/ \E i \in Inodes, fDirectory \in BOOLEAN :
              IsNewInode(i) /\ Aborts(NewInode(i, fDirectory))
  BY DEF IoError, Writeable, useVars
<1>2. RefsInv' /\ {fMounted', fDeviceOpen'} \subseteq BOOLEAN
  BY <1>1, SameReferences DEF IInv
<1>3. VolumeInv(work) /\ UseOK(gaOpenInos, work)
  BY <1>1 DEF IInv, Sound
<1>4. CASE \E count \in 0 .. AllDefunct : Aborts(FreeDefunct(work, count))
  <2>1. PICK w : w = work
    OBVIOUS
  <2>2. PICK count \in 0 .. N : Aborts(FreeDefunct(w, count))
    BY <1>4, <2>1 DEF AllDefunct, N
  <2>3. PICK v : v = FreeDefunct(w, count)
    OBVIOUS
  <2>4. v \in VolumeStates /\ Aborts(v)
    BY <1>3, <2>1, <2>2, <2>3, DefunctFreed DEF VolumeInv
  <2>. QED  BY <1>2, <2>4, AbortKeeps
<1>5. ASSUME NEW i \in Inodes, NEW fDirectory \in BOOLEAN,
             IsNewInode(i), Aborts(NewInode(i, fDirectory))
      PROVE  Kept
  <2>1. PICK v : v = NewInode(i, fDirectory)
    OBVIOUS
  <2>2. PICK inos : inos = gaOpenInos
    OBVIOUS
  <2>3. Calm(inos, work, v)
    BY <1>3, <1>5, <2>1, <2>2, CreateIsCalm
  <2>4. v \in VolumeStates /\ Aborts(v)
    BY <1>5, <2>1, <2>3 DEF Calm, VolumeInv
  <2>. QED  BY <1>2, <2>4, AbortKeeps
<1>. QED  BY <1>1, <1>4, <1>5

(* Other parts of the system take steps too.                               *)
LEMMA StutterKeeps ==
  ASSUME IInv, UNCHANGED vars
  PROVE  Kept
<1>1. PICK v, inos : v = work /\ inos = gaOpenInos
  OBVIOUS
<1>2. /\ work' = v /\ cmt' = cmt /\ gaOpenInos' = inos /\ gaHandle' = gaHandle /\ pCwd' = pCwd
      /\ UNCHANGED <<fBranched, fMounted, fDeviceOpen, fReadOnly>>
  BY <1>1 DEF vars, volVars, useVars
<1>3. {fBranched', fMounted', fReadOnly', fDeviceOpen'} \subseteq BOOLEAN /\ RefsInv'
  BY <1>1, <1>2, SameReferences DEF IInv
<1>4. CASE fReadOnly
  <2>1. fReadOnly' = TRUE /\ work' \in VolumeStates /\ VolumeInv(cmt')
    BY <1>1, <1>2, <1>4 DEF IInv
  <2>. QED  BY <1>3, <2>1, KeptReadOnly
<1>5. CASE ~fReadOnly
  <2>1. VolumeInv(v) /\ UseOK(inos, v)
    BY <1>1, <1>5 DEF IInv, Sound
  <2>2. RefsExact(inos, gaHandle', pCwd') /\ \A i \in Inodes : Opened(inos, i) => fMounted'
    BY <1>2, <1>3 DEF RefsInv
  <2>3. FlagInv => FlagsOK(inos, v)
    BY <1>1, <1>5 DEF FlagInv
  <2>. QED  BY <1>1, <1>2, <1>3, <2>1, <2>2, <2>3, KeptWhen
<1>. QED  BY <1>4, <1>5

-----------------------------------------------------------------------------
(* Theorems.                                                               *)

(* Every step keeps the invariant.                                         *)
LEMMA StepKeeps == IInv /\ [Next]_vars => Kept
<1> SUFFICES ASSUME IInv, [Next]_vars PROVE Kept
  OBVIOUS
<1>1. ASSUME NEW i \in Inodes,
             \/ MakeDirectory(i) \/ Link(i) \/ Unlink(i)
             \/ \E j \in Inodes : Rename(i, j)
             \/ \E h \in Handles : Open(h, i) \/ OpenNew(h, i)
             \/ \E t \in Tasks : ChangeDirectory(t, i)
      PROVE  Kept
  BY <1>1, MakeDirectoryKeeps, LinkKeeps, UnlinkKeeps, RenameKeeps, OpenKeeps, OpenNewKeeps,
     DirectoryKeeps
<1>2. ASSUME NEW h \in Handles, HandleClose(h) \/ HandleCloseFails(h) PROVE Kept
  BY <1>2, HandleCloseKeeps, HandleCloseFailsKeeps
<1>3. ASSUME NEW t \in Tasks, LeaveDirectory(t) PROVE Kept
  BY <1>3, DirectoryKeeps
<1>4. CASE \/ \E ulCount \in 1 .. AllDefunct : FreeOrphans(ulCount)
           \/ CoreFull \/ Transact
  BY <1>4, ReclaimKeeps
<1>5. CASE Rollback \/ Unmount \/ PowerLoss
  BY <1>5, ClosingKeeps
<1>6. CASE RollbackFails \/ UnmountFails
  BY <1>6, ClosingFailsKeeps
<1>7. CASE MountFails \/ \E ulFlags \in SUBSET {"RDONLY", "SKIP_DELETE"} : Mount(ulFlags)
  BY <1>7, MountKeeps
<1>8. CASE IoError
  BY <1>8, IoErrorKeeps
<1>9. CASE UNCHANGED vars
  BY <1>9, StutterKeeps
<1>. QED  BY <1>1, <1>2, <1>3, <1>4, <1>5, <1>6, <1>7, <1>8, <1>9 DEF Next

(* A formatted volume has two empty lists.                                 *)
LEMMA InitiallyKept == Init => IInv /\ FlagInv
<1> SUFFICES ASSUME Init PROVE IInv /\ FlagInv
  OBVIOUS
<1>1. PICK w : w = EmptyVolume
  OBVIOUS
<1>2. w \in VolumeStates /\ \A i \in Inodes : w.node[i] = Free
  BY <1>1 DEF EmptyVolume, VolumeStates, Nodes, Links
<1>3. Lists(w, 0, [k \in 0 .. -1 |-> k], 0, [k \in 0 .. -1 |-> k])
  <2> DEFINE e == [k \in 0 .. -1 |-> k]
  <2>1. 0 .. -1 = {} /\ 0 - 1 = -1
    OBVIOUS
  <2>2. Distinct(0, e) /\ Elements(0, e) = {}
    BY <2>1 DEF Distinct, Elements
  <2>3. At(0, e, 0) = INODE_INVALID /\ Tail(0, e) = INODE_INVALID
    BY DEF At, Tail
  <2>4. /\ w.ulOrphanHead = INODE_INVALID /\ w.ulDefunctOrphanHead = INODE_INVALID
        /\ w.ulOrphanTail = INODE_INVALID
    BY <1>1 DEF EmptyVolume
  <2> HIDE DEF e
  <2>5. Linked(w, INODE_INVALID, 0, e)
    BY <2>1, <2>2, <2>3 DEF Linked
  <2>6. \A i \in Inodes : ~IsOrphan(w, i)
    BY <1>2 DEF IsOrphan, Free
  <2>7. Lists(w, 0, e, 0, e)
    BY <2>2, <2>3, <2>4, <2>5, <2>6 DEF Lists
  <2>. QED  BY <2>7 DEF e
<1>4. VolumeInv(w)
  BY <1>2, <1>3, ListsMakeVolume
<1>5. PICK inos, handles, cwds : inos = gaOpenInos /\ handles = gaHandle /\ cwds = pCwd
  OBVIOUS
<1>6. /\ RefsExact(inos, handles, cwds) /\ \A i \in Inodes : ~Opened(inos, i)
      /\ UseOK(inos, w) /\ FlagsOK(inos, w)
  <2>1. /\ inos = [i \in Inodes |-> Closed] /\ handles = [h \in Handles |-> INODE_INVALID]
        /\ cwds = [t \in Tasks |-> ELSEWHERE]
    BY <1>5 DEF Init
  <2>. QED  BY <2>1, NothingIsOpen
<1>7. work = w /\ cmt = w /\ {fBranched, fMounted, fReadOnly, fDeviceOpen} \subseteq BOOLEAN
  BY <1>1 DEF Init
<1>8. w \in VolumeStates /\ Sound(inos, w)
  BY <1>4, <1>6 DEF VolumeInv, Sound
<1>. QED  BY <1>4, <1>5, <1>6, <1>7, <1>8 DEF IInv, RefsInv, FlagInv

(* The invariant holds in every state,                                     *)
LEMMA Invariance == Spec => []IInv
<1>1. IInv /\ [Next]_vars => IInv'
  BY StepKeeps DEF Kept
<1>. QED  BY <1>1, InitiallyKept, PTL DEF Spec

(* and with it the exactness of the flags, when no name is renamed to      *)
(* itself.                                                                 *)
LEMMA FlagInvariance ==
  ASSUME SameNameRenames = FALSE
  PROVE  Spec => [](IInv /\ FlagInv)
<1>1. (IInv /\ FlagInv) /\ [Next]_vars => (IInv /\ FlagInv)'
  BY StepKeeps DEF Kept
<1>. QED  BY <1>1, InitiallyKept, PTL DEF Spec

(* The volume, the open inodes, the handles and the working directories    *)
(* have the types the code gives them; there are no more references than   *)
(* handles and tasks.                                                      *)
THEOREM TypeCorrect == Spec => []TypeOK
<1>1. IInv => TypeOK
  <2> SUFFICES ASSUME IInv PROVE TypeOK
    OBVIOUS
  <2>1. PICK inos, handles, cwds : inos = gaOpenInos /\ handles = gaHandle /\ cwds = pCwd
    OBVIOUS
  <2>2. RefsExact(inos, handles, cwds)
    BY <2>1 DEF IInv, RefsInv
  <2>3. Cardinality(Handles) \in Nat /\ Cardinality(Tasks) \in Nat
    BY OrphansAssumption, FS_CardinalityType
  <2>4. \A i \in Inodes : inos[i].uRefs \in 0 .. Cardinality(Handles) + Cardinality(Tasks)
    <3> SUFFICES ASSUME NEW i \in Inodes
                 PROVE  inos[i].uRefs \in 0 .. Cardinality(Handles) + Cardinality(Tasks)
      OBVIOUS
    <3>1. /\ Cardinality(Users(handles, Handles, i)) \in Nat
          /\ Cardinality(Users(handles, Handles, i)) <= Cardinality(Handles)
          /\ Cardinality(Users(cwds, Tasks, i)) \in Nat
          /\ Cardinality(Users(cwds, Tasks, i)) <= Cardinality(Tasks)
      BY OrphansAssumption, UsersCounted
    <3>2. inos[i].uRefs = Cardinality(Users(handles, Handles, i)) + Cardinality(Users(cwds, Tasks, i))
      BY <2>2 DEF RefsExact
    <3>. QED  BY <2>3, <3>1, <3>2
  <2>5. inos \in [Inodes -> [uRefs : 0 .. Cardinality(Handles) + Cardinality(Tasks), fOrphan : BOOLEAN]]
    BY <2>2, <2>4 DEF RefsExact, OpenInodes
  <2>. QED  BY <2>1, <2>2, <2>5 DEF TypeOK, IInv, VolumeInv, RefsExact
<1>. QED  BY <1>1, Invariance, PTL

(* OpenInoDeref: an inode's count is that of its handles and working       *)
(* directories, whatever I/O fails, and none that one of them refers to is *)
(* freed on a volume that can be written.                                  *)
THEOREM ReferencesExact == Spec => []ReferencedInodesExist
<1>1. IInv => ReferencedInodesExist
  <2> SUFFICES ASSUME IInv PROVE ReferencedInodesExist
    OBVIOUS
  <2>1. \A i \in Inodes : IsOpen(i) => fMounted /\ (~fReadOnly => Exists(work, i))
    BY DEF IInv, RefsInv, Sound, UseOK, IsOpen, Opened
  <2>2. \A i \in Inodes :
          gaOpenInos[i].uRefs = Cardinality({h \in Handles : gaHandle[h] = i})
                                  + Cardinality({t \in Tasks : pCwd[t] = i})
    BY DEF IInv, RefsInv, RefsExact, Users
  <2>. QED  BY <2>1, <2>2 DEF ReferencedInodesExist
<1>. QED  BY <1>1, Invariance, PTL

(* RedInodeLinkDec, RedCoreFreeOrphan, RedVolFreeOrphans and               *)
(* ConcatOrphanLists leave two disjoint lists which hold every inode       *)
(* without a name once, in the committed state and in the working state of *)
(* a volume that can be written.                                           *)
THEOREM ListsCorrect == Spec => []OrphanListsExact
<1>1. IInv => OrphanListsExact
  <2> SUFFICES ASSUME IInv PROVE OrphanListsExact
    OBVIOUS
  <2>1. PICK w, c : w = work /\ c = cmt
    OBVIOUS
  <2>2. ListsExact(c) /\ (~fReadOnly => ListsExact(w))
    BY <2>1, VolumeListsExact DEF IInv, Sound
  <2>. QED  BY <2>1, <2>2 DEF OrphanListsExact
<1>. QED  BY <1>1, Invariance, PTL

(* InodeOrphaned: OIFLAG_ORPHAN marks exactly the open inodes without a    *)
(* name, all of which are in the list that RedCoreFreeOrphan searches, on  *)
(* a volume that can be written, unless a name is renamed to itself.       *)
THEOREM FlagsCorrect ==
  ASSUME SameNameRenames = FALSE
  PROVE  Spec => []OrphanFlagExact
<1>1. IInv /\ FlagInv => OrphanFlagExact
  <2> SUFFICES ASSUME IInv, FlagInv, ~fReadOnly, NEW i \in Inodes, IsOpen(i)
               PROVE  /\ gaOpenInos[i].fOrphan <=> IsOrphan(work, i)
                      /\ gaOpenInos[i].fOrphan => i \in Orphans(work)
    BY DEF OrphanFlagExact
  <2>1. PICK w, inos : w = work /\ inos = gaOpenInos
    OBVIOUS
  <2>2. VolumeInv(w) /\ UseOK(inos, w) /\ FlagsOK(inos, w) /\ Opened(inos, i)
        /\ inos[i].fOrphan \in BOOLEAN
    BY <2>1 DEF IInv, RefsInv, Sound, FlagInv, IsOpen, Opened, RefsExact, OpenInodes
  <2>3. IsOrphan(w, i) <=> i \in Orphans(w) \/ i \in DefunctOrphans(w)
    BY <2>2, OrphanKinds
  <2>4. inos[i].fOrphan <=> IsOrphan(w, i)
    BY <2>2 DEF UseOK, FlagsOK
  <2>5. inos[i].fOrphan => i \in Orphans(w)
    BY <2>2, <2>3, <2>4 DEF UseOK
  <2>. QED  BY <2>1, <2>4, <2>5
<1>. QED  BY <1>1, FlagInvariance, PTL

(* Unlinking, closing and leaving strand no orphan on a volume that can be *)
(* written, unless a read-only volume is the current one in OpenInoDeref.  *)
THEOREM NothingStranded ==
  ASSUME OtherReadOnly = FALSE
  PROVE  Spec => NoStrandedOrphans
<1>1. IInv /\ [Next]_vars =>
        [Writeable /\ Writeable' /\ ~Rollback => Stranded' \subseteq Stranded]_vars
  BY StepKeeps DEF Kept
<1>. QED  BY <1>1, Invariance, PTL DEF Spec, NoStrandedOrphans

=============================================================================
