---------------------------- MODULE PosixProofs ----------------------------
(***************************************************************************)
(* Theorems about Posix, for any number of volumes, tasks, handles, names  *)
(* and inodes, and any paths: a descriptor is accepted exactly as long as  *)
(* its handle is open, handles and working directories are valid and their *)
(* references counted, calls that fail change nothing, and the path of a   *)
(* directory leads back to it.                                             *)
(*                                                                         *)
(* Sound is the inductive invariant, but for the descriptors that are      *)
(* stale.  Each call is shown to answer: it keeps Sound, mounts nothing,   *)
(* and if it fails what a caller sees is as it was.                        *)
(***************************************************************************)
EXTENDS PosixLemmas

-----------------------------------------------------------------------------
(* Paths of directories.                                                   *)

\* The directory p has a name of i, and each of them leads to i.
NamedIn(v, p, i) ==
  /\ p \in Inodes /\ IsDir(v, p) /\ p \notin v.orphans \cup v.defunct /\ p # INODE_INVALID
  /\ \E k \in 0 .. DIRENTS_MAX - 1 : Used(v, p, k) /\ v.node[p].dirents[k].ino = i
  /\ \A k \in 0 .. DIRENTS_MAX - 1 : Used(v, p, k) /\ v.node[p].dirents[k].ino = i =>
       /\ v.node[p].dirents[k].name \in Names
       /\ RedCoreLookup(v, p, v.node[p].dirents[k].name).ino = i \/ ~v.fMounted
       /\ RedCoreLookup(v, p, v.node[p].dirents[k].name).ret = "OK" \/ ~v.fMounted

\* What DirProofs says of a directory that has a name.
LEMMA NamedDirIs ==
  ASSUME NEW v, VolumeGood(v), NEW i, IsDir(v, i), i \notin v.orphans \cup v.defunct, i # ROOT,
         NEW p, p = v.node[i].ulPInode
  PROVE  NamedIn(v, p, i)
<1>. DEFINE q == AsDir(v)
<1>1. /\ v \in PosixVolumes /\ q \in DirVolumes /\ q.node = v.node /\ q.orphans = v.orphans \cup v.defunct
      /\ Tidy(q) /\ \A j : (Exists(q, j) <=> Exists(v, j)) /\ (IsDir(q, j) <=> IsDir(v, j))
  BY VolumeIs DEF VolumeGood, ContentGood
<1>. HIDE DEF q
<1>2. i \in Inodes /\ i # INODE_INVALID /\ i \in LiveDirs(q)
  BY <1>1, DirAssumption DEF LiveDirs, IsDir, Exists
<1>3. p \in LiveDirs(q)
  BY <1>1, <1>2, ParentIs
<1>4. p \in Inodes /\ IsDir(v, p) /\ p \notin v.orphans \cup v.defunct /\ p # INODE_INVALID
  BY <1>1, <1>3, DirAssumption DEF LiveDirs
<1>5. \E k \in 0 .. DIRENTS_MAX - 1 : Used(v, p, k) /\ v.node[p].dirents[k].ino = i
  <2>1. ~Closed(q, Inodes \ {i})
    BY <1>1, <1>2 DEF Tidy, Connected, Reached, Live, LiveDirs, IsDir
  <2>2. PICK c, k : c \in Inodes /\ Leads(q, c, k, i)
    BY <1>2, <2>1, DirAssumption DEF Closed
  <2>3. c = p
    BY <1>1, <1>2, <2>2, DirAssumption DEF Tidy, TidyOff, OneParent, LiveDirs
  <2>. QED  BY <1>1, <1>2, <2>2, <2>3 DEF Leads, Used
<1>6. ASSUME NEW k \in 0 .. DIRENTS_MAX - 1, Used(v, p, k), v.node[p].dirents[k].ino = i,
             NEW name, name = v.node[p].dirents[k].name, NEW at, at = RedCoreLookup(v, p, name)
      PROVE  name \in Names /\ (v.fMounted => at.ret = "OK" /\ at.ino = i)
  <2>1. name \in Names
    <3>1. name # ""
      <4>1. Used(q, p, k)
        BY <1>1, <1>6 DEF Used
      <4>2. IsDir(q, p)
        BY <1>1, <1>4
      <4>. QED  BY <1>1, <1>4, <1>6, <4>1, <4>2 DEF Tidy, TidyOff, NamesLead
    <3>2. v.node[p] \in Nodes
      BY <1>1, <1>4 DEF PosixVolumes
    <3>3. v.node[p].dirents[k].name \in Names \cup {""}
      BY ONLY k \in 0 .. DIRENTS_MAX - 1, <3>2 DEF Nodes, Dirents
    <3>. QED  BY ONLY name = v.node[p].dirents[k].name, <3>1, <3>3
  <2>2. ASSUME v.fMounted PROVE at.ret = "OK" /\ at.ino = i
    <3>1. at = RedDirEntryLookup(q, p, name)
      <4>1. at = RedDirEntryLookup(v, p, name)
        BY <1>4, <1>6, <2>2 DEF RedCoreLookup, MountDir, IsDir
      <4>. QED  BY <1>1, <4>1, LookupAlike
    <3>2. IsDir(q, p) /\ Sized(q, p)
      BY <1>1, <1>4 DEF Tidy, TidyOff, Shape
    <3>0. LET x == RedDirEntryLookup(q, p, name) IN
          /\ x.ret \in {"OK", "ENOENT", "ENOTDIR", "EINVAL", "ENAMETOOLONG"}
          /\ x.ret = "OK" => /\ x.idx \in 0 .. DIRENTS_MAX - 1 /\ Used(q, p, x.idx)
                             /\ q.node[p].dirents[x.idx] = [name |-> name, ino |-> x.ino]
          /\ x.ret = "ENOENT" =>
               \A j \in 0 .. DIRENTS_MAX - 1 : Used(q, p, j) => q.node[p].dirents[j].name # name
      <4>1. q \in DirVolumes
        BY <1>1
      <4>2. IsDir(q, p) => Sized(q, p)
        BY <3>2
      <4>. QED  BY ONLY <4>1, <4>2, LookupIs
    <3>3. at.ret # "ENOTDIR" /\ at.ret # "EINVAL" /\ at.ret # "ENAMETOOLONG"
      <4>1. name # ""
        <5>1. Used(q, p, k)
          BY <1>1, <1>6 DEF Used
        <5>. QED  BY <1>1, <1>4, <1>6, <3>2, <5>1 DEF Tidy, TidyOff, NamesLead
      <4>2. name \notin LongNames
        BY <2>1, NamesAssumption
      <4>. QED  BY ONLY <3>1, <3>2, <4>1, <4>2 DEF RedDirEntryLookup
    <3>4. at.ret # "ENOENT"
      <4>1. at.ret = "ENOENT" =>
              \A j \in 0 .. DIRENTS_MAX - 1 : Used(q, p, j) => q.node[p].dirents[j].name # name
        BY ONLY <3>0, <3>1
      <4>2. Used(q, p, k) /\ q.node[p].dirents[k].name = name
        BY <1>1, <1>6 DEF Used
      <4>. QED  BY <4>1, <4>2
    <3>5. at.ret = "OK"
      BY ONLY <3>0, <3>1, <3>3, <3>4
    <3>6. /\ at.idx \in 0 .. DIRENTS_MAX - 1 /\ Used(q, p, at.idx)
          /\ q.node[p].dirents[at.idx] = [name |-> name, ino |-> at.ino]
      BY ONLY <3>0, <3>1, <3>5
    <3>7. at.idx = k
      <4>1. Used(q, p, k) /\ q.node[p].dirents[k].name = name
        BY <1>1, <1>6 DEF Used
      <4>2. q.node[p].dirents[at.idx].name = name
        BY <3>6
      <4>. QED  BY <1>1, <1>4, <3>2, <3>6, <4>1, <4>2 DEF Tidy, TidyOff, UniqueNames
    <3>8. q.node[p].dirents[k].ino = i /\ q.node[p].dirents[k] = [name |-> name, ino |-> at.ino]
      BY ONLY <1>1, <1>6, <3>6, <3>7
    <3>. QED  BY ONLY <3>5, <3>8
  <2>. QED  BY <2>1, <2>2
<1>. QED  BY <1>4, <1>5, <1>6 DEF NamedIn

\* The parent of a directory that has a name, as a walk asks for it.
LEMMA ParentAsked ==
  ASSUME NEW v, VolumeGood(v), v.fMounted, NEW i, IsDir(v, i), i \notin v.orphans \cup v.defunct, i # ROOT
  PROVE  RedCoreDirParent(v, i) = [ret |-> "OK", ino |-> v.node[i].ulPInode]
<1>1. v.node[i].ulPInode # INODE_INVALID
  <2>1. NamedIn(v, v.node[i].ulPInode, i)
    BY NamedDirIs
  <2>. QED  BY ONLY <2>1 DEF NamedIn
<1>. QED  BY <1>1 DEF RedCoreDirParent, MountDir, IsDir

\* g are the states of a walk.
Walks(v, dir, names, nofollow, g) ==
  /\ g[0] = [ret |-> RedCoreDirParent(v, dir).ret, ino |-> dir, p |-> RedCoreDirParent(v, dir).ino]
  /\ \A k \in 1 .. Len(names) : g[k] = WalkName(v, g[k - 1], names[k], k = Len(names), nofollow)
  /\ PathWalk(v, dir, names, nofollow) = g[Len(names)]

\* There are such states.
LEMMA WalksIs ==
  ASSUME NEW v, NEW dir, NEW names, names \in Seq(Names), NEW nofollow
  PROVE  \E g : Walks(v, dir, names, nofollow, g)
<1>1. PICK S : S = Names
  OBVIOUS
<1>2. names \in Seq(S)
  BY <1>1
<1>3. PICK g : /\ g[0] = [ret |-> RedCoreDirParent(v, dir).ret, ino |-> dir, p |-> RedCoreDirParent(v, dir).ino]
               /\ \A k \in 1 .. Len(names) : g[k] = WalkName(v, g[k - 1], names[k], k = Len(names), nofollow)
               /\ PathWalk(v, dir, names, nofollow) = g[Len(names)]
  BY ONLY <1>2, PathWalkIs
<1>. QED  BY ONLY <1>3 DEF Walks

\* A name in front of a path.
LEMMA InFront ==
  ASSUME NEW S, NEW name \in S, NEW path \in Seq(S), NEW names, names = <<name>> \o path, NEW m, m = Len(path)
  PROVE  /\ names \in Seq(S) /\ m \in Nat /\ Len(names) = m + 1 /\ names[1] = name
         /\ \A n \in 1 .. m : names[n + 1] = path[n]
OBVIOUS

\* A walk from the parent of a directory by its name goes on as one from the
\* directory.
LEMMA WalkFromParent ==
  ASSUME NEW v, VolumeGood(v), v.fMounted, NEW i, IsDir(v, i), i \notin v.orphans \cup v.defunct, i # ROOT,
         NEW p, p = v.node[i].ulPInode, NEW k \in 0 .. DIRENTS_MAX - 1, Used(v, p, k), v.node[p].dirents[k].ino = i,
         NEW name, name = v.node[p].dirents[k].name, NEW path \in Seq(Names), NEW f
  PROVE  /\ <<name>> \o path \in Seq(Names)
         /\ PathWalk(v, p, <<name>> \o path, f) = PathWalk(v, i, path, f)
<1>1. /\ p \in Inodes /\ IsDir(v, p) /\ p \notin v.orphans \cup v.defunct /\ name \in Names
      /\ RedCoreLookup(v, p, name).ret = "OK" /\ RedCoreLookup(v, p, name).ino = i
  <2>1. NamedIn(v, p, i)
    BY ONLY VolumeGood(v), IsDir(v, i), i \notin v.orphans \cup v.defunct, i # ROOT, p = v.node[i].ulPInode, NamedDirIs
  <2>. QED  BY ONLY v.fMounted, Used(v, p, k), v.node[p].dirents[k].ino = i, name = v.node[p].dirents[k].name,
                    k \in 0 .. DIRENTS_MAX - 1, <2>1 DEF NamedIn
<1>2. PICK names : names = <<name>> \o path
  OBVIOUS
<1>3. PICK m : m = Len(path)
  OBVIOUS
<1>4. /\ names \in Seq(Names) /\ m \in Nat /\ Len(names) = m + 1 /\ names[1] = name
      /\ \A n \in 1 .. m : names[n + 1] = path[n]
  <2>1. name \in Names
    BY <1>1
  <2>. QED  BY ONLY path \in Seq(Names), <1>2, <1>3, <2>1, InFront
<1>a. PICK g : Walks(v, p, names, f, g)
  BY <1>4, WalksIs
<1>b. PICK h : Walks(v, i, path, f, h)
  BY WalksIs
<1>5. /\ g[0] = [ret |-> RedCoreDirParent(v, p).ret, ino |-> p, p |-> RedCoreDirParent(v, p).ino]
      /\ \A n \in 1 .. Len(names) : g[n] = WalkName(v, g[n - 1], names[n], n = Len(names), f)
      /\ PathWalk(v, p, names, f) = g[Len(names)]
  BY ONLY <1>a DEF Walks
<1>6. /\ h[0] = [ret |-> RedCoreDirParent(v, i).ret, ino |-> i, p |-> RedCoreDirParent(v, i).ino]
      /\ \A n \in 1 .. m : h[n] = WalkName(v, h[n - 1], path[n], n = Len(path), f)
      /\ PathWalk(v, i, path, f) = h[Len(path)]
  BY ONLY <1>3, <1>b DEF Walks
<1>8. g[1] = h[0]
  <2>1. g[1] = WalkName(v, g[0], name, 1 = Len(names), f)
    <3>1. 1 \in 1 .. Len(names) /\ 1 - 1 = 0
      BY <1>4
    <3>. QED  BY ONLY <1>4, <1>5, <3>1
  <2>2. g[0].ret = "OK" /\ g[0].ino = p
    <3>1. RedCoreDirParent(v, p).ret = "OK"
      <4>1. CASE p = ROOT
        BY <4>1 DEF RedCoreDirParent
      <4>2. CASE p # ROOT
        BY ONLY VolumeGood(v), v.fMounted, <1>1, <4>2, ParentAsked
      <4>. QED  BY <4>1, <4>2
    <3>. QED  BY <1>5, <3>1
  <2>3. WalkName(v, g[0], name, 1 = Len(names), f) = [ret |-> "OK", ino |-> i, p |-> p]
    <3>1. MountDir(v, p) = "OK" /\ name # "." /\ name # ".."
      BY <1>1, NamesAssumption DEF MountDir, IsDir
    <3>2. v.node[i].type # "LNK"
      BY DEF IsDir
    <3>3. PICK w : w = g[0]
      OBVIOUS
    <3>4. PICK at : at = RedCoreLookup(v, p, name)
      OBVIOUS
    <3>5. WalkName(v, w, name, 1 = Len(names), f) = [ret |-> "OK", ino |-> at.ino, p |-> p]
      BY ONLY <1>1, <2>2, <3>1, <3>2, <3>3, <3>4 DEF WalkName
    <3>. QED  BY ONLY <1>1, <3>3, <3>4, <3>5
  <2>4. h[0] = [ret |-> "OK", ino |-> i, p |-> p]
    BY <1>6, ParentAsked
  <2>. QED  BY <2>1, <2>3, <2>4
<1>9. g[m + 1] = h[m]
  <2>. DEFINE Bad == {n \in Nat : n <= m /\ g[n + 1] # h[n]}
  <2>. SUFFICES ASSUME Bad # {} PROVE FALSE
    <3>1. m <= m /\ m \in Nat
      BY <1>4
    <3>2. m \notin Bad => g[m + 1] = h[m]
      BY <3>1
    <3>. QED  BY <3>2
  <2>1. PICK n \in Bad : \A j \in Bad : n <= j
    BY LeastMember
  <2>2. n # 0
    BY <1>8, <2>1
  <2>3. n \in 1 .. m /\ n + 1 \in 1 .. m + 1 /\ n - 1 \in Nat /\ n - 1 <= m /\ (n - 1) + 1 = n /\ (n + 1) - 1 = n
        /\ ~(n <= n - 1)
    BY <1>4, <2>1, <2>2
  <2>4. g[n] = h[n - 1]
    BY <2>1, <2>3
  <2>5. g[n + 1] = WalkName(v, g[n], names[n + 1], n + 1 = Len(names), f)
    <3>1. g[n + 1] = WalkName(v, g[(n + 1) - 1], names[n + 1], n + 1 = Len(names), f)
      BY ONLY <1>4, <1>5, <2>3
    <3>. QED  BY ONLY <2>3, <3>1
  <2>6. h[n] = WalkName(v, h[n - 1], path[n], n = Len(path), f)
    BY <1>3, <1>6, <2>3
  <2>7. names[n + 1] = path[n]
    BY <1>4, <2>3
  <2>8. WalkName(v, g[n], names[n + 1], n + 1 = Len(names), f) = WalkName(v, g[n], names[n + 1], n = Len(path), f)
    <3>1. (n + 1 = Len(names)) = (n = Len(path))
      BY <1>3, <1>4, <2>3
    <3>. QED  BY ONLY <3>1
  <2>9. g[n + 1] = h[n]
    BY ONLY <2>4, <2>5, <2>6, <2>7, <2>8
  <2>. QED  BY <2>1, <2>9
<1>10. PathWalk(v, p, names, f) = PathWalk(v, i, path, f)
  BY ONLY <1>3, <1>4, <1>5, <1>6, <1>9
<1>. QED  BY <1>2, <1>4, <1>10

\* One directory up, in DirInodeToPath.
NameEntries(v, i) ==
  {k \in 0 .. DIRENTS_MAX - 1 : /\ Used(v, RedCoreDirParent(v, i).ino, k)
                                /\ v.node[RedCoreDirParent(v, i).ino].dirents[k].ino = i}
NameOf(v, i) == v.node[RedCoreDirParent(v, i).ino].dirents[Min(NameEntries(v, i))].name
Climb(v, w) ==
  IF w.ret # "OK" \/ w.ino = ROOT THEN w
  ELSE IF RedCoreDirParent(v, w.ino).ret # "OK" THEN [w EXCEPT !.ret = RedCoreDirParent(v, w.ino).ret]
  ELSE IF NameEntries(v, w.ino) = {} THEN [w EXCEPT !.ret = "EFUBAR"]
  ELSE [w EXCEPT !.ino = RedCoreDirParent(v, w.ino).ino, !.path = <<NameOf(v, w.ino)>> \o @]

\* DirInodeToPath is as many steps up as there are inodes.
LEMMA ClimbIs ==
  ASSUME NEW v, NEW dir, NEW C, C = Cardinality(Inodes), NEW x, x = [ret |-> "OK", ino |-> dir, path |-> <<>>],
         NEW D, x \in D, NEW F, F \in [D -> D], \A w \in D : F[w] = Climb(v, w)
  PROVE  \E h : Iterates(D, F, x, C, h) /\ DirInodeToPath(v, dir) = h[C]
<1>1. C \in Nat
  BY DirAssumption, FS_CardinalityType
<1>2. PICK h : Iterates(D, F, x, C, h)
  BY <1>1, IterateIs
<1>3. h \in [0 .. C -> D] /\ h[0] = x /\ \A n \in 1 .. C : h[n] = F[h[n - 1]]
  BY ONLY <1>2 DEF Iterates
<1>. DEFINE E(f, n) == IF n = 0 THEN x ELSE Climb(v, f[n - 1])
<1>4. ASSUME NEW n \in 0 .. C PROVE h[n] = E(h, n)
  <2>1. CASE n = 0
    BY <1>3, <2>1
  <2>2. CASE n # 0
    <3>1. n \in 1 .. C /\ n - 1 \in 0 .. C
      BY <1>1, <2>2
    <3>2. h[n - 1] \in D /\ h[n] = F[h[n - 1]]
      BY <1>3, <3>1
    <3>. QED  BY <2>2, <3>2
  <2>. QED  BY <2>1, <2>2
<1>5. h = [n \in 0 .. C |-> E(h, n)]
  <2>. HIDE DEF E
  <2>1. h = [n \in 0 .. C |-> h[n]]
    BY <1>3
  <2>. QED  BY <1>4, <2>1
<1>6. PICK a : a = CHOOSE f : f = [n \in 0 .. Cardinality(Inodes) |->
                     IF n = 0 THEN [ret |-> "OK", ino |-> dir, path |-> <<>>] ELSE Climb(v, f[n - 1])]
  OBVIOUS
<1>7. a = [n \in 0 .. C |-> E(a, n)]
  <2>1. h = [n \in 0 .. Cardinality(Inodes) |->
               IF n = 0 THEN [ret |-> "OK", ino |-> dir, path |-> <<>>] ELSE Climb(v, h[n - 1])]
    BY <1>5
  <2>2. a = [n \in 0 .. Cardinality(Inodes) |->
               IF n = 0 THEN [ret |-> "OK", ino |-> dir, path |-> <<>>] ELSE Climb(v, a[n - 1])]
    BY ONLY <1>6, <2>1
  <2>. QED  BY <2>2
<1>8. DirInodeToPath(v, dir) = a[C]
  <2>1. DirInodeToPath(v, dir) = a[Cardinality(Inodes)]
    BY <1>6, Zenon DEF DirInodeToPath, Climb, NameEntries, NameOf
  <2>. QED  BY ONLY <2>1, C = Cardinality(Inodes)
<1>9. a[C] = h[C]
  <2>. DEFINE Bad == {m \in Nat : m <= C /\ a[m] # h[m]}
  <2>. SUFFICES ASSUME Bad # {} PROVE FALSE
    <3>1. C <= C
      BY <1>1
    <3>2. C \notin Bad => a[C] = h[C]
      BY <1>1, <3>1
    <3>. QED  BY <3>2
  <2>1. PICK m \in Bad : \A k \in Bad : m <= k
    BY LeastMember
  <2>2. m \in 0 .. C
    BY <2>1
  <2>3. a[m] = E(a, m) /\ h[m] = E(h, m)
    BY ONLY <1>5, <1>7, <2>2
  <2>4. m # 0
    BY <2>1, <2>3
  <2>5. m - 1 \in Nat /\ m - 1 <= C /\ ~(m <= m - 1)
    BY <1>1, <2>2, <2>4
  <2>6. a[m - 1] = h[m - 1]
    BY <2>1, <2>5
  <2>7. a[m] = h[m]
    BY ONLY <2>3, <2>6
  <2>. QED  BY <2>1, <2>7
<1>. QED  BY <1>2, <1>8, <1>9

\* A removed directory has no parent and no path.
LEMMA RemovedHasNoPath ==
  ASSUME NEW v, VolumeGood(v), v.fMounted, NEW dir, IsDir(v, dir), dir \in v.orphans, dir # ROOT
  PROVE  DirInodeToPath(v, dir).ret = "ENOENT"
<1>1. v.node[dir].ulPInode = INODE_INVALID
  <2>1. Tidy(AsDir(v)) /\ AsDir(v).orphans = v.orphans \cup v.defunct /\ AsDir(v).node = v.node
        /\ \A j : IsDir(AsDir(v), j) <=> IsDir(v, j)
    BY VolumeIs DEF VolumeGood, ContentGood
  <2>. QED  BY <2>1 DEF Tidy, TidyOff, Orphaned
<1>2. RedCoreDirParent(v, dir).ret = "ENOENT"
  BY <1>1 DEF RedCoreDirParent, MountDir, IsDir
<1>3. PICK x, y : /\ x = [ret |-> "OK", ino |-> dir, path |-> <<>>]
                  /\ y = [ret |-> "ENOENT", ino |-> dir, path |-> <<>>]
  OBVIOUS
<1>4. Climb(v, x) = y /\ Climb(v, y) = y
  <2>1. x.ret = "OK" /\ x.ino = dir /\ y.ret # "OK" /\ [x EXCEPT !.ret = "ENOENT"] = y
    BY <1>3
  <2>. QED  BY <1>2, <2>1 DEF Climb
<1>5. PICK D : D = {x, y}
  OBVIOUS
<1>6. PICK F : F = [w \in D |-> y]
  OBVIOUS
<1>7. F \in [D -> D] /\ x \in D /\ \A w \in D : F[w] = Climb(v, w)
  BY <1>4, <1>5, <1>6
<1>8. PICK C : C = Cardinality(Inodes)
  OBVIOUS
<1>9. C \in Nat /\ C # 0
  <2>1. Inodes # {}
    BY DirAssumption
  <2>. QED  BY <1>8, <2>1, DirAssumption, FS_CardinalityType, FS_EmptySet
<1>10. PICK h : Iterates(D, F, x, C, h) /\ DirInodeToPath(v, dir) = h[C]
  BY ONLY <1>3, <1>7, <1>8, ClimbIs
<1>11. C \in 1 .. C /\ C - 1 \in 0 .. C
  BY <1>9
<1>12. h[C] = y
  BY <1>6, <1>10, <1>11 DEF Iterates
<1>. QED  BY <1>3, <1>10, <1>12

\* The path of the root is empty.
LEMMA RootHasPath ==
  ASSUME NEW v
  PROVE  DirInodeToPath(v, ROOT) = [ret |-> "OK", ino |-> ROOT, path |-> <<>>]
<1>1. PICK x : x = [ret |-> "OK", ino |-> ROOT, path |-> <<>>]
  OBVIOUS
<1>2. PICK D, F, C : D = {x} /\ F = [w \in D |-> x] /\ C = Cardinality(Inodes)
  OBVIOUS
<1>3. F \in [D -> D] /\ x \in D /\ \A w \in D : F[w] = Climb(v, w)
  BY <1>1, <1>2 DEF Climb
<1>4. PICK h : Iterates(D, F, x, C, h) /\ DirInodeToPath(v, ROOT) = h[C]
  BY ONLY <1>1, <1>2, <1>3, ClimbIs
<1>5. C \in 0 .. C
  BY <1>2, DirAssumption, FS_CardinalityType
<1>6. h[C] \in D
  BY <1>4, <1>5 DEF Iterates
<1>. QED  BY <1>1, <1>2, <1>4, <1>6

\* The root is above every directory that has a name.
LEMMA RootIsAbove ==
  ASSUME NEW v, Tidy(v), NEW d, d \in LiveDirs(v), NEW a, NEW C, C = Cardinality(Inodes), ParentsOf(v, d, a)
  PROVE  a[C] = ROOT
<1>1. C \in Nat
  BY DirAssumption, FS_CardinalityType
<1>2. PICK b : ParentsOf(v, d, b) /\ Ancestors(v, d) = {b[n] : n \in 0 .. C}
  BY AncestorsFollowed
<1>3. a[0] = d /\ \A n \in 1 .. C : a[n] = IF a[n - 1] = ROOT THEN ROOT ELSE v.node[a[n - 1]].ulPInode
  BY ONLY C = Cardinality(Inodes), ParentsOf(v, d, a) DEF ParentsOf
<1>4. b[0] = d /\ \A n \in 1 .. C : b[n] = IF b[n - 1] = ROOT THEN ROOT ELSE v.node[b[n - 1]].ulPInode
  BY ONLY C = Cardinality(Inodes), <1>2 DEF ParentsOf
<1>5. ASSUME NEW n \in Nat, n <= C PROVE a[n] = b[n]
  <2>. DEFINE Bad == {m \in Nat : m <= C /\ a[m] # b[m]}
  <2>. SUFFICES ASSUME Bad # {} PROVE FALSE
    BY <1>5
  <2>1. PICK m \in Bad : \A k \in Bad : m <= k
    BY LeastMember
  <2>2. m # 0
    BY <1>3, <1>4, <2>1
  <2>3. m \in 1 .. C /\ m - 1 \in Nat /\ m - 1 <= C /\ ~(m <= m - 1)
    BY <1>1, <2>1, <2>2
  <2>4. a[m - 1] = b[m - 1]
    BY <2>1, <2>3
  <2>5. a[m] = b[m]
    BY ONLY <1>3, <1>4, <2>3, <2>4
  <2>. QED  BY <2>1, <2>5
<1>6. ROOT \in Ancestors(v, d)
  <2>. SUFFICES ASSUME ROOT \notin Ancestors(v, d) PROVE FALSE
    OBVIOUS
  <2>1. /\ d \in Ancestors(v, d) /\ Ancestors(v, d) \subseteq LiveDirs(v)
        /\ \A i \in Ancestors(v, d) : v.node[i].ulPInode \in Ancestors(v, d)
    BY AncestorsAre
  <2>2. PICK A : A = Ancestors(v, d)
    OBVIOUS
  <2>3. Closed(v, Inodes \ A)
    <3>1. ASSUME NEW c \in Inodes \ A, NEW i \in Inodes, NEW k, Leads(v, c, k, i), i \in A PROVE FALSE
      <4>1. IsDir(v, i) /\ i # ROOT /\ i # INODE_INVALID
        BY <2>1, <2>2, <3>1, DirAssumption DEF LiveDirs
      <4>2. c = v.node[i].ulPInode
        BY <3>1, <4>1 DEF Tidy, TidyOff, OneParent
      <4>. QED  BY <2>1, <2>2, <3>1, <4>2
    <3>2. ROOT \in Inodes \ A
      BY <2>2, DirAssumption
    <3>. QED  BY <3>1, <3>2 DEF Closed
  <2>4. d \in Inodes /\ Live(v, d)
    BY DEF LiveDirs, Live, IsDir
  <2>5. d \in Inodes \ A
    BY <2>3, <2>4 DEF Tidy, Connected, Reached
  <2>. QED  BY <2>1, <2>2, <2>5
<1>7. PICK r \in 0 .. C : b[r] = ROOT
  BY <1>2, <1>6
<1>8. ASSUME NEW n \in Nat, r <= n, n <= C PROVE b[n] = ROOT
  <2>. DEFINE Bad == {m \in Nat : r <= m /\ m <= C /\ b[m] # ROOT}
  <2>. SUFFICES ASSUME Bad # {} PROVE FALSE
    BY <1>8
  <2>1. PICK m \in Bad : \A k \in Bad : m <= k
    BY LeastMember
  <2>2. m # r
    BY <1>7, <2>1
  <2>3. m \in 1 .. C /\ m - 1 \in Nat /\ m - 1 <= C /\ r <= m - 1 /\ ~(m <= m - 1)
    BY <1>1, <1>7, <2>1, <2>2
  <2>4. b[m - 1] = ROOT
    BY <2>1, <2>3
  <2>5. b[m] = ROOT
    BY ONLY <1>4, <2>3, <2>4
  <2>. QED  BY <2>1, <2>5
<1>. QED  BY <1>1, <1>5, <1>7, <1>8

\* The states of the climb from a directory: what is left of the way, walked
\* down again, leads to it.
WayStates(v, dir, f) ==
  {w \in [ret : {"OK"}, ino : LiveDirs(AsDir(v)), path : Seq(Names)] :
     PathWalk(v, w.ino, w.path, f).ino = dir}

\* A step up keeps that.
LEMMA ClimbKeeps ==
  ASSUME NEW v, VolumeGood(v), v.fMounted, NEW dir, NEW f, NEW w \in WayStates(v, dir, f)
  PROVE  /\ Climb(v, w) \in WayStates(v, dir, f)
         /\ Climb(v, w).ino = IF w.ino = ROOT THEN ROOT ELSE v.node[w.ino].ulPInode
<1>. DEFINE i == w.ino
<1>1. /\ w = [ret |-> "OK", ino |-> i, path |-> w.path] /\ w.ret = "OK"
      /\ i \in LiveDirs(AsDir(v)) /\ w.path \in Seq(Names) /\ PathWalk(v, i, w.path, f).ino = dir
  BY DEF WayStates
<1>2. /\ AsDir(v).orphans = v.orphans \cup v.defunct /\ \A j : IsDir(AsDir(v), j) <=> IsDir(v, j)
  BY VolumeIs DEF VolumeGood
<1>3. \A j : j \in LiveDirs(AsDir(v)) <=> j \in Inodes /\ IsDir(v, j) /\ j \notin v.orphans \cup v.defunct
  BY <1>2 DEF LiveDirs
<1>. HIDE DEF i
<1>4. CASE i = ROOT
  BY <1>4 DEF Climb, i
<1>5. CASE i # ROOT
  <2>1. IsDir(v, i) /\ i \notin v.orphans \cup v.defunct
    BY <1>1, <1>3
  <2>2. PICK p : p = v.node[i].ulPInode
    OBVIOUS
  <2>3. RedCoreDirParent(v, i).ret = "OK" /\ RedCoreDirParent(v, i).ino = p
    BY <1>5, <2>1, <2>2, ParentAsked
  <2>4. /\ p \in Inodes /\ IsDir(v, p) /\ p \notin v.orphans \cup v.defunct
        /\ \E k \in 0 .. DIRENTS_MAX - 1 : Used(v, p, k) /\ v.node[p].dirents[k].ino = i
    <3>1. NamedIn(v, p, i)
      BY <1>5, <2>1, <2>2, NamedDirIs
    <3>. QED  BY ONLY <3>1 DEF NamedIn
  <2>5. PICK S : S = NameEntries(v, i)
    OBVIOUS
  <2>6. S = {k \in 0 .. DIRENTS_MAX - 1 : Used(v, p, k) /\ v.node[p].dirents[k].ino = i}
    BY <2>3, <2>5 DEF NameEntries
  <2>7. S # {} /\ S \subseteq Nat
    BY <2>4, <2>6
  <2>8. PICK k : k = Min(S)
    OBVIOUS
  <2>9. k \in 0 .. DIRENTS_MAX - 1 /\ Used(v, p, k) /\ v.node[p].dirents[k].ino = i
    BY <2>6, <2>7, <2>8, MinIs
  <2>10. PICK name : name = v.node[p].dirents[k].name
    OBVIOUS
  <2>11. NameOf(v, i) = name
    BY <2>3, <2>5, <2>8, <2>10 DEF NameOf
  <2>12. PICK path : path = <<name>> \o w.path
    OBVIOUS
  <2>13. path \in Seq(Names) /\ PathWalk(v, p, path, f) = PathWalk(v, i, w.path, f)
    <3>1. PICK rest : rest = w.path
      OBVIOUS
    <3>2. <<name>> \o rest \in Seq(Names) /\ PathWalk(v, p, <<name>> \o rest, f) = PathWalk(v, i, rest, f)
      BY ONLY VolumeGood(v), v.fMounted, <1>1, <1>5, <2>1, <2>2, <2>9, <2>10, <3>1, WalkFromParent
    <3>. QED  BY <2>12, <3>1, <3>2
  <2>14. Climb(v, w) = [ret |-> "OK", ino |-> p, path |-> path]
    <3>1. Climb(v, w) = [w EXCEPT !.ino = RedCoreDirParent(v, i).ino, !.path = <<NameOf(v, i)>> \o @]
      BY <1>1, <1>5, <2>3, <2>5, <2>7 DEF Climb, i
    <3>2. Climb(v, w) = [w EXCEPT !.ino = p, !.path = path]
      BY <2>3, <2>11, <2>12, <3>1
    <3>. QED  BY ONLY <1>1, <3>2
  <2>15. p \in LiveDirs(AsDir(v))
    BY <1>3, <2>4
  <2>16. Climb(v, w) \in WayStates(v, dir, f)
    <3>1. PICK y : y = [ret |-> "OK", ino |-> p, path |-> path]
      OBVIOUS
    <3>2. y \in [ret : {"OK"}, ino : LiveDirs(AsDir(v)), path : Seq(Names)]
      BY ONLY <2>13, <2>15, <3>1
    <3>3. PathWalk(v, y.ino, y.path, f).ino = dir
      BY <1>1, <2>13, <3>1
    <3>. QED  BY <2>14, <3>1, <3>2, <3>3 DEF WayStates
  <2>17. Climb(v, w).ino = p
    BY <2>14
  <2>. QED  BY <1>5, <2>2, <2>16, <2>17 DEF i
<1>. QED  BY <1>4, <1>5

\* The path of a directory that has a name leads back to it.
LEMMA PathLeadsBack ==
  ASSUME NEW v, VolumeGood(v), v.fMounted, NEW dir, IsDir(v, dir), dir \notin v.orphans \cup v.defunct,
         NEW r, r = DirInodeToPath(v, dir), NEW f
  PROVE  r.ret = "OK" /\ RedPathLookup(v, ROOT, r.path, f).ino = dir
<1>. DEFINE q == AsDir(v)
            D == WayStates(v, dir, f)
<1>1. /\ q.node = v.node /\ q.orphans = v.orphans \cup v.defunct /\ Tidy(q)
      /\ \A j : IsDir(q, j) <=> IsDir(v, j)
  BY VolumeIs DEF VolumeGood, ContentGood
<1>. HIDE DEF q
<1>2. dir \in LiveDirs(q)
  BY <1>1 DEF LiveDirs, IsDir, Exists
<1>3. PICK x : x = [ret |-> "OK", ino |-> dir, path |-> <<>>]
  OBVIOUS
<1>4. x \in D
  <2>1. <<>> \in Seq(Names) /\ Len(<<>>) = 0
    OBVIOUS
  <2>2. PICK e : e = <<>>
    OBVIOUS
  <2>4. PICK g : Walks(v, dir, e, f, g)
    BY <2>1, <2>2, WalksIs
  <2>5. PathWalk(v, dir, e, f) = g[0] /\ g[0].ino = dir
    BY <2>1, <2>2, <2>4 DEF Walks
  <2>6. PathWalk(v, dir, <<>>, f).ino = dir
    BY <2>2, <2>5
  <2>7. x \in [ret : {"OK"}, ino : LiveDirs(q), path : Seq(Names)]
    BY <1>2, <1>3, <2>1
  <2>. QED  BY <1>3, <2>6, <2>7 DEF WayStates, q
<1>. HIDE DEF D
<1>5. PICK F : F = [w \in D |-> Climb(v, w)]
  OBVIOUS
<1>6. F \in [D -> D] /\ \A w \in D : F[w] = Climb(v, w)
  <2>1. \A w \in D : Climb(v, w) \in D
    BY ClimbKeeps DEF D
  <2>. QED  BY <1>5, <2>1
<1>7. PICK C : C = Cardinality(Inodes)
  OBVIOUS
<1>8. C \in Nat
  BY <1>7, DirAssumption, FS_CardinalityType
<1>9. PICK h : Iterates(D, F, x, C, h) /\ DirInodeToPath(v, dir) = h[C]
  BY ONLY <1>3, <1>4, <1>6, <1>7, ClimbIs
<1>10. h \in [0 .. C -> D] /\ h[0] = x /\ \A n \in 1 .. C : h[n] = F[h[n - 1]]
  BY ONLY <1>9 DEF Iterates
<1>11. PICK a : a = [n \in 0 .. C |-> h[n].ino]
  OBVIOUS
<1>12. ParentsOf(q, dir, a)
  <2>1. \A n \in 0 .. C : h[n] \in D /\ a[n] = h[n].ino /\ a[n] \in LiveDirs(q)
    <3>1. \A w \in D : w.ino \in LiveDirs(q)
      BY DEF D, WayStates, q
    <3>. QED  BY <1>10, <1>11, <3>1
  <2>2. a \in [0 .. C -> LiveDirs(q)]
    BY <1>11, <2>1
  <2>3. a[0] = dir
    <3>1. 0 \in 0 .. C
      BY <1>8
    <3>. QED  BY <1>3, <1>10, <2>1, <3>1
  <2>4. ASSUME NEW n \in 1 .. C PROVE a[n] = IF a[n - 1] = ROOT THEN ROOT ELSE q.node[a[n - 1]].ulPInode
    <3>1. n \in 0 .. C /\ n - 1 \in 0 .. C
      BY <1>8
    <3>2. PICK w : w = h[n - 1]
      OBVIOUS
    <3>3. w \in D /\ h[n] = Climb(v, w) /\ a[n - 1] = w.ino /\ a[n] = h[n].ino
      BY <1>6, <1>10, <2>1, <3>1, <3>2
    <3>4. Climb(v, w).ino = IF w.ino = ROOT THEN ROOT ELSE v.node[w.ino].ulPInode
      BY <3>3, ClimbKeeps DEF D
    <3>. QED  BY <1>1, <3>3, <3>4
  <2>. QED  BY ONLY <1>7, <2>2, <2>3, <2>4 DEF ParentsOf
<1>13. a[C] = ROOT
  BY ONLY <1>1, <1>2, <1>7, <1>12, RootIsAbove
<1>14. h[C] \in D /\ h[C].ino = ROOT
  <2>1. C \in 0 .. C
    BY <1>8
  <2>. QED  BY <1>10, <1>11, <1>13, <2>1
<1>. QED  BY <1>9, <1>14 DEF D, WayStates, RedPathLookup

\* The path of a directory in use, which may be the root of a volume that is
\* not mounted.
LEMMA PathOfDirIs ==
  ASSUME NEW v, VolumeGood(v), NEW dir, dir # ROOT => v.fMounted /\ IsDir(v, dir) /\ dir \notin v.defunct
  PROVE  DirInodeToPath(v, dir).ret \in {"OK", "ENOENT"}
<1>1. CASE dir = ROOT
  BY <1>1, RootHasPath
<1>2. CASE dir # ROOT /\ dir \in v.orphans
  BY <1>2, RemovedHasNoPath
<1>3. CASE dir # ROOT /\ dir \notin v.orphans
  <2>1. PICK r : r = DirInodeToPath(v, dir)
    OBVIOUS
  <2>2. r.ret = "OK"
    <3>1. v.fMounted /\ IsDir(v, dir) /\ dir \notin v.orphans \cup v.defunct
      BY <1>3
    <3>2. PICK f : f = FALSE
      OBVIOUS
    <3>. QED  BY ONLY VolumeGood(v), <2>1, <3>1, <3>2, PathLeadsBack
  <2>. QED  BY <2>1, <2>2
<1>. QED  BY <1>1, <1>2, <1>3

-----------------------------------------------------------------------------
(* Attributes.                                                             *)

\* A call that changes no name, at what a path leads to.
LEMMA PlainAnswers ==
  ASSUME NEW s, NEW start, StartGood(s, start), NEW r,
         \/ \E ret : ret # "EFUBAR" /\ r = Returns(ret, start.s)
         \/ \E i : r = OnVolume(start.s, CoreChange(Vol(start.s), i))
         \/ \E i : r = OnVolume(start.s, Stat(Vol(start.s), i))
  PROVE  Answers(s, r)
<1>1. Shows(s, start.s) /\ VolumeGood(Vol(start.s))
  BY DEF StartGood
<1>2. CASE \E ret : ret # "EFUBAR" /\ r = Returns(ret, start.s)
  BY <1>1, <1>2, ShowsAnswers
<1>3. CASE \E i : r = OnVolume(start.s, CoreChange(Vol(start.s), i))
  BY <1>1, <1>3, ChangeResult, VolumeCall
<1>4. CASE \E i : r = OnVolume(start.s, Stat(Vol(start.s), i))
  BY <1>1, <1>4, ChangeResult, VolumeCall
<1>. QED  BY <1>2, <1>3, <1>4

\* The calls that change or ask for attributes by path answer.
LEMMA AttributesAnswer ==
  ASSUME NEW s, Sound(s, {}), NEW t, Registered(s, t), NEW fd, NEW path \in Paths, NEW nofollow
  PROVE  /\ Answers(s, red_fchmodat(s, t, fd, path, nofollow)) /\ Answers(s, red_fchownat(s, t, fd, path, nofollow))
         /\ Answers(s, red_utimesat(s, t, fd, path, nofollow)) /\ Answers(s, red_fstatat(s, t, fd, path, nofollow))
<1>s. PICK start : start = PathStartingPoint(s, t, fd, path)
  OBVIOUS
<1>w. PICK w : w = RedPathLookup(Vol(start.s), start.dir, start.names, nofollow)
  OBVIOUS
<1>1. StartGood(s, start)
  BY <1>s, StartIs
<1>. DEFINE Is(r, x) == r = IF start.ret # "OK" THEN Returns(start.ret, start.s)
                            ELSE IF w.ret # "OK" THEN Returns(w.ret, start.s) ELSE OnVolume(start.s, x)
<1>2. Is(red_fchmodat(s, t, fd, path, nofollow), CoreChange(Vol(start.s), w.ino))
  BY <1>s, <1>w DEF red_fchmodat, AtPathVolume, AtPath, AtStart, RedCoreChmod
<1>3. Is(red_fchownat(s, t, fd, path, nofollow), CoreChange(Vol(start.s), w.ino))
  BY <1>s, <1>w DEF red_fchownat, AtPathVolume, AtPath, AtStart, RedCoreChown
<1>4. Is(red_utimesat(s, t, fd, path, nofollow), CoreChange(Vol(start.s), w.ino))
  BY <1>s, <1>w DEF red_utimesat, AtPathVolume, AtPath, AtStart, RedCoreUTimes
<1>5. Is(red_fstatat(s, t, fd, path, nofollow), Stat(Vol(start.s), w.ino))
  BY <1>s, <1>w DEF red_fstatat, AtPathVolume, AtPath, AtStart
<1>a. start.ret # "EFUBAR" /\ w.ret # "EFUBAR"
  BY <1>1, <1>w, WalkAt DEF StartGood, WalkStatuses
<1>6. \A r : Is(r, CoreChange(Vol(start.s), w.ino)) \/ Is(r, Stat(Vol(start.s), w.ino)) => Answers(s, r)
  BY <1>1, <1>a, PlainAnswers
<1>. HIDE DEF Is
<1>. QED  BY <1>2, <1>3, <1>4, <1>5, <1>6

\* red_readlink answers.
LEMMA ReadlinkAnswers ==
  ASSUME NEW s, Sound(s, {}), NEW t, Registered(s, t), NEW path \in Paths
  PROVE  Answers(s, red_readlink(s, t, path))
<1>s. PICK start : start = PathStartingPoint(s, t, FDCWD, path)
  OBVIOUS
<1>w. PICK w : w = RedPathLookup(Vol(start.s), start.dir, start.names, TRUE)
  OBVIOUS
<1>r. PICK r : r = red_readlink(s, t, path)
  OBVIOUS
<1>1. StartGood(s, start)
  BY <1>s, StartIs
<1>2. r = IF start.ret # "OK" THEN Returns(start.ret, start.s)
          ELSE IF w.ret # "OK" THEN Returns(w.ret, start.s)
          ELSE Returns(IF Vol(start.s).node[w.ino].type = "LNK" THEN "OK" ELSE "EINVAL", start.s)
  BY <1>r, <1>s, <1>w DEF red_readlink, AtPath, AtStart
<1>a. start.ret # "EFUBAR" /\ w.ret # "EFUBAR"
  BY <1>1, <1>w, WalkAt DEF StartGood, WalkStatuses
<1>3. \E ret : ret # "EFUBAR" /\ r = Returns(ret, start.s)
  BY <1>2, <1>a
<1>4. Answers(s, r)
  BY <1>1, <1>3, PlainAnswers
<1>. QED  BY <1>4, <1>r

\* The calls on descriptors answer.
LEMMA DescriptorsAnswer ==
  ASSUME NEW s, Sound(s, {}), NEW fd
  PROVE  /\ Answers(s, red_fchmod(s, fd)) /\ Answers(s, red_fchown(s, fd)) /\ Answers(s, red_futimes(s, fd))
         /\ Answers(s, red_fstat(s, fd)) /\ Answers(s, red_fsync(s, fd)) /\ Answers(s, red_fdopendir(s, fd))
<1>k. PICK ret : ret = FildesToHandle(s, fd, FTYPE_ANY)
  OBVIOUS
<1>key. PICK key : key = s.gaHandle[fd.idx].pOpenIno
  OBVIOUS
<1>u. PICK u : u = Current(s, key[1])
  OBVIOUS
<1>. DEFINE Is(r, x) == r = IF ret # "OK" THEN Returns(ret, s) ELSE OnVolume(u, x)
<1>1. Is(red_fchmod(s, fd), CoreChange(Vol(u), key[2]))
  BY <1>k, <1>key, <1>u DEF red_fchmod, AtFildes, RedCoreChmod
<1>2. Is(red_fchown(s, fd), CoreChange(Vol(u), key[2]))
  BY <1>k, <1>key, <1>u DEF red_fchown, AtFildes, RedCoreChown
<1>3. Is(red_futimes(s, fd), CoreChange(Vol(u), key[2]))
  BY <1>k, <1>key, <1>u DEF red_futimes, AtFildes, RedCoreUTimes
<1>4. Is(red_fstat(s, fd), Stat(Vol(u), key[2]))
  BY <1>k, <1>key, <1>u DEF red_fstat, AtFildes
<1>5. Is(red_fsync(s, fd), Fsync(Vol(u), key[2]))
  BY <1>k, <1>key, <1>u DEF red_fsync, AtFildes
<1>6. ret = "OK" => Shows(s, u) /\ VolumeGood(Vol(u))
  <2>1. ret = "OK" => Shows(s, u)
    BY <1>k, <1>key, <1>u, FildesIs, ShowsIs
  <2>. QED  BY <2>1 DEF Shows, Sound, Tables, Vol
<1>7. \A x : Result(Vol(u), x, {}) => (ret = "OK" => Answers(s, OnVolume(u, x)))
  BY <1>6, VolumeCall
<1>a. \A expected : FildesToHandle(s, fd, expected) # "EFUBAR"
  BY DEF FildesToHandle, RedFileTypeCheck
<1>8. \A err : err # "EFUBAR" => Answers(s, Returns(err, s))
  BY Refuses
<1>9. ret = "OK" => /\ Result(Vol(u), CoreChange(Vol(u), key[2]), {}) /\ Result(Vol(u), Stat(Vol(u), key[2]), {})
                    /\ Result(Vol(u), Fsync(Vol(u), key[2]), {})
  BY <1>6, ChangeResult
<1>10. \A r, x : Is(r, x) /\ (ret = "OK" => Result(Vol(u), x, {})) => Answers(s, r)
  BY <1>7, <1>8, <1>a, <1>k
<1>11. Answers(s, red_fdopendir(s, fd))
  BY <1>8, <1>a DEF red_fdopendir
<1>. HIDE DEF Is
<1>. QED  BY <1>1, <1>2, <1>3, <1>4, <1>5, <1>9, <1>10, <1>11

-----------------------------------------------------------------------------
(* Volumes.                                                                *)

\* The volume of a path, for the calls on volumes.
LEMMA VolumeAt ==
  ASSUME NEW s, Sound(s, {}), NEW path, NEW c, c = RedPathVolumeLookup(s, path)
  PROVE  /\ Shows(s, c.s) /\ VolumeGood(Vol(c.s)) /\ c.s.gbRedVolNum \in Volumes
         /\ Vol(c.s) = c.s.vol[c.s.gbRedVolNum] /\ c.s.vol = s.vol /\ c.ret \in {"OK", "ENOENT"}
<1>f. PICK found : found = RedPathVolumePrefixLookup(path)
  OBVIOUS
<1>n. PICK n : n = CHOOSE m \in found : TRUE
  OBVIOUS
<1>1. (c.s = s \/ (found # {} /\ c.s = Current(s, n))) /\ c.ret \in {"OK", "ENOENT"}
  BY <1>f, <1>n DEF RedPathVolumeLookup, Returns
<1>2. found # {} => n \in Volumes
  BY <1>f, <1>n, PrefixLookupIs
<1>3. Shows(s, c.s)
  BY <1>1, <1>2, ShowsIs
<1>. QED  BY <1>1, <1>3 DEF Shows, Sound, Tables, Vol

\* Calls on volumes that neither mount, unmount nor replace them answer.
LEMMA VolumeCallsAnswer ==
  ASSUME NEW s, Sound(s, {}), NEW path
  PROVE  /\ Answers(s, red_transact(s, path, "OK")) /\ \A m \in Masks : Answers(s, red_settransmask(s, path, m))
         /\ Answers(s, red_gettransmask(s, path)) /\ Answers(s, red_statvfs(s, path))
         /\ Answers(s, red_freeorphans(s, path, 1))
<1>c. PICK c : c = RedPathVolumeLookup(s, path)
  OBVIOUS
<1>v. PICK v : v = Vol(c.s)
  OBVIOUS
<1>o. PICK one : one = RedCoreVolFreeOrphans(v, 1)
  OBVIOUS
<1>. DEFINE Is(r, x) == r = IF c.ret = "OK" THEN OnVolume(c.s, x) ELSE c
<1>1. Shows(s, c.s) /\ VolumeGood(v) /\ c.ret # "EFUBAR"
  BY <1>c, <1>v, VolumeAt
<1>2. Is(red_transact(s, path, "OK"), RedCoreVolTransact(v, "OK"))
  BY <1>c, <1>v DEF red_transact, OnPathVolume, AtVolume
<1>3. ASSUME NEW m \in Masks PROVE Is(red_settransmask(s, path, m), RedCoreTransMaskSet(v, m))
  BY <1>c, <1>v DEF red_settransmask, OnPathVolume, AtVolume
<1>4. Is(red_gettransmask(s, path), Failed(RedCoreTransMaskGet(v).ret, v))
  BY <1>c, <1>v DEF red_gettransmask, OnPathVolume, AtVolume
<1>5. Is(red_statvfs(s, path), RedCoreVolStat(v))
  BY <1>c, <1>v DEF red_statvfs, OnPathVolume, AtVolume
<1>6. Is(red_freeorphans(s, path, 1), IF one.ret = "ENOENT" THEN Done(one.v) ELSE one)
  BY <1>c, <1>v, <1>o DEF red_freeorphans, OnPathVolume, AtVolume
<1>7. \A x : Result(v, x, {}) => Answers(s, OnVolume(c.s, x))
  BY <1>1, <1>v, VolumeCall
<1>8. Answers(s, c)
  <2>1. c = Returns(c.ret, c.s)
    BY <1>c DEF RedPathVolumeLookup, Returns
  <2>. QED  BY <1>1, <2>1, ShowsAnswers
<1>9. \A r, x : Is(r, x) /\ Result(v, x, {}) => Answers(s, r)
  BY <1>7, <1>8
<1>10. Result(v, RedCoreVolTransact(v, "OK"), {})
  BY <1>1, TransactResult
<1>11. \A m \in Masks : Result(v, RedCoreTransMaskSet(v, m), {})
  BY <1>1, MaskResult
<1>12. Result(v, Failed(RedCoreTransMaskGet(v).ret, v), {}) /\ Result(v, RedCoreVolStat(v), {})
  BY <1>1, ChangeResult
<1>13. Result(v, IF one.ret = "ENOENT" THEN Done(one.v) ELSE one, {})
  <2>1. 1 \in Nat
    OBVIOUS
  <2>. QED  BY <1>1, <1>o, <2>1, FreeSomeResult
<1>. HIDE DEF Is
<1>. QED  BY <1>2, <1>3, <1>4, <1>5, <1>6, <1>9, <1>10, <1>11, <1>12, <1>13

-----------------------------------------------------------------------------
(* Names.                                                                  *)

\* A directory is made.
LEMMA MkdirAnswers ==
  ASSUME NEW s, Sound(s, {}), NEW t, Registered(s, t), NEW fd, NEW path \in Paths, NEW f \in {"OK", "ENOSPC"}
  PROVE  Answers(s, red_mkdirat(s, t, fd, path, f))
<1>s. PICK start : start = PathStartingPoint(s, t, fd, path)
  OBVIOUS
<1>n. PICK name : name = RedPathToName(Vol(start.s), start.dir, start.names, "EEXIST")
  OBVIOUS
<1>x. PICK x : x = CreateInode(Vol(start.s), name.p, name.name, "DIR", f)
  OBVIOUS
<1>r. PICK r : r = red_mkdirat(s, t, fd, path, f)
  OBVIOUS
<1>1. StartGood(s, start)
  BY <1>s, StartIs
<1>2. r = IF start.ret # "OK" THEN Returns(start.ret, start.s)
          ELSE IF name.ret # "OK" THEN Returns(name.ret, start.s) ELSE OnVolume(start.s, x)
  BY <1>n, <1>r, <1>s, <1>x DEF red_mkdirat, AtName, AtStart
<1>3. Shows(s, start.s) /\ VolumeGood(Vol(start.s)) /\ start.names \in PathNames /\ start.ret # "EFUBAR"
  BY <1>1 DEF StartGood
<1>4. \A ret : ret # "EFUBAR" => Answers(s, Returns(ret, start.s))
  BY <1>3, ShowsAnswers
<1>5. name.ret # "EFUBAR" /\ (name.ret = "OK" => Named(Vol(start.s), name.p) /\ name.name \in Names \cup LongNames)
  <2>1. "EEXIST" \in Statuses \ {"OK"}
    BY DEF Statuses
  <2>. QED  BY <1>1, <1>3, <1>n, <2>1, NameAt DEF Statuses
<1>6. name.ret = "OK" => Result(Vol(start.s), x, {})
  BY <1>3, <1>5, <1>x, CreateInodeResult
<1>7. name.ret = "OK" => Answers(s, OnVolume(start.s, x))
  BY <1>3, <1>6, VolumeCall
<1>. QED  BY <1>2, <1>3, <1>4, <1>5, <1>7, <1>r

\* Where a call with two paths begins.
LEMMA BothStart ==
  ASSUME NEW s, Sound(s, {}), NEW t, Registered(s, t), NEW fd, NEW path \in Paths, NEW newFd, NEW newPath \in Paths,
         NEW old, old = PathStartingPoint(s, t, fd, path),
         NEW new, new = PathStartingPoint(old.s, t, newFd, newPath)
  PROVE  StartGood(s, old) /\ StartGood(s, new)
<1>1. StartGood(s, old)
  BY StartIs
<1>2. Shows(s, old.s)
  BY <1>1 DEF StartGood
<1>3. Sound(old.s, {}) /\ Registered(old.s, t)
  BY <1>2 DEF Shows, Stays, Registered, TaskFind
<1>4. StartGood(old.s, new)
  BY <1>3, StartIs
<1>5. Shows(s, new.s)
  BY <1>2, <1>4, ShowsOn DEF StartGood
<1>. QED  BY <1>1, <1>4, <1>5 DEF StartGood

\* A link is made.
LEMMA LinkAnswers ==
  ASSUME NEW s, Sound(s, {}), NEW t, Registered(s, t), NEW fd, NEW path \in Paths, NEW newFd, NEW newPath \in Paths,
         NEW fFollow, NEW f \in {"OK", "ENOSPC"}
  PROVE  Answers(s, red_linkat(s, t, fd, path, newFd, newPath, fFollow, f))
<1>s. PICK old : old = PathStartingPoint(s, t, fd, path)
  OBVIOUS
<1>t. PICK new : new = PathStartingPoint(old.s, t, newFd, newPath)
  OBVIOUS
<1>f. PICK nofollow : nofollow = ~fFollow
  OBVIOUS
<1>w. PICK w : w = RedPathLookup(Vol(new.s), old.dir, old.names, nofollow)
  OBVIOUS
<1>n. PICK name : name = RedPathToName(Vol(new.s), new.dir, new.names, "EEXIST")
  OBVIOUS
<1>x. PICK x : x = AutoTransacted(RedCoreLink(Vol(new.s), name.p, name.name, w.ino, CoreFault(f)), "LINK")
  OBVIOUS
<1>r. PICK r : r = red_linkat(s, t, fd, path, newFd, newPath, fFollow, f)
  OBVIOUS
<1>1. StartGood(s, old) /\ StartGood(s, new)
  BY <1>s, <1>t, BothStart
<1>2. r = IF old.ret # "OK" THEN Returns(old.ret, old.s)
          ELSE IF new.ret # "OK" THEN Returns(new.ret, new.s)
          ELSE IF old.s.gbRedVolNum # new.s.gbRedVolNum THEN Returns("EXDEV", new.s)
          ELSE IF w.ret # "OK" THEN Returns(w.ret, new.s)
          ELSE IF name.ret # "OK" THEN Returns(name.ret, new.s) ELSE OnVolume(new.s, x)
  BY <1>f, <1>n, <1>r, <1>s, <1>t, <1>w, <1>x DEF red_linkat, AtBoth, AtStart
<1>3. /\ Shows(s, old.s) /\ Shows(s, new.s) /\ VolumeGood(Vol(new.s))
      /\ old.names \in PathNames /\ new.names \in PathNames /\ old.ret # "EFUBAR" /\ new.ret # "EFUBAR"
  BY <1>1 DEF StartGood
<1>4. \A ret : ret # "EFUBAR" => Answers(s, Returns(ret, old.s)) /\ Answers(s, Returns(ret, new.s))
  BY <1>3, ShowsAnswers
<1>5. name.ret # "EFUBAR" /\ (name.ret = "OK" => Named(Vol(new.s), name.p) /\ name.name \in Names \cup LongNames)
  <2>1. "EEXIST" \in Statuses \ {"OK"}
    BY DEF Statuses
  <2>. QED  BY <1>1, <1>3, <1>n, <2>1, NameAt DEF Statuses
<1>6. w.ret # "EFUBAR" /\ (w.ret = "OK" => Named(Vol(new.s), w.ino))
  <2>1. w = PathWalk(Vol(new.s), old.dir, old.names, nofollow) /\ old.names \in Seq(Names \cup LongNames \cup {".", ".."})
    BY <1>3, <1>w DEF RedPathLookup, PathNames
  <2>2. WalkGood(Vol(new.s), w)
    BY <1>3, <2>1, WalkIs
  <2>. QED  BY <2>2 DEF WalkGood, WalkStatuses
<1>7. w.ret = "OK" /\ name.ret = "OK" => Result(Vol(new.s), x, {})
  BY <1>3, <1>5, <1>6, <1>x, LinkCall
<1>8. w.ret = "OK" /\ name.ret = "OK" => Answers(s, OnVolume(new.s, x))
  BY <1>3, <1>7, VolumeCall
<1>. QED  BY <1>2, <1>3, <1>4, <1>5, <1>6, <1>8, <1>r


-----------------------------------------------------------------------------
(* Names that are lost.                                                    *)

\* An inode that is in use has lost its only name, and is marked as an orphan.
Marking(s, n, ino, mark, t) ==
  /\ n \in Volumes /\ ino \in Inodes /\ mark = <<n, ino>>
  /\ mark \in DOMAIN s.gaOpenInos /\ ino # ROOT /\ Exists(s.vol[n], ino)
  /\ Frame(s, t, {"vol", "gaOpenInos"}) /\ t.gaOpenInos = [s.gaOpenInos EXCEPT ![mark].fOrphan = TRUE]
  /\ Keeps(s.vol[n], t.vol[n], {ino}) /\ DOMAIN t.vol = Volumes /\ \A m \in Volumes \ {n} : t.vol[m] = s.vol[m]
  /\ t.vol[n].node[ino].type = s.vol[n].node[ino].type /\ ino \notin t.vol[n].defunct
  /\ SameNameRenames \/ ino \in t.vol[n].orphans

\* An inode that lost its last name while it was in use is marked as an orphan.
LEMMA MarkStep ==
  ASSUME NEW s, Sound(s, {}), NEW n, NEW ino, NEW mark, NEW t, Marking(s, n, ino, mark, t)
  PROVE  Sound(t, {})
<1>m. /\ n \in Volumes /\ ino \in Inodes /\ mark = <<n, ino>>
      /\ mark \in DOMAIN s.gaOpenInos /\ ino # ROOT /\ Exists(s.vol[n], ino)
      /\ Frame(s, t, {"vol", "gaOpenInos"}) /\ t.gaOpenInos = [s.gaOpenInos EXCEPT ![mark].fOrphan = TRUE]
      /\ Keeps(s.vol[n], t.vol[n], {ino}) /\ DOMAIN t.vol = Volumes /\ \A m \in Volumes \ {n} : t.vol[m] = s.vol[m]
      /\ t.vol[n].node[ino].type = s.vol[n].node[ino].type /\ ino \notin t.vol[n].defunct
      /\ SameNameRenames \/ ino \in t.vol[n].orphans
  BY DEF Marking
<1>0. /\ t.gfPosixInited = s.gfPosixInited /\ t.gbRedVolNum = s.gbRedVolNum /\ t.gaHandle = s.gaHandle
      /\ t.gaTask = s.gaTask /\ t.gauGeneration = s.gauGeneration /\ DOMAIN t = Fields
  <2>1. Frame(s, t, {"vol", "gaOpenInos"})
    BY <1>m
  <2>. QED  BY ONLY <2>1, FrameIs
<1>a. Table(s.gaOpenInos) /\ RefsExact(Uses(s), s.gaOpenInos)
  BY DEF Sound, Tables
<1>b. /\ DOMAIN t.gaOpenInos = DOMAIN s.gaOpenInos
      /\ \A k \in DOMAIN s.gaOpenInos : t.gaOpenInos[k].uRefs = s.gaOpenInos[k].uRefs
                                        /\ t.gaOpenInos[k] \in OpenEntries
      /\ \A k \in DOMAIN s.gaOpenInos : k # mark => t.gaOpenInos[k] = s.gaOpenInos[k]
      /\ t.gaOpenInos[mark].fOrphan = TRUE
  <2>1. PICK a : a = s.gaOpenInos
    OBVIOUS
  <2>2. PICK b : b = t.gaOpenInos
    OBVIOUS
  <2>3. b = [a EXCEPT ![mark].fOrphan = TRUE] /\ mark \in DOMAIN a
    BY <1>m, <2>1, <2>2
  <2>4. \A k \in DOMAIN a : a[k] \in OpenEntries
    BY <1>a, <2>1 DEF Table
  <2>5. DOMAIN b = DOMAIN a /\ b[mark] = [a[mark] EXCEPT !.fOrphan = TRUE] /\ \A k \in DOMAIN a : k # mark => b[k] = a[k]
    BY ONLY <2>3
  <2>6. b[mark] \in OpenEntries /\ b[mark].uRefs = a[mark].uRefs /\ b[mark].fOrphan = TRUE
    BY ONLY <2>3, <2>4, <2>5 DEF OpenEntries
  <2>. QED  BY ONLY <2>1, <2>2, <2>4, <2>5, <2>6
<1>c. Uses(t) = Uses(s) /\ \A key : InUseBy(t, {}, key) <=> InUseBy(s, {}, key)
  BY <1>0, SameUses
<1>d. Table(t.gaOpenInos) /\ RefsExact(Uses(t), t.gaOpenInos)
  BY <1>a, <1>b, <1>c DEF Table, RefsExact
<1>1. Tables(t)
  BY <1>0, <1>d, <1>m DEF Sound, Tables, Keeps
<1>2. \A m \in Volumes : t.vol[m].fMounted = s.vol[m].fMounted
  BY <1>m DEF Keeps
<1>3. ASSUME NEW key \in Keys, NEW type, InUseAs(s.vol[key[1]], key[2], type)
      PROVE  /\ InUseAs(t.vol[key[1]], key[2], type)
             /\ key # mark => (key[2] \in t.vol[key[1]].orphans <=> key[2] \in s.vol[key[1]].orphans)
  <2>0. key[1] \in Volumes /\ key[2] \in Inodes /\ key = <<key[1], key[2]>>
    BY DEF Keys
  <2>1. CASE key = mark
    BY <1>2, <1>3, <1>m, <2>0, <2>1 DEF InUseAs, Exists
  <2>2. CASE key # mark /\ key[1] = n
    <3>1. key[2] \in Inodes \ {ino}
      BY <1>m, <2>0, <2>2
    <3>. QED  BY <1>2, <1>3, <1>m, <2>0, <2>2, <3>1 DEF InUseAs, Keeps, Exists
  <2>3. CASE key[1] # n
    <3>1. t.vol[key[1]] = s.vol[key[1]]
      BY <1>m, <2>0, <2>3
    <3>. QED  BY <1>3, <3>1
  <2>. QED  BY <2>1, <2>2, <2>3
<1>5. ASSUME NEW h \in Handles PROVE HandleGood(t, h)
  <2>. DEFINE key == s.gaHandle[h].pOpenIno
  <2>. SUFFICES ASSUME key # NULL PROVE HandleGood(t, h)
    BY <1>0 DEF HandleGood
  <2>1. key \in Keys
    BY DEF Sound, Tables, HandleRecord
  <2>3. InUseAs(s.vol[key[1]], key[2], HandleType(s, h)) /\ s.gaHandle[h].fildes = FildesPack(s, h, key[1])
    BY DEF Sound, HandleGood
  <2>4. InUseAs(t.vol[key[1]], key[2], HandleType(s, h))
    BY <1>3, <2>1, <2>3
  <2>. QED  BY <1>0, <2>3, <2>4 DEF HandleGood, HandleType, FildesPack
<1>6. ASSUME NEW i \in Slots PROVE TaskGood(t, i)
  <2>. DEFINE key == s.gaTask[i].pCwd
  <2>0. TaskGood(s, i)
    BY DEF Sound
  <2>. SUFFICES ASSUME key # NULL, key[2] # ROOT PROVE InUseAs(t.vol[key[1]], key[2], "DIR")
    BY <1>0, <2>0 DEF TaskGood
  <2>1. key \in Keys
    BY DEF Sound, Tables, TaskRecord
  <2>3. InUseAs(s.vol[key[1]], key[2], "DIR")
    BY <2>0 DEF TaskGood
  <2>. QED  BY <1>3, <2>1, <2>3
<1>7. ASSUME NEW key \in DOMAIN t.gaOpenInos PROVE MarkGood(t, {}, key)
  <2>0. key \in Keys /\ key[1] \in Volumes /\ MarkGood(s, {}, key) /\ key \in DOMAIN s.gaOpenInos
    BY <1>b DEF Sound, Tables, Table, Keys
  <2>1. CASE key = mark
    <3>1. key[1] = n /\ key[2] = ino
      BY <1>m, <2>1
    <3>. QED  BY <1>b, <1>m, <2>1, <3>1 DEF MarkGood
  <2>2. CASE key # mark
    <3>. SUFFICES ASSUME ~SameNameRenames, t.vol[key[1]].fMounted, InUseBy(t, {}, key)
                  PROVE  t.gaOpenInos[key].fOrphan <=> key[2] \in t.vol[key[1]].orphans
      BY <1>b, <2>0, <2>2 DEF MarkGood
    <3>1. InUseBy(s, {}, key) /\ s.vol[key[1]].fMounted
      BY <1>2, <1>c, <2>0
    <3>2. s.gaOpenInos[key].fOrphan <=> key[2] \in s.vol[key[1]].orphans
      BY <2>0, <3>1 DEF MarkGood
    <3>3. CASE key[2] = ROOT
      <4>1. ~s.gaOpenInos[key].fOrphan
        BY <2>0, <3>3 DEF MarkGood
      <4>2. VolumeGood(t.vol[key[1]])
        BY <1>1, <2>0 DEF Tables
      <4>3. key[2] \notin t.vol[key[1]].orphans
        BY <3>3, <4>2, RootIs DEF Named
      <4>. QED  BY <1>b, <2>0, <2>2, <4>1, <4>3
    <3>4. CASE key[2] # ROOT
      <4>1. PICK type : InUseAs(s.vol[key[1]], key[2], type)
        BY <2>0, <3>1, <3>4, UserGood
      <4>. QED  BY <1>3, <1>b, <2>0, <2>2, <3>2, <4>1
    <3>. QED  BY <3>3, <3>4
  <2>. QED  BY <2>1, <2>2
<1>8. \A m \in Volumes : t.vol[m].fMounted => t.gauGeneration[m] >= 1
  BY <1>0, <1>2 DEF Sound
<1>. QED  BY <1>1, <1>5, <1>6, <1>7, <1>8, <1>d DEF Sound


Marked(r, ino, fOrphan) ==
  IF r.ret = "OK" /\ fOrphan THEN Returns("OK", InodeOrphaned(r.s, ino)) ELSE r

\* What a core call has done to the inode ino of the current volume when it
\* was told whether to make it an orphan.
Loses(u, x, ino, fOrphan) ==
  /\ Result(Vol(u), x, {ino}) /\ (x.ret # "OK" => Result(Vol(u), x, {}))
  /\ x.ret = "OK" /\ ~fOrphan => Result(Vol(u), x, {}) \/ ~InUseBy(u, {}, <<u.gbRedVolNum, ino>>)
  /\ x.ret = "OK" /\ fOrphan =>
       /\ IsOpen(u, <<u.gbRedVolNum, ino>>) /\ Named(Vol(u), ino) /\ ino # ROOT
       /\ x.v.node[ino].type = Vol(u).node[ino].type /\ ino \notin x.v.defunct
       /\ SameNameRenames \/ ino \in x.v.orphans

\* Unlinking and marking together answer.
LEMMA OrphanStep ==
  ASSUME NEW u, Sound(u, {}), NEW ino, NEW fOrphan, NEW x, Loses(u, x, ino, fOrphan),
         NEW c, c = Marked(OnVolume(u, x), ino, fOrphan)
  PROVE  Answers(u, c)
<1>r. PICK r : r = OnVolume(u, x)
  OBVIOUS
<1>n. PICK n : n = u.gbRedVolNum
  OBVIOUS
<1>1. c = IF r.ret = "OK" /\ fOrphan THEN Returns("OK", InodeOrphaned(r.s, ino)) ELSE r
  BY <1>r DEF Marked
<1>2. Tables(u)
  BY DEF Sound
<1>3. /\ r.ret = x.ret /\ r.s.vol[n] = x.v /\ Vol(u) = u.vol[n] /\ n \in Volumes /\ r.s.gbRedVolNum = n
      /\ \A m \in Volumes \ {n} : r.s.vol[m] = u.vol[m]
      /\ DOMAIN r.s.vol = Volumes
  BY ONLY <1>r, <1>n, <1>2, OnVolumeIs
<1>4. CASE ~(x.ret = "OK" /\ fOrphan)
  <2>1. c = r
    BY <1>1, <1>3, <1>4
  <2>2. Result(Vol(u), x, {}) \/ (Result(Vol(u), x, {ino}) /\ ~InUseBy(u, {}, <<u.gbRedVolNum, ino>>))
    BY <1>4 DEF Loses
  <2>3. CASE Result(Vol(u), x, {})
    BY <1>r, <2>1, <2>3, VolumeAnswers
  <2>4. CASE Result(Vol(u), x, {ino}) /\ ~InUseBy(u, {}, <<u.gbRedVolNum, ino>>)
    <3>1. PICK Y : Y = {ino}
      OBVIOUS
    <3>2. Result(Vol(u), x, Y) /\ \A i \in Y : ~InUseBy(u, {}, <<u.gbRedVolNum, i>>)
      BY <2>4, <3>1
    <3>. QED  BY <1>r, <2>1, <3>2, VolumeAnswers
  <2>. QED  BY <2>2, <2>3, <2>4
<1>5. CASE x.ret = "OK" /\ fOrphan
  <2>m. PICK mark : mark = <<n, ino>>
    OBVIOUS
  <2>t. PICK t : t = [r.s EXCEPT !.gaOpenInos = [u.gaOpenInos EXCEPT ![mark].fOrphan = TRUE]]
    OBVIOUS
  <2>1. /\ mark \in DOMAIN u.gaOpenInos /\ Named(u.vol[n], ino) /\ ino # ROOT
        /\ x.v.node[ino].type = u.vol[n].node[ino].type /\ ino \notin x.v.defunct
        /\ SameNameRenames \/ ino \in x.v.orphans
    BY <1>3, <1>5, <1>n, <2>m DEF Loses, IsOpen
  <2>f. Frame(u, r.s, {"vol"})
    <3>1. Frame(u, OnVolume(u, r).s, {"vol"}) /\ Frame(u, OnVolume(u, x).s, {"vol"})
      BY ONLY <1>2, OnVolumeIs
    <3>. QED  BY <1>r, <3>1
  <2>g. /\ r.s.gaOpenInos = u.gaOpenInos /\ DOMAIN r.s = Fields /\ r.s.gfPosixInited = u.gfPosixInited
        /\ r.s.gauGeneration = u.gauGeneration
    BY ONLY <2>f, FrameIs
  <2>2. c = Returns("OK", t)
    <3>1. IsOpen(r.s, <<r.s.gbRedVolNum, ino>>)
      BY <1>3, <2>1, <2>g, <2>m DEF IsOpen
    <3>2. c = Returns("OK", InodeOrphaned(r.s, ino))
      BY <1>1, <1>3, <1>5
    <3>3. InodeOrphaned(r.s, ino) = [r.s EXCEPT !.gaOpenInos[<<r.s.gbRedVolNum, ino>>].fOrphan = TRUE]
      BY <3>1 DEF InodeOrphaned
    <3>4. InodeOrphaned(r.s, ino) = [r.s EXCEPT !.gaOpenInos[mark].fOrphan = TRUE]
      BY <1>3, <2>m, <3>3
    <3>5. InodeOrphaned(r.s, ino) = t
      BY <2>g, <2>t, <3>4
    <3>. QED  BY <3>2, <3>5
  <2>3. Frame(u, t, {"vol", "gaOpenInos"}) /\ t.gaOpenInos = [u.gaOpenInos EXCEPT ![mark].fOrphan = TRUE] /\ t.vol = r.s.vol
    BY ONLY <2>f, <2>g, <2>t DEF Frame, Fields
  <2>4. t.gfPosixInited = u.gfPosixInited /\ t.gauGeneration = u.gauGeneration
    BY ONLY <2>g, <2>t DEF Fields
  <2>5. Keeps(u.vol[n], t.vol[n], {ino})
    BY <1>3, <2>3 DEF Loses, Result
  <2>6. ino \in Inodes /\ Exists(u.vol[n], ino) /\ t.vol[n] = x.v
    BY <1>3, <2>1, <2>3 DEF Named
  <2>7. Sound(t, {})
    <3>1. DOMAIN t.vol = Volumes /\ \A m \in Volumes \ {n} : t.vol[m] = u.vol[m]
      BY <1>3, <2>3
    <3>2. /\ t.vol[n].node[ino].type = u.vol[n].node[ino].type /\ ino \notin t.vol[n].defunct
          /\ SameNameRenames \/ ino \in t.vol[n].orphans
      BY <2>1, <2>6
    <3>3. Marking(u, n, ino, mark, t)
      BY <1>3, <2>1, <2>3, <2>5, <2>6, <2>m, <3>1, <3>2 DEF Marking
    <3>. QED  BY <3>3, MarkStep
  <2>8. Stays(u, t)
    <3>1. \A m \in Volumes \ {n} : t.vol[m] = u.vol[m]
      BY <1>3, <2>3
    <3>. QED  BY <1>3, <2>4, <2>5, <3>1 DEF Stays, Keeps
  <2>. QED  BY <2>2, <2>7, <2>8 DEF Answers, Returns
<1>. QED  BY <1>4, <1>5


\* InodeUnlinkCheck finds whether an inode in use loses its last name.
LEMMA LosesIs ==
  ASSUME NEW u, Sound(u, {}), Vol(u).fMounted, NEW ino, NEW fOrphan, fOrphan = InodeUnlinkCheck(u, ino),
         NEW x, Result(Vol(u), x, {ino}), x.ret # "OK" => Result(Vol(u), x, {}),
         x.ret = "OK" => Losing(Vol(u), x.v, ino, fOrphan)
  PROVE  Loses(u, x, ino, fOrphan)
<1>v. PICK v : v = Vol(u)
  OBVIOUS
<1>k. PICK key : key = <<u.gbRedVolNum, ino>>
  OBVIOUS
<1>. SUFFICES ASSUME x.ret = "OK"
              PROVE  /\ ~fOrphan => Result(v, x, {}) \/ ~InUseBy(u, {}, key)
                     /\ fOrphan => /\ IsOpen(u, key) /\ Named(v, ino) /\ ino # ROOT
                                   /\ x.v.node[ino].type = v.node[ino].type /\ ino \notin x.v.defunct
                                   /\ ino \in x.v.orphans
  BY <1>k, <1>v DEF Loses
<1>1. Named(v, ino) /\ ino # ROOT /\ Losing(v, x.v, ino, fOrphan)
  BY <1>v DEF Losing
<1>2. fOrphan <=> IsOpen(u, key) /\ v.node[ino].uNLink = 1
  <2>1. RedCoreStat(v, ino).stat = v.node[ino]
    BY <1>1, <1>v DEF RedCoreStat, Named
  <2>. QED  BY <1>k, <1>v, <2>1 DEF InodeUnlinkCheck
<1>3. key \in Keys
  BY <1>1, <1>k DEF Keys, Named, Sound, Tables
<1>4. CASE fOrphan
  BY <1>1, <1>2, <1>4 DEF Losing
<1>5. CASE ~fOrphan /\ ~IsOpen(u, key)
  <2>1. ~InUseBy(u, {}, key)
    BY <1>3, <1>5, UsedIsOpen DEF InUseBy, IsOpen
  <2>. QED  BY <1>5, <2>1
<1>6. CASE ~fOrphan /\ IsOpen(u, key)
  <2>1. /\ x.v.node[ino].type = v.node[ino].type /\ ino \notin x.v.defunct /\ ino \notin x.v.orphans
        /\ ino \notin v.orphans
    BY <1>1, <1>2, <1>6 DEF Losing, Named
  <2>2. Keeps(v, x.v, {})
    BY <1>v, <2>1 DEF Result, Keeps
  <2>3. Result(v, x, {})
    BY <1>v, <2>2 DEF Result
  <2>. QED  BY <1>6, <2>3
<1>. QED  BY <1>4, <1>5, <1>6

\* A name is removed.
LEMMA UnlinkAnswers ==
  ASSUME NEW s, Sound(s, {}), NEW t, Registered(s, t), NEW fd, NEW path \in Paths, NEW fRemoveDir, NEW f \in {"OK", "ENOSPC"}
  PROVE  Answers(s, red_unlinkat(s, t, fd, path, fRemoveDir, f))
<1>. DEFINE start == PathStartingPoint(s, t, fd, path)
            name == RedPathToName(Vol(start.s), start.dir, start.names, "EBUSY")
            at == RedCoreLookup(Vol(start.s), name.p, name.name)
            fOrphan == InodeUnlinkCheck(start.s, at.ino)
            x == AutoTransacted(RedCoreUnlink(Vol(start.s), name.p, name.name, fOrphan, CoreFault(f)), "UNLINK")
            r == red_unlinkat(s, t, fd, path, fRemoveDir, f)
<1>2. \/ r = Returns(start.ret, start.s) \/ r = Returns(name.ret, start.s) \/ r = Returns(at.ret, start.s)
      \/ r = Returns("ENOTDIR", start.s)
      \/ name.ret = "OK" /\ at.ret = "OK" /\ r = Marked(OnVolume(start.s, x), at.ino, fOrphan)
  BY ZenonT(30) DEF red_unlinkat, AtName, AtStart, Marked
<1>s. start = PathStartingPoint(s, t, fd, path)
  OBVIOUS
<1>n. name = RedPathToName(Vol(start.s), start.dir, start.names, "EBUSY")
  OBVIOUS
<1>a. at = RedCoreLookup(Vol(start.s), name.p, name.name)
  OBVIOUS
<1>o. fOrphan = InodeUnlinkCheck(start.s, at.ino)
  OBVIOUS
<1>x. x = AutoTransacted(RedCoreUnlink(Vol(start.s), name.p, name.name, fOrphan, CoreFault(f)), "UNLINK")
  OBVIOUS
<1>r. r = red_unlinkat(s, t, fd, path, fRemoveDir, f)
  OBVIOUS
<1>. HIDE DEF start, name, at, fOrphan, x, r
<1>1. StartGood(s, start)
  BY <1>s, StartIs
<1>3. Shows(s, start.s) /\ VolumeGood(Vol(start.s)) /\ start.names \in PathNames /\ start.ret # "EFUBAR"
  BY <1>1 DEF StartGood
<1>4. \A ret : ret # "EFUBAR" => Answers(s, Returns(ret, start.s))
  BY <1>3, ShowsAnswers
<1>b. name.ret # "EFUBAR"
  <2>1. "EBUSY" \in Statuses \ {"OK"}
    BY DEF Statuses
  <2>. QED  BY <1>1, <1>3, <1>n, <2>1, NameAt DEF Statuses
<1>c. at.ret # "EFUBAR"
  BY <1>3, <1>a, LookupIn DEF WalkStatuses
<1>5. ASSUME name.ret = "OK", at.ret = "OK"
      PROVE  Answers(s, Marked(OnVolume(start.s, x), at.ino, fOrphan))
  <2>1. Vol(start.s).fMounted /\ Named(Vol(start.s), name.p)
    <3>1. "EBUSY" \in Statuses \ {"OK"}
      BY DEF Statuses
    <3>. QED  BY <1>1, <1>3, <1>5, <1>n, <3>1, NameAt
  <2>2. at = RedDirEntryLookup(Vol(start.s), name.p, name.name)
    BY <1>3, <1>5, <1>a, LookupIn
  <2>3. /\ Result(Vol(start.s), x, {at.ino}) /\ (x.ret # "OK" => Result(Vol(start.s), x, {}))
        /\ x.ret = "OK" => Losing(Vol(start.s), x.v, at.ino, fOrphan)
    BY ONLY <1>3, <1>x, <2>1, <2>2, UnlinkCall, ZenonT(30)
  <2>4. Sound(start.s, {})
    BY <1>3 DEF Shows
  <2>5. Loses(start.s, x, at.ino, fOrphan)
    BY <1>o, <2>1, <2>3, <2>4, LosesIs
  <2>6. Answers(start.s, Marked(OnVolume(start.s, x), at.ino, fOrphan))
    BY <2>4, <2>5, OrphanStep
  <2>. QED  BY <1>3, <2>6, ShowsAnswers
<1>. QED  BY <1>2, <1>3, <1>4, <1>5, <1>b, <1>c, <1>r


\* The places of two names that lead to the same inode, which has no other name.
LEMMA SameName ==
  ASSUME NEW s, NEW t, NEW fd, NEW path, NEW newFd, NEW newPath, ~IsSameName(s, t, fd, path, newFd, newPath),
         NEW old, old = PathStartingPoint(s, t, fd, path), old.ret = "OK",
         NEW new, new = PathStartingPoint(old.s, t, newFd, newPath), new.ret = "OK",
         old.s.gbRedVolNum = new.s.gbRedVolNum, Vol(old.s) = Vol(new.s),
         NEW src, src = RedPathToName(Vol(new.s), old.dir, old.names, "EBUSY"), src.ret = "OK",
         NEW dst, dst = RedPathToName(Vol(new.s), new.dir, new.names, "EBUSY"), dst.ret = "OK"
  PROVE  ~(src.p = dst.p /\ src.name = dst.name)
<1>1. src = [ret |-> src.ret, p |-> src.p, name |-> src.name] /\ dst = [ret |-> dst.ret, p |-> dst.p, name |-> dst.name]
  BY PathToNameShape
<1>2. IsSameName(s, t, fd, path, newFd, newPath) <=> src = dst
  <2>1. IsSameName(s, t, fd, path, newFd, newPath)
          <=> [ret |-> IF src = dst THEN "same" ELSE "other", s |-> new.s].ret = "same"
    BY DEF IsSameName, AtBoth, AtStart
  <2>. QED  BY <2>1
<1>. QED  BY <1>1, <1>2

\* So it does for the name that a rename replaces, unless a name is renamed to itself.
LEMMA RenameLoses ==
  ASSUME NEW u, Sound(u, {}), Vol(u).fMounted, NEW src, Named(Vol(u), src.p),
         NEW dst, Named(Vol(u), dst.p), dst.name \in Names \cup LongNames,
         SameNameRenames \/ ~(src.p = dst.p /\ src.name = dst.name),
         NEW dest, dest = RedDirEntryLookup(Vol(u), dst.p, dst.name), dest.ret \in {"OK", "ENOENT"},
         NEW fOrphan, fOrphan = (dest.ret = "OK" /\ InodeUnlinkCheck(u, dest.ino)), NEW f \in {"OK", "ENOSPC"},
         NEW x, x = AutoTransacted(RedCoreRename(Vol(u), src.p, src.name, dst.p, dst.name, fOrphan, CoreFault(f)), "RENAME")
  PROVE  Loses(u, x, dest.ino, fOrphan)
<1>v. PICK v : v = Vol(u)
  OBVIOUS
<1>a. PICK at : at = RedDirEntryLookup(v, src.p, src.name)
  OBVIOUS
<1>0. VolumeGood(v)
  BY <1>v DEF Sound, Tables, Vol
<1>1. /\ Result(v, x, {dest.ino}) /\ (x.ret # "OK" => Result(v, x, {}))
      /\ x.ret = "OK" => /\ at.ret = "OK"
                         /\ at.ino = dest.ino \/ dest.ret # "OK" => Result(v, x, {})
                         /\ at.ino # dest.ino /\ dest.ret = "OK" => Losing(v, x.v, dest.ino, fOrphan)
  BY <1>0, <1>a, <1>v, RenameCall
<1>2. CASE dest.ret # "OK"
  BY <1>1, <1>2, <1>v DEF Loses
<1>3. CASE dest.ret = "OK" /\ at.ino # dest.ino
  <2>1. fOrphan = InodeUnlinkCheck(u, dest.ino)
    BY <1>3 DEF InodeUnlinkCheck
  <2>. QED  BY <1>1, <1>3, <1>v, <2>1, LosesIs
<1>4. CASE dest.ret = "OK" /\ at.ino = dest.ino
  <2>. SUFFICES ASSUME x.ret = "OK", fOrphan
                PROVE  /\ IsOpen(u, <<u.gbRedVolNum, dest.ino>>) /\ Named(v, dest.ino) /\ dest.ino # ROOT
                       /\ x.v.node[dest.ino].type = v.node[dest.ino].type /\ dest.ino \notin x.v.defunct
                       /\ SameNameRenames
    BY <1>1, <1>4, <1>v DEF Loses
  <2>1. IsOpen(u, <<u.gbRedVolNum, dest.ino>>) /\ RedCoreStat(v, dest.ino).stat.uNLink = 1
    BY <1>v DEF InodeUnlinkCheck
  <2>2. Named(v, dest.ino) /\ dest.ino # ROOT
    BY <1>0, <1>4, <1>v, FoundIs
  <2>3. v.node[dest.ino].uNLink = 1
    BY <1>v, <2>1, <2>2 DEF RedCoreStat, Named
  <2>4. Result(v, x, {}) /\ at.ret = "OK"
    BY <1>1, <1>4
  <2>5. src.p = dst.p /\ src.name = dst.name
    BY <1>0, <1>4, <1>a, <1>v, <2>3, <2>4, OneName
  <2>6. x.v.node[dest.ino].type = v.node[dest.ino].type /\ dest.ino \notin x.v.defunct
    <3>1. Named(x.v, dest.ino) /\ x.v.node[dest.ino].type = v.node[dest.ino].type
      <4>1. Keeps(v, x.v, {}) /\ dest.ino \notin {}
        BY ONLY <2>4 DEF Result
      <4>. QED  BY ONLY <2>2, <4>1, NamedStays
    <3>. QED  BY ONLY <3>1 DEF Named
  <2>. QED  BY <2>1, <2>2, <2>5, <2>6
<1>. QED  BY <1>2, <1>3, <1>4

\* A name becomes another one.
LEMMA RenameAnswers ==
  ASSUME NEW s, Sound(s, {}), NEW t, Registered(s, t), NEW fd, NEW path \in Paths, NEW newFd, NEW newPath \in Paths,
         SameNameRenames \/ ~IsSameName(s, t, fd, path, newFd, newPath), NEW f \in {"OK", "ENOSPC"}
  PROVE  Answers(s, red_renameat(s, t, fd, path, newFd, newPath, f))
<1>. DEFINE old == PathStartingPoint(s, t, fd, path)
            new == PathStartingPoint(old.s, t, newFd, newPath)
            src == RedPathToName(Vol(new.s), old.dir, old.names, "EBUSY")
            dst == RedPathToName(Vol(new.s), new.dir, new.names, "EBUSY")
            dest == RedCoreLookup(Vol(new.s), dst.p, dst.name)
            fOrphan == (dest.ret = "OK" /\ InodeUnlinkCheck(new.s, dest.ino))
            x == AutoTransacted(RedCoreRename(Vol(new.s), src.p, src.name, dst.p, dst.name, fOrphan, CoreFault(f)),
                                "RENAME")
            r == red_renameat(s, t, fd, path, newFd, newPath, f)
<1>2. r = IF old.ret # "OK" THEN Returns(old.ret, old.s)
          ELSE IF new.ret # "OK" THEN Returns(new.ret, new.s)
          ELSE IF old.s.gbRedVolNum # new.s.gbRedVolNum THEN Returns("EXDEV", new.s)
          ELSE IF src.ret # "OK" THEN Returns(src.ret, new.s)
          ELSE IF dst.ret # "OK" THEN Returns(dst.ret, new.s)
          ELSE IF dest.ret \notin {"OK", "ENOENT"} THEN Returns(dest.ret, new.s)
          ELSE Marked(OnVolume(new.s, x), dest.ino, fOrphan)
  BY ZenonT(30) DEF red_renameat, AtBoth, AtStart, Marked
<1>s. old = PathStartingPoint(s, t, fd, path)
  OBVIOUS
<1>t. new = PathStartingPoint(old.s, t, newFd, newPath)
  OBVIOUS
<1>n. src = RedPathToName(Vol(new.s), old.dir, old.names, "EBUSY")
  OBVIOUS
<1>m. dst = RedPathToName(Vol(new.s), new.dir, new.names, "EBUSY")
  OBVIOUS
<1>d. dest = RedCoreLookup(Vol(new.s), dst.p, dst.name)
  OBVIOUS
<1>o. fOrphan = (dest.ret = "OK" /\ InodeUnlinkCheck(new.s, dest.ino))
  OBVIOUS
<1>x. x = AutoTransacted(RedCoreRename(Vol(new.s), src.p, src.name, dst.p, dst.name, fOrphan, CoreFault(f)),
                          "RENAME")
  OBVIOUS
<1>r. r = red_renameat(s, t, fd, path, newFd, newPath, f)
  OBVIOUS
<1>. HIDE DEF old, new, src, dst, dest, fOrphan, x, r
<1>1. StartGood(s, old) /\ StartGood(s, new)
  BY <1>s, <1>t, BothStart
<1>3. /\ Shows(s, old.s) /\ Shows(s, new.s) /\ VolumeGood(Vol(new.s))
      /\ old.names \in PathNames /\ new.names \in PathNames /\ old.ret # "EFUBAR" /\ new.ret # "EFUBAR"
  BY <1>1 DEF StartGood
<1>4. \A ret : ret # "EFUBAR" => Answers(s, Returns(ret, old.s)) /\ Answers(s, Returns(ret, new.s))
  BY <1>3, ShowsAnswers
<1>a. src.ret # "EFUBAR" /\ dst.ret # "EFUBAR"
  <2>1. "EBUSY" \in Statuses \ {"OK"}
    BY DEF Statuses
  <2>. QED  BY <1>1, <1>3, <1>m, <1>n, <2>1, NameAt DEF Statuses
<1>b. dest.ret # "EFUBAR"
  BY <1>3, <1>d, LookupIn DEF WalkStatuses
<1>5. ASSUME old.ret = "OK", new.ret = "OK", old.s.gbRedVolNum = new.s.gbRedVolNum, src.ret = "OK", dst.ret = "OK",
             dest.ret \in {"OK", "ENOENT"}
      PROVE  Answers(s, Marked(OnVolume(new.s, x), dest.ino, fOrphan))
  <2>e. "EBUSY" \in Statuses \ {"OK"}
    BY DEF Statuses
  <2>1. Vol(new.s).fMounted /\ Named(Vol(new.s), src.p)
    BY <1>1, <1>3, <1>5, <1>n, <2>e, NameAt
  <2>2. Named(Vol(new.s), dst.p) /\ dst.name \in Names \cup LongNames
    BY <1>1, <1>3, <1>5, <1>m, <2>e, NameAt
  <2>3. dest = RedDirEntryLookup(Vol(new.s), dst.p, dst.name)
    BY <1>3, <1>5, <1>d, LookupIn
  <2>4. Vol(old.s) = Vol(new.s)
    BY <1>3, <1>5 DEF Shows, Vol
  <2>5. SameNameRenames \/ ~(src.p = dst.p /\ src.name = dst.name)
    BY <1>5, <1>m, <1>n, <1>s, <1>t, <2>4, SameName
  <2>6. Sound(new.s, {})
    BY <1>3 DEF Shows
  <2>7. Loses(new.s, x, dest.ino, fOrphan)
    BY <1>5, <1>o, <1>x, <2>1, <2>2, <2>3, <2>5, <2>6, RenameLoses
  <2>8. Answers(new.s, Marked(OnVolume(new.s, x), dest.ino, fOrphan))
    BY <2>6, <2>7, OrphanStep
  <2>. QED  BY <1>3, <2>8, ShowsAnswers
<1>. QED  BY <1>2, <1>3, <1>4, <1>5, <1>a, <1>b, <1>r

-----------------------------------------------------------------------------
(* Symbolic links.                                                         *)

(* A link that has just been created is removed: nothing is left of it.      *)
Undoing(v, p, name, r, c) ==
  /\ v \in DirVolumes /\ Tidy(v) /\ v.fReadOnly = FALSE /\ p \in Inodes /\ p \notin v.orphans
  /\ name \in Names /\ name \notin LongNames
  /\ r = CoreCreate(v, p, name, "LNK", "OK") /\ r.ret = "OK" /\ c = CoreUnlink(r.v, p, name, FALSE, "OK")

\* Removing a link that was just created gives the volume as it was.
LEMMA CreateUndone ==
  ASSUME NEW v, NEW p, NEW name, NEW r, NEW c, Undoing(v, p, name, r, c)
  PROVE  c.ret = "OK" /\ c.v = v
<1>. USE DEF Undoing
<1>0. PICK type : type = "LNK"
  OBVIOUS
<1>1. MountDir(v, p) = "OK" /\ FreeInodes(v) # {}
  BY DEF CoreCreate
<1>2. PICK x : x = Min(FreeInodes(v))
  OBVIOUS
<1>3. x \in Inodes /\ ~Exists(v, x)
  <2>1. FreeInodes(v) \subseteq Nat
    BY DirAssumption DEF FreeInodes
  <2>2. x \in FreeInodes(v)
    BY <1>1, <1>2, <2>1, MinIs
  <2>. QED  BY <2>2 DEF FreeInodes
<1>4. IsDir(v, p) /\ p # x
  BY <1>1, <1>3 DEF MountDir, IsDir
<1>5. PICK u : u = WithNew(v, x, type, p)
  OBVIOUS
<1>6. PICK s : s = RedDirEntryCreate(u, p, name, x, "OK")
  OBVIOUS
<1>7. s.ret = "OK" /\ r.v = s.v
  BY <1>0, <1>1, <1>2, <1>5, <1>6 DEF CoreCreate, WithNew
<1>8. MadeNode(v, x, p, u)
  BY <1>0, <1>3, <1>5, NewNodeTidy
<1>9. /\ u \in DirVolumes /\ IsDir(u, p) /\ Sized(u, p) /\ u.fReadOnly = FALSE
      /\ u.node[x].type = type /\ u.node[x].uNLink = 1
  <2>1. u.node[x] = NewNode(type, p)
    BY <1>3, <1>5 DEF WithNew, DirVolumes
  <2>2. IsDir(u, p)
    BY <1>4, <1>8 DEF IsDir, Exists, MadeNode
  <2>. QED  BY <1>8, <2>1, <2>2 DEF MadeNode, TidyOff, Shape, NewNode, FREE_INODE
<1>10. CreateOutcome(u, p, name, x, s)
  BY <1>3, <1>6, <1>9, CreateEntryIs DEF Outcomes
<1>11. EntryMade(u, p, name, x, s)
  BY <1>7, <1>10 DEF CreateOutcome
<1>12. PICK idx \in 0 .. DIRENTS_MAX - 1 :
         /\ name # "" /\ ~Used(u, p, idx)
         /\ s.v = WithDirents(u, p, [u.node[p].dirents EXCEPT ![idx] = [name |-> name, ino |-> x]])
  BY <1>11 DEF EntryMade
<1>13. PICK e : e = [name |-> name, ino |-> x]
  OBVIOUS
<1>14. PICK D : D = [u.node[p].dirents EXCEPT ![idx] = e]
  OBVIOUS
<1>15. PICK w : w = WithDirents(u, p, D)
  OBVIOUS
<1>16. r.v = w
  BY <1>7, <1>12, <1>13, <1>14, <1>15
<1>17. e.name = name /\ e.ino = x /\ x # INODE_INVALID
  BY <1>3, <1>13, DirAssumption
<1>33. e \in [name : Names \cup {""}, ino : Inodes \cup {INODE_INVALID}]
  BY <1>3, <1>13
<1>18. u.node[p].dirents \in Dirents /\ D \in Dirents /\ D[idx] = e
  <2>1. u.node[p].dirents \in Dirents
    BY <1>9, VolumeTypes
  <2>. QED  BY <1>14, <1>33, <2>1 DEF Dirents
<1>19. Changed(u, p, D, w)
  BY <1>9, <1>15, <1>18, WithDirentsIs
<1>20. w \in DirVolumes /\ IsDir(w, p) /\ Tidy(w) /\ Sized(w, p)
  <2>1. Good(v, r)
    <3>1. r = CoreCreate(v, p, name, type, "OK") /\ type \in {"DIR", "REG", "LNK"}
      BY <1>0
    <3>2. v \in DirVolumes /\ Tidy(v) /\ p \in Inodes /\ p \notin v.orphans /\ name \in Names
      OBVIOUS
    <3>3. PICK ok : ok = "OK"
      OBVIOUS
    <3>4. r = CoreCreate(v, p, name, type, ok) /\ ok \in Outcomes
      BY <3>1, <3>3 DEF Outcomes
    <3>5. Good(v, CoreCreate(v, p, name, type, ok))
      BY ONLY <3>1, <3>2, <3>4, CreateGood
    <3>. QED  BY <3>4, <3>5
  <2>2. w.fReadOnly = FALSE /\ w \in DirVolumes /\ IsDir(w, p)
    BY <1>9, <1>19 DEF Changed, IsDir, Exists
  <2>3. Tidy(w)
    BY <1>16, <2>1, <2>2 DEF Good
  <2>. QED  BY <2>2, <2>3 DEF Tidy, TidyOff, Shape
<1>21. w.node[p].dirents = D /\ w.node[p].dirents[idx] = e /\ Used(w, p, idx)
  BY <1>17, <1>18, <1>19 DEF Changed, Used
<1>22. PICK at : at = RedDirEntryLookup(w, p, name)
  OBVIOUS
<1>23. at.ret = "OK"
  <2>1. at.ret \in {"OK", "ENOENT"}
    BY <1>12, <1>20, <1>22 DEF RedDirEntryLookup
  <2>2. at.ret # "ENOENT"
    BY <1>17, <1>20, <1>21, <1>22, LookupIs
  <2>. QED  BY <2>1, <2>2
<1>24. at.idx = idx /\ at.ino = x
  <2>1. at.idx \in 0 .. DIRENTS_MAX - 1 /\ Used(w, p, at.idx) /\ w.node[p].dirents[at.idx] = [name |-> name, ino |-> at.ino]
    BY <1>20, <1>22, <1>23, LookupIs
  <2>2. UniqueNames(w)
    BY <1>20 DEF Tidy, TidyOff
  <2>3. at.idx = idx
    BY <1>17, <1>20, <1>21, <2>1, <2>2 DEF UniqueNames
  <2>. QED  BY <1>17, <1>21, <2>1, <2>3
<1>25. Unlinkable(w, x)
  BY <1>0, <1>3, <1>9, <1>19 DEF Unlinkable, IsDir, Changed
<1>26. PICK d : d = RedDirEntryDelete(w, p, idx, "OK")
  OBVIOUS
<1>27. d.ret = "OK" /\ d.v = u
  <2>1. u.node[p].dirents[idx] = Unused
    BY <1>9, <1>12 DEF Sized, Used
  <2>2. RedDirEntryDelete(w, p, idx, "OK") = Step(w, "OK", WithDirents(w, p, [w.node[p].dirents EXCEPT ![idx] = Unused]))
    BY <1>20, <1>21, DeleteIs
  <2>3. WithDirents(w, p, [w.node[p].dirents EXCEPT ![idx] = u.node[p].dirents[idx]]) = u
    <3>1. w = WithDirents(u, p, [u.node[p].dirents EXCEPT ![idx] = e])
      BY <1>14, <1>15
    <3>2. u \in DirVolumes
      BY <1>9
    <3>3. p \in Inodes
      OBVIOUS
    <3>4. Sized(u, p)
      BY <1>9
    <3>5. idx \in 0 .. DIRENTS_MAX - 1
      OBVIOUS
    <3>6. LET y == WithDirents(u, p, [u.node[p].dirents EXCEPT ![idx] = e])
          IN  WithDirents(y, p, [y.node[p].dirents EXCEPT ![idx] = u.node[p].dirents[idx]]) = u
      BY ONLY <3>2, <3>3, <3>4, <3>5, <1>33, UndoIs
    <3>. QED  BY ONLY <3>1, <3>6
  <2>4. WithDirents(w, p, [w.node[p].dirents EXCEPT ![idx] = Unused]) = u
    <3>. HIDE DEF Unused
    <3>. QED  BY ONLY <2>1, <2>3
  <2>. QED  BY <1>26, <2>2, <2>4 DEF Step, Done
<1>28. c.ret = "OK" /\ c.v = RedInodeLinkDec(u, x, FALSE)
  <2>1. MountDir(w, p) = "OK"
    BY <1>20 DEF MountDir, IsDir
  <2>2. c = Done(RedInodeLinkDec(d.v, x, FALSE))
    BY <1>16, <1>22, <1>23, <1>24, <1>25, <1>26, <1>27, <2>1 DEF CoreUnlink
  <2>3. c.ret = "OK" /\ c.v = RedInodeLinkDec(d.v, x, FALSE)
    BY ONLY <2>2 DEF Done
  <2>. QED  BY ONLY <1>27, <2>3
<1>29. RedInodeLinkDec(u, x, FALSE) = RedInodeFree(u, x)
  BY <1>9 DEF RedInodeLinkDec
<1>30. v.node[x] = FREE_INODE
  BY <1>3 DEF Tidy, TidyOff, Shape, Exists
<1>31. RedInodeFree(u, x) = [v EXCEPT !.node[x] = v.node[x]]
  <2>. HIDE DEF FREE_INODE
  <2>. QED  BY <1>3, <1>5, <1>30 DEF RedInodeFree, WithNew, DirVolumes
<1>32. [v EXCEPT !.node[x] = v.node[x]] = v
  BY <1>3 DEF DirVolumes
<1>. QED  BY <1>28, <1>29, <1>31, <1>32

(* red_symlink finds no block for the target: the link is removed again, and *)
(* only a defunct orphan may have been freed.                                *)
LEMMA SymlinkUndone ==
  ASSUME NEW v, VolumeGood(v), NEW p, Named(v, p), NEW name \in Names \cup LongNames,
         NEW made, made = CreateInode(v, p, name, "LNK", "OK"), made.ret = "OK",
         NEW undone, undone = AutoTransacted(RedCoreUnlink(made.v, p, name, FALSE, CoreFault("OK")), "UNLINK")
  PROVE  undone.ret = "OK" /\ Result(v, Failed("ENOSPC", undone.v), {})
<1>. DEFINE fFrees == Writeable(v) /\ IsDir(v, p) /\ FreeInodes(v) = {} /\ v.defunct # {}
<1>1. PICK w : w = IF fFrees THEN RedVolFreeOrphans(v, {Min(v.defunct)}) ELSE v
  OBVIOUS
<1>2. Keeps(v, w, {}) /\ Visible(w) = Visible(v) /\ w.fReadOnly = v.fReadOnly
  <2>1. CASE fFrees
    <3>1. v.defunct \subseteq Inodes /\ v.defunct # {}
      BY <2>1 DEF VolumeGood, PosixVolumes
    <3>2. Min(v.defunct) \in v.defunct
      BY <3>1, MinIs, DirAssumption
    <3>3. {Min(v.defunct)} \subseteq v.defunct
      BY <3>2
    <3>. QED  BY <1>1, <2>1, <3>3, FreeKeeps
  <2>2. CASE ~fFrees
    BY <1>1, <2>2, SameKeeps
  <2>. QED  BY <2>1, <2>2
<1>3. VolumeGood(w) /\ Named(w, p)
  <2>1. p \notin {}
    OBVIOUS
  <2>. QED  BY <1>2, <2>1, NamedStays DEF Keeps
<1>4. PICK q : q = RedCoreCreate(w, p, name, "LNK", CoreFault("OK"))
  OBVIOUS
<1>5. made = AutoTransacted(q, "CREAT")
  BY <1>1, <1>4 DEF CreateInode
<1>. HIDE DEF fFrees
<1>6. q = IF Writeable(w) THEN CoreCreate(w, p, name, "LNK", "OK")
          ELSE [ret |-> NotWriteable(w).ret, v |-> w, ino |-> INODE_INVALID]
  BY <1>4, CoreFaultIs
<1>7. q.ret = "OK"
  BY <1>5 DEF AutoTransacted
<1>8. Writeable(w) /\ q = CoreCreate(w, p, name, "LNK", "OK")
  <2>1. NotWriteable(w).ret # "OK"
    BY <1>3, NotWriteableIs
  <2>. QED  BY <1>6, <1>7, <2>1
<1>9. Result(w, q, {}) /\ DOMAIN q = {"ret", "v", "ino"}
  BY <1>3, <1>8, CreateResult
<1>10. /\ Result(w, made, {}) /\ made.v.node = q.v.node /\ made.v.orphans = q.v.orphans
       /\ made.v.defunct = q.v.defunct /\ made.v.fMounted = q.v.fMounted /\ made.v.fReadOnly = q.v.fReadOnly
  BY <1>5, <1>9, AutoTransactedIs
<1>11. /\ w \in PosixVolumes /\ Carries(w, w, AsDir(w)) /\ Shaped(w) /\ AsDir(w) \in DirVolumes /\ Tidy(AsDir(w))
       /\ p \in Inodes /\ p \notin AsDir(w).orphans /\ AsDir(w).fReadOnly = FALSE
  BY <1>3, VolumeIs, NamedIs DEF VolumeGood, ContentGood
<1>12. name \in Names /\ name \notin LongNames
  BY <1>7, <1>8, <1>11, CreateKeeps
<1>13. PICK dq : dq = CoreCreate(AsDir(w), p, name, "LNK", "OK")
  OBVIOUS
<1>14. Alike(w, q, dq)
  BY <1>8, <1>11, <1>13, CreateAlike
<1>15. dq.ret = "OK" /\ dq.v \in DirVolumes
  <2>1. Good(AsDir(w), dq)
    BY <1>11, <1>12, <1>13, CreateGood DEF Outcomes
  <2>. QED  BY <1>7, <1>14, <2>1 DEF Good, Alike
<1>16. AsDir(q.v) = dq.v /\ q.v.defunct = w.defunct /\ q.v.fMounted = w.fMounted /\ q.v.fReadOnly = w.fReadOnly
  BY <1>11, <1>14, <1>15, CarriedIs DEF Alike
<1>17. AsDir(made.v) = dq.v
  BY <1>10, <1>16 DEF AsDir
<1>18. VolumeGood(made.v) /\ Named(made.v, p) /\ Writeable(made.v)
  <2>1. Keeps(w, made.v, {}) /\ p \notin {}
    BY <1>10 DEF Result
  <2>2. VolumeGood(made.v)
    BY <2>1 DEF Keeps
  <2>3. PICK m : m = made.v
    OBVIOUS
  <2>4. Keeps(w, m, {}) /\ Named(w, p) /\ p \notin {}
    BY <1>3, <2>1, <2>3
  <2>5. Named(m, p)
    BY ONLY <2>4, NamedStays
  <2>6. made.v.fMounted = w.fMounted /\ made.v.fReadOnly = w.fReadOnly
    BY <1>10, <1>16
  <2>7. Writeable(made.v)
    BY ONLY <1>8, <2>6 DEF Writeable
  <2>. QED  BY <2>2, <2>3, <2>5, <2>7
<1>19. PICK a : a = CoreUnlink(made.v, p, name, FALSE, "OK")
  OBVIOUS
<1>20. undone = AutoTransacted(a, "UNLINK")
  BY <1>18, <1>19, CoreFaultIs
<1>21. PICK b : b = CoreUnlink(dq.v, p, name, FALSE, "OK")
  OBVIOUS
<1>22. b.ret = "OK" /\ b.v = AsDir(w)
  <2>1. Undoing(AsDir(w), p, name, dq, b)
    BY <1>11, <1>12, <1>13, <1>15, <1>21 DEF Undoing
  <2>. QED  BY <2>1, CreateUndone
<1>23. Alike(made.v, a, b)
  <2>1. made.v \in PosixVolumes /\ Carries(made.v, made.v, AsDir(made.v))
    BY <1>18, VolumeIs DEF VolumeGood
  <2>. QED  BY <1>17, <1>19, <1>21, <2>1, UnlinkAlike
<1>24. a.ret = "OK" /\ Carries(made.v, a.v, AsDir(w))
  BY <1>22, <1>23 DEF Alike
<1>25. /\ a.v.node = w.node /\ a.v.orphans \cup w.defunct = w.orphans \cup w.defunct
       /\ a.v.defunct = w.defunct /\ a.v.fMounted = w.fMounted /\ a.v.fReadOnly = w.fReadOnly
  <2>1. a.v = [made.v EXCEPT !.node = a.v.node, !.orphans = a.v.orphans]
    BY <1>24 DEF Carries
  <2>2. made.v \in PosixVolumes
    BY <1>18 DEF VolumeGood
  <2>3. a.v.defunct = made.v.defunct /\ a.v.fMounted = made.v.fMounted /\ a.v.fReadOnly = made.v.fReadOnly
    BY <2>1, <2>2 DEF PosixVolumes
  <2>4. a.v.node = w.node /\ a.v.orphans \cup made.v.defunct = w.orphans \cup w.defunct
    BY <1>24 DEF Carries, AsDir
  <2>. QED  BY <1>10, <1>16, <2>3, <2>4
<1>26. PICK at : at = RedDirEntryLookup(made.v, p, name)
  OBVIOUS
<1>27. Result(made.v, undone, {at.ino})
  <2>1. PICK m, no, ok : m = made.v /\ no = FALSE /\ ok = "OK"
    OBVIOUS
  <2>2. /\ VolumeGood(m) /\ Named(m, p) /\ at = RedDirEntryLookup(m, p, name) /\ ok \in {"OK", "ENOSPC"}
        /\ undone = AutoTransacted(RedCoreUnlink(m, p, name, no, CoreFault(ok)), "UNLINK")
    BY <1>18, <1>26, <2>1
  <2>3. Result(m, AutoTransacted(RedCoreUnlink(m, p, name, no, CoreFault(ok)), "UNLINK"), {at.ino})
    BY ONLY <2>2, UnlinkCall
  <2>. QED  BY <2>1, <2>2, <2>3
<1>28. VolumeGood(undone.v)
  BY <1>27 DEF Result, Keeps
<1>29. /\ undone.ret = "OK" /\ undone.v.node = a.v.node /\ undone.v.orphans = a.v.orphans
       /\ undone.v.defunct = a.v.defunct /\ undone.v.fMounted = a.v.fMounted /\ undone.v.fReadOnly = a.v.fReadOnly
  <2>1. Result(made.v, a, {at.ino}) /\ {"ret", "v"} \subseteq DOMAIN a
    <3>1. PICK m, no, ok : m = made.v /\ no = FALSE /\ ok = "OK"
      OBVIOUS
    <3>2. /\ VolumeGood(m) /\ Named(m, p) /\ at = RedDirEntryLookup(m, p, name) /\ ok \in {"OK", "ENOSPC"}
          /\ a = CoreUnlink(m, p, name, no, ok)
      BY <1>18, <1>19, <1>26, <3>1
    <3>3. Result(m, CoreUnlink(m, p, name, no, ok), {at.ino}) /\ {"ret", "v"} \subseteq DOMAIN CoreUnlink(m, p, name, no, ok)
      BY ONLY <3>2, UnlinkResult
    <3>. QED  BY <3>1, <3>2, <3>3
  <2>2. PICK m, X, event : m = made.v /\ X = {at.ino} /\ event = "UNLINK"
    OBVIOUS
  <2>3. Result(m, a, X) /\ {"ret", "v"} \subseteq DOMAIN a /\ undone = AutoTransacted(a, event)
    BY <1>20, <2>1, <2>2
  <2>4. /\ undone.ret = a.ret /\ undone.v.node = a.v.node /\ undone.v.orphans = a.v.orphans
        /\ undone.v.defunct = a.v.defunct /\ undone.v.fMounted = a.v.fMounted /\ undone.v.fReadOnly = a.v.fReadOnly
    BY ONLY <2>3, AutoTransactedIs
  <2>. QED  BY <1>24, <2>4
<1>30. undone.v.orphans = w.orphans
  <2>1. undone.v.orphans \cap undone.v.defunct = {} /\ w.orphans \cap w.defunct = {}
    BY <1>3, <1>28 DEF VolumeGood, ContentGood
  <2>. QED  BY <1>25, <1>29, <2>1
<1>31. Keeps(w, undone.v, {})
  BY <1>25, <1>28, <1>29, <1>30 DEF Keeps
<1>32. Visible(undone.v) = Visible(w)
  BY <1>25, <1>29 DEF Visible
<1>33. Result(w, Failed("ENOSPC", undone.v), {})
  BY <1>31, <1>32 DEF Result, Failed, Statuses
<1>. QED  BY <1>2, <1>29, <1>33, ResultAfter

(* red_symlink changes nothing if it fails.                                  *)
LEMMA SymlinkAnswers ==
  ASSUME NEW s, Sound(s, {}), NEW t, Registered(s, t), NEW path \in Paths, NEW fData \in {"OK", "ENOSPC"}
  PROVE  Answers(s, red_symlink(s, t, path, fData, "OK"))
<1>. DEFINE start == PathStartingPoint(s, t, FDCWD, path)
            name == RedPathToName(Vol(start.s), start.dir, start.names, "EISDIR")
            made == CreateInode(Vol(start.s), name.p, name.name, "LNK", "OK")
            undone == AutoTransacted(RedCoreUnlink(made.v, name.p, name.name, FALSE, CoreFault("OK")), "UNLINK")
            x == IF made.ret # "OK" THEN made
                 ELSE IF fData = "OK" THEN AutoTransacted(Done(made.v), "WRITE")
                 ELSE IF undone.ret = "OK" THEN Failed(fData, undone.v) ELSE undone
            r == red_symlink(s, t, path, fData, "OK")
<1>8. r = IF start.ret # "OK" THEN Returns(start.ret, start.s)
          ELSE IF name.ret # "OK" THEN Returns(name.ret, start.s)
          ELSE OnVolume(start.s, x)
  BY ZenonT(30) DEF red_symlink, AtName, AtStart
<1>1. start = PathStartingPoint(s, t, FDCWD, path)
  OBVIOUS
<1>2. name = RedPathToName(Vol(start.s), start.dir, start.names, "EISDIR")
  OBVIOUS
<1>3. made = CreateInode(Vol(start.s), name.p, name.name, "LNK", "OK")
  OBVIOUS
<1>4. undone = AutoTransacted(RedCoreUnlink(made.v, name.p, name.name, FALSE, CoreFault("OK")), "UNLINK")
  OBVIOUS
<1>5. x = IF made.ret # "OK" THEN made
           ELSE IF fData = "OK" THEN AutoTransacted(Done(made.v), "WRITE")
           ELSE IF undone.ret = "OK" THEN Failed(fData, undone.v) ELSE undone
  OBVIOUS
<1>6. r = red_symlink(s, t, path, fData, "OK")
  OBVIOUS
<1>. HIDE DEF start, name, made, undone, x, r
<1>7. StartGood(s, start)
  BY <1>1, StartIs
<1>9. Shows(s, start.s) /\ VolumeGood(Vol(start.s)) /\ start.names \in PathNames /\ start.ret # "EFUBAR"
  BY <1>7 DEF StartGood
<1>10. \A ret : ret # "EFUBAR" => Answers(s, Returns(ret, start.s))
  BY <1>9, ShowsAnswers
<1>a. name.ret # "EFUBAR"
  <2>1. "EISDIR" \in Statuses \ {"OK"}
    BY DEF Statuses
  <2>. QED  BY <1>2, <1>7, <1>9, <2>1, NameAt DEF Statuses
<1>11. ASSUME start.ret = "OK", name.ret = "OK" PROVE Answers(s, OnVolume(start.s, x))
  <2>1. "EISDIR" \in Statuses \ {"OK"}
    BY DEF Statuses
  <2>2. Named(Vol(start.s), name.p) /\ name.name \in Names \cup LongNames
    BY <1>2, <1>7, <1>9, <1>11, <2>1, NameAt
  <2>3. Result(Vol(start.s), made, {})
    BY <1>3, <1>9, <2>2, CreateInodeResult
  <2>4. Result(Vol(start.s), x, {})
    <3>1. CASE made.ret # "OK"
      BY <1>5, <2>3, <3>1
    <3>2. CASE made.ret = "OK" /\ fData = "OK"
      BY <1>5, <2>3, <3>2, AgainResult
    <3>3. CASE made.ret = "OK" /\ fData = "ENOSPC"
      <4>1. undone.ret = "OK" /\ Result(Vol(start.s), Failed("ENOSPC", undone.v), {})
        <5>1. PICK v, p, nm : v = Vol(start.s) /\ p = name.p /\ nm = name.name
          OBVIOUS
        <5>2. /\ VolumeGood(v) /\ Named(v, p) /\ nm \in Names \cup LongNames
              /\ made = CreateInode(v, p, nm, "LNK", "OK") /\ made.ret = "OK"
              /\ undone = AutoTransacted(RedCoreUnlink(made.v, p, nm, FALSE, CoreFault("OK")), "UNLINK")
          BY <1>3, <1>4, <1>9, <2>2, <3>3, <5>1
        <5>3. undone.ret = "OK" /\ Result(v, Failed("ENOSPC", undone.v), {})
          BY ONLY <5>2, SymlinkUndone
        <5>. QED  BY <5>1, <5>3
      <4>. QED  BY <1>5, <3>3, <4>1
    <3>. QED  BY <3>1, <3>2, <3>3
  <2>. QED  BY <1>9, <2>4, VolumeCall
<1>. QED  BY <1>6, <1>8, <1>9, <1>10, <1>11, <1>a

-----------------------------------------------------------------------------
(* Opening.                                                                *)

\* The inode that FildesOpen found or made.
OpenGood(v, found) ==
  /\ found.ret \in Statuses /\ Keeps(v, found.v, {}) /\ found.fCreated \in BOOLEAN
  /\ (found.ret # "OK" \/ ~found.fCreated) /\ found.v.fReadOnly = v.fReadOnly => Visible(found.v) = Visible(v)
  /\ found.ret = "OK" => v.fMounted /\ Named(found.v, found.ino)

\* Nothing was created: what was found, or an error.
LEMMA NothingFound ==
  ASSUME NEW v, VolumeGood(v), NEW found, found.v = v, found.fCreated = FALSE, found.ret \in Statuses,
         found.ret = "OK" => v.fMounted /\ Named(v, found.ino)
  PROVE  OpenGood(v, found)
<1>1. Keeps(v, v, {})
  BY SameKeeps
<1>. QED  BY <1>1 DEF OpenGood

\* Opening what exists finds an inode with a name.
LEMMA ExistingIs ==
  ASSUME NEW v, VolumeGood(v), NEW start, start.names \in PathNames, NEW flags,
         NEW found, found = OpenExisting(v, start, flags)
  PROVE  OpenGood(v, found)
<1>1. PICK nofollow : nofollow = (flags \cap {"SYMLINK", "NOFOLLOW"} # {})
  OBVIOUS
<1>2. PICK w : w = RedPathLookup(v, start.dir, start.names, nofollow)
  OBVIOUS
<1>3. PICK names : names = start.names
  OBVIOUS
<1>4. w = PathWalk(v, start.dir, names, nofollow) /\ names \in Seq(Names \cup LongNames \cup {".", ".."})
  BY <1>2, <1>3 DEF RedPathLookup, PathNames
<1>5. PICK S : S = Names \cup LongNames \cup {".", ".."}
  OBVIOUS
<1>6. names \in Seq(S)
  BY <1>4, <1>5
<1>7. WalkGood(v, w)
  BY <1>4, <1>6, WalkIs
<1>8. found = [ret |-> w.ret, v |-> v, ino |-> w.ino, fCreated |-> FALSE]
  BY <1>1, <1>2 DEF OpenExisting
<1>9. found.ret \in Statuses /\ (found.ret = "OK" => v.fMounted /\ Named(v, found.ino))
  BY <1>7, <1>8 DEF WalkGood, WalkStatuses, Statuses
<1>10. found.v = v /\ found.fCreated = FALSE
  BY <1>8
<1>. QED  BY <1>9, <1>10, NothingFound

\* Opening what may be created gives an inode with a name.
LEMMA CreatingIs ==
  ASSUME NEW v, VolumeGood(v), NEW start, start.names \in PathNames, NEW flags,
         NEW type \in {"DIR", "REG", "LNK"}, NEW f \in {"OK", "ENOSPC"},
         NEW found, found = OpenCreating(v, start, flags, type, f)
  PROVE  OpenGood(v, found)
<1>1. PICK name : name = RedPathToName(v, start.dir, start.names, "EISDIR")
  OBVIOUS
<1>2. PICK made : made = CreateInode(v, name.p, name.name, type, f)
  OBVIOUS
<1>3. PICK old : old = RedCoreLookup(v, name.p, name.name)
  OBVIOUS
<1>4. found =
        IF name.ret = "EISDIR"
        THEN [ ret |-> IF "EXCL" \notin flags THEN "OK" ELSE IF "RDONLY" \in flags THEN "EEXIST" ELSE "EISDIR",
               v |-> v, ino |-> ROOT, fCreated |-> FALSE ]
        ELSE IF name.ret # "OK" THEN [ret |-> name.ret, v |-> v, ino |-> ROOT, fCreated |-> FALSE]
        ELSE IF made.ret = "OK" THEN [ret |-> "OK", v |-> made.v, ino |-> made.ino, fCreated |-> TRUE]
        ELSE IF made.ret = "EROFS" \/ (made.ret = "EEXIST" /\ "EXCL" \notin flags)
        THEN [ ret |-> IF made.ret # "EROFS" THEN old.ret
                       ELSE IF old.ret = "OK" /\ "EXCL" \in flags THEN "EEXIST"
                       ELSE IF old.ret = "ENOENT" THEN "EROFS" ELSE old.ret,
               v |-> made.v, ino |-> old.ino, fCreated |-> FALSE ]
        ELSE [ret |-> made.ret, v |-> made.v, ino |-> ROOT, fCreated |-> FALSE]
  BY <1>1, <1>2, <1>3 DEF OpenCreating
<1>5. /\ name.ret \in WalkStatuses \cup {"EISDIR"}
      /\ name.ret = "OK" => v.fMounted /\ Named(v, name.p) /\ name.name \in Names \cup LongNames
      /\ name.ret \notin WalkStatuses => v.fMounted
  <2>1. PICK dir, names, err : dir = start.dir /\ names = start.names /\ err = "EISDIR"
    OBVIOUS
  <2>2. name = RedPathToName(v, dir, names, err) /\ names \in PathNames /\ err # "OK"
    BY <1>1, <2>1
  <2>3. /\ name.ret \in WalkStatuses \cup {err}
        /\ name.ret = "OK" /\ err # "OK" => v.fMounted /\ Named(v, name.p) /\ name.name \in Names \cup LongNames
        /\ name.ret \notin WalkStatuses => v.fMounted
    BY <2>2, PathToNameIs
  <2>. QED  BY <2>1, <2>3
<1>6. CASE name.ret = "EISDIR"
  <2>1. Named(v, ROOT) /\ v.fMounted
    BY <1>5, <1>6, RootIs DEF WalkStatuses
  <2>2. found.v = v /\ found.fCreated = FALSE /\ found.ino = ROOT /\ found.ret \in Statuses
    BY <1>4, <1>6 DEF Statuses
  <2>. QED  BY <2>1, <2>2, NothingFound
<1>7. CASE name.ret \notin {"EISDIR", "OK"}
  <2>1. found.v = v /\ found.fCreated = FALSE /\ found.ret \in Statuses /\ found.ret # "OK"
    BY <1>4, <1>5, <1>7 DEF Statuses, WalkStatuses
  <2>. QED  BY <2>1, NothingFound
<1>8. CASE name.ret = "OK"
  <2>1. /\ Result(v, made, {}) /\ v.fMounted
        /\ made.ret = "OK" => Named(made.v, made.ino)
    <3>1. PICK p, nm : p = name.p /\ nm = name.name
      OBVIOUS
    <3>2. /\ Named(v, p) /\ nm \in Names \cup LongNames /\ v.fMounted /\ VolumeGood(v)
          /\ made = CreateInode(v, p, nm, type, f)
      BY <1>2, <1>5, <1>8, <3>1
    <3>3. /\ Result(v, made, {})
          /\ made.ret = "OK" => Named(made.v, made.ino)
      BY <3>2, CreateInodeResult
    <3>. QED  BY <3>2, <3>3
  <2>2. /\ Keeps(v, made.v, {}) /\ made.ret \in Statuses
        /\ made.ret # "OK" /\ made.v.fReadOnly = v.fReadOnly => Visible(made.v) = Visible(v)
    BY <2>1 DEF Result
  <2>3. old.ret \in WalkStatuses /\ (old.ret = "OK" => Named(v, old.ino))
    BY <1>3, LookupIn
  <2>4. old.ret = "OK" => Named(made.v, old.ino)
    <3>1. \A i : i \notin {}
      OBVIOUS
    <3>. QED  BY <2>2, <2>3, <3>1, NamedStays
  <2>5. CASE made.ret = "OK"
    <3>1. found.ret = "OK" /\ found.v = made.v /\ found.ino = made.ino /\ found.fCreated = TRUE
      BY <1>4, <1>8, <2>5
    <3>2. found.ret \in Statuses
      BY <3>1 DEF Statuses
    <3>. QED  BY <2>1, <2>2, <2>5, <3>1, <3>2 DEF OpenGood
  <2>6. CASE made.ret = "EROFS" \/ (made.ret = "EEXIST" /\ "EXCL" \notin flags)
    <3>1. /\ found.v = made.v /\ found.ino = old.ino /\ found.fCreated = FALSE
          /\ found.ret \in {old.ret, "EEXIST", "EROFS"}
      BY <1>4, <1>8, <2>6
    <3>2. found.ret \in Statuses /\ (found.ret = "OK" => old.ret = "OK")
      BY <2>3, <3>1 DEF Statuses, WalkStatuses
    <3>. QED  BY <2>1, <2>2, <2>4, <2>6, <3>1, <3>2 DEF OpenGood
  <2>7. CASE made.ret # "OK" /\ ~(made.ret = "EROFS" \/ (made.ret = "EEXIST" /\ "EXCL" \notin flags))
    <3>1. found.v = made.v /\ found.fCreated = FALSE /\ found.ret = made.ret
      BY <1>4, <1>8, <2>7
    <3>. QED  BY <2>2, <2>7, <3>1 DEF OpenGood
  <2>. QED  BY <2>5, <2>6, <2>7
<1>. QED  BY <1>6, <1>7, <1>8

\* A good result after a call that kept the volume.
LEMMA ResultOn ==
  ASSUME NEW v, NEW w, Keeps(v, w, {}), w.fReadOnly = v.fReadOnly => Visible(w) = Visible(v),
         NEW r, Result(w, r, {})
  PROVE  Result(v, r, {})
<1>1. CASE w.fReadOnly = v.fReadOnly
  BY <1>1, ResultAfter
<1>2. CASE w.fReadOnly # v.fReadOnly
  <2>2. Keeps(v, r.v, {})
    BY DEF Result, Keeps, Exists
  <2>3. w.fReadOnly \in BOOLEAN /\ r.v.fReadOnly \in BOOLEAN
    BY DEF Result, Keeps, VolumeGood, PosixVolumes
  <2>4. (v.fReadOnly => w.fReadOnly) /\ (w.fReadOnly => r.v.fReadOnly)
    BY DEF Result, Keeps
  <2>. QED  BY <1>2, <2>2, <2>3, <2>4 DEF Result
<1>. QED  BY <1>1, <1>2

\* HandleOpen finds a slot for the inode, and gives a handle.
LEMMA HandleOpenIs ==
  ASSUME NEW s, Sound(s, {}), NEW h \in Handles, ~InUse(s, h), Vol(s).fMounted, NEW ino, Named(Vol(s), ino), NEW flags,
         NEW r, r = HandleOpen(s, h, ino, HandleFlags(Vol(s).node[ino].type, flags))
  PROVE  r.ret = "OK" /\ Answers(s, r)
<1>1. PICK n : n = s.gbRedVolNum
  OBVIOUS
<1>2. PICK key : key = <<n, ino>>
  OBVIOUS
<1>3. PICK type : type = Vol(s).node[ino].type
  OBVIOUS
<1>4. PICK rec : rec = [FreeHandle EXCEPT !.pOpenIno = key, !.bFlags = HandleFlags(type, flags),
                                          !.fildes = FildesPack(s, h, n)]
  OBVIOUS
<1>5. n \in Volumes /\ Vol(s) = s.vol[n] /\ ino \in Inodes /\ key \in Keys /\ key[1] = n /\ key[2] = ino
  BY <1>1, <1>2 DEF Sound, Tables, Vol, Named, Keys
<1>6. type \in {"DIR", "REG", "LNK"} /\ InUseAs(s.vol[n], ino, type)
  <2>1. s.vol[n] \in PosixVolumes
    BY <1>5 DEF Sound, Tables, VolumeGood
  <2>2. s.vol[n].node[ino] \in Nodes
    BY <1>5, <2>1 DEF PosixVolumes
  <2>3. type \in {"FREE", "DIR", "REG", "LNK"}
    BY <1>3, <1>5, <2>2 DEF Nodes
  <2>. QED  BY <1>3, <1>5, <2>3 DEF Named, Exists, InUseAs
<1>7. OpenInoFind(s, key)
  <2>1. Uses(s)[HandleUser(h)] = NULL /\ HandleUser(h) \in UserIds
    BY UsesIs, UsersNamed DEF InUse
  <2>2. Cardinality(DOMAIN s.gaOpenInos) < OPEN_INODE_COUNT
    BY <2>1, RoomIs DEF Sound, Tables
  <2>. QED  BY <2>2 DEF OpenInoFind
<1>8. PICK t : t = [WithRef(s, key) EXCEPT !.gaHandle[h] = rec]
  OBVIOUS
<1>9. r = Returns("OK", t)
  BY <1>1, <1>2, <1>3, <1>4, <1>7, <1>8 DEF HandleOpen
<1>10. DOMAIN s = Fields
  BY DEF Sound, Tables
<1>11. Frame(s, WithRef(s, key), {"gaOpenInos"}) /\ WithRef(s, key).gaOpenInos = TableWith(s.gaOpenInos, key)
  BY <1>10, WithRefIs
<1>12. PICK w : w = WithRef(s, key)
  OBVIOUS
<1>13. Frame(s, w, {"gaOpenInos"}) /\ t = [w EXCEPT !.gaHandle = [w.gaHandle EXCEPT ![h] = rec]]
  BY <1>8, <1>11, <1>12
<1>14. /\ Frame(s, t, {"gaHandle", "gaOpenInos"}) /\ t.gaOpenInos = w.gaOpenInos
       /\ t.gaHandle = [s.gaHandle EXCEPT ![h] = rec]
  BY ONLY <1>13 DEF Frame, Fields
<1>15. t.gaOpenInos = TableWith(s.gaOpenInos, key)
  BY <1>11, <1>12, <1>14
<1>16. HandleRecord(rec) /\ rec.pOpenIno = key /\ rec.fildes = FildesPack(s, h, key[1]) /\ rec.bFlags = HandleFlags(type, flags)
  BY <1>4, <1>5 DEF FreeHandle, HandleRecord
<1>17. HandleType(t, h) = type
  <2>1. t.gaHandle[h] = rec
    BY <1>14 DEF Sound, Tables
  <2>2. ("DIRECTORY" \in HandleFlags(type, flags) <=> type = "DIR") /\ ("SYMLINK" \in HandleFlags(type, flags) <=> type = "LNK")
    BY DEF HandleFlags
  <2>. QED  BY <1>6, <1>16, <2>1, <2>2 DEF HandleType
<1>18. Sound(t, {})
  <2>1. s.gaHandle[h].pOpenIno = NULL
    BY DEF InUse
  <2>2. Named(s.vol[key[1]], key[2]) /\ InUseAs(s.vol[key[1]], key[2], HandleType(t, h))
    BY <1>5, <1>6, <1>17
  <2>3. Frame(s, t, {"gaHandle", "gaOpenInos"}) /\ t.gaHandle = [s.gaHandle EXCEPT ![h] = rec]
    BY <1>14
  <2>4. HandleRecord(rec) /\ rec.pOpenIno = key /\ rec.fildes = FildesPack(s, h, key[1]) /\ key \in Keys
    BY <1>5, <1>16
  <2>. QED  BY ONLY Sound(s, {}), h \in Handles, <1>15, <2>1, <2>2, <2>3, <2>4, AddHandle
<1>19. Stays(s, t)
  <2>1. Frame(s, t, {"gaHandle", "gaOpenInos"})
    BY <1>14
  <2>2. t.gfPosixInited = s.gfPosixInited /\ t.gauGeneration = s.gauGeneration /\ t.vol = s.vol
    BY ONLY <2>1, FrameIs
  <2>. QED  BY <2>2 DEF Stays
<1>. QED  BY <1>9, <1>18, <1>19 DEF Answers, Returns

\* Once an inode has been found or made: the check of its type, the truncation,
\* and the handle.
LEMMA OpeningAnswers ==
  ASSUME NEW u, Sound(u, {}), NEW v, v = Vol(u), NEW found, OpenGood(v, found), HandleFindFree(u) # {}, NEW flags,
         NEW check \in Statuses, check # "OK" => ~found.fCreated,
         NEW x, x = IF "TRUNC" \in flags /\ ~found.fCreated THEN RedCoreFileTruncate(found.v, found.ino)
                    ELSE Done(found.v),
         NEW c, c = OnVolume(u, x),
         NEW r, r = IF found.ret # "OK" THEN OnVolume(u, Failed(found.ret, found.v))
                    ELSE IF check # "OK" THEN OnVolume(u, Failed(check, found.v))
                    ELSE IF c.ret # "OK" THEN c
                    ELSE HandleOpen(c.s, Min(HandleFindFree(c.s)), found.ino,
                                    HandleFlags(Vol(c.s).node[found.ino].type, flags))
  PROVE  Answers(u, r)
<1>1. /\ found.ret \in Statuses /\ Keeps(v, found.v, {}) /\ VolumeGood(found.v)
      /\ (found.ret # "OK" \/ ~found.fCreated) /\ found.v.fReadOnly = v.fReadOnly => Visible(found.v) = Visible(v)
      /\ found.ret = "OK" => v.fMounted /\ Named(found.v, found.ino)
  BY DEF OpenGood, Keeps
<1>2. ASSUME NEW err \in Statuses \ {"OK"}, found.ret # "OK" \/ ~found.fCreated
      PROVE  Answers(u, OnVolume(u, Failed(err, found.v)))
  <2>1. PICK y : y = Failed(err, found.v)
    OBVIOUS
  <2>2. y.ret = err /\ y.v = found.v
    BY <2>1 DEF Failed
  <2>3. Result(v, y, {})
    BY <1>1, <1>2, <2>2 DEF Result
  <2>. QED  BY <2>1, <2>3, VolumeAnswers
<1>3. CASE found.ret # "OK"
  BY <1>1, <1>2, <1>3
<1>4. CASE found.ret = "OK" /\ check # "OK"
  BY <1>2, <1>4
<1>5. CASE found.ret = "OK" /\ check = "OK"
  <2>1. Result(found.v, x, {}) /\ Result(v, x, {})
    <3>1. CASE "TRUNC" \in flags /\ ~found.fCreated
      <4>1. Result(found.v, x, {})
        BY <1>1, <3>1, ChangeResult
      <4>. QED  BY <1>1, <3>1, <4>1, ResultOn
    <3>2. CASE ~("TRUNC" \in flags /\ ~found.fCreated)
      <4>1. x = Done(found.v) /\ Keeps(found.v, found.v, {})
        BY <1>1, <3>2, SameKeeps
      <4>. QED  BY <1>1, <4>1, DoneWith
    <3>. QED  BY <3>1, <3>2
  <2>2. /\ Answers(u, c) /\ c.ret = x.ret /\ Vol(c.s) = x.v /\ c.s.gaHandle = u.gaHandle
    <3>1. Result(Vol(u), x, {}) /\ \A i \in {} : ~InUseBy(u, {}, <<u.gbRedVolNum, i>>)
      BY <2>1
    <3>. QED  BY ONLY Sound(u, {}), c = OnVolume(u, x), <3>1, VolumeDone
  <2>3. CASE c.ret # "OK"
    BY <1>5, <2>2, <2>3
  <2>4. CASE c.ret = "OK"
    <3>1. PICK h : h = Min(HandleFindFree(c.s))
      OBVIOUS
    <3>2. h \in Handles /\ ~InUse(c.s, h)
      <4>1. HandleFindFree(c.s) = HandleFindFree(u)
        BY <2>2 DEF HandleFindFree, InUse
      <4>2. PICK S : S = HandleFindFree(c.s)
        OBVIOUS
      <4>3. S \subseteq Nat /\ S # {}
        BY <4>1, <4>2, PosixAssumption DEF HandleFindFree
      <4>4. h \in S
        BY <3>1, <4>2, <4>3, MinIs
      <4>. QED  BY <4>2, <4>4 DEF HandleFindFree
    <3>3. Named(x.v, found.ino) /\ x.v.fMounted
      <4>1. Keeps(found.v, x.v, {}) /\ Keeps(v, x.v, {})
        BY <2>1 DEF Result
      <4>2. found.ino \notin {}
        OBVIOUS
      <4>3. Named(found.v, found.ino) /\ v.fMounted
        BY <1>1, <1>5
      <4>4. Named(x.v, found.ino)
        BY ONLY <4>1, <4>2, <4>3, NamedStays
      <4>. QED  BY <4>1, <4>3, <4>4 DEF Keeps
    <3>4. Sound(c.s, {}) /\ Stays(u, c.s)
      BY <2>2 DEF Answers
    <3>5. r.ret = "OK" /\ Answers(c.s, r)
      <4>1. PICK t, ino : t = c.s /\ ino = found.ino
        OBVIOUS
      <4>2. r = HandleOpen(t, h, ino, HandleFlags(Vol(t).node[ino].type, flags))
        BY <1>5, <2>4, <3>1, <4>1
      <4>3. Sound(t, {}) /\ ~InUse(t, h) /\ Vol(t).fMounted /\ Named(Vol(t), ino)
        BY <2>2, <3>2, <3>3, <3>4, <4>1
      <4>4. r.ret = "OK" /\ Answers(t, r)
        BY ONLY <3>2, <4>2, <4>3, HandleOpenIs
      <4>. QED  BY <4>1, <4>4
    <3>6. Stays(c.s, r.s) /\ Sound(r.s, {})
      BY ONLY <3>5 DEF Answers
    <3>7. Stays(u, r.s)
      BY ONLY <3>4, <3>6, StaysOn
    <3>. QED  BY ONLY <3>5, <3>6, <3>7 DEF Answers
  <2>. QED  BY <2>3, <2>4
<1>. QED  BY <1>3, <1>4, <1>5

\* A failed open has changed nothing; an open has a handle of the inode.
LEMMA FildesOpenAnswers ==
  ASSUME NEW s, Sound(s, {}), NEW t, Registered(s, t), NEW fd, NEW path \in Paths, NEW flags, NEW expected,
         NEW type \in {"DIR", "REG", "LNK"}, NEW f \in {"OK", "ENOSPC"}
  PROVE  Answers(s, FildesOpen(s, t, fd, path, flags, expected, type, f))
<1>. DEFINE start == PathStartingPoint(s, t, fd, path)
            u == start.s
            v == Vol(u)
            found == IF "CREAT" \in flags THEN OpenCreating(v, start, flags, type, f)
                     ELSE OpenExisting(v, start, flags)
            check == IF found.fCreated THEN "OK" ELSE OpenCheck(found.v, found.ino, flags, expected)
            x == IF "TRUNC" \in flags /\ ~found.fCreated THEN RedCoreFileTruncate(found.v, found.ino)
                 ELSE Done(found.v)
            c == OnVolume(u, x)
            y == IF found.ret # "OK" THEN OnVolume(u, Failed(found.ret, found.v))
                 ELSE IF check # "OK" THEN OnVolume(u, Failed(check, found.v))
                 ELSE IF c.ret # "OK" THEN c
                 ELSE HandleOpen(c.s, Min(HandleFindFree(c.s)), found.ino,
                                 HandleFlags(Vol(c.s).node[found.ino].type, flags))
            r == FildesOpen(s, t, fd, path, flags, expected, type, f)
<1>10. r = IF start.ret # "OK" THEN Returns(start.ret, u)
           ELSE IF v.fReadOnly /\ flags \cap {"WRONLY", "RDWR", "TRUNC"} # {} THEN Returns("EROFS", u)
           ELSE IF HandleFindFree(u) = {} THEN Returns("EMFILE", u)
           ELSE y
  BY ZenonT(30) DEF FildesOpen, AtStart
<1>1. start = PathStartingPoint(s, t, fd, path)
  OBVIOUS
<1>2. u = start.s
  OBVIOUS
<1>3. v = Vol(u)
  OBVIOUS
<1>4. found = IF "CREAT" \in flags THEN OpenCreating(v, start, flags, type, f)
               ELSE OpenExisting(v, start, flags)
  OBVIOUS
<1>5. check = IF found.fCreated THEN "OK" ELSE OpenCheck(found.v, found.ino, flags, expected)
  OBVIOUS
<1>6. x = IF "TRUNC" \in flags /\ ~found.fCreated THEN RedCoreFileTruncate(found.v, found.ino)
           ELSE Done(found.v)
  OBVIOUS
<1>7. c = OnVolume(u, x)
  OBVIOUS
<1>8. y = IF found.ret # "OK" THEN OnVolume(u, Failed(found.ret, found.v))
           ELSE IF check # "OK" THEN OnVolume(u, Failed(check, found.v))
           ELSE IF c.ret # "OK" THEN c
           ELSE HandleOpen(c.s, Min(HandleFindFree(c.s)), found.ino,
                           HandleFlags(Vol(c.s).node[found.ino].type, flags))
  OBVIOUS
<1>9. r = FildesOpen(s, t, fd, path, flags, expected, type, f)
  OBVIOUS
<1>. HIDE DEF start, u, v, found, check, x, c, y, r
<1>11. StartGood(s, start)
  BY <1>1, StartIs
<1>12. Shows(s, u) /\ VolumeGood(v) /\ start.names \in PathNames /\ Sound(u, {}) /\ start.ret # "EFUBAR"
  BY <1>2, <1>3, <1>11 DEF StartGood, Shows
<1>13. \A ret : ret # "EFUBAR" => Answers(s, Returns(ret, u))
  BY <1>12, ShowsAnswers
<1>14. ASSUME HandleFindFree(u) # {} PROVE Answers(s, y)
  <2>1. OpenGood(v, found)
    BY <1>4, <1>12, ExistingIs, CreatingIs
  <2>2. check \in Statuses /\ (check # "OK" => ~found.fCreated)
    <3>1. found.fCreated \in BOOLEAN
      BY <2>1 DEF OpenGood
    <3>2. OpenCheck(found.v, found.ino, flags, expected) \in Statuses
      BY DEF OpenCheck, RedFileTypeCheck, Statuses
    <3>3. "OK" \in Statuses
      BY DEF Statuses
    <3>. QED  BY <1>5, <3>1, <3>2, <3>3
  <2>3. Answers(u, y)
    BY ONLY <1>3, <1>6, <1>7, <1>8, <1>12, <1>14, <2>1, <2>2, OpeningAnswers
  <2>. QED  BY <1>12, <2>3, ShowsAnswers
<1>. QED  BY <1>9, <1>10, <1>12, <1>13, <1>14

\* red_openat and red_opendir answer.
LEMMA OpenAnswers ==
  ASSUME NEW s, Sound(s, {}), NEW t, Registered(s, t), NEW fd, NEW path \in Paths, NEW flags,
         NEW f \in {"OK", "ENOSPC"}
  PROVE  /\ Answers(s, red_openat(s, t, fd, path, flags, f))
         /\ Answers(s, red_opendir(s, t, path))
<1>1. PICK type : type = IF "SYMLINK" \in flags THEN "LNK" ELSE "REG"
  OBVIOUS
<1>2. PICK expected : expected = IF "SYMLINK" \in flags THEN {"LNK"} ELSE {"REG", "DIR"}
  OBVIOUS
<1>3. type \in {"DIR", "REG", "LNK"}
  BY <1>1
<1>4. Answers(s, FildesOpen(s, t, fd, path, flags, expected, type, f))
  BY <1>3, FildesOpenAnswers
<1>5. Answers(s, Returns("EINVAL", s))
  BY Refuses
<1>6. Answers(s, red_openat(s, t, fd, path, flags, f))
  BY <1>1, <1>2, <1>4, <1>5 DEF red_openat
<1>7. Answers(s, FildesOpen(s, t, FDCWD, path, {"RDONLY"}, {"DIR"}, "DIR", "OK"))
  <2>1. "DIR" \in {"DIR", "REG", "LNK"} /\ "OK" \in {"OK", "ENOSPC"}
    OBVIOUS
  <2>. QED  BY <2>1, FildesOpenAnswers
<1>. QED  BY <1>6, <1>7 DEF red_opendir

-----------------------------------------------------------------------------
(* Closing by descriptor and by stream; directory streams.                 *)

\* red_close and red_closedir.
LEMMA CloseAnswers ==
  ASSUME NEW s, Sound(s, {}), NEW f \in {"OK", "EIO"}
  PROVE  /\ \A fd : Answers(s, red_close(s, fd, f))
         /\ \A h \in Handles : Answers(s, red_closedir(s, h, f))
<1>1. \A ret : ret # "EFUBAR" => Answers(s, Returns(ret, s))
  BY Refuses
<1>a. \A fd, expected : FildesToHandle(s, fd, expected) # "EFUBAR"
  BY DEF FildesToHandle, RedFileTypeCheck
<1>2. ASSUME NEW h \in Handles, InUse(s, h), NEW flags PROVE Answers(s, HandleClose(s, h, flags, f))
  BY <1>2, HandleCloseIs DEF HandleClosed
<1>3. ASSUME NEW fd PROVE Answers(s, red_close(s, fd, f))
  <2>1. CASE FildesToHandle(s, fd, FTYPE_ANY) # "OK"
    BY <1>1, <1>a, <2>1 DEF red_close, FildesClose
  <2>2. CASE FildesToHandle(s, fd, FTYPE_ANY) = "OK"
    <3>1. fd.idx \in Handles /\ InUse(s, fd.idx)
      BY <2>2, FildesIs
    <3>2. red_close(s, fd, f) = HandleClose(s, fd.idx, {"CLOSE"}, f)
      BY <2>2 DEF red_close, FildesClose
    <3>. QED  BY <1>2, <3>1, <3>2
  <2>. QED  BY <2>1, <2>2
<1>4. ASSUME NEW h \in Handles PROVE Answers(s, red_closedir(s, h, f))
  BY <1>1, <1>2 DEF red_closedir, DirStreamIsValid
<1>. QED  BY <1>3, <1>4

\* A directory stream that has moved.
LEMMA StreamMoves ==
  ASSUME NEW s, Sound(s, {}), NEW h \in Handles, NEW pos \in Nat
  PROVE  Answers(s, Returns("OK", [s EXCEPT !.gaHandle[h].ulDirPosition = pos]))
<1>1. PICK q : q = [s EXCEPT !.gaHandle[h].ulDirPosition = pos]
  OBVIOUS
<1>2. DOMAIN s = Fields /\ DOMAIN s.gaHandle = Handles /\ \A g \in Handles : HandleRecord(s.gaHandle[g])
  BY DEF Sound, Tables
<1>3. PICK a : a = [s.gaHandle[h] EXCEPT !.ulDirPosition = pos]
  OBVIOUS
<1>4. q = [s EXCEPT !.gaHandle = [s.gaHandle EXCEPT ![h] = a]]
  BY <1>1, <1>2, <1>3
<1>5. Frame(s, q, {"gaHandle"}) /\ q.gaHandle = [s.gaHandle EXCEPT ![h] = a]
  BY ONLY <1>2, <1>4 DEF Frame, Fields
<1>6. /\ q.gfPosixInited = s.gfPosixInited /\ q.gbRedVolNum = s.gbRedVolNum /\ q.vol = s.vol
      /\ q.gaOpenInos = s.gaOpenInos /\ q.gaTask = s.gaTask /\ q.gauGeneration = s.gauGeneration /\ DOMAIN q = Fields
  <2>1. Frame(s, q, {"gaHandle"})
    BY <1>5
  <2>. QED  BY ONLY <2>1, FrameIs
<1>7. /\ HandleRecord(a) /\ a.pOpenIno = s.gaHandle[h].pOpenIno /\ a.bFlags = s.gaHandle[h].bFlags
      /\ a.fildes = s.gaHandle[h].fildes
  BY <1>2, <1>3 DEF HandleRecord
<1>8. /\ DOMAIN q.gaHandle = Handles
      /\ \A g \in Handles : /\ HandleRecord(q.gaHandle[g]) /\ q.gaHandle[g].pOpenIno = s.gaHandle[g].pOpenIno
                            /\ q.gaHandle[g].bFlags = s.gaHandle[g].bFlags
                            /\ q.gaHandle[g].fildes = s.gaHandle[g].fildes
  BY <1>2, <1>5, <1>7
<1>9. Uses(q) = Uses(s)
  <2>1. \A u \in UserIds : u[1] = 0 => u[2] \in Handles
    BY UsersNamed DEF UserIds
  <2>. QED  BY <1>6, <1>8, <2>1 DEF Uses
<1>10. Tables(q)
  BY <1>6, <1>8 DEF Sound, Tables
<1>11. \A g \in Handles : HandleGood(q, g)
  BY <1>6, <1>8 DEF Sound, HandleGood, HandleType, FildesPack
<1>12. \A i \in Slots : TaskGood(q, i)
  BY <1>6 DEF Sound, TaskGood
<1>13. \A key \in DOMAIN q.gaOpenInos : MarkGood(q, {}, key)
  BY <1>6, <1>9 DEF Sound, MarkGood, InUseBy
<1>14. Sound(q, {})
  BY <1>6, <1>9, <1>10, <1>11, <1>12, <1>13 DEF Sound
<1>15. Stays(s, q)
  BY <1>6 DEF Stays
<1>. QED  BY <1>1, <1>14, <1>15 DEF Answers, Returns

\* An entry that is read is of an inode that exists; other reads end.
LEMMA ReadFinds ==
  ASSUME NEW v, VolumeGood(v), v.fMounted, NEW d, Exists(v, d), v.node[d].type = "DIR", NEW pos \in Nat,
         NEW read, read = RedCoreDirRead(v, d, pos)
  PROVE  /\ read.pos \in Nat /\ read.ret \in {"OK", "ENOENT"}
         /\ read.ret = "OK" => RedCoreStat(v, read.entry.ino).ret = "OK"
<1>. DEFINE p == AsDir(v)
<1>1. /\ v \in PosixVolumes /\ p \in DirVolumes /\ p.node = v.node /\ Tidy(p)
      /\ \A j : (Exists(p, j) <=> Exists(v, j)) /\ (IsDir(p, j) <=> IsDir(v, j))
  BY VolumeIs DEF VolumeGood, ContentGood
<1>2. IsDir(v, d) /\ MountDir(v, d) = "OK" /\ d \in Inodes
  BY DEF IsDir, MountDir, Exists
<1>3. Sized(v, d)
  BY <1>1, <1>2 DEF Tidy, TidyOff, Shape, Sized, IsDir, Exists
<1>4. Count(v, d) \in 0 .. DIRENTS_MAX /\ DIRENTS_MAX \in Nat
  BY <1>3, CountIsTop, BlockFits
<1>5. PICK next : next = NextUsed(v, d, pos)
  OBVIOUS
<1>6. next \subseteq Nat /\ \A k \in next : k \in 0 .. DIRENTS_MAX - 1 /\ v.node[d].dirents[k].ino # INODE_INVALID
  BY <1>4, <1>5 DEF NextUsed, Used
<1>7. read = IF next # {}
             THEN [ret |-> "OK", pos |-> Min(next) + 1, entry |-> v.node[d].dirents[Min(next)]]
             ELSE [ret |-> "ENOENT", pos |-> Count(v, d), entry |-> Unused]
  BY <1>2, <1>5 DEF RedCoreDirRead, RedDirEntryRead
<1>8. CASE next = {}
  BY <1>4, <1>7, <1>8
<1>9. CASE next # {}
  <2>1. PICK k : k = Min(next)
    OBVIOUS
  <2>2. k \in next
    BY <1>6, <1>9, <2>1, MinIs
  <2>3. PICK i : i = v.node[d].dirents[k].ino
    OBVIOUS
  <2>4. k \in 0 .. DIRENTS_MAX - 1 /\ i # INODE_INVALID /\ k \in Nat
    BY <1>6, <2>2, <2>3
  <2>5. i \in Inodes
    <3>1. v.node[d] \in Nodes
      BY <1>1, <1>2 DEF PosixVolumes
    <3>. QED  BY <2>3, <2>4, <3>1 DEF Nodes
  <2>6. Leads(AsDir(v), d, k, i)
    BY <1>1, <1>2, <2>3, <2>4 DEF Leads
  <2>7. Named(v, i)
    BY <2>5, <2>6, LeadsIs
  <2>8. RedCoreStat(v, i).ret = "OK"
    BY <2>7 DEF RedCoreStat, Named
  <2>9. read = [ret |-> "OK", pos |-> k + 1, entry |-> v.node[d].dirents[k]]
    BY <1>7, <1>9, <2>1
  <2>. QED  BY <2>3, <2>4, <2>8, <2>9
<1>. QED  BY <1>8, <1>9

\* Directory streams: no read of a stream fails.
LEMMA StreamsAnswer ==
  ASSUME NEW s, Sound(s, {}), NEW h \in Handles
  PROVE  /\ Answers(s, red_readdir(s, h)) /\ Answers(s, red_rewinddir(s, h))
         /\ Answers(s, red_seekdir(s, h, red_telldir(s, h)))
<1>1. \A ret : ret # "EFUBAR" => Answers(s, Returns(ret, s))
  BY Refuses
<1>2. s.gaHandle[h].ulDirPosition \in Nat
  BY DEF Sound, Tables, HandleRecord
<1>3. \A pos \in Nat : Answers(s, red_seekdir(s, h, pos))
  BY <1>1, StreamMoves DEF red_seekdir
<1>4. Answers(s, red_rewinddir(s, h))
  BY <1>3 DEF red_rewinddir
<1>5. Answers(s, red_seekdir(s, h, red_telldir(s, h)))
  BY <1>2, <1>3 DEF red_telldir
<1>6. Answers(s, red_readdir(s, h))
  <2>1. CASE ~DirStreamIsValid(s, h)
    BY <1>1, <2>1 DEF red_readdir
  <2>2. CASE DirStreamIsValid(s, h)
    <3>1. PICK key : key = s.gaHandle[h].pOpenIno
      OBVIOUS
    <3>2. PICK u : u = Current(s, key[1])
      OBVIOUS
    <3>3. PICK pos : pos = s.gaHandle[h].ulDirPosition
      OBVIOUS
    <3>4. PICK read : read = RedCoreDirRead(Vol(u), key[2], pos)
      OBVIOUS
    <3>5. key \in Keys /\ key[1] \in Volumes /\ key[2] \in Inodes
      BY <2>2, <3>1 DEF Sound, Tables, HandleRecord, DirStreamIsValid, InUse, Keys
    <3>6. InUseAs(s.vol[key[1]], key[2], "DIR")
      <4>1. key # NULL /\ HandleType(s, h) = "DIR"
        BY <2>2, <3>1 DEF DirStreamIsValid, InUse, HandleType
      <4>. QED  BY <3>1, <4>1 DEF Sound, HandleGood
    <3>7. Shows(s, u)
      BY <3>2, <3>5, ShowsIs
    <3>8. Sound(u, {}) /\ Vol(u) = s.vol[key[1]] /\ u.gaHandle = s.gaHandle /\ VolumeGood(Vol(u))
      <4>1. Sound(u, {}) /\ u.vol = s.vol /\ u.gaHandle = s.gaHandle
        BY <3>7 DEF Shows
      <4>2. u.gbRedVolNum = key[1]
        BY <3>2, <3>5, CurrentIs
      <4>. QED  BY <3>5, <4>1, <4>2 DEF Vol, Sound, Tables
    <3>9. /\ read.pos \in Nat /\ read.ret \in {"OK", "ENOENT"}
          /\ read.ret = "OK" => RedCoreStat(Vol(u), read.entry.ino).ret = "OK"
      <4>1. Vol(u).fMounted /\ Exists(Vol(u), key[2]) /\ Vol(u).node[key[2]].type = "DIR"
        BY <3>6, <3>8 DEF InUseAs
      <4>. QED  BY <1>2, <3>3, <3>4, <3>8, <4>1, ReadFinds
    <3>10. red_readdir(s, h) = Returns("OK", [u EXCEPT !.gaHandle[h].ulDirPosition = read.pos])
      BY <2>2, <3>1, <3>2, <3>3, <3>4, <3>9 DEF red_readdir
    <3>11. Answers(u, red_readdir(s, h))
      BY <3>8, <3>9, <3>10, StreamMoves
    <3>. QED  BY <3>7, <3>11, ShowsAnswers
  <2>. QED  BY <2>1, <2>2
<1>. QED  BY <1>4, <1>5, <1>6

-----------------------------------------------------------------------------
(* Working directories, and tasks.                                         *)

\* The slot of a task.
LEMMA SlotIs ==
  ASSUME NEW s, Sound(s, {}), NEW t, Registered(s, t), NEW i, i = CHOOSE j \in TaskFind(s, t) : TRUE
  PROVE  i \in Slots /\ s.gaTask[i].pCwd \in Keys \cup {NULL}
<1>1. i \in TaskFind(s, t)
  BY DEF Registered
<1>. QED  BY <1>1 DEF TaskFind, Sound, Tables, TaskRecord

\* What red_chdir does at the directory, for the slot of the task.
ChdirTo(u, i, ino, f) ==
  LET x   == OpenInoDeref(u, u.gaTask[i].pCwd, TRUE, FALSE, f)
      key == <<u.gbRedVolNum, ino>>
  IN  IF ino # ROOT /\ ~IsDir(Vol(u), ino) THEN Returns("ENOTDIR", u)
      ELSE IF u.gaTask[i].pCwd = NULL THEN Returns("EFUBAR", u)
      ELSE IF ~OpenInoFind(x.s, key) THEN Returns("EFUBAR", [x.s EXCEPT !.gaTask[i].pCwd = NULL])
      ELSE Returns(x.ret, MovedTo(x, i, key))
ChdirAs(s, t, path, f, i) ==
  AtPath(s, t, FDCWD, path, FALSE, LAMBDA u, ino : ChdirTo(u, i, ino, f))

\* red_chdir, with the slot of the task named.
LEMMA ChdirIs ==
  ASSUME NEW s, NEW t, NEW path, NEW f
  PROVE  red_chdir(s, t, path, f) = ChdirAs(s, t, path, f, CHOOSE j \in TaskFind(s, t) : TRUE)
BY DEF red_chdir, ChdirAs, ChdirTo, MovedTo

\* red_chdir fails before it has left the old directory, or not at all.
LEMMA ChdirAnswers ==
  ASSUME NEW s, Sound(s, {}), NEW t, Registered(s, t), NEW path \in Paths, NEW f \in {"OK", "EIO"}
  PROVE  Answers(s, red_chdir(s, t, path, f))
<1>1. PICK start : start = PathStartingPoint(s, t, FDCWD, path)
  OBVIOUS
<1>2. PICK u : u = start.s
  OBVIOUS
<1>3. PICK w : w = RedPathLookup(Vol(u), start.dir, start.names, FALSE)
  OBVIOUS
<1>4. PICK i : i = CHOOSE j \in TaskFind(s, t) : TRUE
  OBVIOUS
<1>5. PICK key : key = <<u.gbRedVolNum, w.ino>>
  OBVIOUS
<1>6. PICK x : x = OpenInoDeref(u, u.gaTask[i].pCwd, TRUE, FALSE, f)
  OBVIOUS
<1>7. PICK r : r = red_chdir(s, t, path, f)
  OBVIOUS
<1>0. r = IF start.ret # "OK" THEN Returns(start.ret, u)
          ELSE IF w.ret # "OK" THEN Returns(w.ret, u)
          ELSE ChdirTo(u, i, w.ino, f)
  <2>1. r = ChdirAs(s, t, path, f, i)
    BY <1>4, <1>7, ChdirIs
  <2>. QED  BY <1>1, <1>2, <1>3, <2>1 DEF ChdirAs, AtPath, AtStart
<1>8. r = IF start.ret # "OK" THEN Returns(start.ret, u)
          ELSE IF w.ret # "OK" THEN Returns(w.ret, u)
          ELSE IF w.ino # ROOT /\ ~IsDir(Vol(u), w.ino) THEN Returns("ENOTDIR", u)
          ELSE IF u.gaTask[i].pCwd = NULL THEN Returns("EFUBAR", u)
          ELSE IF ~OpenInoFind(x.s, key) THEN Returns("EFUBAR", [x.s EXCEPT !.gaTask[i].pCwd = NULL])
          ELSE Returns(x.ret, MovedTo(x, i, key))
  BY <1>0, <1>5, <1>6 DEF ChdirTo
<1>9. StartGood(s, start)
  BY <1>1, StartIs
<1>10. Shows(s, u) /\ Sound(u, {}) /\ u.gaTask = s.gaTask /\ u.gbRedVolNum \in Volumes /\ start.ret # "EFUBAR"
  BY <1>2, <1>9 DEF StartGood, Shows
<1>11. \A ret : ret # "EFUBAR" => Answers(s, Returns(ret, u))
  BY <1>10, ShowsAnswers
<1>12. i \in Slots
  BY <1>4, SlotIs
<1>a. w.ret # "EFUBAR"
  BY <1>2, <1>3, <1>9, WalkAt DEF WalkStatuses
<1>b. u.gaTask[i].pCwd # NULL
  BY <1>10, <1>12 DEF Registered, Sound, TaskGood
<1>13. ASSUME w.ret = "OK", w.ino = ROOT \/ IsDir(Vol(u), w.ino), u.gaTask[i].pCwd # NULL
       PROVE  OpenInoFind(x.s, key) /\ Answers(s, Returns(x.ret, MovedTo(x, i, key)))
  <2>1. Vol(u).fMounted /\ Named(Vol(u), w.ino)
    BY <1>2, <1>3, <1>9, <1>13, WalkAt
  <2>2. key \in Keys /\ key[1] = u.gbRedVolNum /\ key[2] = w.ino /\ Vol(u) = u.vol[key[1]]
    BY <1>5, <1>10, <2>1 DEF Keys, Named, Vol
  <2>3. PICK X, fDoCleanup : X = {} /\ fDoCleanup = TRUE
    OBVIOUS
  <2>4. x = Leave(u, i, fDoCleanup, f)
    BY <1>6, <1>13, <2>3 DEF Leave
  <2>5. \/ key[2] = ROOT
        \/ X = {} /\ Named(u.vol[key[1]], key[2]) /\ u.vol[key[1]].node[key[2]].type = "DIR" /\ u.vol[key[1]].fMounted
    BY <1>13, <2>1, <2>2, <2>3 DEF IsDir
  <2>6. Sound(u, X) /\ i \in Slots /\ key \in Keys /\ f \in {"OK", "EIO"}
    BY <1>10, <1>12, <2>2, <2>3
  <2>7. Moved(u, X, i, x, key)
    BY ONLY <2>4, <2>5, <2>6, TaskMoves
  <2>8. /\ x.ret = "OK" /\ OpenInoFind(x.s, key)
        /\ Sound(MovedTo(x, i, key), X \ {i}) /\ Stays(u, MovedTo(x, i, key))
    BY ONLY <2>7 DEF Moved
  <2>9. X \ {i} = {}
    BY <2>3
  <2>10. Answers(u, Returns("OK", MovedTo(x, i, key)))
    BY <2>8, <2>9 DEF Answers, Returns
  <2>. QED  BY <1>10, <2>8, <2>10, ShowsAnswers
<1>. QED  BY <1>7, <1>8, <1>10, <1>11, <1>13, <1>a, <1>b

\* The calls that give the path of a directory change nothing.
LEMMA PathOfAnswers ==
  ASSUME NEW s, Sound(s, {})
  PROVE  /\ \A t : Registered(s, t) => Answers(s, red_getcwd(s, t))
         /\ \A fd : Answers(s, red_getdirpath(s, fd))
<1>1. \A ret : ret # "EFUBAR" => Answers(s, Returns(ret, s))
  BY Refuses
<1>2. \A n \in Volumes : \A ret : ret # "EFUBAR" => Answers(s, Returns(ret, Current(s, n)))
  BY ShowsIs, ShowsAnswers
<1>a. ASSUME NEW key \in Keys, key[2] = ROOT \/ InUseAs(s.vol[key[1]], key[2], "DIR")
      PROVE  PathOf(s, key).ret # "EFUBAR"
  <2>1. VolumeGood(s.vol[key[1]])
    BY <1>a DEF Sound, Tables, Keys
  <2>2. key[2] # ROOT => s.vol[key[1]].fMounted /\ IsDir(s.vol[key[1]], key[2]) /\ key[2] \notin s.vol[key[1]].defunct
    BY <1>a DEF InUseAs, IsDir
  <2>3. DirInodeToPath(s.vol[key[1]], key[2]).ret \in {"OK", "ENOENT"}
    BY <2>1, <2>2, PathOfDirIs
  <2>. QED  BY <2>3 DEF PathOf
<1>3. ASSUME NEW t, Registered(s, t) PROVE Answers(s, red_getcwd(s, t))
  <2>1. Cwd(s, t) \in Keys \cup {NULL}
    BY <1>3, SlotIs DEF Cwd
  <2>2. Cwd(s, t) # NULL => Cwd(s, t)[1] \in Volumes
    BY <2>1 DEF Keys
  <2>3. PICK key : key = Cwd(s, t)
    OBVIOUS
  <2>4. key # NULL /\ (key[2] = ROOT \/ InUseAs(s.vol[key[1]], key[2], "DIR"))
    <3>1. PICK i : i = CHOOSE j \in TaskFind(s, t) : TRUE
      OBVIOUS
    <3>2. i \in Slots /\ key = s.gaTask[i].pCwd
      BY <1>3, <2>3, <3>1, SlotIs DEF Cwd
    <3>. QED  BY <1>3, <3>2 DEF Registered, Sound, TaskGood
  <2>5. PathOf(s, key).ret # "EFUBAR"
    BY <1>a, <2>1, <2>3, <2>4
  <2>6. Answers(s, Returns(PathOf(s, key).ret, Current(s, key[1])))
    BY <1>2, <2>2, <2>3, <2>4, <2>5
  <2>. QED  BY <2>3, <2>4, <2>6 DEF red_getcwd
<1>4. ASSUME NEW fd PROVE Answers(s, red_getdirpath(s, fd))
  <2>1. FildesToHandle(s, fd, {"DIR"}) = "OK" => s.gaHandle[fd.idx].pOpenIno[1] \in Volumes
    BY FildesIs
  <2>2. PICK dirs : dirs = {"DIR"}
    OBVIOUS
  <2>3. PICK key : key = s.gaHandle[fd.idx].pOpenIno
    OBVIOUS
  <2>4. red_getdirpath(s, fd) = IF FildesToHandle(s, fd, dirs) # "OK" THEN Returns(FildesToHandle(s, fd, dirs), s)
                                ELSE Returns(PathOf(s, key).ret, Current(s, key[1]))
    BY <2>2, <2>3 DEF red_getdirpath
  <2>5. FildesToHandle(s, fd, dirs) # "EFUBAR"
    BY DEF FildesToHandle, RedFileTypeCheck
  <2>6. CASE FildesToHandle(s, fd, dirs) = "OK"
    <3>1. fd.idx \in Handles /\ InUse(s, fd.idx) /\ key \in Keys
      BY <2>3, <2>6, FildesIs
    <3>2. HandleType(s, fd.idx) = "DIR"
      BY <2>2, <2>6 DEF FildesToHandle, RedFileTypeCheck
    <3>3. InUseAs(s.vol[key[1]], key[2], "DIR")
      BY <2>3, <3>1, <3>2 DEF Sound, HandleGood, InUse
    <3>4. PathOf(s, key).ret # "EFUBAR"
      BY <1>a, <3>1, <3>3
    <3>. QED  BY <1>2, <2>1, <2>2, <2>3, <2>4, <2>6, <3>4
  <2>. QED  BY <1>1, <2>4, <2>5, <2>6
<1>. QED  BY <1>3, <1>4

\* A slot gets another task.
TaskIs(s, i, id, q) ==
  /\ Sound(q, {}) /\ Stays(s, q) /\ FlagsSame(s, q) /\ Seen(q) = Seen(s)
  /\ q.vol = s.vol /\ q.gaHandle = s.gaHandle /\ q.gaTask[i].ulTaskId = id
WithTaskId(s, i, id) == [s EXCEPT !.gaTask[i].ulTaskId = id]

\* A slot with another task ID is nothing that a caller sees.
LEMMA TaskNamed ==
  ASSUME NEW s, Sound(s, {}), NEW i \in Slots, NEW id, NEW q, q = WithTaskId(s, i, id)
  PROVE  TaskIs(s, i, id, q)
<1>1. DOMAIN s = Fields /\ DOMAIN s.gaTask = Slots /\ \A j \in Slots : TaskRecord(s.gaTask[j])
  BY DEF Sound, Tables
<1>2. PICK a : a = [s.gaTask[i] EXCEPT !.ulTaskId = id]
  OBVIOUS
<1>3. q = [s EXCEPT !.gaTask = [s.gaTask EXCEPT ![i] = a]]
  BY <1>1, <1>2 DEF WithTaskId
<1>4. Frame(s, q, {"gaTask"}) /\ q.gaTask = [s.gaTask EXCEPT ![i] = a]
  BY ONLY <1>1, <1>3 DEF Frame, Fields
<1>5. /\ q.gfPosixInited = s.gfPosixInited /\ q.gbRedVolNum = s.gbRedVolNum /\ q.vol = s.vol
      /\ q.gaOpenInos = s.gaOpenInos /\ q.gaHandle = s.gaHandle /\ q.gauGeneration = s.gauGeneration /\ DOMAIN q = Fields
  <2>1. Frame(s, q, {"gaTask"})
    BY <1>4
  <2>. QED  BY ONLY <2>1, FrameIs
<1>6. TaskRecord(a) /\ a.pCwd = s.gaTask[i].pCwd /\ a.ulTaskId = id
  BY <1>1, <1>2 DEF TaskRecord
<1>7. /\ DOMAIN q.gaTask = Slots /\ q.gaTask[i].ulTaskId = id
      /\ \A j \in Slots : TaskRecord(q.gaTask[j]) /\ q.gaTask[j].pCwd = s.gaTask[j].pCwd
  BY <1>1, <1>4, <1>6
<1>8. Uses(q) = Uses(s)
  <2>1. \A u \in UserIds : u[1] # 0 => u[2] \in Slots
    BY UsersNamed DEF UserIds
  <2>. QED  BY <1>5, <1>7, <2>1 DEF Uses
<1>9. Tables(q)
  BY <1>5, <1>7 DEF Sound, Tables
<1>10. \A g \in Handles : HandleGood(q, g)
  BY <1>5 DEF Sound, HandleGood, HandleType, FildesPack
<1>11. \A j \in Slots : TaskGood(q, j)
  BY <1>5, <1>7 DEF Sound, TaskGood
<1>12. \A key \in DOMAIN q.gaOpenInos : MarkGood(q, {}, key)
  BY <1>5, <1>8 DEF Sound, MarkGood, InUseBy
<1>13. Sound(q, {})
  BY <1>5, <1>8, <1>9, <1>10, <1>11, <1>12 DEF Sound
<1>14. Stays(s, q) /\ FlagsSame(s, q)
  BY <1>5 DEF Stays, FlagsSame
<1>15. Seen(q) = Seen(s)
  BY <1>5, <1>7, SeenIs
<1>. QED  BY <1>5, <1>7, <1>13, <1>14, <1>15 DEF TaskIs

\* Tasks that come.
Enters(s, t, r) ==
  /\ Sound(r.s, {}) /\ Stays(s, r.s) /\ FlagsSame(s, r.s) /\ Seen(r.s) = Seen(s)
  /\ r.s.vol = s.vol /\ r.s.gaHandle = s.gaHandle /\ r.ret \in {"OK", "EUSERS"}
  /\ r.ret = "OK" => Registered(r.s, t)

\* TaskRegister gives the task a slot, or finds none.
LEMMA TaskRegisters ==
  ASSUME NEW s, Sound(s, {}), s.gfPosixInited, NEW t, NEW r, r = TaskRegister(s, t)
  PROVE  Enters(s, t, r)
<1>1. PICK free : free = TaskFind(s, NoTask)
  OBVIOUS
<1>2. r = IF TaskFind(s, t) # {} THEN Returns("OK", s)
          ELSE IF free = {} THEN Returns("EUSERS", s)
          ELSE Returns("OK", [s EXCEPT !.gaTask[Min(free)].ulTaskId = t])
  BY <1>1 DEF TaskRegister
<1>3. Stays(s, s) /\ FlagsSame(s, s)
  BY DEF Stays, FlagsSame
<1>4. CASE TaskFind(s, t) # {} \/ free = {}
  BY <1>2, <1>3, <1>4 DEF Enters, Registered, Returns
<1>5. CASE ~(TaskFind(s, t) # {} \/ free = {})
  <2>1. free \subseteq Nat /\ free # {} /\ free \subseteq Slots
    BY <1>1, <1>5, PosixAssumption DEF TaskFind
  <2>2. PICK i : i = Min(free)
    OBVIOUS
  <2>3. i \in Slots
    BY <2>1, <2>2, MinIs
  <2>4. PICK q : q = WithTaskId(s, i, t)
    OBVIOUS
  <2>5. r = Returns("OK", q)
    BY <1>2, <1>5, <2>2, <2>4 DEF WithTaskId
  <2>6. /\ Sound(q, {}) /\ Stays(s, q) /\ FlagsSame(s, q) /\ Seen(q) = Seen(s)
        /\ q.vol = s.vol /\ q.gaHandle = s.gaHandle /\ q.gaTask[i].ulTaskId = t
    BY <2>3, <2>4, TaskNamed DEF TaskIs
  <2>7. i \in TaskFind(q, t)
    BY <2>3, <2>6 DEF TaskFind
  <2>8. q.gfPosixInited
    BY <2>6 DEF Stays
  <2>. QED  BY <2>5, <2>6, <2>7, <2>8 DEF Enters, Registered, Returns
<1>. QED  BY <1>4, <1>5

\* Tasks that go: their directory is left.
LEMMA TaskUnregisters ==
  ASSUME NEW s, Sound(s, {}), NEW t, NEW f \in {"OK", "EIO"}
  PROVE  Answers(s, TaskUnregister(s, t, f))
<1>1. CASE TaskFind(s, t) = {}
  BY <1>1, Refuses DEF TaskUnregister
<1>2. CASE TaskFind(s, t) # {}
  <2>1. PICK i : i = CHOOSE j \in TaskFind(s, t) : TRUE
    OBVIOUS
  <2>2. i \in Slots
    BY <1>2, <2>1 DEF TaskFind
  <2>3. PICK q : q = WithTaskId(s, i, NoTask)
    OBVIOUS
  <2>4. Sound(q, {}) /\ Stays(s, q)
    BY <2>2, <2>3, TaskNamed DEF TaskIs
  <2>5. PICK r : r = CwdClose(q, i, TRUE, FALSE, f)
    OBVIOUS
  <2>6. TaskUnregister(s, t, f) = r
    BY <1>2, <2>1, <2>3, <2>5 DEF TaskUnregister, WithTaskId
  <2>7. PICK X, fClearVol, fReset : X = {} /\ fClearVol = TRUE /\ fReset = FALSE
    OBVIOUS
  <2>8. SentHome(q, X, i, fClearVol, r)
    BY <2>2, <2>4, <2>5, <2>7, CwdCloseIs
  <2>9. r.ret = "OK" /\ Sound(r.s, X \ {i}) /\ Stays(q, r.s)
    BY ONLY <2>8 DEF SentHome
  <2>10. X \ {i} = {}
    BY <2>7
  <2>11. Stays(s, r.s)
    BY ONLY <2>4, <2>9, StaysOn
  <2>. QED  BY <2>6, <2>9, <2>10, <2>11 DEF Answers
<1>. QED  BY <1>1, <1>2

-----------------------------------------------------------------------------
(* Volumes that are mounted, unmounted, rolled back, formatted.            *)

\* Only the volume n, which has no handles, and its generation are others.
Replaces(s, n, t) ==
  /\ n \in Volumes /\ Frame(s, t, {"vol", "gauGeneration"}) /\ DOMAIN t.vol = Volumes /\ VolumeGood(t.vol[n])
  /\ t.gauGeneration \in [Volumes -> 0 .. FD_GEN_MAX] /\ (t.vol[n].fMounted => t.gauGeneration[n] >= 1)
  /\ \A m \in Volumes \ {n} : t.vol[m] = s.vol[m] /\ t.gauGeneration[m] = s.gauGeneration[m]
NotOn(s, n) == \A h \in Handles : s.gaHandle[h].pOpenIno # NULL => s.gaHandle[h].pOpenIno[1] # n
AtRoot(s, n, X) ==
  \A i \in Slots \ X : s.gaTask[i].pCwd # NULL /\ s.gaTask[i].pCwd[1] = n => s.gaTask[i].pCwd[2] = ROOT

\* A volume without handles, whose root alone is in use, may be replaced.
LEMMA SoundIdle ==
  ASSUME NEW s, Sound(s, {}), NEW n, NEW X, NotOn(s, n), AtRoot(s, n, X), NEW t, Replaces(s, n, t)
  PROVE  Sound(t, X)
<1>1. /\ t.gfPosixInited = s.gfPosixInited /\ t.gbRedVolNum = s.gbRedVolNum /\ t.gaHandle = s.gaHandle
      /\ t.gaOpenInos = s.gaOpenInos /\ t.gaTask = s.gaTask /\ DOMAIN t = Fields
  <2>1. Frame(s, t, {"vol", "gauGeneration"})
    BY DEF Replaces
  <2>. QED  BY ONLY <2>1, FrameIs
<1>2. /\ n \in Volumes /\ DOMAIN t.vol = Volumes /\ VolumeGood(t.vol[n])
      /\ t.gauGeneration \in [Volumes -> 0 .. FD_GEN_MAX] /\ (t.vol[n].fMounted => t.gauGeneration[n] >= 1)
      /\ \A m \in Volumes \ {n} : t.vol[m] = s.vol[m] /\ t.gauGeneration[m] = s.gauGeneration[m]
  BY DEF Replaces
<1>3. Tables(t)
  BY <1>1, <1>2 DEF Sound, Tables
<1>4. Uses(t) = Uses(s)
  BY <1>1, SameUses
<1>5. ASSUME NEW h \in Handles PROVE HandleGood(t, h)
  <2>1. HandleGood(s, h) /\ s.gaHandle[h].pOpenIno \in Keys \cup {NULL}
    BY DEF Sound, Tables, HandleRecord
  <2>2. CASE s.gaHandle[h].pOpenIno = NULL
    BY <1>1, <2>2 DEF HandleGood
  <2>3. CASE s.gaHandle[h].pOpenIno # NULL
    <3>1. PICK key : key = s.gaHandle[h].pOpenIno
      OBVIOUS
    <3>2. key[1] \in Volumes \ {n}
      BY <2>1, <2>3, <3>1 DEF Keys, NotOn
    <3>3. t.vol[key[1]] = s.vol[key[1]] /\ t.gauGeneration[key[1]] = s.gauGeneration[key[1]]
      BY <1>2, <3>2
    <3>. QED  BY <1>1, <2>1, <3>1, <3>3 DEF HandleGood, HandleType, FildesPack
  <2>. QED  BY <2>2, <2>3
<1>6. ASSUME NEW i \in Slots \ X PROVE TaskGood(t, i)
  <2>1. TaskGood(s, i) /\ s.gaTask[i].pCwd \in Keys \cup {NULL}
    BY DEF Sound, Tables, TaskRecord
  <2>2. s.gaTask[i].pCwd # NULL => s.gaTask[i].pCwd[1] \in Volumes
    BY <2>1 DEF Keys
  <2>. QED  BY <1>1, <1>2, <2>1, <2>2 DEF TaskGood, AtRoot
<1>7. ASSUME NEW key \in DOMAIN t.gaOpenInos PROVE MarkGood(t, X, key)
  <2>1. key \in DOMAIN s.gaOpenInos /\ key \in Keys
    BY <1>1 DEF Sound, Tables, Table
  <2>2. key[1] \in Volumes /\ MarkGood(s, {}, key)
    BY <2>1 DEF Sound, Keys
  <2>3. InUseBy(t, X, key) => InUseBy(s, {}, key)
    BY <1>4 DEF InUseBy
  <2>4. CASE key[1] # n
    BY <1>1, <1>2, <2>2, <2>3, <2>4 DEF MarkGood
  <2>5. CASE key[1] = n
    <3>1. key[2] = ROOT => ~t.gaOpenInos[key].fOrphan
      BY <1>1, <2>2 DEF MarkGood
    <3>2. ASSUME InUseBy(t, X, key) PROVE key[2] = ROOT
      <4>1. PICK u \in UserIds : Uses(s)[u] = key /\ \A i \in X : u # SlotUser(i)
        BY <1>4, <3>2 DEF InUseBy
      <4>2. key # NULL
        BY <2>1, NullIs
      <4>3. CASE \E h \in Handles : u = HandleUser(h)
        <5>1. PICK h \in Handles : u = HandleUser(h)
          BY <4>3
        <5>2. s.gaHandle[h].pOpenIno = key
          BY <4>1, <5>1, UsesIs
        <5>. QED  BY <2>5, <4>2, <5>2 DEF NotOn
      <4>4. CASE \E i \in Slots : u = SlotUser(i)
        <5>1. PICK i \in Slots : u = SlotUser(i)
          BY <4>4
        <5>2. s.gaTask[i].pCwd = key /\ i \notin X
          BY <4>1, <5>1, UsesIs
        <5>. QED  BY <2>5, <4>2, <5>2 DEF AtRoot
      <4>. QED  BY <4>3, <4>4, UsersNamed
    <3>3. ROOT \notin t.vol[n].orphans
      BY <1>2, RootIs DEF Named
    <3>. QED  BY <2>5, <3>1, <3>2, <3>3 DEF MarkGood
  <2>. QED  BY <2>4, <2>5
<1>8. \A m \in Volumes : t.vol[m].fMounted => t.gauGeneration[m] >= 1
  BY <1>2 DEF Sound
<1>9. RefsExact(Uses(t), t.gaOpenInos)
  BY <1>1, <1>4 DEF Sound
<1>. QED  BY <1>3, <1>5, <1>6, <1>7, <1>8, <1>9 DEF Sound

\* A volume that is not mounted is idle.
LEMMA UnmountedIdle ==
  ASSUME NEW s, Sound(s, {}), NEW n \in Volumes, ~s.vol[n].fMounted
  PROVE  NotOn(s, n) /\ AtRoot(s, n, {})
<1>1. NotOn(s, n)
  BY DEF NotOn, Sound, HandleGood, InUseAs
<1>2. AtRoot(s, n, {})
  BY DEF AtRoot, Sound, TaskGood, InUseAs
<1>. QED  BY <1>1, <1>2

\* What a call answers that may mount or unmount: each mount of a volume
\* gives it the next generation.
Counts(s, t) ==
  /\ t.gfPosixInited = s.gfPosixInited
  /\ \A n \in Volumes :
       t.gauGeneration[n] = IF t.vol[n].fMounted /\ ~s.vol[n].fMounted THEN NextGeneration(s.gauGeneration[n])
                            ELSE s.gauGeneration[n]
Served(s, r) ==
  /\ Sound(r.s, {}) /\ Counts(s, r.s) /\ r.ret # "EFUBAR"
  /\ r.ret # "OK" /\ FlagsSame(s, r.s) => Seen(r.s) = Seen(s)

\* A call that answers mounts nothing.
LEMMA AnswersServe ==
  ASSUME NEW s, NEW r, Answers(s, r)
  PROVE  Served(s, r)
BY DEF Answers, Stays, Served, Counts

\* The volume that is current, and what a core call makes of it.
LEMMA CurrentReplaced ==
  ASSUME NEW u, Sound(u, {}), NEW r, VolumeGood(r.v), NEW n, n = u.gbRedVolNum,
         r.v.fMounted => u.gauGeneration[n] >= 1, NEW t, t = OnVolume(u, r)
  PROVE  /\ Replaces(u, n, t.s) /\ t.ret = r.ret /\ t.s.vol[n] = r.v /\ t.s.gauGeneration = u.gauGeneration
         /\ t.s.gaHandle = u.gaHandle /\ t.s.gaTask = u.gaTask /\ t.s.gaOpenInos = u.gaOpenInos
         /\ t.s.gfPosixInited = u.gfPosixInited /\ t.s.gbRedVolNum = n
         /\ \A m \in Volumes \ {n} : t.s.vol[m] = u.vol[m]
<1>1. Tables(u)
  BY DEF Sound
<1>2. /\ Frame(u, t.s, {"vol"}) /\ DOMAIN t.s.vol = Volumes /\ n \in Volumes /\ t.s.vol[n] = r.v
      /\ \A m \in Volumes \ {n} : t.s.vol[m] = u.vol[m]
      /\ t.ret = r.ret /\ t.s.gbRedVolNum = n
  BY <1>1, OnVolumeIs
<1>3. Frame(u, t.s, {"vol"})
  BY <1>2
<1>4. /\ t.s.gfPosixInited = u.gfPosixInited /\ t.s.gaHandle = u.gaHandle /\ t.s.gaTask = u.gaTask
      /\ t.s.gaOpenInos = u.gaOpenInos /\ t.s.gauGeneration = u.gauGeneration
  BY ONLY <1>3, FrameIs
<1>5. Frame(u, t.s, {"vol", "gauGeneration"})
  BY <1>3 DEF Frame
<1>6. u.gauGeneration \in [Volumes -> 0 .. FD_GEN_MAX]
  BY <1>1 DEF Tables
<1>. QED  BY <1>2, <1>4, <1>5, <1>6 DEF Replaces

\* The next generation is another one, and never 0.
LEMMA NextGenerationIs ==
  ASSUME NEW gen \in 0 .. FD_GEN_MAX
  PROVE  NextGeneration(gen) \in 1 .. FD_GEN_MAX /\ NextGeneration(gen) # gen
BY PosixAssumption DEF NextGeneration

\* What is served after another volume became the current one.
LEMMA ServedAfter ==
  ASSUME NEW s, NEW u, Shows(s, u), NEW r, Served(u, r)
  PROVE  Served(s, r)
<1>1. u.vol = s.vol /\ u.gfPosixInited = s.gfPosixInited /\ u.gauGeneration = s.gauGeneration /\ Seen(u) = Seen(s)
  BY DEF Shows, Stays
<1>2. Counts(s, r.s)
  BY <1>1 DEF Served, Counts
<1>3. FlagsSame(s, r.s) => FlagsSame(u, r.s)
  BY <1>1 DEF FlagsSame
<1>. QED  BY <1>1, <1>2, <1>3 DEF Served

\* A call on the volume of a path.
LEMMA AtVolumeServed ==
  ASSUME NEW s, Sound(s, {}), NEW path, NEW c, c = RedPathVolumeLookup(s, path),
         NEW x, c.ret = "OK" => Served(c.s, x), NEW r, r = IF c.ret = "OK" THEN x ELSE c
  PROVE  Served(s, r)
<1>1. Shows(s, c.s) /\ c.ret # "EFUBAR"
  BY VolumeAt
<1>2. CASE c.ret = "OK"
  BY <1>1, <1>2, ServedAfter
<1>3. CASE c.ret # "OK"
  <2>1. Sound(c.s, {})
    BY <1>1 DEF Shows
  <2>2. Answers(c.s, Returns(c.ret, c.s))
    BY <1>1, <2>1, Refuses
  <2>3. Returns(c.ret, c.s).s = c.s /\ Returns(c.ret, c.s).ret = c.ret
    BY DEF Returns
  <2>4. Served(c.s, Returns(c.ret, c.s))
    BY <2>2, AnswersServe
  <2>5. Served(c.s, c)
    BY <2>3, <2>4 DEF Served
  <2>. QED  BY <1>1, <1>3, <2>5, ServedAfter
<1>. QED  BY <1>2, <1>3

\* red_format.
LEMMA FormatServed ==
  ASSUME NEW s, Sound(s, {}), NEW path
  PROVE  Served(s, red_format(s, path))
<1>1. PICK c : c = RedPathVolumeLookup(s, path)
  OBVIOUS
<1>2. PICK u : u = c.s
  OBVIOUS
<1>3. PICK r : r = RedCoreVolFormat(Vol(u))
  OBVIOUS
<1>4. PICK x : x = OnVolume(u, r)
  OBVIOUS
<1>5. red_format(s, path) = IF c.ret = "OK" THEN x ELSE c
  BY <1>1, <1>2, <1>3, <1>4 DEF red_format, red_format2, OnPathVolume, AtVolume
<1>6. Sound(u, {}) /\ VolumeGood(Vol(u)) /\ u.gbRedVolNum \in Volumes /\ Vol(u) = u.vol[u.gbRedVolNum]
  BY <1>1, <1>2, VolumeAt DEF Shows
<1>7. Served(u, x)
  <2>1. CASE r.ret # "OK" /\ Result(Vol(u), r, {})
    <3>1. Answers(u, x)
      BY <1>4, <1>6, <2>1, VolumeAnswers
    <3>. QED  BY <3>1, AnswersServe
  <2>2. CASE ~(r.ret # "OK" /\ Result(Vol(u), r, {}))
    <3>1. r.ret = "OK" /\ VolumeGood(r.v) /\ ~r.v.fMounted /\ ~Vol(u).fMounted
      BY <1>3, <1>6, <2>2, FormatIs
    <3>2. PICK n : n = u.gbRedVolNum
      OBVIOUS
    <3>3. /\ Replaces(u, n, x.s) /\ x.ret = r.ret /\ x.s.vol[n] = r.v /\ x.s.gauGeneration = u.gauGeneration
          /\ x.s.gfPosixInited = u.gfPosixInited /\ \A m \in Volumes \ {n} : x.s.vol[m] = u.vol[m]
      BY ONLY <1>4, <1>6, <3>1, <3>2, CurrentReplaced
    <3>4. NotOn(u, n) /\ AtRoot(u, n, {})
      BY <1>6, <3>1, <3>2, UnmountedIdle
    <3>5. PICK X : X = {}
      OBVIOUS
    <3>6. Sound(x.s, X)
      BY ONLY <1>6, <3>3, <3>4, <3>5, SoundIdle
    <3>7. Counts(u, x.s)
      BY <1>6, <3>1, <3>2, <3>3 DEF Counts
    <3>. QED  BY <3>1, <3>3, <3>5, <3>6, <3>7 DEF Served
  <2>. QED  BY <2>1, <2>2
<1>. QED  BY <1>1, <1>2, <1>5, <1>7, AtVolumeServed

\* red_mount2: a mounted volume has a generation that is not 0.
LEMMA MountServed ==
  ASSUME NEW s, Sound(s, {}), NEW path, NEW flags, NEW f \in {"OK", "EIO"}
  PROVE  Served(s, red_mount2(s, path, flags, f))
<1>1. PICK c : c = RedPathVolumeLookup(s, path)
  OBVIOUS
<1>2. PICK u : u = c.s
  OBVIOUS
<1>3. PICK r : r = RedCoreVolMount(Vol(u), flags, f)
  OBVIOUS
<1>4. PICK m : m = OnVolume(u, r)
  OBVIOUS
<1>5. PICK t : t = [m.s EXCEPT !.gauGeneration[m.s.gbRedVolNum] = NextGeneration(@)]
  OBVIOUS
<1>6. PICK x : x = IF Vol(u).fMounted THEN Returns("EBUSY", u) ELSE IF m.ret # "OK" THEN m ELSE Returns("OK", t)
  OBVIOUS
<1>7. red_mount2(s, path, flags, f) = IF c.ret = "OK" THEN x ELSE c
  BY <1>1, <1>2, <1>3, <1>4, <1>5, <1>6 DEF red_mount2, AtVolume
<1>8. Sound(u, {}) /\ VolumeGood(Vol(u)) /\ u.gbRedVolNum \in Volumes /\ Vol(u) = u.vol[u.gbRedVolNum]
  BY <1>1, <1>2, VolumeAt DEF Shows
<1>9. CASE Vol(u).fMounted
  <2>1. Answers(u, x)
    BY <1>6, <1>8, <1>9, Refuses
  <2>2. Served(u, x)
    BY <2>1, AnswersServe
  <2>. QED  BY <1>1, <1>2, <1>7, <2>2, AtVolumeServed
<1>10. CASE ~Vol(u).fMounted
  <2>1. VolumeGood(r.v) /\ ((r.ret = "OK" /\ r.v.fMounted) \/ (r.ret = "EIO" /\ r.v = Vol(u)))
    BY <1>3, <1>8, MountIs
  <2>2. PICK n : n = u.gbRedVolNum
    OBVIOUS
  <2>3. CASE r.ret = "EIO" /\ r.v = Vol(u)
    <3>1. Result(Vol(u), r, {})
      <4>1. r.ret \in Statuses
        BY <2>3 DEF Statuses
      <4>. QED  BY <1>8, <2>3, <4>1, FailedResult
    <3>2. Answers(u, m)
      BY <1>4, <1>8, <3>1, VolumeAnswers
    <3>3. m.ret # "OK"
      BY <1>4, <2>3 DEF OnVolume, Returns
    <3>4. Served(u, x)
      BY <1>6, <1>10, <3>2, <3>3, AnswersServe
    <3>. QED  BY <1>1, <1>2, <1>7, <3>4, AtVolumeServed
  <2>4. CASE r.ret = "OK" /\ r.v.fMounted
    <3>1. DOMAIN u = Fields /\ u.gauGeneration \in [Volumes -> 0 .. FD_GEN_MAX] /\ n \in Volumes
      BY <1>8, <2>2 DEF Sound, Tables
    <3>2. PICK gen : gen = [u.gauGeneration EXCEPT ![n] = NextGeneration(@)]
      OBVIOUS
    <3>3. /\ gen \in [Volumes -> 0 .. FD_GEN_MAX] /\ gen[n] = NextGeneration(u.gauGeneration[n]) /\ gen[n] >= 1
          /\ \A k \in Volumes \ {n} : gen[k] = u.gauGeneration[k]
      <4>1. u.gauGeneration[n] \in 0 .. FD_GEN_MAX
        BY <3>1
      <4>2. NextGeneration(u.gauGeneration[n]) \in 1 .. FD_GEN_MAX
        BY <4>1, NextGenerationIs
      <4>. QED  BY <3>1, <3>2, <4>2, PosixAssumption
    <3>4. /\ Frame(u, m.s, {"vol"}) /\ DOMAIN m.s.vol = Volumes /\ m.s.vol[n] = r.v /\ m.ret = r.ret
          /\ \A k \in Volumes \ {n} : m.s.vol[k] = u.vol[k]
      <4>1. Tables(u)
        BY <1>8 DEF Sound
      <4>. QED  BY ONLY <1>4, <2>2, <4>1, OnVolumeIs
    <3>5. m.s.gauGeneration = u.gauGeneration /\ m.s.gbRedVolNum = n /\ DOMAIN m.s = Fields
      <4>1. Frame(u, m.s, {"vol"})
        BY <3>4
      <4>. QED  BY ONLY <2>2, <4>1, FrameIs
    <3>6. t = [m.s EXCEPT !.gauGeneration = gen]
      BY <1>5, <3>2, <3>5 DEF Fields
    <3>7. Frame(u, t, {"vol", "gauGeneration"}) /\ t.gauGeneration = gen /\ t.vol = m.s.vol
      BY ONLY <3>4, <3>6 DEF Frame, Fields
    <3>8. Replaces(u, n, t)
      BY <2>1, <2>4, <3>1, <3>3, <3>4, <3>7 DEF Replaces
    <3>9. NotOn(u, n) /\ AtRoot(u, n, {})
      BY <1>8, <1>10, <2>2, UnmountedIdle
    <3>10. PICK X : X = {}
      OBVIOUS
    <3>11. Sound(t, X)
      BY ONLY <1>8, <3>8, <3>9, <3>10, SoundIdle
    <3>12. t.gfPosixInited = u.gfPosixInited
      <4>1. Frame(u, t, {"vol", "gauGeneration"})
        BY <3>7
      <4>. QED  BY ONLY <4>1, FrameIs
    <3>13. Counts(u, t)
      BY <1>8, <1>10, <2>2, <2>4, <3>3, <3>4, <3>7, <3>12 DEF Counts
    <3>14. x = Returns("OK", t)
      BY <1>6, <1>10, <2>4, <3>4
    <3>15. Served(u, x)
      BY <3>10, <3>11, <3>13, <3>14 DEF Served, Returns
    <3>. QED  BY <1>1, <1>2, <1>7, <3>15, AtVolumeServed
  <2>. QED  BY <2>1, <2>3, <2>4
<1>. QED  BY <1>9, <1>10

\* The tasks that are in the current volume.
CwdsOn(s, n) == {i \in Slots : s.gaTask[i].pCwd # NULL /\ s.gaTask[i].pCwd[1] = n}

\* The tasks on the current volume go to its root (CwdCloseVol).
LEMMA CwdsLeave ==
  ASSUME NEW s, NEW n, n = s.gbRedVolNum, Sound(s, CwdsOn(s, n)), NEW fReset, NEW f \in {"OK", "EIO"},
         NEW c, c = CwdCloseVol(s, fReset, f)
  PROVE  /\ c.ret = "OK" /\ Sound(c.s, {}) /\ Stays(s, c.s) /\ c.s.gaHandle = s.gaHandle
         /\ AtRoot(c.s, n, {}) /\ c.s.gbRedVolNum = n
<1>1. PICK slots, fClearVol : slots = CwdsOn(s, n) /\ fClearVol = FALSE
  OBVIOUS
<1>2. slots \in SUBSET Slots /\ \A i \in slots : s.gaTask[i].pCwd # NULL => s.gaTask[i].pCwd[1] = s.gbRedVolNum
  BY <1>1 DEF CwdsOn
<1>3. c = CwdCloseAll(s, slots, fClearVol, fReset, f)
  BY <1>1 DEF CwdCloseVol, CwdsOn
<1>4. Sound(s, slots)
  BY <1>1
<1>5. /\ c.ret = "OK" /\ Sound(c.s, {}) /\ Stays(s, c.s) /\ c.s.gaHandle = s.gaHandle
      /\ \A i \in Slots \ slots : c.s.gaTask[i] = s.gaTask[i]
      /\ \A i \in slots : c.s.gaTask[i].pCwd[2] = ROOT
      /\ c.s.gbRedVolNum = s.gbRedVolNum
  BY ONLY f \in {"OK", "EIO"}, <1>2, <1>3, <1>4, CwdsHome
<1>6. AtRoot(c.s, n, {})
  BY <1>1, <1>5 DEF AtRoot, CwdsOn
<1>. QED  BY <1>5, <1>6

\* red_umount2: if it fails with an I/O error the volume is read-only.
LEMMA UnmountServed ==
  ASSUME NEW s, Sound(s, {}), NEW path, NEW fForce, NEW f \in {"OK", "EIO"}
  PROVE  Served(s, red_umount2(s, path, fForce, f))
<1>1. PICK c : c = RedPathVolumeLookup(s, path)
  OBVIOUS
<1>2. PICK u : u = c.s
  OBVIOUS
<1>3. PICK n : n = u.gbRedVolNum
  OBVIOUS
<1>4. PICK mine : mine = HandlesOf(u, n)
  OBVIOUS
<1>5. PICK hs : hs = HandleCloseAll(u, mine, f)
  OBVIOUS
<1>6. PICK cw : cw = CwdCloseVol(hs.s, FALSE, f)
  OBVIOUS
<1>7. PICK r : r = RedCoreVolUnmount(Vol(cw.s), f)
  OBVIOUS
<1>8. PICK m : m = OnVolume(cw.s, r)
  OBVIOUS
<1>9. PICK x : x = IF ~Vol(u).fMounted THEN Returns("EINVAL", u)
                   ELSE IF mine # {} /\ ~fForce THEN Returns("EBUSY", u)
                   ELSE IF hs.ret # "OK" THEN hs
                   ELSE IF cw.ret # "OK" THEN cw ELSE m
  OBVIOUS
<1>10. red_umount2(s, path, fForce, f) = IF c.ret = "OK" THEN x ELSE c
  BY <1>1, <1>2, <1>3, <1>4, <1>5, <1>6, <1>7, <1>8, <1>9 DEF red_umount2, AtVolume
<1>11. Sound(u, {}) /\ VolumeGood(Vol(u)) /\ n \in Volumes /\ Vol(u) = u.vol[n]
  BY <1>1, <1>2, <1>3, VolumeAt DEF Shows
<1>12. \A ret : ret # "EFUBAR" => Served(u, Returns(ret, u))
  BY <1>11, Refuses, AnswersServe
<1>13. ASSUME Vol(u).fMounted PROVE hs.ret = "OK" /\ cw.ret = "OK" /\ Served(u, m)
  <2>1. /\ hs.ret = "OK" /\ Sound(hs.s, {}) /\ Stays(u, hs.s) /\ hs.s.gaTask = u.gaTask /\ hs.s.gbRedVolNum = n
        /\ \A h \in Handles \ mine : hs.s.gaHandle[h] = u.gaHandle[h]
        /\ \A h \in mine : hs.s.gaHandle[h] = FreeHandle
    BY <1>3, <1>4, <1>5, <1>11, HandlesClosed
  <2>2. NotOn(hs.s, n)
    BY <1>4, <2>1 DEF NotOn, HandlesOf, InUse, FreeHandle
  <2>3. /\ cw.ret = "OK" /\ Sound(cw.s, {}) /\ Stays(hs.s, cw.s) /\ cw.s.gaHandle = hs.s.gaHandle
        /\ AtRoot(cw.s, n, {}) /\ cw.s.gbRedVolNum = n
    <3>1. PICK y, fReset : y = hs.s /\ fReset = FALSE
      OBVIOUS
    <3>2. n = y.gbRedVolNum /\ cw = CwdCloseVol(y, fReset, f) /\ Sound(y, {}) /\ {} \subseteq CwdsOn(y, n)
      BY <1>6, <2>1, <3>1
    <3>3. Sound(y, CwdsOn(y, n))
      BY <3>2, SoundMore
    <3>4. /\ cw.ret = "OK" /\ Sound(cw.s, {}) /\ Stays(y, cw.s) /\ cw.s.gaHandle = y.gaHandle
          /\ AtRoot(cw.s, n, {}) /\ cw.s.gbRedVolNum = n
      BY ONLY f \in {"OK", "EIO"}, <3>2, <3>3, CwdsLeave
    <3>. QED  BY <3>1, <3>4
  <2>4. Stays(u, cw.s)
    BY ONLY <2>1, <2>3, StaysOn
  <2>5. PICK v, w : v = cw.s /\ w = cw.s.vol[n]
    OBVIOUS
  <2>6. Sound(v, {}) /\ v.gbRedVolNum = n /\ Vol(v) = w /\ VolumeGood(w) /\ w.fMounted /\ NotOn(v, n) /\ AtRoot(v, n, {})
    <3>1. w.fMounted
      BY <1>11, <1>13, <2>4, <2>5 DEF Stays
    <3>. QED  BY <1>11, <2>2, <2>3, <2>5, <3>1 DEF Vol, Sound, Tables, NotOn
  <2>7. r = RedCoreVolUnmount(w, f) /\ m = OnVolume(v, r)
    BY <1>7, <1>8, <2>5, <2>6
  <2>8. /\ VolumeGood(r.v)
        /\ \/ r.ret = "OK" /\ ~r.v.fMounted
           \/ r.ret # "OK" /\ Result(w, r, {}) /\ ~w.fReadOnly /\ r.v.fReadOnly
    BY ONLY f \in {"OK", "EIO"}, <2>6, <2>7, UnmountIs
  <2>9. CASE r.ret # "OK" /\ Result(w, r, {}) /\ ~w.fReadOnly /\ r.v.fReadOnly
    <3>1. Answers(v, m)
      BY <2>6, <2>7, <2>9, VolumeAnswers
    <3>2. Sound(m.s, {}) /\ Stays(v, m.s)
      BY <3>1 DEF Answers
    <3>3. Stays(u, m.s)
      BY <2>4, <2>5, <3>2, StaysOn
    <3>4. ~FlagsSame(u, m.s)
      <4>1. m.s.vol[n] = r.v
        BY <2>6, <2>7, OnVolumeIs DEF Sound
      <4>2. ~u.vol[n].fReadOnly
        BY <1>11, <2>4, <2>5, <2>9 DEF Stays
      <4>. QED  BY <1>11, <2>9, <4>1, <4>2 DEF FlagsSame
    <3>5. Answers(u, m)
      BY <3>1, <3>2, <3>3, <3>4 DEF Answers
    <3>. QED  BY <2>1, <2>3, <3>5, AnswersServe
  <2>10. CASE r.ret = "OK" /\ ~r.v.fMounted
    <3>1. /\ Replaces(v, n, m.s) /\ m.ret = r.ret /\ m.s.vol[n] = r.v /\ m.s.gauGeneration = v.gauGeneration
          /\ m.s.gfPosixInited = v.gfPosixInited /\ \A k \in Volumes \ {n} : m.s.vol[k] = v.vol[k]
      <4>1. n = v.gbRedVolNum /\ (r.v.fMounted => v.gauGeneration[n] >= 1)
        BY <2>6, <2>10
      <4>. QED  BY ONLY <2>6, <2>7, <2>8, <4>1, CurrentReplaced
    <3>2. PICK X : X = {}
      OBVIOUS
    <3>3. Sound(m.s, X)
      BY ONLY <2>6, <3>1, <3>2, SoundIdle
    <3>4. Counts(u, m.s)
      BY <2>4, <2>5, <2>10, <3>1 DEF Counts, Stays
    <3>. QED  BY <2>1, <2>3, <2>10, <3>1, <3>2, <3>3, <3>4 DEF Served
  <2>. QED  BY <2>8, <2>9, <2>10
<1>14. Served(u, x)
  BY <1>9, <1>12, <1>13
<1>. QED  BY <1>1, <1>2, <1>10, <1>14, AtVolumeServed

\* red_rollback: the tasks that were in the volume are at its root.
LEMMA RollbackServed ==
  ASSUME NEW s, Sound(s, {}), NEW path
  PROVE  Served(s, red_rollback(s, path))
<1>1. PICK c : c = RedPathVolumeLookup(s, path)
  OBVIOUS
<1>2. PICK u : u = c.s
  OBVIOUS
<1>3. PICK n : n = u.gbRedVolNum
  OBVIOUS
<1>4. PICK r : r = RedCoreVolRollback(Vol(u))
  OBVIOUS
<1>5. PICK m : m = OnVolume(u, r)
  OBVIOUS
<1>6. PICK cw : cw = CwdCloseVol(m.s, TRUE, "OK")
  OBVIOUS
<1>7. PICK x : x = IF HandlesOf(u, n) # {} THEN Returns("EBUSY", u)
                   ELSE IF m.ret = "OK" THEN Returns("OK", cw.s) ELSE m
  OBVIOUS
<1>8. red_rollback(s, path) = IF c.ret = "OK" THEN x ELSE c
  BY <1>1, <1>2, <1>3, <1>4, <1>5, <1>6, <1>7 DEF red_rollback, AtVolume
<1>9. Sound(u, {}) /\ VolumeGood(Vol(u)) /\ n \in Volumes /\ Vol(u) = u.vol[n] /\ n = u.gbRedVolNum
  BY <1>1, <1>2, <1>3, VolumeAt DEF Shows
<1>10. CASE HandlesOf(u, n) # {}
  <2>1. Answers(u, x)
    BY <1>7, <1>9, <1>10, Refuses
  <2>2. Served(u, x)
    BY <2>1, AnswersServe
  <2>. QED  BY <1>1, <1>2, <1>8, <2>2, AtVolumeServed
<1>11. CASE HandlesOf(u, n) = {}
  <2>1. NotOn(u, n)
    BY <1>11 DEF NotOn, HandlesOf, InUse
  <2>2. \/ Result(Vol(u), r, {}) /\ r.ret # "OK"
        \/ r.ret = "OK" /\ VolumeGood(r.v) /\ r.v.fMounted = Vol(u).fMounted /\ r.v.fReadOnly = Vol(u).fReadOnly
    BY <1>4, <1>9, RollbackIs
  <2>3. CASE Result(Vol(u), r, {}) /\ r.ret # "OK"
    <3>1. Answers(u, m)
      BY <1>5, <1>9, <2>3, VolumeAnswers
    <3>2. m.ret # "OK"
      BY <1>5, <2>3 DEF OnVolume, Returns
    <3>3. Served(u, x)
      BY <1>7, <1>11, <3>1, <3>2, AnswersServe
    <3>. QED  BY <1>1, <1>2, <1>8, <3>3, AtVolumeServed
  <2>4. CASE r.ret = "OK" /\ VolumeGood(r.v) /\ r.v.fMounted = Vol(u).fMounted /\ r.v.fReadOnly = Vol(u).fReadOnly
    <3>1. r.v.fMounted => u.gauGeneration[n] >= 1
      BY <1>9, <2>4 DEF Sound
    <3>2. /\ Replaces(u, n, m.s) /\ m.ret = r.ret /\ m.s.vol[n] = r.v /\ m.s.gauGeneration = u.gauGeneration
          /\ m.s.gaTask = u.gaTask /\ m.s.gfPosixInited = u.gfPosixInited /\ m.s.gbRedVolNum = n
          /\ \A k \in Volumes \ {n} : m.s.vol[k] = u.vol[k]
      <4>1. VolumeGood(r.v)
        BY <2>4
      <4>. QED  BY ONLY <1>5, <1>9, <3>1, <4>1, CurrentReplaced
    <3>3. PICK X, y, fReset, f : X = CwdsOn(m.s, n) /\ y = m.s /\ fReset = TRUE /\ f = "OK"
      OBVIOUS
    <3>4. AtRoot(u, n, X)
      BY <3>2, <3>3 DEF AtRoot, CwdsOn
    <3>5. Sound(y, X)
      BY ONLY <1>9, <2>1, <3>2, <3>3, <3>4, SoundIdle
    <3>6. Sound(cw.s, {}) /\ Stays(y, cw.s)
      <4>1. n = y.gbRedVolNum /\ Sound(y, CwdsOn(y, n)) /\ f \in {"OK", "EIO"} /\ cw = CwdCloseVol(y, fReset, f)
        BY <1>6, <3>2, <3>3, <3>5
      <4>. QED  BY ONLY <4>1, CwdsLeave
    <3>7. Stays(u, m.s)
      BY <1>9, <2>4, <3>2 DEF Stays
    <3>8. Stays(u, cw.s)
      BY ONLY <3>3, <3>6, <3>7, StaysOn
    <3>9. x = Returns("OK", cw.s)
      BY <1>7, <1>11, <2>4, <3>2
    <3>10. Answers(u, x)
      BY <3>6, <3>8, <3>9 DEF Answers, Returns
    <3>11. Served(u, x)
      BY <3>10, AnswersServe
    <3>. QED  BY <1>1, <1>2, <1>8, <3>11, AtVolumeServed
  <2>. QED  BY <2>2, <2>3, <2>4
<1>. QED  BY <1>10, <1>11

-----------------------------------------------------------------------------
(* Starting and ending the driver.                                         *)

\* A volume after RedCoreInit.
Reset(v) == [v EXCEPT !.fMounted = FALSE, !.fReadOnly = FALSE, !.mask = REDCONF_TRANSACT_DEFAULT]

\* It is good, and not mounted.
LEMMA ResetGood ==
  ASSUME NEW v, VolumeGood(v)
  PROVE  VolumeGood(Reset(v)) /\ Reset(v).fMounted = FALSE
<1>1. VolumeGood(v) /\ v \in PosixVolumes
  BY DEF VolumeGood
<1>2. VolumeGood(Reset(v))
  BY <1>1, InitialIs DEF Reset
<1>. QED  BY <1>1, <1>2 DEF Reset, PosixVolumes

\* The tables that red_init clears.
Clearing(s, vol, handles, inos, tasks) ==
  [s EXCEPT !.vol = vol, !.gaHandle = handles, !.gaOpenInos = inos, !.gfPosixInited = TRUE, !.gaTask = tasks]

\* What red_init makes of the driver before the tasks get their directories.
Cleared(s) ==
  [s EXCEPT !.vol = RedCoreInit(@), !.gaHandle = [h \in Handles |-> FreeHandle],
            !.gaOpenInos = <<>>, !.gfPosixInited = TRUE,
            !.gaTask = [i \in Slots |-> [ulTaskId |-> NoTask, pCwd |-> NULL]]]

\* It is sound but for the tasks, which have none.
LEMMA ClearedIs ==
  ASSUME NEW s, DOMAIN s = Fields, s.gbRedVolNum \in Volumes, s.gauGeneration \in [Volumes -> 0 .. FD_GEN_MAX],
         DOMAIN s.vol = Volumes, \A n \in Volumes : VolumeGood(s.vol[n]), NEW u, u = Cleared(s)
  PROVE  /\ Sound(u, Slots) /\ u.gfPosixInited = TRUE /\ u.gauGeneration = s.gauGeneration
         /\ \A n \in Volumes : u.vol[n].fMounted = FALSE
<1>1. /\ DOMAIN u = Fields /\ u.gfPosixInited = TRUE /\ u.gbRedVolNum = s.gbRedVolNum
      /\ u.gauGeneration = s.gauGeneration /\ u.vol = RedCoreInit(s.vol)
      /\ u.gaHandle = [h \in Handles |-> FreeHandle] /\ u.gaOpenInos = <<>>
      /\ u.gaTask = [i \in Slots |-> [ulTaskId |-> NoTask, pCwd |-> NULL]]
  <2>1. PICK vol, handles, inos, tasks :
              /\ vol = RedCoreInit(s.vol) /\ handles = [h \in Handles |-> FreeHandle] /\ inos = <<>>
              /\ tasks = [i \in Slots |-> [ulTaskId |-> NoTask, pCwd |-> NULL]]
    OBVIOUS
  <2>2. u = Clearing(s, vol, handles, inos, tasks)
    BY ONLY <2>1, u = Cleared(s) DEF Cleared, Clearing
  <2>3. DOMAIN s = Fields
    OBVIOUS
  <2>. HIDE DEF NULL, FreeHandle
  <2>4. /\ DOMAIN u = Fields /\ u.gfPosixInited = TRUE /\ u.gbRedVolNum = s.gbRedVolNum
        /\ u.gauGeneration = s.gauGeneration /\ u.vol = vol /\ u.gaHandle = handles /\ u.gaOpenInos = inos
        /\ u.gaTask = tasks
    BY ONLY <2>2, <2>3 DEF Clearing, Fields
  <2>. QED  BY ONLY <2>1, <2>4
<1>2. /\ DOMAIN u.vol = Volumes /\ \A n \in Volumes : u.vol[n] = Reset(s.vol[n])
  <2>1. RedCoreInit(s.vol) = [n \in Volumes |-> Reset(s.vol[n])]
    BY DEF RedCoreInit, Reset
  <2>. QED  BY ONLY <1>1, <2>1
<1>3. \A n \in Volumes : VolumeGood(u.vol[n]) /\ u.vol[n].fMounted = FALSE
  <2>1. ASSUME NEW n \in Volumes PROVE VolumeGood(u.vol[n]) /\ u.vol[n].fMounted = FALSE
    <3>1. VolumeGood(s.vol[n]) /\ u.vol[n] = Reset(s.vol[n])
      BY <1>2
    <3>2. VolumeGood(Reset(s.vol[n])) /\ Reset(s.vol[n]).fMounted = FALSE
      BY ONLY <3>1, ResetGood
    <3>. QED  BY ONLY <3>1, <3>2
  <2>. QED  BY ONLY <2>1
<1>4. DOMAIN u.gaOpenInos = {}
  BY <1>1
<1>5. /\ DOMAIN u.gaHandle = Handles /\ DOMAIN u.gaTask = Slots
      /\ \A h \in Handles : HandleRecord(u.gaHandle[h]) /\ u.gaHandle[h].pOpenIno = NULL
      /\ \A i \in Slots : TaskRecord(u.gaTask[i]) /\ u.gaTask[i].pCwd = NULL
  <2>1. HandleRecord(FreeHandle) /\ FreeHandle.pOpenIno = NULL
    BY DEF HandleRecord, FreeHandle
  <2>2. TaskRecord([ulTaskId |-> NoTask, pCwd |-> NULL])
    BY DEF TaskRecord
  <2>. QED  BY <1>1, <2>1, <2>2
<1>6. Tables(u)
  BY <1>1, <1>2, <1>3, <1>4, <1>5 DEF Tables, Table
<1>7. \A x \in UserIds : Uses(u)[x] = NULL
  <2>. TAKE x \in UserIds
  <2>1. CASE \E h \in Handles : x = HandleUser(h)
    <3>1. PICK h \in Handles : x = HandleUser(h)
      BY <2>1
    <3>2. Uses(u)[HandleUser(h)] = u.gaHandle[h].pOpenIno
      BY ONLY h \in Handles, UsesIs
    <3>. QED  BY ONLY h \in Handles, <1>5, <3>1, <3>2
  <2>2. CASE \E i \in Slots : x = SlotUser(i)
    <3>1. PICK i \in Slots : x = SlotUser(i)
      BY <2>2
    <3>2. Uses(u)[SlotUser(i)] = u.gaTask[i].pCwd
      BY ONLY i \in Slots, UsesIs
    <3>. QED  BY ONLY i \in Slots, <1>5, <3>1, <3>2
  <2>. QED  BY <2>1, <2>2, UsersNamed
<1>8. RefsExact(Uses(u), u.gaOpenInos)
  <2>1. ASSUME NEW key \in Keys PROVE UsersOf(Uses(u), key) = 0
    <3>1. {x \in UserIds : Uses(u)[x] = key} = {}
      BY <1>7, NullIs
    <3>. QED  BY <3>1, FS_EmptySet DEF UsersOf
  <2>. QED  BY <1>4, <2>1 DEF RefsExact
<1>9. \A h \in Handles : HandleGood(u, h)
  BY <1>5 DEF HandleGood
<1>10. Sound(u, Slots)
  BY <1>3, <1>4, <1>6, <1>8, <1>9 DEF Sound
<1>. QED  BY <1>1, <1>3, <1>10

\* The volumes that a driver which is not initialized has mounted: none.
Idle(s) == s.gfPosixInited \/ \A n \in Volumes : ~s.vol[n].fMounted

\* A volume that was mounted has its next generation, any other its last.
Generations(s, t) ==
  \A n \in Volumes :
    t.gauGeneration[n] = IF t.vol[n].fMounted /\ ~s.vol[n].fMounted THEN NextGeneration(s.gauGeneration[n])
                         ELSE s.gauGeneration[n]

\* What every call makes of the driver, with its result r.
Completes(s, r) ==
  /\ Sound(r.s, {}) /\ Idle(r.s) /\ Generations(s, r.s) /\ r.ret # "EFUBAR"
  /\ r.ret # "OK" /\ FlagsSame(s, r.s) => Seen(r.s) = Seen(s)

\* A call that is served completes.
LEMMA ServedCompletes ==
  ASSUME NEW s, s.gfPosixInited, NEW r, Served(s, r)
  PROVE  Completes(s, r)
BY DEF Served, Counts, Completes, Idle, Generations

\* red_init, of a driver that is not initialized.
LEMMA Starts ==
  ASSUME NEW s, DOMAIN s = Fields, s.gbRedVolNum \in Volumes, s.gauGeneration \in [Volumes -> 0 .. FD_GEN_MAX],
         DOMAIN s.vol = Volumes, \A n \in Volumes : VolumeGood(s.vol[n]), ~s.gfPosixInited,
         NEW r, r = red_init(s)
  PROVE  /\ r.ret = "OK" /\ Sound(r.s, {}) /\ r.s.gfPosixInited = TRUE /\ r.s.gauGeneration = s.gauGeneration
         /\ \A n \in Volumes : r.s.vol[n].fMounted = FALSE
<1>1. PICK u : u = Cleared(s)
  OBVIOUS
<1>2. /\ Sound(u, Slots) /\ u.gfPosixInited = TRUE /\ u.gauGeneration = s.gauGeneration
      /\ \A n \in Volumes : u.vol[n].fMounted = FALSE
  BY <1>1, ClearedIs
<1>3. PICK c : c = CwdCloseAll(u, Slots, TRUE, TRUE, "OK")
  OBVIOUS
<1>4. Sound(c.s, {}) /\ Stays(u, c.s)
  <2>1. Slots \in SUBSET Slots /\ "OK" \in {"OK", "EIO"} /\ Sound(u, Slots)
    BY <1>2
  <2>. QED  BY ONLY <1>3, <2>1, CwdsHome
<1>5. r = Returns("OK", c.s)
  <2>1. red_init(s) = Returns("OK", IF s.gfPosixInited THEN s ELSE CwdResetAll(Cleared(s)))
    BY DEF red_init, Cleared
  <2>. QED  BY <1>1, <1>3, <2>1 DEF CwdResetAll
<1>. QED  BY <1>2, <1>4, <1>5 DEF Returns, Stays

\* red_init completes.
LEMMA InitCompletes ==
  ASSUME NEW s, Sound(s, {}), Idle(s)
  PROVE  Completes(s, red_init(s))
<1>1. PICK r : r = red_init(s)
  OBVIOUS
<1>2. CASE s.gfPosixInited
  <2>1. r = Returns("OK", s)
    BY <1>1, <1>2 DEF red_init
  <2>. QED  BY <1>1, <1>2, <2>1 DEF Completes, Returns, Idle, Generations
<1>3. CASE ~s.gfPosixInited
  <2>1. /\ DOMAIN s = Fields /\ s.gbRedVolNum \in Volumes /\ s.gauGeneration \in [Volumes -> 0 .. FD_GEN_MAX]
        /\ DOMAIN s.vol = Volumes /\ \A n \in Volumes : VolumeGood(s.vol[n])
    BY DEF Sound, Tables
  <2>2. /\ r.ret = "OK" /\ Sound(r.s, {}) /\ r.s.gfPosixInited = TRUE /\ r.s.gauGeneration = s.gauGeneration
        /\ \A n \in Volumes : r.s.vol[n].fMounted = FALSE
    BY ONLY <1>1, <1>3, <2>1, Starts
  <2>. QED  BY <1>1, <2>2 DEF Completes, Idle, Generations
<1>. QED  BY <1>2, <1>3

\* red_uninit completes.
LEMMA UninitCompletes ==
  ASSUME NEW s, Sound(s, {}), Idle(s)
  PROVE  Completes(s, red_uninit(s))
<1>1. PICK q : q = [s EXCEPT !.gfPosixInited = FALSE]
  OBVIOUS
<1>2. CASE \E n \in Volumes : s.vol[n].fMounted
  <2>1. red_uninit(s) = Returns("EBUSY", s)
    BY <1>2 DEF red_uninit, Idle
  <2>. QED  BY <2>1 DEF Completes, Returns, Idle, Generations
<1>3. CASE ~\E n \in Volumes : s.vol[n].fMounted
  <2>1. red_uninit(s) = Returns("OK", q)
    BY <1>1, <1>3 DEF red_uninit
  <2>2. Frame(s, q, {"gfPosixInited"}) /\ q.gfPosixInited = FALSE
    BY <1>1 DEF Sound, Tables, Frame, Fields
  <2>3. Frame(s, q, {"gfPosixInited"})
    BY <2>2
  <2>4. /\ q.gbRedVolNum = s.gbRedVolNum /\ q.vol = s.vol /\ q.gaHandle = s.gaHandle
        /\ q.gaOpenInos = s.gaOpenInos /\ q.gaTask = s.gaTask /\ q.gauGeneration = s.gauGeneration
        /\ DOMAIN q = Fields
    BY ONLY <2>3, FrameIs
  <2>5. Tables(q)
    BY <2>2, <2>4 DEF Sound, Tables
  <2>6. \A h \in Handles : HandleGood(q, h)
    BY <2>4 DEF Sound, HandleGood, HandleType, FildesPack
  <2>7. \A i \in Slots : TaskGood(q, i)
    BY <2>2, <2>4 DEF Sound, TaskGood
  <2>8. Uses(q) = Uses(s)
    BY <2>4, SameUses
  <2>9. \A key \in DOMAIN q.gaOpenInos : MarkGood(q, {}, key)
    BY <2>4, <2>8 DEF Sound, MarkGood, InUseBy
  <2>10. Sound(q, {})
    BY <2>4, <2>5, <2>6, <2>7, <2>8, <2>9 DEF Sound
  <2>. QED  BY <1>3, <2>1, <2>4, <2>10 DEF Completes, Returns, Idle, Generations
<1>. QED  BY <1>2, <1>3

-----------------------------------------------------------------------------
(* The inductive invariant.                                                *)

\* A stale descriptor has the last generation of its volume, or another than
\* the volume has since it was mounted again.
StaleGood(s, old) ==
  /\ old \subseteq Descriptors
  /\ \A fd \in old : s.vol[fd.vol].fMounted <=> s.gauGeneration[fd.vol] # fd.gen

DriverInv ==
  /\ Sound(red, {}) /\ Idle(red) /\ StaleGood(red, stale)
  /\ outcome \in {"OK", "error"} /\ calls \in 0 .. MAX_CALLS

\* The descriptor of a handle in use.
LEMMA GivenIs ==
  ASSUME NEW s, Sound(s, {}), NEW fd \in Given(s)
  PROVE  /\ fd \in Descriptors /\ fd.gen = s.gauGeneration[fd.vol] /\ s.vol[fd.vol].fMounted
         /\ InUse(s, fd.idx) /\ s.gaHandle[fd.idx].pOpenIno[1] = fd.vol
<1>1. PICK h \in Handles : InUse(s, h) /\ fd = s.gaHandle[h].fildes
  BY DEF Given
<1>2. PICK key : key = s.gaHandle[h].pOpenIno
  OBVIOUS
<1>3. key # NULL /\ key \in Keys
  BY <1>1, <1>2 DEF InUse, Sound, Tables, HandleRecord
<1>4. key[1] \in Volumes
  BY <1>3 DEF Keys
<1>5. fd = FildesPack(s, h, key[1]) /\ s.vol[key[1]].fMounted
  BY <1>1, <1>2, <1>3 DEF Sound, HandleGood, InUseAs
<1>6. fd = [gen |-> s.gauGeneration[key[1]], vol |-> key[1], idx |-> h]
  BY <1>5 DEF FildesPack
<1>7. s.gauGeneration[key[1]] \in 1 .. FD_GEN_MAX
  <2>1. s.gauGeneration[key[1]] \in 0 .. FD_GEN_MAX /\ s.gauGeneration[key[1]] >= 1
    BY <1>4, <1>5 DEF Sound, Tables
  <2>. QED  BY <2>1, PosixAssumption
<1>8. fd \in Descriptors
  BY <1>4, <1>6, <1>7 DEF Descriptors
<1>. QED  BY ONLY <1>1, <1>2, <1>5, <1>6, <1>8

\* Stale descriptors stay stale, and those of an unmount become stale.
LEMMA StaleStays ==
  ASSUME DriverInv, NEW s, Sound(s, {}), Generations(red, s)
  PROVE  StaleGood(s, Stale(s))
<1>1. DEFINE gone == {n \in Volumes : red.vol[n].fMounted /\ ~s.vol[n].fMounted}
<1>2. ASSUME NEW fd \in stale, fd.vol \notin gone
      PROVE  fd \in Descriptors /\ (s.vol[fd.vol].fMounted <=> s.gauGeneration[fd.vol] # fd.gen)
  <2>1. fd \in Descriptors /\ (red.vol[fd.vol].fMounted <=> red.gauGeneration[fd.vol] # fd.gen)
    BY <1>2 DEF DriverInv, StaleGood
  <2>2. fd.vol \in Volumes
    BY <2>1 DEF Descriptors
  <2>3. red.vol[fd.vol].fMounted => s.vol[fd.vol].fMounted
    BY <1>2, <2>2
  <2>4. red.gauGeneration[fd.vol] \in 0 .. FD_GEN_MAX
    BY <2>2 DEF DriverInv, Sound, Tables
  <2>5. NextGeneration(red.gauGeneration[fd.vol]) # red.gauGeneration[fd.vol]
    BY <2>4, NextGenerationIs
  <2>6. s.gauGeneration[fd.vol] = IF s.vol[fd.vol].fMounted /\ ~red.vol[fd.vol].fMounted
                                  THEN NextGeneration(red.gauGeneration[fd.vol]) ELSE red.gauGeneration[fd.vol]
    BY <2>2 DEF Generations
  <2>. QED  BY <2>1, <2>3, <2>5, <2>6
<1>3. ASSUME NEW fd \in Given(red), fd.vol \in gone
      PROVE  fd \in Descriptors /\ (s.vol[fd.vol].fMounted <=> s.gauGeneration[fd.vol] # fd.gen)
  <2>1. fd \in Descriptors /\ fd.gen = red.gauGeneration[fd.vol]
    BY <1>3, GivenIs DEF DriverInv
  <2>2. s.gauGeneration[fd.vol] = red.gauGeneration[fd.vol]
    BY <1>3 DEF Generations
  <2>. QED  BY <1>3, <2>1, <2>2
<1>. QED  BY <1>2, <1>3 DEF Stale, StaleGood

\* A call that completes keeps the invariant, and changes nothing if it fails.
LEMMA CallKeeps ==
  ASSUME DriverInv, NEW r, Completes(red, r), Ends(r)
  PROVE  /\ DriverInv'
         /\ outcome' = "error" /\ FlagsSame(red, red') => Seen(red') = Seen(red)
<1>1. red' = r.s /\ outcome' = Outcome(r.ret) /\ stale' = Stale(r.s)
  BY DEF Ends
<1>2. calls' \in 0 .. MAX_CALLS
  BY PosixAssumption DEF Ends, DriverInv
<1>3. Sound(r.s, {}) /\ Idle(r.s) /\ Generations(red, r.s)
  BY DEF Completes
<1>4. StaleGood(r.s, Stale(r.s))
  BY <1>3, StaleStays
<1>5. outcome' \in {"OK", "error"}
  BY <1>1 DEF Completes, Outcome
<1>6. DriverInv'
  BY <1>1, <1>2, <1>3, <1>4, <1>5 DEF DriverInv
<1>7. outcome' = "error" => r.ret \notin {"OK", "EFUBAR"}
  BY <1>1 DEF Outcome
<1>. QED  BY <1>1, <1>6, <1>7 DEF Completes

\* A call of a task: what is served to the driver that it entered completes.
LEMMA CallEnters ==
  ASSUME DriverInv, NEW t \in Tasks, NEW s, s = Entered(t)
  PROVE  /\ PosixEnter(t).ret = "OK" => /\ Sound(s, {}) /\ Registered(s, t)
                                        /\ \A r : Served(s, r) => Completes(red, r)
         /\ Completes(red, PosixEnter(t))
<1>1. PICK e : e = PosixEnter(t)
  OBVIOUS
<1>2. s = e.s
  BY <1>1 DEF Entered
<1>3. Sound(red, {}) /\ Idle(red)
  BY DEF DriverInv
<1>4. CASE ~red.gfPosixInited
  <2>1. e = Returns("EINVAL", red)
    BY <1>1, <1>4 DEF PosixEnter
  <2>. QED  BY <1>1, <1>3, <2>1 DEF Returns, Completes, Generations
<1>5. CASE red.gfPosixInited
  <2>1. e = TaskRegister(red, t)
    BY <1>1, <1>5 DEF PosixEnter
  <2>2. Enters(red, t, e)
    BY <1>3, <1>5, <2>1, TaskRegisters
  <2>3. /\ Sound(s, {}) /\ Stays(red, s) /\ FlagsSame(red, s) /\ Seen(s) = Seen(red) /\ s.vol = red.vol
        /\ e.ret \in {"OK", "EUSERS"} /\ (e.ret = "OK" => Registered(s, t))
    BY <1>2, <2>2 DEF Enters
  <2>4. s.gfPosixInited = red.gfPosixInited /\ s.gauGeneration = red.gauGeneration
    BY <2>3 DEF Stays
  <2>5. ASSUME NEW r, Served(s, r) PROVE Completes(red, r)
    <3>1. Sound(r.s, {}) /\ Counts(s, r.s)
      BY <2>5 DEF Served
    <3>2. Idle(r.s) /\ Generations(red, r.s)
      BY <1>5, <2>3, <2>4, <3>1 DEF Counts, Idle, Generations
    <3>3. FlagsSame(red, r.s) => FlagsSame(s, r.s)
      BY <2>3 DEF FlagsSame
    <3>. QED  BY <2>3, <2>5, <3>1, <3>2, <3>3 DEF Served, Completes
  <2>6. Completes(red, e)
    BY <1>2, <1>5, <2>3, <2>4 DEF Completes, Idle, Generations
  <2>. QED  BY <1>1, <2>3, <2>5, <2>6
<1>. QED  BY <1>4, <1>5

-----------------------------------------------------------------------------
(* Every step is a call that completes.                                    *)

Completed == \E r : Completes(red, r) /\ Ends(r)

\* The driver that a task has entered.
EnteredBy(s, t) == Sound(s, {}) /\ Registered(s, t) /\ \A r : Served(s, r) => Completes(red, r)

\* A call that answers the driver that a task entered completes.
LEMMA AnswerCompletes ==
  ASSUME NEW s, NEW t, EnteredBy(s, t), NEW r, Answers(s, r), Ends(r)
  PROVE  Completed
BY AnswersServe DEF EnteredBy, Completed

\* A call that is served by it completes.
LEMMA ServedCall ==
  ASSUME NEW s, NEW t, EnteredBy(s, t), NEW r, Served(s, r), Ends(r)
  PROVE  Completed
BY DEF EnteredBy, Completed

\* The calls on the driver complete.
LEMMA DriverCompletes ==
  ASSUME DriverInv, Driver
  PROVE  Completed
<1>1. Sound(red, {}) /\ Idle(red)
  BY DEF DriverInv
<1>2. CASE Ends(red_init(red))
  BY <1>1, <1>2, InitCompletes DEF Completed
<1>3. CASE Ends(red_uninit(red))
  BY <1>1, <1>3, UninitCompletes DEF Completed
<1>4. ASSUME NEW t \in Tasks, Ends(red_taskregister(t)) PROVE Completed
  <2>1. red_taskregister(t) = PosixEnter(t)
    BY DEF red_taskregister, PosixEnter
  <2>2. PICK s : s = Entered(t)
    OBVIOUS
  <2>3. Completes(red, PosixEnter(t))
    BY <2>2, CallEnters
  <2>. QED  BY <1>4, <2>1, <2>3 DEF Completed
<1>5. ASSUME NEW t \in Tasks, Ends(red_taskunregister(t, "OK")) PROVE Completed
  <2>1. PICK r : r = red_taskunregister(t, "OK")
    OBVIOUS
  <2>2. Completes(red, r)
    <3>1. CASE red.gfPosixInited
      <4>1. r = TaskUnregister(red, t, "OK")
        BY <2>1, <3>1 DEF red_taskunregister
      <4>2. Answers(red, r)
        BY <1>1, <4>1, TaskUnregisters
      <4>. QED  BY <3>1, <4>2, AnswersServe, ServedCompletes
    <3>2. CASE ~red.gfPosixInited
      <4>1. r = Returns("EINVAL", red)
        BY <2>1, <3>2 DEF red_taskunregister
      <4>. QED  BY <1>1, <4>1 DEF Completes, Generations, Returns
    <3>. QED  BY <3>1, <3>2
  <2>. QED  BY <1>5, <2>1, <2>2 DEF Completed
<1>. QED  BY <1>2, <1>3, <1>4, <1>5 DEF Driver

\* The calls on volumes complete.
LEMMA VolumeCallsComplete ==
  ASSUME NEW s, NEW t, EnteredBy(s, t), VolumeCalls(s)
  PROVE  Completed
<1>1. Sound(s, {})
  BY DEF EnteredBy
<1>2. CASE Ends(red_sync(s, "OK"))
  BY <1>1, <1>2, SyncAnswers, AnswerCompletes
<1>3. ASSUME NEW path, NEW f \in {"OK", "EIO"}, NEW flags, Ends(red_mount2(s, path, flags, f)) PROVE Completed
  BY <1>1, <1>3, MountServed, ServedCall
<1>4. ASSUME NEW path, NEW f \in {"OK", "EIO"}, NEW fForce, Ends(red_umount2(s, path, fForce, f)) PROVE Completed
  BY <1>1, <1>4, UnmountServed, ServedCall
<1>5. ASSUME NEW path, Ends(red_transact(s, path, "OK")) PROVE Completed
  BY <1>1, <1>5, VolumeCallsAnswer, AnswerCompletes
<1>6. ASSUME NEW path, Ends(red_format(s, path)) PROVE Completed
  BY <1>1, <1>6, FormatServed, ServedCall
<1>7. ASSUME NEW path, Ends(red_rollback(s, path)) PROVE Completed
  BY <1>1, <1>7, RollbackServed, ServedCall
<1>8. ASSUME NEW path, NEW mask \in Masks, Ends(red_settransmask(s, path, mask)) PROVE Completed
  BY <1>1, <1>8, VolumeCallsAnswer, AnswerCompletes
<1>9. ASSUME NEW path, Ends(red_freeorphans(s, path, 1)) PROVE Completed
  BY <1>1, <1>9, VolumeCallsAnswer, AnswerCompletes
<1>10. ASSUME NEW path, NEW r \in {red_gettransmask(s, path), red_statvfs(s, path)}, Ends(r) PROVE Completed
  BY <1>1, <1>10, VolumeCallsAnswer, AnswerCompletes
<1>. QED  BY <1>2, <1>3, <1>4, <1>5, <1>6, <1>7, <1>8, <1>9, <1>10 DEF VolumeCalls

\* The calls on paths complete.
LEMMA NameCallsComplete ==
  ASSUME NEW s, NEW t, EnteredBy(s, t), NameCalls(t, s)
  PROVE  Completed
<1>1. Sound(s, {}) /\ Registered(s, t)
  BY DEF EnteredBy
<1>2. \A f \in Faults : f \in {"OK", "ENOSPC"}
  BY PosixAssumption
<1>3. ASSUME NEW path \in Paths, NEW f \in Faults, NEW flags, Ends(red_open2(s, t, path, flags, f)) PROVE Completed
  BY <1>1, <1>2, <1>3, OpenAnswers, AnswerCompletes DEF red_open2
<1>4. ASSUME NEW path \in Paths, NEW f \in Faults, Ends(red_mkdir(s, t, path, f)) PROVE Completed
  BY <1>1, <1>2, <1>4, MkdirAnswers, AnswerCompletes DEF red_mkdir, red_mkdir2
<1>5. ASSUME NEW path \in Paths, NEW f \in Faults, Ends(red_symlink(s, t, path, f, "OK")) PROVE Completed
  BY <1>1, <1>2, <1>5, SymlinkAnswers, AnswerCompletes
<1>6. ASSUME NEW path \in Paths, NEW f \in Faults, Ends(red_unlink(s, t, path, f)) PROVE Completed
  BY <1>1, <1>2, <1>6, UnlinkAnswers, AnswerCompletes DEF red_unlink
<1>7. ASSUME NEW path \in Paths, Ends(red_chdir(s, t, path, "OK")) PROVE Completed
  BY <1>1, <1>7, ChdirAnswers, AnswerCompletes
<1>8. ASSUME NEW path \in Paths, Ends(red_opendir(s, t, path)) PROVE Completed
  BY <1>1, <1>8, OpenAnswers, AnswerCompletes
<1>9. ASSUME NEW path \in Paths, Ends(red_rmdir(s, t, path, "OK")) PROVE Completed
  BY <1>1, <1>9, UnlinkAnswers, AnswerCompletes DEF red_rmdir
<1>10. ASSUME NEW path \in Paths, NEW to \in Paths, SameNameRenames \/ ~IsSameName(s, t, FDCWD, path, FDCWD, to),
              Ends(red_rename(s, t, path, to, "OK")) PROVE Completed
  BY <1>1, <1>10, RenameAnswers, AnswerCompletes DEF red_rename
<1>11. ASSUME NEW path \in Paths, NEW to \in Paths, Ends(red_link(s, t, path, to, "OK")) PROVE Completed
  BY <1>1, <1>11, LinkAnswers, AnswerCompletes DEF red_link
<1>12. ASSUME NEW path \in Paths,
              NEW r \in { red_readlink(s, t, path), red_chmod(s, t, path), red_chown(s, t, path),
                          red_utimes(s, t, path), red_stat(s, t, path) },
              Ends(r) PROVE Completed
  <2>1. Answers(s, r)
    BY <1>1, <1>12, ReadlinkAnswers, AttributesAnswer DEF red_chmod, red_chown, red_utimes, red_stat
  <2>. QED  BY <1>12, <2>1, AnswerCompletes
<1>. QED  BY <1>3, <1>4, <1>5, <1>6, <1>7, <1>8, <1>9, <1>10, <1>11, <1>12 DEF NameCalls

\* The calls on descriptors complete.
LEMMA DescriptorCallsComplete ==
  ASSUME NEW s, NEW t, EnteredBy(s, t), DescriptorCalls(t, s)
  PROVE  Completed
<1>1. Sound(s, {}) /\ Registered(s, t)
  BY DEF EnteredBy
<1>2. ASSUME NEW fd, NEW f \in {"OK", "EIO"}, Ends(red_close(s, fd, f)) PROVE Completed
  BY <1>1, <1>2, CloseAnswers, AnswerCompletes
<1>3. ASSUME NEW fd, Ends(red_fsync(s, fd)) PROVE Completed
  BY <1>1, <1>3, DescriptorsAnswer, AnswerCompletes
<1>4. ASSUME NEW fd, NEW r \in { red_fdopendir(s, fd), red_fchmod(s, fd), red_fchown(s, fd), red_futimes(s, fd),
                                 red_fstat(s, fd), red_getdirpath(s, fd) },
             Ends(r) PROVE Completed
  <2>1. Answers(s, r)
    BY <1>1, <1>4, DescriptorsAnswer, PathOfAnswers
  <2>. QED  BY <1>4, <2>1, AnswerCompletes
<1>5. ASSUME NEW fd, NEW path \in Paths, Ends(red_openat(s, t, fd, path, {"RDONLY"}, "OK")) PROVE Completed
  BY <1>1, <1>5, OpenAnswers, AnswerCompletes
<1>6. ASSUME NEW fd, NEW path \in Paths, Ends(red_mkdirat(s, t, fd, path, "OK")) PROVE Completed
  BY <1>1, <1>6, MkdirAnswers, AnswerCompletes
<1>7. ASSUME NEW fd, NEW path \in Paths, Ends(red_unlinkat(s, t, fd, path, FALSE, "OK")) PROVE Completed
  BY <1>1, <1>7, UnlinkAnswers, AnswerCompletes
<1>8. ASSUME NEW fd, NEW path \in Paths,
             NEW r \in { red_fstatat(s, t, fd, path, TRUE), red_fchmodat(s, t, fd, path, TRUE),
                         red_fchownat(s, t, fd, path, TRUE), red_utimesat(s, t, fd, path, TRUE) },
             Ends(r) PROVE Completed
  <2>1. Answers(s, r)
    BY <1>1, <1>8, AttributesAnswer
  <2>. QED  BY <1>8, <2>1, AnswerCompletes
<1>9. ASSUME NEW fd, NEW path \in Paths, NEW to \in Paths, SameNameRenames \/ ~IsSameName(s, t, fd, path, FDABS, to),
             Ends(red_renameat(s, t, fd, path, FDABS, to, "OK")) PROVE Completed
  BY <1>1, <1>9, RenameAnswers, AnswerCompletes
<1>10. ASSUME NEW fd, NEW path \in Paths, NEW to \in Paths, Ends(red_linkat(s, t, fd, path, FDABS, to, TRUE, "OK"))
       PROVE  Completed
  BY <1>1, <1>10, LinkAnswers, AnswerCompletes
<1>. QED  BY <1>2, <1>3, <1>4, <1>5, <1>6, <1>7, <1>8, <1>9, <1>10 DEF DescriptorCalls

\* The calls on directory streams complete.
LEMMA StreamCallsComplete ==
  ASSUME NEW s, NEW t, EnteredBy(s, t), StreamCalls(s)
  PROVE  Completed
<1>1. Sound(s, {})
  BY DEF EnteredBy
<1>2. ASSUME NEW h \in Handles, Ends(red_readdir(s, h)) PROVE Completed
  BY <1>1, <1>2, StreamsAnswer, AnswerCompletes
<1>3. ASSUME NEW h \in Handles, Ends(red_rewinddir(s, h)) PROVE Completed
  BY <1>1, <1>3, StreamsAnswer, AnswerCompletes
<1>4. ASSUME NEW h \in Handles, Ends(red_seekdir(s, h, red_telldir(s, h))) PROVE Completed
  BY <1>1, <1>4, StreamsAnswer, AnswerCompletes
<1>5. ASSUME NEW h \in Handles, Ends(red_closedir(s, h, "OK")) PROVE Completed
  BY <1>1, <1>5, CloseAnswers, AnswerCompletes
<1>. QED  BY <1>2, <1>3, <1>4, <1>5 DEF StreamCalls

\* Every call completes.
LEMMA NextCompletes ==
  ASSUME DriverInv, Next
  PROVE  Completed
<1>1. ASSUME NEW t \in Tasks, Calls(t) PROVE Completed
  <2>1. PICK s : s = Entered(t)
    OBVIOUS
  <2>2. CASE PosixEnter(t).ret # "OK"
    <3>1. Completes(red, PosixEnter(t))
      BY <2>1, CallEnters
    <3>2. Ends(PosixEnter(t))
      BY <1>1, <2>2 DEF Calls
    <3>. QED  BY <3>1, <3>2 DEF Completed
  <2>3. CASE PosixEnter(t).ret = "OK"
    <3>1. EnteredBy(s, t)
      BY <2>1, <2>3, CallEnters DEF EnteredBy
    <3>2. \/ VolumeCalls(s) \/ NameCalls(t, s) \/ DescriptorCalls(t, s) \/ StreamCalls(s)
          \/ Ends(red_getcwd(s, t))
      BY <1>1, <2>1, <2>3 DEF Calls
    <3>3. CASE Ends(red_getcwd(s, t))
      <4>1. Answers(s, red_getcwd(s, t))
        BY <3>1, PathOfAnswers DEF EnteredBy
      <4>. QED  BY <3>1, <3>3, <4>1, AnswerCompletes
    <3>. QED  BY <3>1, <3>2, <3>3, VolumeCallsComplete, NameCallsComplete, DescriptorCallsComplete,
                 StreamCallsComplete
  <2>. QED  BY <2>2, <2>3
<1>. QED  BY <1>1, DriverCompletes DEF Next

\* A call that fails changes nothing, and every call keeps the invariant.
LEMMA NextKeeps ==
  ASSUME DriverInv, [Next]_vars
  PROVE  /\ DriverInv'
         /\ outcome' = "error" /\ FlagsSame(red, red') => Seen(red') = Seen(red)
<1>1. CASE Next
  <2>1. PICK r : Completes(red, r) /\ Ends(r)
    BY <1>1, NextCompletes DEF Completed
  <2>. QED  BY <2>1, CallKeeps
<1>2. CASE UNCHANGED vars
  BY <1>2 DEF vars, DriverInv
<1>. QED  BY <1>1, <1>2

\* The invariant holds when the driver has started.
LEMMA InitKeeps ==
  ASSUME Init
  PROVE  DriverInv
<1>1. PICK t \in Tasks : red = red_mount2(TaskRegister(red_init(Formatted).s, t).s, Prefix[0], {}, "OK").s
  BY DEF Init
<1>2. PICK a : a = Formatted
  OBVIOUS
<1>3. PICK i : i = red_init(a)
  OBVIOUS
<1>4. PICK e : e = TaskRegister(i.s, t)
  OBVIOUS
<1>5. PICK m : m = red_mount2(e.s, Prefix[0], {}, "OK")
  OBVIOUS
<1>6. /\ DOMAIN a = Fields /\ a.gbRedVolNum \in Volumes /\ a.gauGeneration \in [Volumes -> 0 .. FD_GEN_MAX]
      /\ DOMAIN a.vol = Volumes /\ \A n \in Volumes : VolumeGood(a.vol[n])
      /\ ~a.gfPosixInited
  <2>1. /\ DOMAIN a = Fields /\ a.gbRedVolNum = 0 /\ a.gauGeneration = [n \in Volumes |-> 0]
        /\ a.vol = [n \in Volumes |-> RedVolFormat] /\ ~a.gfPosixInited
    BY <1>2 DEF Formatted, Fields
  <2>2. VolumeGood(RedVolFormat)
    <3>1. PICK w : w = [RedVolFormat EXCEPT !.mask = {}]
      OBVIOUS
    <3>2. w = RedVolFormat
      BY <3>1 DEF RedVolFormat
    <3>3. VolumeGood([RedVolFormat EXCEPT !.mask = {}])
      BY FormattedIs
    <3>. QED  BY <3>1, <3>2, <3>3
  <2>. QED  BY <2>1, <2>2, PosixAssumption
<1>7. Sound(i.s, {}) /\ i.s.gfPosixInited = TRUE
  BY ONLY <1>3, <1>6, Starts
<1>8. Enters(i.s, t, e)
  BY <1>4, <1>7, TaskRegisters
<1>9. Sound(e.s, {}) /\ e.s.gfPosixInited
  BY <1>7, <1>8 DEF Enters, Stays
<1>10. Served(e.s, m)
  BY <1>5, <1>9, MountServed
<1>11. red = m.s
  BY <1>1, <1>2, <1>3, <1>4, <1>5
<1>12. Sound(red, {}) /\ Idle(red)
  BY <1>9, <1>10, <1>11 DEF Served, Counts, Idle
<1>. QED  BY <1>12, PosixAssumption DEF Init, DriverInv, StaleGood

-----------------------------------------------------------------------------
(* Theorems.                                                               *)

\* It holds in every reachable state.
LEMMA Always == Spec => []DriverInv
BY InitKeeps, NextKeeps, PTL DEF Spec

\* The tables have their types in every reachable state (TypeOK).
THEOREM PosixTypes == Spec => []TypeOK
<1>1. DriverInv => TypeOK
  <2>. SUFFICES ASSUME DriverInv PROVE TypeOK
    OBVIOUS
  <2>1. Sound(red, {}) /\ Tables(red)
    BY DEF DriverInv, Sound
  <2>2. \A h \in Handles : InUse(red, h) => red.gaHandle[h].pOpenIno \in Keys
    BY <2>1 DEF Tables, HandleRecord, InUse
  <2>3. \A i \in Slots : red.gaTask[i].pCwd \in Keys \cup {NULL}
    BY <2>1 DEF Tables, TaskRecord
  <2>4. DOMAIN red.gaOpenInos \subseteq Keys
    BY <2>1 DEF Tables, Table
  <2>5. Cardinality(DOMAIN red.gaOpenInos) <= OPEN_INODE_COUNT
    <3>1. PICK k, table : k = Uses(red) /\ table = red.gaOpenInos
      OBVIOUS
    <3>2. Table(table) /\ RefsExact(k, table)
      BY <2>1, <3>1 DEF Sound, Tables
    <3>3. Cardinality(DOMAIN table) <= OPEN_INODE_COUNT
      BY ONLY <3>2, RoomIs
    <3>. QED  BY <3>1, <3>3
  <2>6. red.gbRedVolNum \in Volumes /\ \A n \in Volumes : red.gauGeneration[n] \in 0 .. FD_GEN_MAX
    BY <2>1 DEF Tables
  <2>7. stale \subseteq Descriptors /\ outcome \in {"OK", "EFUBAR", "error"} /\ calls \in 0 .. MAX_CALLS
    BY DEF DriverInv, StaleGood
  <2>. QED  BY <2>2, <2>3, <2>4, <2>5, <2>6, <2>7 DEF TypeOK
<1>. QED  BY <1>1, Always, PTL

\* A descriptor is accepted exactly if its handle is open; one that an unmount
\* closed never is, whatever was opened since (DescriptorsExact).
THEOREM PosixDescriptors == Spec => []DescriptorsExact
<1>1. DriverInv => DescriptorsExact
  <2>. SUFFICES ASSUME DriverInv PROVE DescriptorsExact
    OBVIOUS
  <2>1. Sound(red, {}) /\ StaleGood(red, stale)
    BY DEF DriverInv
  <2>2. ASSUME NEW fd \in Descriptors, FildesToHandle(red, fd, FTYPE_ANY) = "OK" PROVE fd \in Given(red)
    <3>1. /\ fd.idx \in Handles /\ fd.vol \in Volumes /\ InUse(red, fd.idx) /\ FildesIsCurrent(red, fd)
      BY <2>2 DEF FildesToHandle
    <3>2. PICK key : key = red.gaHandle[fd.idx].pOpenIno
      OBVIOUS
    <3>3. key # NULL /\ key[1] = fd.vol /\ red.gauGeneration[fd.vol] = fd.gen
      BY <3>1, <3>2 DEF InUse, FildesIsCurrent
    <3>4. red.gaHandle[fd.idx].fildes = FildesPack(red, fd.idx, key[1])
      BY <2>1, <3>1, <3>2, <3>3 DEF Sound, HandleGood
    <3>5. fd = [gen |-> fd.gen, vol |-> fd.vol, idx |-> fd.idx]
      BY DEF Descriptors
    <3>6. red.gaHandle[fd.idx].fildes = fd
      BY <3>3, <3>4, <3>5 DEF FildesPack
    <3>. QED  BY <3>1, <3>6 DEF Given
  <2>3. ASSUME NEW fd \in Given(red) PROVE FildesToHandle(red, fd, FTYPE_ANY) = "OK"
    <3>1. /\ fd \in Descriptors /\ fd.gen = red.gauGeneration[fd.vol] /\ red.vol[fd.vol].fMounted
          /\ InUse(red, fd.idx) /\ red.gaHandle[fd.idx].pOpenIno[1] = fd.vol
      BY <2>1, GivenIs
    <3>2. fd.idx \in Handles /\ fd.vol \in Volumes
      BY <3>1 DEF Descriptors
    <3>3. RedFileTypeCheck(HandleType(red, fd.idx), FTYPE_ANY) = "OK"
      BY DEF RedFileTypeCheck, HandleType, FTYPE_ANY
    <3>. QED  BY <3>1, <3>2, <3>3 DEF FildesToHandle, FildesIsCurrent
  <2>4. ASSUME NEW fd \in stale PROVE fd \notin Given(red)
    <3>1. red.vol[fd.vol].fMounted <=> red.gauGeneration[fd.vol] # fd.gen
      BY <2>1 DEF StaleGood
    <3>2. fd \in Given(red) => fd.gen = red.gauGeneration[fd.vol] /\ red.vol[fd.vol].fMounted
      BY <2>1, GivenIs
    <3>. QED  BY <3>1, <3>2
  <2>5. stale \subseteq Descriptors
    BY <2>1 DEF StaleGood
  <2>. QED  BY <2>2, <2>3, <2>4, <2>5 DEF DescriptorsExact
<1>. QED  BY <1>1, Always, PTL

\* A call that fails has changed nothing that a caller could see, unless it
\* made a volume read-only (FailedCallsChangeNothing).
THEOREM PosixFailures == Spec => FailedCallsChangeNothing
<1>1. DriverInv /\ [Next]_vars =>
        [outcome' = "error" /\ (\A n \in Volumes : red'.vol[n].fReadOnly = red.vol[n].fReadOnly)
           => Seen(red)' = Seen(red)]_vars
  BY NextKeeps DEF FlagsSame
<1>. QED  BY <1>1, Always, PTL DEF Spec, FailedCallsChangeNothing

\* The users of an open inode, counted together.
LEMMA UsersAre ==
  ASSUME NEW key \in Keys
  PROVE  Users(key) = UsersOf(Uses(red), key)
<1>. DEFINE H == {h \in Handles : red.gaHandle[h].pOpenIno = key}
            T == {i \in Slots : red.gaTask[i].pCwd = key}
            A == {0} \X H
            B == {1} \X T
            U == {u \in UserIds : Uses(red)[u] = key}
<1>1. IsFiniteSet(H) /\ IsFiniteSet(T)
  BY UserIdsFinite, FS_Subset
<1>2. IsFiniteSet(A) /\ Cardinality(A) = Cardinality({0}) * Cardinality(H) /\ Cardinality({0}) = 1
  BY <1>1, FS_Singleton, FS_Product
<1>3. IsFiniteSet(B) /\ Cardinality(B) = Cardinality({1}) * Cardinality(T) /\ Cardinality({1}) = 1
  BY <1>1, FS_Singleton, FS_Product
<1>4. U = A \cup B /\ A \cap B = {}
  BY DEF UserIds, Uses
<1>. HIDE DEF A, B, H, T, U
<1>5. Cardinality(A \cup B) = Cardinality(A) + Cardinality(B) - Cardinality(A \cap B)
  BY <1>2, <1>3, FS_Union
<1>6. Cardinality(A) \in Nat /\ Cardinality(B) \in Nat
  BY <1>2, <1>3, FS_CardinalityType
<1>7. Cardinality(A \cap B) = 0
  BY <1>4, FS_EmptySet
<1>8. Cardinality(U) = Cardinality(H) + Cardinality(T)
  <2>1. Cardinality(H) \in Nat /\ Cardinality(T) \in Nat /\ \A n \in Nat : 1 * n = n
    BY <1>1, FS_CardinalityType
  <2>2. Cardinality(A) = Cardinality(H) /\ Cardinality(B) = Cardinality(T)
    BY <1>2, <1>3, <2>1
  <2>. QED  BY <1>4, <1>5, <1>6, <1>7, <2>2
<1>. QED  BY <1>8 DEF Users, UsersOf, H, T, U

\* Handles, working directories and references are right, whatever was
\* unmounted, rolled back or removed (HandlesAndTasksValid): as far as no name
\* is renamed to itself.
THEOREM PosixReferences == ASSUME SameNameRenames = FALSE PROVE Spec => []HandlesAndTasksValid
<1>1. DriverInv => HandlesAndTasksValid
  <2>. SUFFICES ASSUME DriverInv, red.gfPosixInited PROVE HandlesAndTasksValid
    BY DEF HandlesAndTasksValid
  <2>1. Sound(red, {})
    BY DEF DriverInv
  <2>2. ASSUME NEW h \in Handles, InUse(red, h), NEW key, key = red.gaHandle[h].pOpenIno
        PROVE  LET v == red.vol[key[1]]
               IN  v.fMounted /\ Exists(v, key[2]) /\ v.node[key[2]].type = HandleType(red, h)
    BY ONLY <2>1, <2>2 DEF Sound, HandleGood, InUseAs, InUse
  <2>3. ASSUME NEW i \in Slots, NEW key, key = red.gaTask[i].pCwd
        PROVE  /\ key # NULL
               /\ key[2] = ROOT \/ (red.vol[key[1]].fMounted /\ IsDir(red.vol[key[1]], key[2]))
    <3>1. TaskGood(red, i)
      BY <2>1 DEF Sound
    <3>2. key # NULL /\ (key[2] = ROOT \/ InUseAs(red.vol[key[1]], key[2], "DIR"))
      BY <2>3, <3>1 DEF TaskGood
    <3>. QED  BY <3>2 DEF InUseAs, IsDir, Exists
  <2>4. ASSUME NEW key \in Keys
        PROVE  Users(key) = IF IsOpen(red, key) THEN red.gaOpenInos[key].uRefs ELSE 0
    BY <2>1, UsersAre DEF Sound, RefsExact, IsOpen
  <2>5. ASSUME NEW key \in DOMAIN red.gaOpenInos, red.vol[key[1]].fMounted
        PROVE  red.gaOpenInos[key].fOrphan <=> key[2] \in red.vol[key[1]].orphans
    <3>1. key \in Keys /\ red.gaOpenInos[key] \in OpenEntries /\ MarkGood(red, {}, key)
      BY <2>1 DEF Sound, Tables, Table
    <3>2. UsersOf(Uses(red), key) = red.gaOpenInos[key].uRefs /\ red.gaOpenInos[key].uRefs # 0
      BY <2>1, <3>1 DEF Sound, RefsExact, OpenEntries
    <3>3. {u \in UserIds : Uses(red)[u] = key} # {}
      BY <3>2, FS_EmptySet DEF UsersOf
    <3>4. InUseBy(red, {}, key)
      BY <3>3 DEF InUseBy
    <3>. QED  BY <2>5, <3>1, <3>4 DEF MarkGood
  <2>. QED  BY <2>2, <2>3, <2>4, <2>5 DEF HandlesAndTasksValid
<1>. QED  BY <1>1, Always, PTL

\* An open inode is in use, by a handle or by a task.
LEMMA OpenIsUsed ==
  ASSUME NEW s, Sound(s, {}), NEW key \in DOMAIN s.gaOpenInos
  PROVE  key \in Keys /\ (key[2] = ROOT \/ key[2] \notin s.vol[key[1]].defunct)
<1>1. key \in Keys /\ s.gaOpenInos[key] \in OpenEntries
  BY DEF Sound, Tables, Table
<1>2. UsersOf(Uses(s), key) = s.gaOpenInos[key].uRefs /\ s.gaOpenInos[key].uRefs # 0
  BY <1>1 DEF Sound, RefsExact, OpenEntries
<1>3. {u \in UserIds : Uses(s)[u] = key} # {}
  BY <1>2, FS_EmptySet DEF UsersOf
<1>4. PICK u \in UserIds : Uses(s)[u] = key
  BY <1>3
<1>5. key # NULL
  BY <1>1, NullIs
<1>6. CASE \E h \in Handles : u = HandleUser(h)
  <2>1. PICK h \in Handles : s.gaHandle[h].pOpenIno = key
    BY <1>4, <1>6, UsesIs
  <2>. QED  BY <1>1, <1>5, <2>1 DEF Sound, HandleGood, InUseAs
<1>7. CASE \E i \in Slots : u = SlotUser(i)
  <2>1. PICK i \in Slots : s.gaTask[i].pCwd = key
    BY <1>4, <1>7, UsesIs
  <2>2. TaskGood(s, i)
    BY DEF Sound
  <2>. QED  BY <1>1, <1>5, <2>1, <2>2 DEF TaskGood, InUseAs
<1>. QED  BY <1>4, <1>6, <1>7, UsersNamed

\* The path of a directory in use leads back to it, a directory that was
\* removed has none, and no call ends in an error of the driver's own
\* (PathsLeadBack).
THEOREM PosixPaths == Spec => []PathsLeadBack
<1>1. DriverInv => PathsLeadBack
  <2>. SUFFICES ASSUME DriverInv PROVE PathsLeadBack
    OBVIOUS
  <2>1. Sound(red, {}) /\ outcome # "EFUBAR"
    BY DEF DriverInv
  <2>2. ASSUME NEW key \in DOMAIN red.gaOpenInos, NEW v, v = red.vol[key[1]], NEW dir, dir = key[2],
               v.fMounted, IsDir(v, dir), NEW r, r = DirInodeToPath(v, dir), NEW f
        PROVE  IF dir \in v.orphans THEN r.ret = "ENOENT"
               ELSE r.ret = "OK" /\ RedPathLookup(v, ROOT, r.path, f).ino = dir
    <3>1. key \in Keys /\ (dir = ROOT \/ dir \notin v.defunct)
      BY <2>1, <2>2, OpenIsUsed
    <3>2. VolumeGood(v)
      BY <2>1, <2>2, <3>1 DEF Sound, Tables, Keys
    <3>3. ROOT \notin v.orphans \cup v.defunct
      BY <3>2, RootIs DEF Named
    <3>4. CASE dir \in v.orphans
      BY <2>2, <3>2, <3>3, <3>4, RemovedHasNoPath
    <3>5. CASE dir \notin v.orphans
      <4>1. v.fMounted /\ IsDir(v, dir) /\ dir \notin v.orphans \cup v.defunct
        BY <2>2, <3>1, <3>3, <3>5
      <4>2. r = DirInodeToPath(v, dir)
        BY <2>2
      <4>3. r.ret = "OK" /\ RedPathLookup(v, ROOT, r.path, f).ino = dir
        BY ONLY <3>2, <4>1, <4>2, PathLeadsBack
      <4>. QED  BY <3>5, <4>3
    <3>. QED  BY <3>4, <3>5
  <2>3. ASSUME NEW key \in DOMAIN red.gaOpenInos, NEW v, v = red.vol[key[1]],
               v.fMounted, IsDir(v, key[2]), NEW r, r = DirInodeToPath(v, key[2])
        PROVE  IF key[2] \in v.orphans THEN r.ret = "ENOENT"
               ELSE r.ret = "OK" /\ RedPathLookup(v, ROOT, r.path, FALSE).ino = key[2]
    <3>1. PICK f : f = FALSE
      OBVIOUS
    <3>2. IF key[2] \in v.orphans THEN r.ret = "ENOENT"
          ELSE r.ret = "OK" /\ RedPathLookup(v, ROOT, r.path, f).ino = key[2]
      BY <2>2, <2>3
    <3>. QED  BY ONLY <3>1, <3>2
  <2>. QED  BY <2>1, <2>3 DEF PathsLeadBack
<1>. QED  BY <1>1, Always, PTL
=============================================================================
