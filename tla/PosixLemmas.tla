---------------------------- MODULE PosixLemmas ----------------------------
(***************************************************************************)
(* What the calls of Posix are made of, as far as it does not concern one  *)
(* call only.                                                              *)
(*                                                                         *)
(* Volumes: a volume of Posix carries a volume of Dir, and the calls do to *)
(* both the same, so that what DirProofs proves of the one is proved of    *)
(* the other; with the orphans of earlier mounts, the committed state,     *)
(* mounts, rollbacks and walks.                                            *)
(*                                                                         *)
(* Users: handles and working directories that come and go, and what it    *)
(* means that a state of the driver is Sound and that a call answers.      *)
(***************************************************************************)
EXTENDS Posix, DirProofs, SequenceTheorems, TLAPS

-----------------------------------------------------------------------------
(* Volumes, and the volumes of Dir that they carry.                        *)

Contents == [node : [Inodes -> Nodes], orphans : SUBSET Inodes, defunct : SUBSET Inodes]
PosixVolumes ==
  [ node : [Inodes -> Nodes], orphans : SUBSET Inodes, fMounted : BOOLEAN, fReadOnly : BOOLEAN,
    defunct : SUBSET Inodes, mask : Masks \cup {{}, REDCONF_TRANSACT_DEFAULT}, cmt : Contents ]

\* The volume of Dir that a volume with its state c is.
AsDir(c) ==
  [node |-> c.node, orphans |-> c.orphans \cup c.defunct, fMounted |-> TRUE, fReadOnly |-> FALSE]

\* What Dir changes of a volume.
Carries(v, w, p) ==
  /\ w = [v EXCEPT !.node = w.node, !.orphans = w.orphans]
  /\ DOMAIN p = {"node", "orphans", "fMounted", "fReadOnly"}
  /\ p.node = w.node /\ p.orphans = w.orphans \cup v.defunct /\ p.fMounted = TRUE /\ p.fReadOnly = FALSE

Alike(v, r, q) == r.ret = q.ret /\ Carries(v, r.v, q.v)

\* Another table of inodes in both: the one still carries the other.
LEMMA NodeAlike ==
  ASSUME NEW v \in PosixVolumes, NEW w, NEW p, Carries(v, w, p), NEW N
  PROVE  /\ Carries(v, [w EXCEPT !.node = N], [p EXCEPT !.node = N])
         /\ "node" \in DOMAIN w /\ "node" \in DOMAIN p /\ w.node = p.node
BY DEF Carries, PosixVolumes

\* Two nested changes of an inode are one change of the table.
LEMMA TwoFieldsOf ==
  ASSUME NEW x, "node" \in DOMAIN x, NEW d, NEW idx, NEW e, NEW g, NEW D
  PROVE  /\ [x EXCEPT !.node[d].dirents[idx] = e, !.node[d].ullSize = g]
            = [x EXCEPT !.node = [x.node EXCEPT ![d].dirents[idx] = e, ![d].ullSize = g]]
         /\ [x EXCEPT !.node[d].ullSize = g, !.node[d].dirents = D]
            = [x EXCEPT !.node = [x.node EXCEPT ![d].ullSize = g, ![d].dirents = D]]
OBVIOUS

\* A step that fails or not in both.
LEMMA StepAlike ==
  ASSUME NEW v, NEW w, NEW p, Carries(v, w, p), NEW w1, NEW p1, Carries(v, w1, p1), NEW f \in {"OK", "ENOSPC"}
  PROVE  Alike(v, Step(w, f, w1), Step(p, f, p1))
BY DEF Alike, Step, Done, Failed

\* Writing an entry (DirEntryWrite) is the same on both.
LEMMA WriteAlike ==
  ASSUME NEW v \in PosixVolumes, NEW w, NEW p, Carries(v, w, p), NEW d \in Inodes, NEW idx, NEW ino, NEW name,
         NEW f \in {"OK", "ENOSPC"}
  PROVE  Alike(v, DirEntryWrite(w, d, idx, ino, name, f), DirEntryWrite(p, d, idx, ino, name, f))
<1>. DEFINE end == DirEntryIndexToOffset(idx) + DIRENT_SIZE
            e == [name |-> name, ino |-> ino]
            N(x) == [x.node EXCEPT ![d].dirents[idx] = e, ![d].ullSize = IF end > @ THEN end ELSE @]
<1>1. ASSUME NEW x, "node" \in DOMAIN x
      PROVE  DirEntryWrite(x, d, idx, ino, name, f) = Step(x, f, [x EXCEPT !.node = N(x)])
  BY <1>1 DEF DirEntryWrite
<1>2. w.node = p.node /\ "node" \in DOMAIN w /\ "node" \in DOMAIN p
  BY NodeAlike
<1>3. Carries(v, [w EXCEPT !.node = N(w)], [p EXCEPT !.node = N(w)])
  BY NodeAlike
<1>4. N(p) = N(w)
  BY <1>2
<1>. HIDE DEF N
<1>. QED  BY <1>1, <1>2, <1>3, <1>4, StepAlike

\* A lookup reads the inodes alone.
LEMMA LookupAlike ==
  ASSUME NEW v, NEW p, p.node = v.node, NEW d, NEW name
  PROVE  RedDirEntryLookup(v, d, name) = RedDirEntryLookup(p, d, name)
BY DEF RedDirEntryLookup, IsDir, Exists, Count, Used


\* Creating an entry is the same on both.
LEMMA CreateEntryAlike ==
  ASSUME NEW v \in PosixVolumes, NEW w, NEW p, Carries(v, w, p), NEW d \in Inodes, NEW ino, NEW name,
         NEW f \in {"OK", "ENOSPC"}
  PROVE  Alike(v, RedDirEntryCreate(w, d, name, ino, f), RedDirEntryCreate(p, d, name, ino, f))
<1>. DEFINE at == RedDirEntryLookup(p, d, name)
<1>1. RedDirEntryLookup(w, d, name) = at
  BY LookupAlike DEF Carries
<1>2. Alike(v, DirEntryWrite(w, d, at.idx, ino, name, f), DirEntryWrite(p, d, at.idx, ino, name, f))
  BY WriteAlike
<1>. QED  BY ONLY <1>1, <1>2, Carries(v, w, p) DEF RedDirEntryCreate, Alike, Failed

\* Where a directory ends depends on its inodes alone.
LEMMA TruncAlike ==
  ASSUME NEW v, NEW p, p.node = v.node, NEW d, NEW idx
  PROVE  TruncIdx(v, d, idx) = TruncIdx(p, d, idx)
BY DEF TruncIdx, Used

\* Deleting an entry is the same on both.
LEMMA DeleteEntryAlike ==
  ASSUME NEW v \in PosixVolumes, NEW w, NEW p, Carries(v, w, p), NEW d \in Inodes, NEW idx,
         NEW f \in {"OK", "ENOSPC"}
  PROVE  Alike(v, RedDirEntryDelete(w, d, idx, f), RedDirEntryDelete(p, d, idx, f))
<1>1. TruncIdx(w, d, idx) = TruncIdx(p, d, idx) /\ p.node = w.node
  BY TruncAlike DEF Carries
<1>2. Alike(v, DirEntryWrite(w, d, idx, INODE_INVALID, "", f), DirEntryWrite(p, d, idx, INODE_INVALID, "", f))
  BY WriteAlike
<1>. DEFINE k == TruncIdx(p, d, idx)
            cut(x) == Step(x, f, [x EXCEPT !.node[d].ullSize = TruncSize(k),
                            !.node[d].dirents = [i \in DOMAIN @ |-> IF i < k THEN @[i] ELSE Unused]])
            N(x) == [x.node EXCEPT ![d].ullSize = TruncSize(k),
                      ![d].dirents = [i \in DOMAIN @ |-> IF i < k THEN @[i] ELSE Unused]]
<1>3. ASSUME NEW x, "node" \in DOMAIN x
      PROVE  cut(x) = Step(x, f, [x EXCEPT !.node = N(x)])
  BY <1>3
<1>4. "node" \in DOMAIN w /\ "node" \in DOMAIN p
  BY NodeAlike
<1>5. Carries(v, [w EXCEPT !.node = N(w)], [p EXCEPT !.node = N(w)])
  BY NodeAlike
<1>. HIDE DEF k
<1>6. N(p) = N(w)
  BY <1>1
<1>. HIDE DEF N
<1>7. Alike(v, cut(w), cut(p))
  <2>1. cut(w) = Step(w, f, [w EXCEPT !.node = N(w)]) /\ cut(p) = Step(p, f, [p EXCEPT !.node = N(w)])
    BY <1>3, <1>4, <1>6
  <2>. HIDE DEF cut
  <2>. QED  BY <2>1, <1>5, StepAlike
<1>8. ASSUME NEW x, TruncIdx(x, d, idx) = k
      PROVE  RedDirEntryDelete(x, d, idx, f) =
               IF ~IsDir(x, d) THEN Failed("ENOTDIR", x)
               ELSE IF idx >= DIRENTS_MAX THEN Failed("EINVAL", x)
               ELSE IF DirEntryIndexToOffset(idx) >= x.node[d].ullSize THEN Failed("EINVAL", x)
               ELSE IF DirEntryIndexToOffset(idx) + DIRENT_SIZE = x.node[d].ullSize THEN cut(x)
               ELSE DirEntryWrite(x, d, idx, INODE_INVALID, "", f)
  BY ONLY <1>8 DEF RedDirEntryDelete
<1>9. TruncIdx(w, d, idx) = k /\ TruncIdx(p, d, idx) = k /\ (IsDir(w, d) <=> IsDir(p, d))
  BY <1>1 DEF k, IsDir, Exists
<1>. HIDE DEF cut
<1>10. \A err : Alike(v, Failed(err, w), Failed(err, p))
  BY DEF Alike, Failed
<1>11. w.node = p.node
  BY <1>1
<1>. DEFINE Is(x) == RedDirEntryDelete(x, d, idx, f) =
               IF ~IsDir(w, d) THEN Failed("ENOTDIR", x)
               ELSE IF idx >= DIRENTS_MAX THEN Failed("EINVAL", x)
               ELSE IF DirEntryIndexToOffset(idx) >= w.node[d].ullSize THEN Failed("EINVAL", x)
               ELSE IF DirEntryIndexToOffset(idx) + DIRENT_SIZE = w.node[d].ullSize THEN cut(x)
               ELSE DirEntryWrite(x, d, idx, INODE_INVALID, "", f)
<1>12. Is(w)
  BY ONLY <1>8, <1>9
<1>13. Is(p)
  BY ONLY <1>8, <1>9, <1>11
<1>. QED  BY ONLY <1>2, <1>7, <1>10, <1>12, <1>13

\* An inode that is made or freed in both.
LEMMA NewAlike ==
  ASSUME NEW v \in PosixVolumes, NEW w, NEW p, Carries(v, w, p), NEW i \in Inodes, NEW nd
  PROVE  Carries(v, [w EXCEPT !.node[i] = nd], [p EXCEPT !.node[i] = nd])
BY NodeAlike

\* Creating an inode with its name is the same on both.
LEMMA CreateAlike ==
  ASSUME NEW v \in PosixVolumes, NEW p, Carries(v, v, p), NEW d \in Inodes, NEW name, NEW type \in {"DIR", "REG", "LNK"},
         NEW f \in {"OK", "ENOSPC"}
  PROVE  /\ Alike(v, CoreCreate(v, d, name, type, f), CoreCreate(p, d, name, type, f))
         /\ CoreCreate(v, d, name, type, f).ino = CoreCreate(p, d, name, type, f).ino
<1>. DEFINE new == Min(FreeInodes(p))
<1>1. FreeInodes(v) = FreeInodes(p) /\ MountDir(v, d) = MountDir(p, d)
  BY DEF Carries, FreeInodes, MountDir, Exists, IsDir
<1>2. CASE FreeInodes(p) = {} \/ MountDir(p, d) # "OK"
  BY <1>1, <1>2 DEF CoreCreate, Alike
<1>3. CASE FreeInodes(p) # {} /\ MountDir(p, d) = "OK"
  <2>. DEFINE vn == [v EXCEPT !.node[new] = NewNode(type, d)]
              pn == [p EXCEPT !.node[new] = NewNode(type, d)]
              r == RedDirEntryCreate(vn, d, name, new, f)
              q == RedDirEntryCreate(pn, d, name, new, f)
  <2>1. new \in Inodes
    BY <1>3, MinIs, DirAssumption DEF FreeInodes
  <2>2. Carries(v, vn, pn)
    BY <2>1, NewAlike
  <2>4. Alike(v, r, q)
    BY <2>2, CreateEntryAlike
  <2>5. Carries(v, RedInodeFree(r.v, new), RedInodeFree(q.v, new))
    BY <2>1, <2>4, NewAlike DEF RedInodeFree, Alike
  <2>. QED  BY <1>1, <1>3, <2>4, <2>5 DEF CoreCreate, Alike
<1>. QED  BY <1>2, <1>3


\* The ancestors of a directory depend on the inodes alone.
LEMMA AncestorsAlike ==
  ASSUME NEW v, NEW p, p.node = v.node, NEW d
  PROVE  Ancestors(v, d) = Ancestors(p, d)
BY DEF Ancestors

\* Linking is the same on both.
LEMMA LinkAlike ==
  ASSUME NEW v \in PosixVolumes, NEW p, Carries(v, v, p), NEW d, NEW name, NEW i,
         NEW f \in {"OK", "ENOSPC"}
  PROVE  Alike(v, CoreLink(v, d, name, i, f), CoreLink(p, d, name, i, f))
<1>1. MountDir(v, d) = MountDir(p, d) /\ p.node = v.node /\ (IsDir(v, i) <=> IsDir(p, i)) /\ (Exists(v, i) <=> Exists(p, i))
  BY DEF Carries, MountDir, Exists, IsDir
<1>2. CASE MountDir(p, d) = "OK" /\ Exists(v, i)
  <2>1. d \in Inodes /\ i \in Inodes
    BY <1>1, <1>2 DEF MountDir, Exists
  <2>. DEFINE r == RedDirEntryCreate(v, d, name, i, f)
              q == RedDirEntryCreate(p, d, name, i, f)
  <2>2. Alike(v, r, q)
    BY <2>1, CreateEntryAlike
  <2>3. Carries(v, [r.v EXCEPT !.node[i].uNLink = @ + 1], [q.v EXCEPT !.node[i].uNLink = @ + 1])
    BY <2>2, NodeAlike DEF Alike
  <2>. QED  BY <1>1, <1>2, <2>2, <2>3 DEF CoreLink, Alike, Failed, Done
<1>. QED  BY <1>1, <1>2 DEF CoreLink, Alike, Failed

\* A link fewer is the same on both: the inode is freed, or an orphan of both.
LEMMA LinkDecAlike ==
  ASSUME NEW v \in PosixVolumes, NEW w, NEW p, Carries(v, w, p), NEW i, NEW fOrphan
  PROVE  Carries(v, RedInodeLinkDec(w, i, fOrphan), RedInodeLinkDec(p, i, fOrphan))
<1>1. p.node = w.node /\ "node" \in DOMAIN w /\ "node" \in DOMAIN p
  BY NodeAlike
<1>2. \A N : Carries(v, [w EXCEPT !.node = N], [p EXCEPT !.node = N])
  BY NodeAlike
<1>3. ASSUME NEW N
      PROVE  Carries(v, [w EXCEPT !.node = N, !.orphans = @ \cup {i}], [p EXCEPT !.node = N, !.orphans = @ \cup {i}])
  BY DEF Carries, PosixVolumes
<1>. DEFINE N == [w.node EXCEPT ![i].uNLink = 0, ![i].ulPInode = INODE_INVALID]
            marked(x) == [x EXCEPT !.node[i].uNLink = 0, !.node[i].ulPInode = INODE_INVALID, !.orphans = @ \cup {i}]
<1>4. ASSUME NEW x, "node" \in DOMAIN x, x.node = w.node
      PROVE  marked(x) = [x EXCEPT !.node = N, !.orphans = @ \cup {i}]
  BY <1>4
<1>5. Carries(v, marked(w), marked(p))
  <2>1. /\ marked(w) = [w EXCEPT !.node = N, !.orphans = @ \cup {i}]
        /\ marked(p) = [p EXCEPT !.node = N, !.orphans = @ \cup {i}]
    BY <1>1, <1>4
  <2>. HIDE DEF N, marked
  <2>. QED  BY <2>1, <1>3
<1>6. Carries(v, RedInodeFree(w, i), RedInodeFree(p, i))
  BY <1>1, <1>2 DEF RedInodeFree
<1>7. Carries(v, [w EXCEPT !.node[i].uNLink = @ - 1], [p EXCEPT !.node[i].uNLink = @ - 1])
  BY <1>1, <1>2
<1>. HIDE DEF N
<1>. QED  BY ONLY <1>1, <1>5, <1>6, <1>7 DEF RedInodeLinkDec

\* Unlinking is the same on both.
LEMMA UnlinkAlike ==
  ASSUME NEW v \in PosixVolumes, NEW p, Carries(v, v, p), NEW d, NEW name, NEW fOrphan,
         NEW f \in {"OK", "ENOSPC"}
  PROVE  Alike(v, CoreUnlink(v, d, name, fOrphan, f), CoreUnlink(p, d, name, fOrphan, f))
<1>. DEFINE at == RedDirEntryLookup(p, d, name)
<1>1. MountDir(v, d) = MountDir(p, d) /\ p.node = v.node /\ (Unlinkable(v, at.ino) <=> Unlinkable(p, at.ino))
      /\ RedDirEntryLookup(v, d, name) = at
  BY LookupAlike DEF Carries, MountDir, Exists, IsDir, Unlinkable
<1>2. CASE MountDir(p, d) = "OK" /\ at.ret = "OK"
  <2>1. d \in Inodes
    BY <1>1, <1>2 DEF MountDir, Exists
  <2>. DEFINE r == RedDirEntryDelete(v, d, at.idx, f)
              q == RedDirEntryDelete(p, d, at.idx, f)
  <2>2. Alike(v, r, q)
    BY <2>1, DeleteEntryAlike
  <2>3. Carries(v, RedInodeLinkDec(r.v, at.ino, fOrphan), RedInodeLinkDec(q.v, at.ino, fOrphan))
    BY <1>2, <2>2, LinkDecAlike DEF Alike
  <2>. HIDE DEF at
  <2>. DEFINE Is(x, y) == CoreUnlink(x, d, name, fOrphan, f) =
                IF ~Unlinkable(p, at.ino) THEN Failed("ENOTEMPTY", x)
                ELSE IF y.ret = "OK" THEN Done(RedInodeLinkDec(y.v, at.ino, fOrphan)) ELSE y
  <2>4. Is(v, r)
    BY <1>1, <1>2 DEF CoreUnlink
  <2>5. Is(p, q)
    BY <1>2 DEF CoreUnlink, at
  <2>. HIDE DEF r, q
  <2>. QED  BY <2>2, <2>3, <2>4, <2>5 DEF Alike, Failed, Done
<1>. QED  BY <1>1, <1>2 DEF CoreUnlink, Alike, Failed


\* What RenameEntries does after the entry of the new name was written.
MoveAfter(deleted, src, dstP, dst, dstName, undo) ==
  LET ends(undone) ==
        IF undone.ret = "OK" THEN Failed("ENOSPC", undone.v)
        ELSE Failed(undone.ret, Critical(undone.v))
  IN  IF deleted.ret = "OK"
      THEN Done([deleted.v EXCEPT !.node[src.ino].ulPInode = dstP])
      ELSE IF deleted.ret # "ENOSPC" THEN deleted
      ELSE ends(RenameUndo(deleted.v, dstP, dst, dstName, undo))

\* The two entries of a rename, and the undoing of the first, are the same on both.
LEMMA EntriesAlike ==
  ASSUME NEW v \in PosixVolumes, NEW p, Carries(v, v, p), NEW srcP \in Inodes, NEW src, NEW dstP \in Inodes, NEW dst, NEW name,
         NEW f, f.dst \in {"OK", "ENOSPC"}, f.src = f.dst, f.undo = "OK"
  PROVE  Alike(v, RenameEntries(v, srcP, src, dstP, dst, name, f), RenameEntries(p, srcP, src, dstP, dst, name, f))
<1>. DEFINE written(x) == DirEntryWrite(x, dstP, dst.idx, src.ino, name, f.dst)
            deleted(x) == RedDirEntryDelete(written(x).v, srcP, src.idx, f.src)
<1>1. Alike(v, written(v), written(p)) /\ Alike(v, deleted(v), deleted(p))
  BY WriteAlike, DeleteEntryAlike DEF Alike
<1>2. ASSUME NEW x
      PROVE  RenameEntries(x, srcP, src, dstP, dst, name, f) =
               IF written(x).ret = "OK" THEN MoveAfter(deleted(x), src, dstP, dst, name, f.undo) ELSE written(x)
  BY DEF RenameEntries, MoveAfter
<1>3. Carries(v, [deleted(v).v EXCEPT !.node[src.ino].ulPInode = dstP], [deleted(p).v EXCEPT !.node[src.ino].ulPInode = dstP])
  BY <1>1, NodeAlike DEF Alike
<1>4. written(v).ret = "OK" => deleted(v).ret # "ENOSPC"
  BY DEF DirEntryWrite, RedDirEntryDelete, Step, Done, Failed
<1>. HIDE DEF written, deleted
<1>5. written(v).ret = "OK" =>
        Alike(v, MoveAfter(deleted(v), src, dstP, dst, name, f.undo), MoveAfter(deleted(p), src, dstP, dst, name, f.undo))
  BY <1>1, <1>3, <1>4 DEF MoveAfter, Alike, Done, Failed
<1>. QED  BY <1>1, <1>2, <1>5 DEF Alike


\* Renaming in the directories is the same on both, and finds the same inodes.
LEMMA DirRenameAlike ==
  ASSUME NEW v \in PosixVolumes, NEW p, Carries(v, v, p), NEW srcP \in Inodes, NEW srcName, NEW dstP \in Inodes, NEW dstName,
         NEW f, f.dst \in {"OK", "ENOSPC"}, f.src = f.dst, f.undo = "OK"
  PROVE  LET r == RedDirEntryRename(v, srcP, srcName, dstP, dstName, f)
             q == RedDirEntryRename(p, srcP, srcName, dstP, dstName, f)
         IN  Alike(v, r, q) /\ r.src = q.src /\ r.dst = q.dst
<1>. DEFINE src == RedDirEntryLookup(p, srcP, srcName)
            dst == RedDirEntryLookup(p, dstP, dstName)
            rename(x) ==
              IF dstName \in {".", ".."} THEN Failed("EINVAL", x)
              ELSE IF src.ret # "OK" THEN Failed(src.ret, x)
              ELSE IF dst.ret \notin {"OK", "ENOENT"} THEN Failed(dst.ret, x)
              ELSE IF dst.idx = DIR_INDEX_INVALID THEN Failed("ENOSPC", x)
              ELSE IF src.ino = dst.ino THEN Done(x)
              ELSE IF ReplaceCheck(p, src.ino, dst.ino) # "OK" THEN Failed(ReplaceCheck(p, src.ino, dst.ino), x)
              ELSE IF IsDir(p, src.ino) /\ DirCyclicRenameCheck(p, src.ino, dstP) THEN Failed("EINVAL", x)
              ELSE RenameEntries(x, srcP, src, dstP, dst, dstName, f)
            Is(x) == RedDirEntryRename(x, srcP, srcName, dstP, dstName, f) =
                       [ret |-> rename(x).ret, v |-> rename(x).v, src |-> src.ino, dst |-> dst.ino]
<1>1. p.node = v.node /\ \A i : (IsDir(v, i) <=> IsDir(p, i)) /\ (Exists(v, i) <=> Exists(p, i))
  BY DEF Carries, IsDir, Exists
<1>2. RedDirEntryLookup(v, srcP, srcName) = src /\ RedDirEntryLookup(v, dstP, dstName) = dst
  BY <1>1, LookupAlike
<1>3. ReplaceCheck(v, src.ino, dst.ino) = ReplaceCheck(p, src.ino, dst.ino)
  BY <1>1 DEF ReplaceCheck
<1>4. DirCyclicRenameCheck(v, src.ino, dstP) <=> DirCyclicRenameCheck(p, src.ino, dstP)
  BY <1>1, AncestorsAlike DEF DirCyclicRenameCheck
<1>5. Is(p)
  BY DEF RedDirEntryRename
<1>. HIDE DEF src, dst
<1>6. Is(v)
  BY <1>1, <1>2, <1>3, <1>4 DEF RedDirEntryRename
<1>7. Alike(v, RenameEntries(v, srcP, src, dstP, dst, dstName, f), RenameEntries(p, srcP, src, dstP, dst, dstName, f))
  BY EntriesAlike
<1>8. \A err : Alike(v, Failed(err, v), Failed(err, p)) /\ Alike(v, Done(v), Done(p))
  BY DEF Alike, Failed, Done
<1>9. Alike(v, rename(v), rename(p))
  BY ONLY <1>7, <1>8
<1>. HIDE DEF rename
<1>. QED  BY <1>5, <1>6, <1>9 DEF Alike

\* Renaming is the same on both, with the inode that loses its name.
LEMMA RenameAlike ==
  ASSUME NEW v \in PosixVolumes, NEW p, Carries(v, v, p), NEW srcP, NEW srcName, NEW dstP, NEW dstName, NEW fOrphan,
         NEW f, f.dst \in {"OK", "ENOSPC"}, f.src = f.dst, f.undo = "OK"
  PROVE  Alike(v, CoreRename(v, srcP, srcName, dstP, dstName, fOrphan, f), CoreRename(p, srcP, srcName, dstP, dstName, fOrphan, f))
<1>1. \A d : MountDir(v, d) = MountDir(p, d)
  BY DEF Carries, MountDir, Exists, IsDir
<1>2. CASE MountDir(p, srcP) = "OK" /\ MountDir(p, dstP) = "OK"
  <2>. DEFINE r == RedDirEntryRename(v, srcP, srcName, dstP, dstName, f)
              q == RedDirEntryRename(p, srcP, srcName, dstP, dstName, f)
              count(y) == IF y.ret = "OK" /\ y.dst # INODE_INVALID /\ y.dst # y.src
                          THEN Done(RedInodeLinkDec(y.v, y.dst, fOrphan)) ELSE Failed(y.ret, y.v)
  <2>1. srcP \in Inodes /\ dstP \in Inodes
    BY <1>2 DEF MountDir, Exists
  <2>2. Alike(v, r, q) /\ r.src = q.src /\ r.dst = q.dst
    BY <2>1, DirRenameAlike
  <2>3. /\ CoreRename(v, srcP, srcName, dstP, dstName, fOrphan, f) = count(r)
        /\ CoreRename(p, srcP, srcName, dstP, dstName, fOrphan, f) = count(q)
    BY <1>1, <1>2 DEF CoreRename
  <2>4. Carries(v, RedInodeLinkDec(r.v, r.dst, fOrphan), RedInodeLinkDec(q.v, q.dst, fOrphan))
    BY <2>2, LinkDecAlike DEF Alike
  <2>. HIDE DEF r, q
  <2>5. Alike(v, count(r), count(q))
    BY <2>2, <2>4 DEF Alike, Done, Failed
  <2>. QED  BY <2>3, <2>5
<1>. QED  BY <1>1, <1>2 DEF CoreRename, Alike, Failed


-----------------------------------------------------------------------------
(* Types and link counts.                                                  *)

Shaped(v) ==
  /\ "node" \in DOMAIN v /\ "orphans" \in DOMAIN v /\ DOMAIN v.node = Inodes
  /\ \A i \in Inodes : {"type", "uNLink"} \subseteq DOMAIN v.node[i]

TypesKept(v, w) ==
  /\ Shaped(w) /\ w.orphans = v.orphans
  /\ \A i \in Inodes : w.node[i].type = v.node[i].type /\ w.node[i].uNLink = v.node[i].uNLink

Statuses ==
  { "OK", "ENOENT", "ENOTDIR", "EINVAL", "ENAMETOOLONG", "EEXIST", "ENOSPC", "EIO", "EBADF", "ENFILE",
    "EPERM", "EMLINK", "ENOTEMPTY", "EISDIR", "EROFS", "EBUSY", "EMFILE", "EXDEV", "ELOOP", "ENOLINK", "EUSERS" }

\* What a lookup returns.
LEMMA LookupStatus ==
  ASSUME NEW v, NEW d, NEW name
  PROVE  RedDirEntryLookup(v, d, name).ret \in {"OK", "ENOENT", "ENOTDIR", "EINVAL", "ENAMETOOLONG"}
BY DEF RedDirEntryLookup

\* Writing an entry keeps the types and link counts of inodes.
LEMMA WriteKeeps ==
  ASSUME NEW v, Shaped(v), NEW d, NEW idx, NEW ino, NEW name, NEW f \in {"OK", "ENOSPC"}
  PROVE  LET r == DirEntryWrite(v, d, idx, ino, name, f) IN TypesKept(v, r.v) /\ r.ret = f
<1>. DEFINE end == DirEntryIndexToOffset(idx) + DIRENT_SIZE
            N == [v.node EXCEPT ![d].dirents[idx] = [name |-> name, ino |-> ino],
                                ![d].ullSize = IF end > @ THEN end ELSE @]
<1>1. DirEntryWrite(v, d, idx, ino, name, f) = Step(v, f, [v EXCEPT !.node = N])
  BY DEF DirEntryWrite, Shaped
<1>2. TypesKept(v, [v EXCEPT !.node = N])
  BY DEF TypesKept, Shaped
<1>3. TypesKept(v, v)
  BY DEF TypesKept
<1>. HIDE DEF N
<1>. QED  BY <1>1, <1>2, <1>3 DEF Step, Done, Failed

\* Deleting an entry keeps them.
LEMMA DeleteKeeps ==
  ASSUME NEW v, Shaped(v), NEW d, NEW idx, NEW f \in {"OK", "ENOSPC"}
  PROVE  LET r == RedDirEntryDelete(v, d, idx, f) IN TypesKept(v, r.v) /\ r.ret \in {f, "ENOTDIR", "EINVAL"}
<1>. DEFINE k == TruncIdx(v, d, idx)
            N == [v.node EXCEPT ![d].ullSize = TruncSize(k),
                      ![d].dirents = [i \in DOMAIN @ |-> IF i < k THEN @[i] ELSE Unused]]
            cut == Step(v, f, [v EXCEPT !.node[d].ullSize = TruncSize(k),
                            !.node[d].dirents = [i \in DOMAIN @ |-> IF i < k THEN @[i] ELSE Unused]])
            wiped == DirEntryWrite(v, d, idx, INODE_INVALID, "", f)
<1>1. cut = Step(v, f, [v EXCEPT !.node = N])
  BY DEF Shaped
<1>2. TypesKept(v, [v EXCEPT !.node = N])
  BY DEF TypesKept, Shaped
<1>3. TypesKept(v, v)
  BY DEF TypesKept
<1>4. TypesKept(v, wiped.v) /\ wiped.ret = f
  BY WriteKeeps
<1>5. \/ RedDirEntryDelete(v, d, idx, f) \in {Failed("ENOTDIR", v), Failed("EINVAL", v)}
      \/ RedDirEntryDelete(v, d, idx, f) = cut
      \/ RedDirEntryDelete(v, d, idx, f) = wiped
  BY DEF RedDirEntryDelete
<1>. HIDE DEF N, cut, wiped
<1>6. TypesKept(v, cut.v) /\ cut.ret = f
  BY <1>1, <1>2, <1>3 DEF Step, Done, Failed
<1>. QED  BY <1>3, <1>4, <1>5, <1>6 DEF Failed

\* Creating an entry keeps them.
LEMMA EntryKeeps ==
  ASSUME NEW v, Shaped(v), NEW d, NEW name, NEW ino, NEW f \in {"OK", "ENOSPC"}
  PROVE  LET r == RedDirEntryCreate(v, d, name, ino, f)
         IN  TypesKept(v, r.v) /\ r.ret \in Statuses /\ (r.ret = "OK" => IsDir(v, d) /\ name \notin LongNames)
<1>. DEFINE at == RedDirEntryLookup(v, d, name)
            Is(r) == \/ r = Failed("EINVAL", v) \/ r = Failed("EEXIST", v) \/ r = Failed("ENOSPC", v)
                     \/ at.ret # "OK" /\ r = Failed(at.ret, v)
                     \/ at.ret = "ENOENT" /\ r = DirEntryWrite(v, d, at.idx, ino, name, f)
<1>1. TypesKept(v, v)
  BY DEF TypesKept
<1>2. LET r == DirEntryWrite(v, d, at.idx, ino, name, f) IN TypesKept(v, r.v) /\ r.ret = f
  BY WriteKeeps
<1>3. at.ret \in {"OK", "ENOENT", "ENOTDIR", "EINVAL", "ENAMETOOLONG"}
  BY LookupStatus
<1>4. Is(RedDirEntryCreate(v, d, name, ino, f))
  <2>. HIDE DEF at
  <2>. QED  BY <1>3 DEF RedDirEntryCreate, at
<1>5. at.ret = "ENOENT" => IsDir(v, d) /\ name \notin LongNames
  BY DEF RedDirEntryLookup
<1>. HIDE DEF at
<1>. QED  BY <1>1, <1>2, <1>3, <1>4, <1>5 DEF Failed, Statuses

\* Creating an inode keeps the types of those that exist.
LEMMA CreateKeeps ==
  ASSUME NEW v, Shaped(v), NEW d, NEW name, NEW type, NEW f \in {"OK", "ENOSPC"}
  PROVE  LET r == CoreCreate(v, d, name, type, f)
         IN  /\ r.ret \in Statuses /\ "orphans" \in DOMAIN r.v /\ r.v.orphans = v.orphans
             /\ r.ret = "OK" => r.ino \in FreeInodes(v) /\ r.v.node[r.ino].type = type
             /\ \A i \in Inodes : i # r.ino /\ Exists(v, i) => r.v.node[i].type = v.node[i].type
             /\ name \in LongNames => r.ret # "OK"
<1>. DEFINE new == Min(FreeInodes(v))
            w == [v EXCEPT !.node[new] = NewNode(type, d)]
            put == RedDirEntryCreate(w, d, name, new, f)
            Is(r) == \/ r.ret \in {"EBADF", "ENOTDIR", "ENFILE"} /\ r.v = v
                     \/ /\ FreeInodes(v) # {} /\ put.ret = "OK"
                        /\ r.ret = "OK" /\ r.v = put.v /\ r.ino = new
                     \/ /\ FreeInodes(v) # {} /\ put.ret # "OK"
                        /\ r.ret = put.ret /\ r.v = RedInodeFree(put.v, new) /\ r.ino = INODE_INVALID
<1>1. Is(CoreCreate(v, d, name, type, f))
  <2>1. MountDir(v, d) \in {"OK", "EBADF", "ENOTDIR"}
    BY DEF MountDir
  <2>. HIDE DEF w
  <2>. QED  BY <2>1 DEF CoreCreate, w
<1>. SUFFICES ASSUME NEW r, Is(r), r = CoreCreate(v, d, name, type, f)
              PROVE  /\ r.ret \in Statuses /\ "orphans" \in DOMAIN r.v /\ r.v.orphans = v.orphans
                     /\ r.ret = "OK" => r.ino \in FreeInodes(v) /\ r.v.node[r.ino].type = type
                     /\ \A i \in Inodes : i # r.ino /\ Exists(v, i) => r.v.node[i].type = v.node[i].type
                     /\ name \in LongNames => r.ret # "OK"
  BY <1>1
<1>2. CASE r.ret \in {"EBADF", "ENOTDIR", "ENFILE"} /\ r.v = v
  BY <1>2 DEF Statuses, Shaped
<1>3. CASE FreeInodes(v) # {} /\ r.ret = put.ret
  <2>1. new \in FreeInodes(v) /\ new \in Inodes /\ ~Exists(v, new)
    BY <1>3, MinIs, DirAssumption DEF FreeInodes
  <2>2. Shaped(w) /\ w.orphans = v.orphans /\ w.node[new].type = type
        /\ \A i \in Inodes : i # new => w.node[i] = v.node[i]
    BY <2>1 DEF Shaped, NewNode, FREE_INODE
  <2>. HIDE DEF w, new
  <2>3. TypesKept(w, put.v) /\ put.ret \in Statuses /\ (put.ret = "OK" => name \notin LongNames)
    BY <2>2, EntryKeeps
  <2>4. /\ "orphans" \in DOMAIN RedInodeFree(put.v, new) /\ RedInodeFree(put.v, new).orphans = put.v.orphans
        /\ \A i \in Inodes : i # new => RedInodeFree(put.v, new).node[i] = put.v.node[i]
    BY <2>1, <2>3 DEF RedInodeFree, TypesKept, Shaped
  <2>. HIDE DEF put
  <2>5. \A i \in Inodes : Exists(v, i) => i # new /\ put.v.node[i].type = v.node[i].type
    BY <2>1, <2>2, <2>3 DEF TypesKept
  <2>. QED  BY <1>3, <2>1, <2>2, <2>3, <2>4, <2>5 DEF TypesKept, Shaped
<1>. QED  BY <1>2, <1>3

\* Linking keeps the types of inodes, and the orphans.
LEMMA LinkKeeps ==
  ASSUME NEW v, Shaped(v), NEW d, NEW name, NEW x, NEW f \in {"OK", "ENOSPC"}
  PROVE  LET r == CoreLink(v, d, name, x, f)
         IN  /\ r.ret \in Statuses /\ "orphans" \in DOMAIN r.v /\ r.v.orphans = v.orphans
             /\ \A i \in Inodes : r.v.node[i].type = v.node[i].type
             /\ name \in LongNames => r.ret # "OK"
<1>. DEFINE put == RedDirEntryCreate(v, d, name, x, f)
            Is(r) == \/ r.ret \in {"EBADF", "ENOTDIR", "EPERM", "EMLINK"} /\ r.v = v
                     \/ r = put /\ r.ret # "OK"
                     \/ put.ret = "OK" /\ r.ret = "OK" /\ r.v = [put.v EXCEPT !.node[x].uNLink = @ + 1]
<1>1. Is(CoreLink(v, d, name, x, f))
  <2>1. MountDir(v, d) \in {"OK", "EBADF", "ENOTDIR"}
    BY DEF MountDir
  <2>. HIDE DEF put
  <2>. QED  BY <2>1 DEF CoreLink, put, Failed, Done
<1>2. TypesKept(v, put.v) /\ put.ret \in Statuses /\ (put.ret = "OK" => name \notin LongNames)
  BY EntryKeeps
<1>. HIDE DEF put
<1>3. LET w == [put.v EXCEPT !.node[x].uNLink = @ + 1]
      IN  /\ "orphans" \in DOMAIN w /\ w.orphans = v.orphans
          /\ \A i \in Inodes : w.node[i].type = v.node[i].type
  BY <1>2 DEF TypesKept, Shaped
<1>. QED  BY <1>1, <1>2, <1>3 DEF TypesKept, Shaped, Statuses

\* A link fewer changes one inode: it is freed, or an orphan if it is in use.
LEMMA LinkDecKeeps ==
  ASSUME NEW v, Shaped(v), NEW x \in Inodes, NEW fOrphan
  PROVE  LET w == RedInodeLinkDec(v, x, fOrphan)
         IN  /\ "orphans" \in DOMAIN w
             /\ \A i \in Inodes : i # x => /\ w.node[i].type = v.node[i].type
                                           /\ i \in w.orphans <=> i \in v.orphans
             /\ v.node[x].uNLink > 1 => w.node[x].type = v.node[x].type /\ w.orphans = v.orphans
             /\ ~(v.node[x].uNLink > 1) /\ fOrphan => w.node[x].type = v.node[x].type /\ x \in w.orphans
BY DEF RedInodeLinkDec, RedInodeFree, Shaped

\* What w is of v after x lost a name.
NameLost(v, w, x, fOrphan) ==
  /\ "orphans" \in DOMAIN w
  /\ \A i \in Inodes : i # x => /\ w.node[i].type = v.node[i].type
                                /\ i \in w.orphans <=> i \in v.orphans
  /\ v.node[x].uNLink > 1 => w.node[x].type = v.node[x].type /\ w.orphans = v.orphans
  /\ ~(v.node[x].uNLink > 1) /\ fOrphan => w.node[x].type = v.node[x].type /\ x \in w.orphans

\* The same after changes that keep types and link counts.
LEMMA LinkDecLoses ==
  ASSUME NEW v, NEW u, TypesKept(v, u), NEW x \in Inodes, NEW fOrphan
  PROVE  NameLost(v, RedInodeLinkDec(u, x, fOrphan), x, fOrphan)
BY LinkDecKeeps DEF TypesKept, NameLost

\* Unlinking changes the inode that has lost its name.
LEMMA UnlinkKeeps ==
  ASSUME NEW v, Shaped(v), NEW d, NEW name, NEW fOrphan, NEW f \in {"OK", "ENOSPC"},
         RedDirEntryLookup(v, d, name).ret = "OK" => RedDirEntryLookup(v, d, name).ino \in Inodes
  PROVE  LET r == CoreUnlink(v, d, name, fOrphan, f)
             at == RedDirEntryLookup(v, d, name)
         IN  /\ r.ret \in Statuses
             /\ r.ret # "OK" => "orphans" \in DOMAIN r.v /\ r.v.orphans = v.orphans
             /\ r.ret = "OK" => at.ret = "OK" /\ NameLost(v, r.v, at.ino, fOrphan)
<1>. DEFINE at == RedDirEntryLookup(v, d, name)
            cut == RedDirEntryDelete(v, d, at.idx, f)
            Is(r) == \/ r.ret \in Statuses \ {"OK"} /\ r.v = v
                     \/ r = cut /\ r.ret # "OK"
                     \/ at.ret = "OK" /\ r.ret = "OK" /\ r.v = RedInodeLinkDec(cut.v, at.ino, fOrphan)
<1>1. Is(CoreUnlink(v, d, name, fOrphan, f))
  <2>1. MountDir(v, d) \in {"OK", "EBADF", "ENOTDIR"}
    BY DEF MountDir
  <2>2. at.ret \in {"OK", "ENOENT", "ENOTDIR", "EINVAL", "ENAMETOOLONG"}
    BY LookupStatus
  <2>. HIDE DEF at, cut
  <2>. QED  BY <2>1, <2>2 DEF CoreUnlink, at, cut, Failed, Done, Statuses
<1>2. TypesKept(v, cut.v) /\ cut.ret \in Statuses
  BY DeleteKeeps DEF Statuses
<1>3. at.ret = "OK" => NameLost(v, RedInodeLinkDec(cut.v, at.ino, fOrphan), at.ino, fOrphan)
  BY <1>2, LinkDecLoses
<1>. HIDE DEF cut, at
<1>. QED  BY <1>1, <1>2, <1>3 DEF TypesKept, Shaped, Statuses, at

\* The two entries of a rename keep types and link counts.
LEMMA EntriesKeep ==
  ASSUME NEW v, Shaped(v), NEW srcP, NEW src, NEW dstP, NEW dst, NEW name,
         NEW f, f.dst \in {"OK", "ENOSPC"}, f.src = f.dst, f.undo = "OK"
  PROVE  LET r == RenameEntries(v, srcP, src, dstP, dst, name, f)
         IN  TypesKept(v, r.v) /\ r.ret \in Statuses
<1>. DEFINE written == DirEntryWrite(v, dstP, dst.idx, src.ino, name, f.dst)
            deleted == RedDirEntryDelete(written.v, srcP, src.idx, f.src)
<1>1. TypesKept(v, written.v) /\ written.ret = f.dst
  BY WriteKeeps
<1>2. TypesKept(v, deleted.v) /\ deleted.ret \in {f.src, "ENOTDIR", "EINVAL"}
  <2>. HIDE DEF written
  <2>1. Shaped(written.v)
    BY <1>1 DEF TypesKept
  <2>2. TypesKept(written.v, deleted.v) /\ deleted.ret \in {f.src, "ENOTDIR", "EINVAL"}
    BY <2>1, DeleteKeeps
  <2>. HIDE DEF deleted
  <2>. QED  BY <1>1, <2>2 DEF TypesKept
<1>3. RenameEntries(v, srcP, src, dstP, dst, name, f) =
        IF written.ret = "OK" THEN MoveAfter(deleted, src, dstP, dst, name, f.undo) ELSE written
  BY DEF RenameEntries, MoveAfter
<1>4. TypesKept(v, [deleted.v EXCEPT !.node[src.ino].ulPInode = dstP])
  BY <1>2 DEF TypesKept, Shaped
<1>. HIDE DEF written, deleted
<1>5. written.ret = "OK" =>
        LET r == MoveAfter(deleted, src, dstP, dst, name, f.undo) IN TypesKept(v, r.v) /\ r.ret \in Statuses
  BY <1>1, <1>2, <1>4 DEF MoveAfter, Done, Failed, Statuses
<1>. QED  BY <1>1, <1>3, <1>5 DEF Statuses

\* Renaming changes the inode whose name was replaced.
LEMMA RenameKeeps ==
  ASSUME NEW v, Shaped(v), NEW srcP, NEW srcName, NEW dstP, NEW name, NEW fOrphan,
         NEW f, f.dst \in {"OK", "ENOSPC"}, f.src = f.dst, f.undo = "OK",
         NEW src, src = RedDirEntryLookup(v, srcP, srcName), NEW dst, dst = RedDirEntryLookup(v, dstP, name),
         dst.ret = "OK" => dst.ino \in Inodes, INODE_INVALID \notin Inodes
  PROVE  LET r == CoreRename(v, srcP, srcName, dstP, name, fOrphan, f)
         IN  /\ r.ret \in Statuses
             /\ r.ret # "OK" => "orphans" \in DOMAIN r.v /\ r.v.orphans = v.orphans
             /\ r.ret = "OK" => src.ret = "OK" /\ dst.ret \in {"OK", "ENOENT"}
             /\ r.ret = "OK" /\ src.ino = dst.ino => r.v = v
             /\ r.ret = "OK" /\ src.ino # dst.ino /\ dst.ret = "OK" => NameLost(v, r.v, dst.ino, fOrphan)
             /\ r.ret = "OK" /\ dst.ret # "OK" => TypesKept(v, r.v)
<1>. DEFINE moved == RenameEntries(v, srcP, src, dstP, dst, name, f)
            dropped == RedInodeLinkDec(moved.v, dst.ino, fOrphan)
            Is(r) == \/ r.ret \in Statuses \ {"OK"} /\ r.v = v
                     \/ /\ src.ret = "OK" /\ dst.ret \in {"OK", "ENOENT"}
                        /\ \/ src.ino = dst.ino /\ r.ret = "OK" /\ r.v = v
                           \/ moved.ret # "OK" /\ r.ret = moved.ret /\ r.v = moved.v
                           \/ src.ino # dst.ino /\ dst.ino = INODE_INVALID /\ r.ret = "OK" /\ r.v = moved.v
                           \/ src.ino # dst.ino /\ dst.ino # INODE_INVALID /\ r.ret = "OK" /\ r.v = dropped
<1>0. dst.ret = "OK" \/ dst.ino = INODE_INVALID
  BY DEF RedDirEntryLookup
<1>1. TypesKept(v, moved.v) /\ moved.ret \in Statuses
  BY EntriesKeep
<1>2. Is(CoreRename(v, srcP, srcName, dstP, name, fOrphan, f))
  <2>1. \A d : MountDir(v, d) \in {"OK", "EBADF", "ENOTDIR"}
    BY DEF MountDir
  <2>2. /\ src.ret \in {"OK", "ENOENT", "ENOTDIR", "EINVAL", "ENAMETOOLONG"}
        /\ dst.ret \in {"OK", "ENOENT", "ENOTDIR", "EINVAL", "ENAMETOOLONG"}
    BY LookupStatus
  <2>3. ReplaceCheck(v, src.ino, dst.ino) \in {"OK", "EBADF", "ENOTDIR", "EISDIR", "ENOTEMPTY"}
    BY DEF ReplaceCheck
  <2>. HIDE DEF moved, dropped
  <2>. DEFINE y == RedDirEntryRename(v, srcP, srcName, dstP, name, f)
              count(z) == IF z.ret = "OK" /\ z.dst # INODE_INVALID /\ z.dst # z.src
                          THEN Done(RedInodeLinkDec(z.v, z.dst, fOrphan)) ELSE Failed(z.ret, z.v)
  <2>4. \/ CoreRename(v, srcP, srcName, dstP, name, fOrphan, f) = count(y)
        \/ CoreRename(v, srcP, srcName, dstP, name, fOrphan, f) \in {Failed("EBADF", v), Failed("ENOTDIR", v)}
    BY <2>1 DEF CoreRename
  <2>5. /\ y.src = src.ino /\ y.dst = dst.ino
        /\ \/ y.ret \in Statuses \ {"OK"} /\ y.v = v
           \/ /\ src.ret = "OK" /\ dst.ret \in {"OK", "ENOENT"}
              /\ \/ src.ino = dst.ino /\ y.ret = "OK" /\ y.v = v
                 \/ src.ino # dst.ino /\ y.ret = moved.ret /\ y.v = moved.v
    BY <2>2, <2>3 DEF RedDirEntryRename, moved, Failed, Done, Statuses
  <2>. HIDE DEF y
  <2>. QED  BY <2>4, <2>5, <1>1 DEF Failed, Done, dropped, Statuses
<1>3. dst.ret = "OK" => NameLost(v, dropped, dst.ino, fOrphan)
  BY <1>1, LinkDecLoses
<1>. HIDE DEF moved, dropped
<1>. QED  BY <1>0, <1>1, <1>2, <1>3 DEF TypesKept, Shaped, Statuses

-----------------------------------------------------------------------------
(* Consistent volumes, and what calls keep of them.                        *)

ContentGood(c) == c.orphans \cap c.defunct = {} /\ Tidy(AsDir(c))

VolumeGood(v) == v \in PosixVolumes /\ ContentGood(v) /\ ContentGood(v.cmt)

\* The inodes but those of X that are in use or have a name.
Keeps(v, w, X) ==
  /\ VolumeGood(w) /\ w.fMounted = v.fMounted /\ (v.fReadOnly => w.fReadOnly)
  /\ \A i \in Inodes \ X : Exists(v, i) /\ i \notin v.defunct =>
       /\ w.node[i].type = v.node[i].type /\ i \notin w.defunct
       /\ i \in w.orphans <=> i \in v.orphans

Visible(v) == [i \in Inodes |-> IF i \in v.defunct THEN FREE_INODE ELSE v.node[i]]

\* The result r of a call on v.
Result(v, r, X) ==
  /\ Keeps(v, r.v, X) /\ r.ret \in Statuses
  /\ r.ret # "OK" /\ r.v.fReadOnly = v.fReadOnly => Visible(r.v) = Visible(v)

\* A content of a volume is a volume of Dir.
LEMMA AsDirIs ==
  ASSUME NEW c, c.node \in [Inodes -> Nodes], c.orphans \subseteq Inodes, c.defunct \subseteq Inodes
  PROVE  /\ AsDir(c) \in DirVolumes /\ AsDir(c).fReadOnly = FALSE /\ AsDir(c).fMounted = TRUE
         /\ AsDir(c).node = c.node /\ AsDir(c).orphans = c.orphans \cup c.defunct
         /\ \A i : (Exists(AsDir(c), i) <=> Exists(c, i)) /\ (IsDir(AsDir(c), i) <=> IsDir(c, i))
BY DEF AsDir, DirVolumes, Exists, IsDir

\* A volume, with its inodes, is a volume of Dir that carries it.
LEMMA VolumeIs ==
  ASSUME NEW v \in PosixVolumes
  PROVE  /\ AsDir(v) \in DirVolumes /\ AsDir(v).fReadOnly = FALSE
         /\ AsDir(v).node = v.node /\ AsDir(v).orphans = v.orphans \cup v.defunct
         /\ \A i : (Exists(AsDir(v), i) <=> Exists(v, i)) /\ (IsDir(AsDir(v), i) <=> IsDir(v, i))
         /\ Carries(v, v, AsDir(v)) /\ Shaped(v)
<1>1. v.node \in [Inodes -> Nodes] /\ v.orphans \subseteq Inodes /\ v.defunct \subseteq Inodes
  BY DEF PosixVolumes
<1>2. Carries(v, v, AsDir(v))
  BY DEF Carries, AsDir, PosixVolumes
<1>3. Shaped(v)
  BY DEF Shaped, PosixVolumes, Nodes
<1>. QED  BY <1>1, <1>2, <1>3, AsDirIs

\* What carries a volume after a call gives the volume after it.
LEMMA CarriedIs ==
  ASSUME NEW v \in PosixVolumes, NEW w, NEW p, Carries(v, w, p), p \in DirVolumes
  PROVE  /\ w \in PosixVolumes /\ AsDir(w) = p /\ w.fMounted = v.fMounted /\ w.fReadOnly = v.fReadOnly
         /\ w.defunct = v.defunct /\ w.cmt = v.cmt /\ w.mask = v.mask
<1>1. w = [v EXCEPT !.node = w.node, !.orphans = w.orphans]
  BY DEF Carries
<1>2. w.node \in [Inodes -> Nodes] /\ w.orphans \in SUBSET Inodes
  BY DEF Carries, DirVolumes
<1>3. w \in PosixVolumes
  BY <1>1, <1>2 DEF PosixVolumes
<1>4. p = AsDir(w)
  BY <1>1 DEF AsDir, Carries, DirVolumes, PosixVolumes
<1>. QED  BY <1>1, <1>3, <1>4 DEF PosixVolumes

\* What Dir proves of a call on its volume (Good) is true of the call on this one.
LEMMA FromDir ==
  ASSUME NEW v, VolumeGood(v), NEW r, NEW q, Alike(v, r, q), Good(AsDir(v), q), NEW X, r.ret \in Statuses,
         r.ret # "OK" => r.v.orphans = v.orphans,
         r.ret = "OK" => /\ r.v.orphans \cap v.defunct = {}
                         /\ \A i \in Inodes \ X : Exists(v, i) /\ i \notin v.defunct =>
                              r.v.node[i].type = v.node[i].type /\ (i \in r.v.orphans <=> i \in v.orphans)
  PROVE  /\ Result(v, r, X) /\ r.v \in PosixVolumes /\ r.v.defunct = v.defunct
         /\ r.ret # "OK" => r.v.node = v.node /\ r.v.orphans = v.orphans
<1>1. v \in PosixVolumes /\ Carries(v, r.v, q.v) /\ q.v \in DirVolumes /\ r.ret = q.ret
  BY DEF VolumeGood, Alike, Good
<1>2. /\ r.v \in PosixVolumes /\ AsDir(r.v) = q.v /\ r.v.fMounted = v.fMounted /\ r.v.fReadOnly = v.fReadOnly
      /\ r.v.defunct = v.defunct /\ r.v.cmt = v.cmt
  BY <1>1, CarriedIs
<1>3. q.v.fReadOnly = FALSE /\ q.v.node = r.v.node
  BY <1>1 DEF Carries
<1>4. Tidy(q.v) /\ (q.ret = "OK" \/ q.v = AsDir(v))
  BY <1>3 DEF Good
<1>5. r.ret # "OK" => r.v.node = v.node
  BY <1>1, <1>3, <1>4, VolumeIs
<1>6. r.v.orphans \cap v.defunct = {}
  BY DEF VolumeGood, ContentGood
<1>7. VolumeGood(r.v)
  BY <1>2, <1>4, <1>6 DEF VolumeGood, ContentGood
<1>8. Keeps(v, r.v, X)
  BY <1>2, <1>5, <1>7 DEF Keeps
<1>9. r.ret # "OK" => Visible(r.v) = Visible(v)
  BY <1>2, <1>5 DEF Visible
<1>. QED  BY <1>2, <1>5, <1>8, <1>9 DEF Result

Named(v, i) == i \in Inodes /\ Exists(v, i) /\ i \notin v.orphans \cup v.defunct

\* An entry leads to an inode that has a name and is not the root.
LEMMA LeadsIs ==
  ASSUME NEW v, VolumeGood(v), NEW d, NEW k, NEW i \in Inodes, Leads(AsDir(v), d, k, i)
  PROVE  Named(v, i) /\ i # ROOT /\ v.node[i].uNLink >= 1 /\ d \in Inodes /\ IsDir(v, d)
<1>. DEFINE p == AsDir(v)
<1>1. /\ v \in PosixVolumes /\ p \in DirVolumes /\ p.node = v.node /\ p.orphans = v.orphans \cup v.defunct
      /\ Tidy(p) /\ \A j : (Exists(p, j) <=> Exists(v, j)) /\ (IsDir(p, j) <=> IsDir(v, j))
  BY VolumeIs DEF VolumeGood, ContentGood
<1>. HIDE DEF p
<1>2. IsDir(p, d) /\ d \in Inodes /\ k \in 0 .. DIRENTS_MAX - 1 /\ p.node[d].dirents[k].ino = i
  BY DEF Leads, IsDir, Exists, p
<1>3. Used(p, d, k)
  BY <1>2, DirAssumption DEF Used
<1>4. i # ROOT /\ Exists(p, i)
  BY <1>1, <1>2, <1>3 DEF Tidy, TidyOff, NamesLead
<1>5. Cardinality(NamesIn(p, i)) = p.node[i].uNLink
  <2>1. Cardinality(NamesIn(p, i)) = p.node[i].uNLink + Exact[i]
    BY <1>1, <1>4 DEF Tidy, TidyOff, CountsOff
  <2>2. Exact[i] = 0 /\ p.node[i].uNLink \in Nat
    BY <1>1, LinkCountIsNat DEF Exact
  <2>. QED  BY <2>1, <2>2
<1>6. p.node[i].uNLink # 0
  BY <1>5, NoNames DEF p
<1>7. p.node[i].uNLink >= 1
  BY <1>1, <1>6, LinkCountIsNat
<1>8. i \notin p.orphans
  BY <1>1, <1>6 DEF Tidy, TidyOff, Orphaned
<1>. QED  BY <1>1, <1>2, <1>4, <1>7, <1>8 DEF Named

\* A lookup that succeeds has found an entry of the directory.
LEMMA LookupFinds ==
  ASSUME NEW v \in DirVolumes, NEW d, NEW name, IsDir(v, d) => Sized(v, d),
         NEW at, at = RedDirEntryLookup(v, d, name), at.ret = "OK"
  PROVE  /\ IsDir(v, d) /\ at.idx \in 0 .. DIRENTS_MAX - 1
         /\ v.node[d].dirents[at.idx] = [name |-> name, ino |-> at.ino]
         /\ at.ino \in Inodes
BY LookupIs

\* A lookup that succeeds has found an inode with a name.
LEMMA FoundIs ==
  ASSUME NEW v, VolumeGood(v), NEW d, NEW name, NEW at, at = RedDirEntryLookup(v, d, name), at.ret = "OK"
  PROVE  /\ Named(v, at.ino) /\ at.ino # ROOT /\ v.node[at.ino].uNLink >= 1 /\ d \in Inodes /\ IsDir(v, d)
         /\ Leads(AsDir(v), d, at.idx, at.ino) /\ v.node[d].dirents[at.idx].name = name
<1>. DEFINE p == AsDir(v)
<1>1. /\ v \in PosixVolumes /\ p \in DirVolumes /\ p.node = v.node
      /\ Tidy(p) /\ \A j : (Exists(p, j) <=> Exists(v, j)) /\ (IsDir(p, j) <=> IsDir(v, j))
  BY VolumeIs DEF VolumeGood, ContentGood
<1>2. at = RedDirEntryLookup(p, d, name)
  BY <1>1, LookupAlike
<1>. HIDE DEF p
<1>3. IsDir(p, d) => Sized(p, d)
  BY <1>1 DEF Tidy, TidyOff, Shape, IsDir, Exists
<1>4. /\ IsDir(p, d) /\ at.idx \in 0 .. DIRENTS_MAX - 1 /\ p.node[d].dirents[at.idx] = [name |-> name, ino |-> at.ino]
      /\ at.ino \in Inodes
  BY ONLY <1>1, <1>2, <1>3, at.ret = "OK", LookupFinds
<1>5. Leads(p, d, at.idx, at.ino)
  BY <1>4 DEF Leads
<1>. QED  BY <1>1, <1>4, <1>5, LeadsIs DEF p

\* Two lookups that find the same inode with one name are of the same entry.
LEMMA OneName ==
  ASSUME NEW v, VolumeGood(v), NEW d, NEW name, NEW c, NEW other,
         NEW at, at = RedDirEntryLookup(v, d, name), at.ret = "OK",
         NEW to, to = RedDirEntryLookup(v, c, other), to.ret = "OK",
         at.ino = to.ino, v.node[to.ino].uNLink = 1
  PROVE  d = c /\ name = other
<1>. DEFINE p == AsDir(v)
            S == NamesIn(p, to.ino)
<1>1. /\ Leads(p, d, at.idx, to.ino) /\ v.node[d].dirents[at.idx].name = name
      /\ Leads(p, c, to.idx, to.ino) /\ v.node[c].dirents[to.idx].name = other
      /\ Named(v, to.ino) /\ to.ino # ROOT
  BY FoundIs
<1>2. p \in DirVolumes /\ p.node = v.node /\ Tidy(p) /\ Exists(p, to.ino)
  BY <1>1, VolumeIs DEF VolumeGood, ContentGood, Named
<1>. HIDE DEF p
<1>3. Cardinality(S) = 1
  <2>1. Cardinality(S) = p.node[to.ino].uNLink + Exact[to.ino]
    BY <1>1, <1>2 DEF Tidy, TidyOff, CountsOff, Named
  <2>. QED  BY <2>1, <1>1, <1>2 DEF Exact, Named
<1>4. <<d, at.idx>> \in S /\ <<c, to.idx>> \in S /\ IsFiniteSet(S)
  BY <1>1, NamesInIs
<1>. HIDE DEF S
<1>5. PICK e : S = {e}
  BY <1>3, <1>4, FS_Singleton
<1>6. d = c /\ at.idx = to.idx
  BY <1>4, <1>5
<1>. QED  BY <1>1, <1>6

\* A volume keeps what it has if nothing changes.
LEMMA SameKeeps ==
  ASSUME NEW v, VolumeGood(v), NEW X
  PROVE  Keeps(v, v, X)
<1>1. \A i \in Inodes \ X : i \notin v.defunct \/ ~(i \notin v.defunct)
  OBVIOUS
<1>. QED  BY DEF Keeps

\* A call that changes nothing gives a good result, whatever it returns.
LEMMA FailedResult ==
  ASSUME NEW v, VolumeGood(v), NEW r, r.v = v, r.ret \in Statuses, NEW X
  PROVE  Result(v, r, X)
BY SameKeeps DEF Result

\* An automatic transaction point changes the committed state alone.
LEMMA AutoTransactedIs ==
  ASSUME NEW v, NEW r, NEW X, Result(v, r, X), {"ret", "v"} \subseteq DOMAIN r, NEW event
  PROVE  LET t == AutoTransacted(r, event)
         IN  /\ Result(v, t, X) /\ t.ret = r.ret /\ t.v.node = r.v.node /\ t.v.orphans = r.v.orphans
             /\ t.v.defunct = r.v.defunct /\ t.v.fMounted = r.v.fMounted /\ t.v.fReadOnly = r.v.fReadOnly
             /\ "ino" \in DOMAIN r => t.ino = r.ino
             /\ DOMAIN t = DOMAIN r /\ (r.ret # "OK" => t = r)
<1>. DEFINE w == [r.v EXCEPT !.cmt = Content(r.v)]
            t == AutoTransacted(r, event)
<1>1. t = r \/ (r.ret = "OK" /\ t = [r EXCEPT !.v = w])
  BY DEF AutoTransacted
<1>2. r.v \in PosixVolumes /\ ContentGood(r.v)
  BY DEF Result, Keeps, VolumeGood
<1>3. /\ w \in PosixVolumes /\ w.cmt = Content(r.v) /\ w.node = r.v.node /\ w.orphans = r.v.orphans
      /\ w.defunct = r.v.defunct /\ w.fMounted = r.v.fMounted /\ w.fReadOnly = r.v.fReadOnly
  BY <1>2 DEF PosixVolumes, Content, Contents
<1>4. ContentGood(w) /\ ContentGood(w.cmt)
  <2>. HIDE DEF w
  <2>1. AsDir(w) = AsDir(r.v) /\ AsDir(w.cmt) = AsDir(r.v)
    BY <1>3 DEF AsDir, Content
  <2>. QED  BY <1>2, <1>3, <2>1 DEF ContentGood, Content
<1>5. Keeps(v, w, X)
  BY <1>3, <1>4 DEF Result, Keeps, VolumeGood
<1>6. t = r => Result(v, t, X)
  OBVIOUS
<1>. HIDE DEF t, w
<1>7. t = [r EXCEPT !.v = w] /\ r.ret = "OK" => Result(v, t, X)
  BY <1>5 DEF Result
<1>. QED  BY <1>1, <1>3, <1>6, <1>7 DEF t

\* A call that may fail in its first block only.
LEMMA CoreFaultIs ==
  ASSUME NEW v, NEW d, NEW name, NEW f \in {"OK", "ENOSPC"}
  PROVE  /\ \A type : RedCoreCreate(v, d, name, type, CoreFault(f)) =
              IF Writeable(v) THEN CoreCreate(v, d, name, type, f)
              ELSE [ret |-> NotWriteable(v).ret, v |-> v, ino |-> INODE_INVALID]
         /\ \A x : RedCoreLink(v, d, name, x, CoreFault(f)) =
              IF Writeable(v) THEN CoreLink(v, d, name, x, f) ELSE NotWriteable(v)
         /\ \A fOrphan : RedCoreUnlink(v, d, name, fOrphan, CoreFault(f)) =
              IF Writeable(v) THEN CoreUnlink(v, d, name, fOrphan, f) ELSE NotWriteable(v)
         /\ \A dstP, to, fOrphan : RedCoreRename(v, d, name, dstP, to, fOrphan, CoreFault(f)) =
              IF Writeable(v)
              THEN CoreRename(v, d, name, dstP, to, fOrphan, [dst |-> f, src |-> f, undo |-> "OK"])
              ELSE NotWriteable(v)
BY DEF RedCoreCreate, RedCoreLink, RedCoreUnlink, RedCoreRename, Retried, Transacted, CoreFault

\* Refusing to write is a good result.
LEMMA NotWriteableIs ==
  ASSUME NEW v, VolumeGood(v), NEW X
  PROVE  Result(v, NotWriteable(v), X) /\ NotWriteable(v).ret # "OK"
<1>1. NotWriteable(v).v = v /\ NotWriteable(v).ret \in Statuses /\ NotWriteable(v).ret # "OK"
  BY DEF NotWriteable, Failed, Statuses
<1>. QED  BY <1>1, FailedResult

-----------------------------------------------------------------------------
(* Orphans of earlier mounts.                                              *)

\* Freeing some of the defunct orphans.
LEMMA FreeIs ==
  ASSUME NEW v \in PosixVolumes, NEW S, S \subseteq v.defunct
  PROVE  LET w == RedVolFreeOrphans(v, S)
         IN  /\ w \in PosixVolumes /\ w.defunct = v.defunct \ S /\ w.orphans = v.orphans /\ w.cmt = v.cmt
             /\ w.node = [i \in Inodes |-> IF i \in S THEN FREE_INODE ELSE v.node[i]]
             /\ w.fMounted = v.fMounted /\ w.fReadOnly = v.fReadOnly /\ w.mask = v.mask
<1>1. FREE_INODE \in Nodes
  BY NodeTypes
<1>. DEFINE N == [i \in Inodes |-> IF i \in S THEN FREE_INODE ELSE v.node[i]]
<1>2. RedVolFreeOrphans(v, S) = [v EXCEPT !.node = N, !.defunct = v.defunct \ S]
  BY DEF RedVolFreeOrphans, PosixVolumes
<1>3. N \in [Inodes -> Nodes]
  BY <1>1 DEF PosixVolumes
<1>. HIDE DEF N
<1>4. LET w == [v EXCEPT !.node = N, !.defunct = v.defunct \ S]
      IN  /\ w \in PosixVolumes /\ w.defunct = v.defunct \ S /\ w.orphans = v.orphans /\ w.cmt = v.cmt
          /\ w.node = N /\ w.fMounted = v.fMounted /\ w.fReadOnly = v.fReadOnly /\ w.mask = v.mask
  BY <1>3 DEF PosixVolumes
<1>. QED  BY <1>2, <1>4 DEF N

\* Freeing one defunct orphan keeps a volume good.
LEMMA FreeOneGood ==
  ASSUME NEW v, VolumeGood(v), NEW x \in v.defunct
  PROVE  VolumeGood(RedVolFreeOrphans(v, {x}))
<1>. DEFINE w == RedVolFreeOrphans(v, {x})
            u == FreeOrphan(AsDir(v), x)
<1>1. v \in PosixVolumes /\ x \in Inodes /\ x \notin v.orphans /\ {x} \subseteq v.defunct
  BY DEF VolumeGood, ContentGood, PosixVolumes
<1>2. /\ w \in PosixVolumes /\ w.defunct = v.defunct \ {x} /\ w.orphans = v.orphans /\ w.cmt = v.cmt
      /\ w.node = [i \in Inodes |-> IF i \in {x} THEN FREE_INODE ELSE v.node[i]]
  BY <1>1, FreeIs
<1>. HIDE DEF w
<1>3. AsDir(v) \in DirVolumes /\ Tidy(AsDir(v)) /\ x \in AsDir(v).orphans
  BY <1>1, VolumeIs DEF VolumeGood, ContentGood
<1>4. Tidy(u)
  BY <1>3, FreeOrphanTidy
<1>5. AsDir(w) = u
  <2>1. [v.node EXCEPT ![x] = FREE_INODE] = w.node
    BY <1>1, <1>2 DEF PosixVolumes
  <2>2. (v.orphans \cup v.defunct) \ {x} = w.orphans \cup w.defunct
    BY <1>1, <1>2
  <2>3. u \in DirVolumes
    BY <1>3, FreeOrphanTidy
  <2>4. /\ u.node = w.node /\ u.orphans = w.orphans \cup w.defunct
        /\ u.fMounted = TRUE /\ u.fReadOnly = FALSE
    BY <1>3, <2>1, <2>2 DEF FreeOrphan, RedInodeFree, DirVolumes, AsDir
  <2>. HIDE DEF u
  <2>. QED  BY ONLY <2>3, <2>4 DEF DirVolumes, AsDir
<1>. HIDE DEF u
<1>6. w.orphans \cap w.defunct = {}
  BY <1>2 DEF VolumeGood, ContentGood
<1>. QED  BY <1>2, <1>4, <1>5, <1>6 DEF VolumeGood, ContentGood, w

\* The content of a volume replaced, and replaced again.
LEMMA ReplacedTwice ==
  ASSUME NEW v, NEW K, NEW L, NEW N, NEW M, NEW u, u = [v EXCEPT !.node = K, !.defunct = L]
  PROVE  [u EXCEPT !.node = N, !.defunct = M] = [v EXCEPT !.node = N, !.defunct = M]
OBVIOUS

\* Freeing any of them does.
LEMMA FreeSetGood ==
  ASSUME NEW v, VolumeGood(v), NEW S, S \subseteq v.defunct
  PROVE  VolumeGood(RedVolFreeOrphans(v, S))
<1>1. v \in PosixVolumes /\ v.defunct \subseteq Inodes /\ IsFiniteSet(Inodes)
  BY DirAssumption DEF VolumeGood, PosixVolumes
<1>2. \A T \in SUBSET v.defunct : IsFiniteSet(T) /\ Cardinality(T) \in Nat
  BY <1>1, FS_Subset, FS_CardinalityType
<1>. DEFINE Bad == {n \in Nat : \E T \in SUBSET v.defunct : Cardinality(T) = n /\ ~VolumeGood(RedVolFreeOrphans(v, T))}
<1>3. CASE Bad = {}
  BY <1>2, <1>3
<1>4. CASE Bad # {}
  <2>1. PICK n \in Bad : \A k \in Bad : n <= k
    BY <1>4, LeastMember
  <2>. HIDE DEF Bad
  <2>2. PICK T \in SUBSET v.defunct : Cardinality(T) = n /\ ~VolumeGood(RedVolFreeOrphans(v, T))
    BY <2>1 DEF Bad
  <2>3. T # {}
    <3>1. ASSUME T = {} PROVE FALSE
      <4>1. RedVolFreeOrphans(v, T) = v
        <5>1. v.node = [i \in Inodes |-> v.node[i]]
          BY <1>1 DEF PosixVolumes
        <5>. QED  BY <1>1, <3>1, <5>1 DEF RedVolFreeOrphans, PosixVolumes
      <4>. QED  BY <2>2, <4>1
    <3>. QED  BY <3>1
  <2>4. PICK x : x \in T
    BY <2>3
  <2>. DEFINE R == T \ {x}
              u == RedVolFreeOrphans(v, R)
  <2>5. Cardinality(R) = n - 1 /\ R \in SUBSET v.defunct /\ n \in Nat
    BY <1>2, <2>2, <2>4, FS_RemoveElement
  <2>6. Cardinality(R) \in Nat /\ Cardinality(R) \notin Bad
    <3>1. Cardinality(R) \in Nat
      BY <1>2, <2>5
    <3>2. ~(n <= Cardinality(R))
      BY <2>5, <3>1
    <3>. QED  BY <2>1, <3>1, <3>2
  <2>7. VolumeGood(u)
    BY <2>5, <2>6 DEF Bad
  <2>8. /\ u \in PosixVolumes /\ u.defunct = v.defunct \ R
        /\ u = [v EXCEPT !.node = [i \in Inodes |-> IF i \in R THEN FREE_INODE ELSE v.node[i]], !.defunct = v.defunct \ R]
    <3>1. u \in PosixVolumes /\ u.defunct = v.defunct \ R
      BY <1>1, <2>5, FreeIs
    <3>. QED  BY <1>1, <3>1 DEF RedVolFreeOrphans, PosixVolumes
  <2>9. x \in u.defunct
    BY <2>2, <2>4, <2>8
  <2>10. RedVolFreeOrphans(u, {x}) = RedVolFreeOrphans(v, T)
    <3>1. \A i \in Inodes : (i \in T) <=> (i \in R \/ i \in {x})
      BY <2>4
    <3>2. (v.defunct \ R) \ {x} = v.defunct \ T
      BY <2>4
    <3>3. RedVolFreeOrphans(u, {x}) = [u EXCEPT !.node = [i \in Inodes |-> IF i \in {x} THEN FREE_INODE ELSE u.node[i]],
                                                !.defunct = u.defunct \ {x}]
      BY <2>8 DEF RedVolFreeOrphans, PosixVolumes
    <3>4. RedVolFreeOrphans(v, T) = [v EXCEPT !.node = [i \in Inodes |-> IF i \in T THEN FREE_INODE ELSE v.node[i]],
                                                !.defunct = v.defunct \ T]
      BY <1>1 DEF RedVolFreeOrphans, PosixVolumes
    <3>. HIDE DEF R, u
    <3>5. u.node = [i \in Inodes |-> IF i \in R THEN FREE_INODE ELSE v.node[i]] /\ u.defunct = v.defunct \ R
      BY <1>1, <2>8 DEF PosixVolumes
    <3>6. [i \in Inodes |-> IF i \in {x} THEN FREE_INODE ELSE u.node[i]]
            = [i \in Inodes |-> IF i \in T THEN FREE_INODE ELSE v.node[i]]
      BY <3>1, <3>5
    <3>7. PICK N, M, K, L : /\ N = [i \in Inodes |-> IF i \in T THEN FREE_INODE ELSE v.node[i]] /\ M = v.defunct \ T
                           /\ K = [i \in Inodes |-> IF i \in R THEN FREE_INODE ELSE v.node[i]] /\ L = v.defunct \ R
      OBVIOUS
    <3>8. u.defunct \ {x} = M
      BY ONLY <3>2, <3>5, <3>7
    <3>9. RedVolFreeOrphans(u, {x}) = [u EXCEPT !.node = N, !.defunct = M]
      BY ONLY <3>3, <3>6, <3>7, <3>8
    <3>10. u = [v EXCEPT !.node = K, !.defunct = L]
      BY ONLY <2>8, <3>7
    <3>11. [u EXCEPT !.node = N, !.defunct = M] = [v EXCEPT !.node = N, !.defunct = M]
      BY ONLY <3>10, ReplacedTwice
    <3>. QED  BY ONLY <3>4, <3>7, <3>9, <3>11
  <2>11. VolumeGood(RedVolFreeOrphans(u, {x}))
    BY <2>7, <2>9, FreeOneGood
  <2>. QED  BY <2>2, <2>10, <2>11
<1>. QED  BY <1>3, <1>4

\* Freeing defunct orphans changes nothing that a caller sees.
LEMMA FreeKeeps ==
  ASSUME NEW v, VolumeGood(v), NEW S, S \subseteq v.defunct
  PROVE  LET w == RedVolFreeOrphans(v, S)
         IN  Keeps(v, w, {}) /\ Visible(w) = Visible(v) /\ w.fReadOnly = v.fReadOnly
<1>. DEFINE w == RedVolFreeOrphans(v, S)
<1>1. v \in PosixVolumes
  BY DEF VolumeGood
<1>2. /\ w.defunct = v.defunct \ S /\ w.orphans = v.orphans
      /\ w.node = [i \in Inodes |-> IF i \in S THEN FREE_INODE ELSE v.node[i]]
      /\ w.fMounted = v.fMounted /\ w.fReadOnly = v.fReadOnly
  BY <1>1, FreeIs
<1>3. VolumeGood(w)
  BY FreeSetGood
<1>. HIDE DEF w
<1>4. Visible(w) = Visible(v)
  BY <1>2 DEF Visible
<1>. QED  BY <1>2, <1>3, <1>4 DEF Keeps, w

-----------------------------------------------------------------------------
(* Results of the calls that change names.                                 *)

\* A good result after a change that nobody sees.
LEMMA ResultAfter ==
  ASSUME NEW v, NEW w, NEW X, Keeps(v, w, X), Visible(w) = Visible(v), w.fReadOnly = v.fReadOnly,
         NEW r, Result(w, r, X)
  PROVE  Result(v, r, X)
<1>1. \A i \in Inodes \ X : Exists(v, i) /\ i \notin v.defunct => Exists(w, i) /\ i \notin w.defunct
  BY DEF Keeps, Exists
<1>2. Keeps(v, r.v, X)
  BY <1>1 DEF Keeps, Result
<1>. QED  BY <1>2 DEF Result

\* An inode with a name keeps it, and its type, unless it is among those that may lose it.
LEMMA NamedStays ==
  ASSUME NEW v, NEW w, NEW X, Keeps(v, w, X), NEW p, Named(v, p), p \notin X
  PROVE  Named(w, p) /\ w.node[p].type = v.node[p].type
BY DEF Keeps, Named, Exists

\* An inode with a name is no orphan.
LEMMA NamedIs ==
  ASSUME NEW v, VolumeGood(v), NEW p, Named(v, p)
  PROVE  p \in Inodes /\ p \notin AsDir(v).orphans
BY VolumeIs DEF Named, VolumeGood

\* A free inode is no orphan.
LEMMA FreshIs ==
  ASSUME NEW v, VolumeGood(v), NEW i \in FreeInodes(v)
  PROVE  i \in Inodes /\ v.node[i] = FREE_INODE /\ i \notin v.orphans \cup v.defunct
<1>1. i \in Inodes /\ v.node[i].type = "FREE"
  BY DEF FreeInodes, Exists
<1>2. Tidy(AsDir(v)) /\ AsDir(v).node = v.node /\ AsDir(v).orphans = v.orphans \cup v.defunct
  BY VolumeIs DEF VolumeGood, ContentGood
<1>3. v.node[i] = FREE_INODE
  BY <1>1, <1>2 DEF Tidy, TidyOff, Shape
<1>4. i \notin AsDir(v).orphans
  BY <1>1, <1>2 DEF Tidy, TidyOff, Orphaned, Exists
<1>. QED  BY <1>1, <1>2, <1>3, <1>4

\* Creating a name that is too long changes nothing.
LEMMA CreateLong ==
  ASSUME NEW v, VolumeGood(v), NEW d, NEW name \in LongNames, NEW type, NEW f \in {"OK", "ENOSPC"}
  PROVE  CoreCreate(v, d, name, type, f).v = v
<1>. DEFINE new == Min(FreeInodes(v))
            w == [v EXCEPT !.node[new] = NewNode(type, d)]
            put == RedDirEntryCreate(w, d, name, new, f)
<1>1. put.v = w /\ put.ret # "OK"
  <2>1. RedDirEntryLookup(w, d, name).ret \in {"ENOTDIR", "EINVAL", "ENAMETOOLONG"}
    BY DEF RedDirEntryLookup
  <2>. HIDE DEF w, new
  <2>. QED  BY <2>1 DEF RedDirEntryCreate, Failed
<1>2. CASE FreeInodes(v) # {}
  <2>1. new \in FreeInodes(v)
    BY <1>2, MinIs, DirAssumption DEF FreeInodes
  <2>2. new \in Inodes /\ v.node[new] = FREE_INODE /\ v \in PosixVolumes
    BY <2>1, FreshIs DEF VolumeGood
  <2>3. [w EXCEPT !.node[new] = FREE_INODE] = v
    <3>. HIDE DEF new
    <3>1. [[v.node EXCEPT ![new] = NewNode(type, d)] EXCEPT ![new] = FREE_INODE] = v.node
      BY <2>2 DEF PosixVolumes
    <3>2. [w EXCEPT !.node[new] = FREE_INODE] = [v EXCEPT !.node = v.node]
      BY <2>2, <3>1 DEF PosixVolumes
    <3>. QED  BY <2>2, <3>2 DEF PosixVolumes
  <2>4. RedInodeFree(put.v, new) = v
    BY <1>1, <2>3 DEF RedInodeFree
  <2>5. CoreCreate(v, d, name, type, f).v \in {v, RedInodeFree(put.v, new)}
    <3>. HIDE DEF w
    <3>. QED  BY <1>1 DEF CoreCreate, w
  <2>. QED  BY <2>4, <2>5
<1>3. CASE FreeInodes(v) = {}
  BY <1>3 DEF CoreCreate
<1>. QED  BY <1>2, <1>3

\* Creating gives a good result: an inode with a name and the type asked for.
LEMMA CreateResult ==
  ASSUME NEW v, VolumeGood(v), NEW p, Named(v, p), NEW name \in Names \cup LongNames,
         NEW type \in {"DIR", "REG", "LNK"}, NEW f \in {"OK", "ENOSPC"}
  PROVE  LET r == CoreCreate(v, p, name, type, f)
         IN  /\ Result(v, r, {}) /\ DOMAIN r = {"ret", "v", "ino"}
             /\ r.ret = "OK" => Named(r.v, r.ino) /\ r.v.node[r.ino].type = type
<1>. DEFINE r == CoreCreate(v, p, name, type, f)
            q == CoreCreate(AsDir(v), p, name, type, f)
<1>0. DOMAIN r = {"ret", "v", "ino"}
  BY DEF CoreCreate
<1>1. v \in PosixVolumes /\ Carries(v, v, AsDir(v)) /\ Shaped(v) /\ AsDir(v) \in DirVolumes /\ Tidy(AsDir(v))
      /\ p \in Inodes /\ p \notin AsDir(v).orphans
  BY VolumeIs, NamedIs DEF VolumeGood, ContentGood
<1>2. /\ r.ret \in Statuses /\ r.v.orphans = v.orphans
      /\ r.ret = "OK" => r.ino \in FreeInodes(v) /\ r.v.node[r.ino].type = type
      /\ \A i \in Inodes : i # r.ino /\ Exists(v, i) => r.v.node[i].type = v.node[i].type
      /\ name \in LongNames => r.ret # "OK"
  BY <1>1, CreateKeeps
<1>3. CASE name \in LongNames
  BY <1>0, <1>2, <1>3, CreateLong, FailedResult
<1>4. CASE name \in Names
  <2>1. Alike(v, r, q)
    BY <1>1, CreateAlike
  <2>2. Good(AsDir(v), q)
    BY <1>1, <1>4, CreateGood DEF Outcomes
  <2>. HIDE DEF r, q
  <2>3. v.orphans \cap v.defunct = {}
    BY DEF VolumeGood, ContentGood
  <2>4. r.ret = "OK" => \A i \in Inodes : Exists(v, i) => i # r.ino
    BY <1>2 DEF FreeInodes
  <2>5. Result(v, r, {}) /\ r.v.defunct = v.defunct
    BY <1>2, <2>1, <2>2, <2>3, <2>4, FromDir
  <2>6. r.ret = "OK" => Named(r.v, r.ino)
    <3>. SUFFICES ASSUME r.ret = "OK" PROVE Named(r.v, r.ino)
      OBVIOUS
    <3>1. r.ino \in Inodes /\ r.ino \notin v.orphans \cup v.defunct
      BY <1>2, FreshIs
    <3>. QED  BY <1>2, <2>5, <3>1 DEF Named, Exists
  <2>. QED  BY <1>0, <1>2, <2>5, <2>6 DEF r
<1>. QED  BY <1>3, <1>4

\* Linking gives a good result.
LEMMA LinkResult ==
  ASSUME NEW v, VolumeGood(v), NEW p, Named(v, p), NEW name \in Names \cup LongNames, NEW x, Named(v, x),
         NEW f \in {"OK", "ENOSPC"}
  PROVE  LET r == CoreLink(v, p, name, x, f) IN Result(v, r, {}) /\ {"ret", "v"} \subseteq DOMAIN r
<1>. DEFINE r == CoreLink(v, p, name, x, f)
            q == CoreLink(AsDir(v), p, name, x, f)
            put == RedDirEntryCreate(v, p, name, x, f)
<1>0. {"ret", "v"} \subseteq DOMAIN r
  <2>1. DOMAIN put = {"ret", "v"}
    BY DEF RedDirEntryCreate, DirEntryWrite, Step, Failed, Done
  <2>. HIDE DEF put
  <2>. QED  BY <2>1 DEF CoreLink, Failed, Done, put
<1>1. v \in PosixVolumes /\ Carries(v, v, AsDir(v)) /\ Shaped(v) /\ AsDir(v) \in DirVolumes /\ Tidy(AsDir(v))
      /\ p \in Inodes /\ p \notin AsDir(v).orphans /\ x \in Inodes /\ x \notin AsDir(v).orphans
  BY VolumeIs, NamedIs DEF VolumeGood, ContentGood
<1>2. /\ r.ret \in Statuses /\ r.v.orphans = v.orphans /\ \A i \in Inodes : r.v.node[i].type = v.node[i].type
      /\ name \in LongNames => r.ret # "OK"
  BY <1>1, LinkKeeps
<1>3. CASE name \in LongNames
  <2>1. put.v = v /\ put.ret # "OK"
    <3>1. RedDirEntryLookup(v, p, name).ret \in {"ENOTDIR", "EINVAL", "ENAMETOOLONG"}
      BY <1>3 DEF RedDirEntryLookup
    <3>. QED  BY <3>1 DEF RedDirEntryCreate, Failed
  <2>2. r.v = v
    <3>. HIDE DEF put
    <3>. QED  BY <2>1 DEF CoreLink, Failed, put
  <2>. QED  BY <1>0, <1>2, <2>2, FailedResult
<1>4. CASE name \in Names
  <2>1. Alike(v, r, q)
    BY <1>1, LinkAlike
  <2>2. Good(AsDir(v), q)
    BY <1>1, <1>4, LinkGood DEF Outcomes
  <2>. HIDE DEF r, q
  <2>3. v.orphans \cap v.defunct = {}
    BY DEF VolumeGood, ContentGood
  <2>4. Result(v, r, {})
    BY <1>2, <2>1, <2>2, <2>3, FromDir
  <2>. QED  BY <1>0, <2>4 DEF r
<1>. QED  BY <1>3, <1>4

\* x lost a name between v and w.
Losing(v, w, x, fOrphan) ==
  /\ Named(v, x) /\ x # ROOT
  /\ v.node[x].uNLink # 1 \/ fOrphan =>
       /\ w.node[x].type = v.node[x].type /\ x \notin w.defunct
       /\ x \in w.orphans <=> v.node[x].uNLink = 1 /\ fOrphan

\* The inode that lost a name is an orphan exactly if it was its last and it is in use.
LEMMA LosingIs ==
  ASSUME NEW v, VolumeGood(v), NEW w, w.defunct = v.defunct, NEW x, Named(v, x), x # ROOT,
         v.node[x].uNLink >= 1, NEW fOrphan, NameLost(v, w, x, fOrphan)
  PROVE  Losing(v, w, x, fOrphan)
<1>1. v.node[x].uNLink \in Nat /\ x \notin v.orphans /\ x \notin v.defunct
  BY VolumeIs, LinkCountIsNat DEF VolumeGood, Named
<1>2. v.node[x].uNLink > 1 <=> v.node[x].uNLink # 1
  BY <1>1
<1>. QED  BY <1>1, <1>2 DEF Losing, NameLost

\* Unlinking gives a good result, where one inode loses a name.
LEMMA UnlinkResult ==
  ASSUME NEW v, VolumeGood(v), NEW p, Named(v, p), NEW name, NEW fOrphan, NEW f \in {"OK", "ENOSPC"},
         NEW at, at = RedDirEntryLookup(v, p, name)
  PROVE  LET r == CoreUnlink(v, p, name, fOrphan, f)
         IN  /\ Result(v, r, {at.ino}) /\ {"ret", "v"} \subseteq DOMAIN r
             /\ r.ret # "OK" => Result(v, r, {})
             /\ r.ret = "OK" => at.ret = "OK" /\ Losing(v, r.v, at.ino, fOrphan)
<1>. DEFINE r == CoreUnlink(v, p, name, fOrphan, f)
            q == CoreUnlink(AsDir(v), p, name, fOrphan, f)
<1>0. {"ret", "v"} \subseteq DOMAIN r
  <2>. DEFINE cut == RedDirEntryDelete(v, p, RedDirEntryLookup(v, p, name).idx, f)
  <2>1. DOMAIN cut = {"ret", "v"}
    BY DEF RedDirEntryDelete, DirEntryWrite, Step, Failed, Done
  <2>. HIDE DEF cut
  <2>. QED  BY <2>1 DEF CoreUnlink, Failed, Done, cut
<1>1. v \in PosixVolumes /\ Carries(v, v, AsDir(v)) /\ Shaped(v) /\ AsDir(v) \in DirVolumes /\ Tidy(AsDir(v))
      /\ p \in Inodes /\ p \notin AsDir(v).orphans
  BY VolumeIs, NamedIs DEF VolumeGood, ContentGood
<1>2. at.ret = "OK" => Named(v, at.ino) /\ at.ino \in Inodes /\ at.ino # ROOT /\ v.node[at.ino].uNLink >= 1
  BY FoundIs DEF Named
<1>3. /\ r.ret \in Statuses
      /\ r.ret # "OK" => r.v.orphans = v.orphans
      /\ r.ret = "OK" => at.ret = "OK" /\ NameLost(v, r.v, at.ino, fOrphan)
  BY <1>1, <1>2, UnlinkKeeps
<1>4. Alike(v, r, q)
  BY <1>1, UnlinkAlike
<1>5. Good(AsDir(v), q)
  BY <1>1, UnlinkGood DEF Outcomes
<1>. HIDE DEF r, q
<1>6. v.orphans \cap v.defunct = {} /\ v.defunct \subseteq Inodes
  BY DEF VolumeGood, ContentGood, PosixVolumes
<1>7. r.ret = "OK" => r.v.orphans \cap v.defunct = {}
  BY <1>2, <1>3, <1>6 DEF NameLost, Named
<1>8. Result(v, r, {at.ino}) /\ r.v.defunct = v.defunct
  <2>1. r.ret = "OK" => \A i \in Inodes \ {at.ino} : r.v.node[i].type = v.node[i].type /\ (i \in r.v.orphans <=> i \in v.orphans)
    BY <1>3 DEF NameLost
  <2>. QED  BY <1>3, <1>4, <1>5, <1>7, <2>1, FromDir
<1>9. r.ret # "OK" => Result(v, r, {})
  BY <1>3, <1>4, <1>5, FromDir
<1>10. r.ret = "OK" => Losing(v, r.v, at.ino, fOrphan)
  BY <1>2, <1>3, <1>8, LosingIs
<1>. QED  BY <1>0, <1>3, <1>8, <1>9, <1>10 DEF r

\* Renaming gives a good result, where the inode whose name is replaced loses it.
LEMMA RenameResult ==
  ASSUME NEW v, VolumeGood(v), NEW srcP, Named(v, srcP), NEW srcName, NEW dstP, Named(v, dstP),
         NEW name \in Names \cup LongNames, NEW fOrphan,
         NEW f, f.dst \in {"OK", "ENOSPC"}, f.src = f.dst, f.undo = "OK",
         NEW src, src = RedDirEntryLookup(v, srcP, srcName), NEW dst, dst = RedDirEntryLookup(v, dstP, name)
  PROVE  LET r == CoreRename(v, srcP, srcName, dstP, name, fOrphan, f)
         IN  /\ Result(v, r, {dst.ino}) /\ {"ret", "v"} \subseteq DOMAIN r
             /\ r.ret # "OK" => Result(v, r, {})
             /\ r.ret = "OK" => /\ src.ret = "OK"
                                /\ src.ino = dst.ino => r.v = v
                                /\ src.ino = dst.ino \/ dst.ret # "OK" => Result(v, r, {})
                                /\ src.ino # dst.ino /\ dst.ret = "OK" => Losing(v, r.v, dst.ino, fOrphan)
<1>. DEFINE r == CoreRename(v, srcP, srcName, dstP, name, fOrphan, f)
            q == CoreRename(AsDir(v), srcP, srcName, dstP, name, fOrphan, f)
<1>0. {"ret", "v"} \subseteq DOMAIN r
  <2>. DEFINE y == RedDirEntryRename(v, srcP, srcName, dstP, name, f)
  <2>. HIDE DEF y
  <2>. QED  BY DEF CoreRename, Failed, Done, y
<1>1. v \in PosixVolumes /\ Carries(v, v, AsDir(v)) /\ Shaped(v) /\ AsDir(v) \in DirVolumes /\ Tidy(AsDir(v))
      /\ srcP \notin AsDir(v).orphans /\ dstP \notin AsDir(v).orphans /\ INODE_INVALID \notin Inodes
  BY VolumeIs, NamedIs, DirAssumption DEF VolumeGood, ContentGood
<1>2. dst.ret = "OK" => Named(v, dst.ino) /\ dst.ino \in Inodes /\ dst.ino # ROOT /\ v.node[dst.ino].uNLink >= 1
  BY FoundIs DEF Named
<1>3. /\ r.ret \in Statuses
      /\ r.ret # "OK" => r.v.orphans = v.orphans
      /\ r.ret = "OK" => src.ret = "OK" /\ dst.ret \in {"OK", "ENOENT"}
      /\ r.ret = "OK" /\ src.ino = dst.ino => r.v = v
      /\ r.ret = "OK" /\ src.ino # dst.ino /\ dst.ret = "OK" => NameLost(v, r.v, dst.ino, fOrphan)
      /\ r.ret = "OK" /\ dst.ret # "OK" => TypesKept(v, r.v)
  BY <1>1, <1>2, RenameKeeps
<1>4. CASE name \in LongNames
  <2>1. dst.ret \in {"ENOTDIR", "EINVAL", "ENAMETOOLONG"}
    BY <1>4 DEF RedDirEntryLookup
  <2>. DEFINE y == RedDirEntryRename(v, srcP, srcName, dstP, name, f)
  <2>2. y.v = v /\ y.ret # "OK"
    <3>1. y.v = v /\ (y.ret = "EINVAL" \/ (src.ret # "OK" /\ y.ret = src.ret) \/ y.ret = dst.ret)
      <4>1. dst.ret # "OK" /\ dst.ret # "ENOENT"
        BY <2>1
      <4>. QED  BY ONLY <4>1, src = RedDirEntryLookup(v, srcP, srcName), dst = RedDirEntryLookup(v, dstP, name)
                DEF RedDirEntryRename, Failed
    <3>. QED  BY <2>1, <3>1
  <2>3. r.v = v /\ r.ret # "OK"
    <3>. HIDE DEF y
    <3>1. \A d : MountDir(v, d) # "OK" => Failed(MountDir(v, d), v).ret # "OK"
      BY DEF Failed
    <3>. QED  BY <2>2, <3>1 DEF CoreRename, Failed, y
  <2>. QED  BY <1>0, <1>3, <2>3, FailedResult
<1>5. CASE name \in Names
  <2>1. Alike(v, r, q)
    BY <1>1, RenameAlike
  <2>2. Good(AsDir(v), q)
    BY <1>1, <1>5, RenameGood DEF Outcomes
  <2>. HIDE DEF r, q
  <2>3. v.orphans \cap v.defunct = {} /\ v.defunct \subseteq Inodes
    BY DEF VolumeGood, ContentGood, PosixVolumes
  <2>4. r.ret # "OK" => Result(v, r, {}) /\ Result(v, r, {dst.ino})
    BY <1>3, <2>1, <2>2, FromDir
  <2>5. CASE r.ret = "OK" /\ src.ino = dst.ino
    BY <1>0, <1>3, <2>5, FailedResult DEF Statuses, r
  <2>6. CASE r.ret = "OK" /\ dst.ret # "OK"
    <3>1. Result(v, r, {}) /\ Result(v, r, {dst.ino})
      BY <1>3, <2>1, <2>2, <2>3, <2>6, FromDir DEF TypesKept
    <3>. QED  BY <1>0, <1>3, <2>6, <3>1 DEF r
  <2>7. CASE r.ret = "OK" /\ src.ino # dst.ino /\ dst.ret = "OK"
    <3>1. NameLost(v, r.v, dst.ino, fOrphan) /\ r.v.orphans \cap v.defunct = {}
      BY <1>2, <1>3, <2>3, <2>7 DEF NameLost, Named
    <3>2. \A i \in Inodes \ {dst.ino} : r.v.node[i].type = v.node[i].type /\ (i \in r.v.orphans <=> i \in v.orphans)
      BY <3>1 DEF NameLost
    <3>3. Result(v, r, {dst.ino}) /\ r.v.defunct = v.defunct
      BY <1>3, <2>1, <2>2, <2>7, <3>1, <3>2, FromDir
    <3>4. Losing(v, r.v, dst.ino, fOrphan)
      BY <1>2, <2>7, <3>1, <3>3, LosingIs
    <3>. QED  BY <1>0, <1>3, <2>7, <3>3, <3>4 DEF r
  <2>. QED  BY <1>0, <1>3, <2>4, <2>5, <2>6, <2>7 DEF r
<1>. QED  BY <1>4, <1>5

\* The whole call that creates, which may free a defunct orphan first.
LEMMA CreateInodeResult ==
  ASSUME NEW v, VolumeGood(v), NEW p, Named(v, p), NEW name \in Names \cup LongNames,
         NEW type \in {"DIR", "REG", "LNK"}, NEW f \in {"OK", "ENOSPC"}
  PROVE  LET r == CreateInode(v, p, name, type, f)
         IN  /\ Result(v, r, {}) /\ {"ret", "v", "ino"} \subseteq DOMAIN r
             /\ r.ret = "OK" => Named(r.v, r.ino) /\ r.v.node[r.ino].type = type /\ v.fMounted
<1>. DEFINE fFrees == Writeable(v) /\ IsDir(v, p) /\ FreeInodes(v) = {} /\ v.defunct # {}
            w == IF fFrees THEN RedVolFreeOrphans(v, {Min(v.defunct)}) ELSE v
            q == RedCoreCreate(w, p, name, type, CoreFault(f))
            event == IF type = "DIR" THEN "MKDIR" ELSE "CREAT"
            r == AutoTransacted(q, event)
<1>1. Keeps(v, w, {}) /\ Visible(w) = Visible(v) /\ w.fReadOnly = v.fReadOnly
  <2>1. CASE fFrees
    <3>1. v.defunct \subseteq Inodes /\ v.defunct # {}
      BY <2>1 DEF VolumeGood, PosixVolumes
    <3>2. Min(v.defunct) \in v.defunct
      BY <3>1, MinIs, DirAssumption
    <3>3. {Min(v.defunct)} \subseteq v.defunct
      BY <3>2
    <3>. QED  BY <2>1, <3>3, FreeKeeps
  <2>2. CASE ~fFrees
    BY <2>2, SameKeeps
  <2>. QED  BY <2>1, <2>2
<1>. HIDE DEF w
<1>2. VolumeGood(w) /\ Named(w, p) /\ w.fMounted = v.fMounted
  <2>1. p \notin {}
    OBVIOUS
  <2>. QED  BY <1>1, <2>1, NamedStays DEF Keeps
<1>3. /\ Result(w, q, {}) /\ DOMAIN q = {"ret", "v", "ino"}
      /\ q.ret = "OK" => Named(q.v, q.ino) /\ q.v.node[q.ino].type = type /\ w.fMounted
  <2>1. q = IF Writeable(w) THEN CoreCreate(w, p, name, type, f)
            ELSE [ret |-> NotWriteable(w).ret, v |-> w, ino |-> INODE_INVALID]
    BY CoreFaultIs
  <2>2. CASE Writeable(w)
    BY <1>2, <2>1, <2>2, CreateResult DEF Writeable
  <2>3. CASE ~Writeable(w)
    <3>1. NotWriteable(w).ret \in Statuses /\ NotWriteable(w).ret # "OK"
      BY DEF NotWriteable, Failed, Statuses
    <3>2. q.ret = NotWriteable(w).ret /\ q.v = w /\ DOMAIN q = {"ret", "v", "ino"}
      BY <2>1, <2>3
    <3>. HIDE DEF q
    <3>. QED  BY <1>2, <3>1, <3>2, FailedResult
  <2>. QED  BY <2>2, <2>3
<1>4. Result(v, q, {})
  BY <1>1, <1>3, ResultAfter
<1>. HIDE DEF q, event
<1>5. /\ Result(v, r, {}) /\ r.ret = q.ret /\ r.v.node = q.v.node /\ r.v.orphans = q.v.orphans
      /\ r.v.defunct = q.v.defunct /\ r.ino = q.ino /\ DOMAIN r = DOMAIN q
  BY <1>3, <1>4, AutoTransactedIs
<1>6. r = CreateInode(v, p, name, type, f)
  BY DEF CreateInode, q, w, event
<1>. HIDE DEF r
<1>7. r.ret = "OK" => Named(r.v, r.ino) /\ r.v.node[r.ino].type = type /\ v.fMounted
  BY <1>2, <1>3, <1>5 DEF Named, Exists
<1>. QED  BY <1>3, <1>5, <1>6, <1>7

\* The whole call that links, with its transaction point.
LEMMA LinkCall ==
  ASSUME NEW v, VolumeGood(v), NEW p, Named(v, p), NEW name \in Names \cup LongNames, NEW x, Named(v, x),
         NEW f \in {"OK", "ENOSPC"}
  PROVE  Result(v, AutoTransacted(RedCoreLink(v, p, name, x, CoreFault(f)), "LINK"), {})
<1>. DEFINE q == RedCoreLink(v, p, name, x, CoreFault(f))
<1>1. q = IF Writeable(v) THEN CoreLink(v, p, name, x, f) ELSE NotWriteable(v)
  BY CoreFaultIs
<1>. HIDE DEF q
<1>2. Result(v, NotWriteable(v), {}) /\ {"ret", "v"} \subseteq DOMAIN NotWriteable(v)
  BY NotWriteableIs DEF NotWriteable, Failed
<1>3. Result(v, q, {}) /\ {"ret", "v"} \subseteq DOMAIN q
  BY <1>1, <1>2, LinkResult
<1>. QED  BY <1>3, AutoTransactedIs DEF q

\* The whole call that unlinks, with its transaction point.
LEMMA UnlinkCall ==
  ASSUME NEW v, VolumeGood(v), NEW p, Named(v, p), NEW name, NEW fOrphan, NEW f \in {"OK", "ENOSPC"},
         NEW at, at = RedDirEntryLookup(v, p, name)
  PROVE  LET r == AutoTransacted(RedCoreUnlink(v, p, name, fOrphan, CoreFault(f)), "UNLINK")
         IN  /\ Result(v, r, {at.ino})
             /\ r.ret # "OK" => Result(v, r, {})
             /\ r.ret = "OK" => at.ret = "OK" /\ Losing(v, r.v, at.ino, fOrphan)
<1>. DEFINE q == RedCoreUnlink(v, p, name, fOrphan, CoreFault(f))
            r == AutoTransacted(q, "UNLINK")
<1>1. q = IF Writeable(v) THEN CoreUnlink(v, p, name, fOrphan, f) ELSE NotWriteable(v)
  BY CoreFaultIs
<1>. HIDE DEF q
<1>2. /\ NotWriteable(v).ret # "OK" /\ {"ret", "v"} \subseteq DOMAIN NotWriteable(v)
      /\ \A X : Result(v, NotWriteable(v), X)
  BY NotWriteableIs DEF NotWriteable, Failed
<1>3. /\ Result(v, q, {at.ino}) /\ {"ret", "v"} \subseteq DOMAIN q
      /\ q.ret # "OK" => Result(v, q, {})
      /\ q.ret = "OK" => at.ret = "OK" /\ Losing(v, q.v, at.ino, fOrphan)
  BY <1>1, <1>2, UnlinkResult
<1>4. /\ Result(v, r, {at.ino}) /\ r.ret = q.ret /\ r.v.node = q.v.node /\ r.v.orphans = q.v.orphans
      /\ r.v.defunct = q.v.defunct /\ (q.ret # "OK" => r = q)
  BY <1>3, AutoTransactedIs
<1>. HIDE DEF r
<1>5. r.ret = "OK" => Losing(v, r.v, at.ino, fOrphan)
  BY <1>3, <1>4 DEF Losing
<1>. QED  BY <1>3, <1>4, <1>5 DEF r, q

\* The whole call that renames, with its transaction point.
LEMMA RenameCall ==
  ASSUME NEW v, VolumeGood(v), NEW srcP, Named(v, srcP), NEW srcName, NEW dstP, Named(v, dstP),
         NEW name \in Names \cup LongNames, NEW fOrphan, NEW f \in {"OK", "ENOSPC"},
         NEW src, src = RedDirEntryLookup(v, srcP, srcName), NEW dst, dst = RedDirEntryLookup(v, dstP, name)
  PROVE  LET r == AutoTransacted(RedCoreRename(v, srcP, srcName, dstP, name, fOrphan, CoreFault(f)), "RENAME")
         IN  /\ Result(v, r, {dst.ino})
             /\ r.ret # "OK" => Result(v, r, {})
             /\ r.ret = "OK" => /\ src.ret = "OK"
                                /\ src.ino = dst.ino \/ dst.ret # "OK" => Result(v, r, {})
                                /\ src.ino # dst.ino /\ dst.ret = "OK" => Losing(v, r.v, dst.ino, fOrphan)
<1>. DEFINE g == [dst |-> f, src |-> f, undo |-> "OK"]
            q == RedCoreRename(v, srcP, srcName, dstP, name, fOrphan, CoreFault(f))
            r == AutoTransacted(q, "RENAME")
<1>0. g.dst \in {"OK", "ENOSPC"} /\ g.src = g.dst /\ g.undo = "OK"
  OBVIOUS
<1>1. q = IF Writeable(v) THEN CoreRename(v, srcP, srcName, dstP, name, fOrphan, g) ELSE NotWriteable(v)
  BY CoreFaultIs
<1>. HIDE DEF q, g
<1>2. /\ NotWriteable(v).ret # "OK" /\ {"ret", "v"} \subseteq DOMAIN NotWriteable(v)
      /\ \A X : Result(v, NotWriteable(v), X)
  BY NotWriteableIs DEF NotWriteable, Failed
<1>3. /\ Result(v, q, {dst.ino}) /\ {"ret", "v"} \subseteq DOMAIN q
      /\ q.ret # "OK" => Result(v, q, {})
      /\ q.ret = "OK" => /\ src.ret = "OK"
                         /\ src.ino = dst.ino \/ dst.ret # "OK" => Result(v, q, {})
                         /\ src.ino # dst.ino /\ dst.ret = "OK" => Losing(v, q.v, dst.ino, fOrphan)
  BY <1>0, <1>1, <1>2, RenameResult
<1>4. /\ Result(v, r, {dst.ino}) /\ r.ret = q.ret /\ r.v.node = q.v.node /\ r.v.orphans = q.v.orphans
      /\ r.v.defunct = q.v.defunct /\ (q.ret # "OK" => r = q)
  BY <1>3, AutoTransactedIs
<1>5. Result(v, q, {}) => Result(v, r, {})
  BY <1>3, AutoTransactedIs
<1>. HIDE DEF r
<1>6. src.ino # dst.ino /\ dst.ret = "OK" /\ r.ret = "OK" => Losing(v, r.v, dst.ino, fOrphan)
  BY <1>3, <1>4 DEF Losing
<1>. QED  BY <1>3, <1>4, <1>5, <1>6 DEF r, q

-----------------------------------------------------------------------------
(* Results of the other core calls.                                        *)

\* A critical error makes a volume read-only and changes nothing else.
LEMMA CriticalKeeps ==
  ASSUME NEW v, VolumeGood(v)
  PROVE  Keeps(v, Critical(v), {}) /\ Visible(Critical(v)) = Visible(v) /\ Critical(v).fReadOnly
<1>1. v \in PosixVolumes
  BY DEF VolumeGood
<1>2. /\ Critical(v) \in PosixVolumes /\ Critical(v).node = v.node /\ Critical(v).orphans = v.orphans
      /\ Critical(v).defunct = v.defunct /\ Critical(v).cmt = v.cmt /\ Critical(v).fMounted = v.fMounted
      /\ Critical(v).fReadOnly
  BY <1>1 DEF Critical, PosixVolumes
<1>3. ContentGood(Critical(v))
  BY <1>2 DEF VolumeGood, ContentGood, AsDir
<1>. QED  BY <1>2, <1>3 DEF VolumeGood, Keeps, Visible

\* A call that fails with the volume as it was.
LEMMA FailsWith ==
  ASSUME NEW v, VolumeGood(v), NEW err \in Statuses, NEW X
  PROVE  Result(v, Failed(err, v), X)
BY FailedResult DEF Failed

\* A call that succeeds and keeps the volume.
LEMMA DoneWith ==
  ASSUME NEW v, NEW w, Keeps(v, w, {})
  PROVE  Result(v, Done(w), {})
BY DEF Result, Done, Statuses

\* A call that ends in a critical error.
LEMMA CriticalResult ==
  ASSUME NEW v, VolumeGood(v), Writeable(v)
  PROVE  Result(v, Failed("EIO", Critical(v)), {})
BY CriticalKeeps DEF Result, Failed, Statuses, Writeable

\* A transaction point gives a good result.
LEMMA TransactResult ==
  ASSUME NEW v, VolumeGood(v), NEW f \in {"OK", "EIO"}
  PROVE  /\ Result(v, RedCoreVolTransact(v, f), {})
         /\ RedCoreVolTransact(v, f).v.fMounted = v.fMounted
         /\ Writeable(v) /\ f = "OK" => RedCoreVolTransact(v, f).ret = "OK"
         /\ Writeable(v) /\ RedCoreVolTransact(v, f).ret # "OK" => RedCoreVolTransact(v, f).v.fReadOnly
<1>. DEFINE w == [v EXCEPT !.cmt = Content(v)]
            r == RedCoreVolTransact(v, f)
<1>1. v \in PosixVolumes /\ ContentGood(v)
  BY DEF VolumeGood
<1>2. /\ w \in PosixVolumes /\ w.cmt = Content(v) /\ w.node = v.node /\ w.orphans = v.orphans
      /\ w.defunct = v.defunct /\ w.fMounted = v.fMounted /\ w.fReadOnly = v.fReadOnly
  BY <1>1 DEF PosixVolumes, Content, Contents
<1>. HIDE DEF w
<1>3. AsDir(w) = AsDir(v) /\ AsDir(w.cmt) = AsDir(v)
  BY <1>2 DEF AsDir, Content
<1>4. Keeps(v, w, {})
  BY <1>1, <1>2, <1>3 DEF ContentGood, Content, VolumeGood, Keeps
<1>5. Result(v, Done(w), {}) /\ Result(v, NotWriteable(v), {})
  BY <1>4, DoneWith, NotWriteableIs
<1>6. r = IF ~Writeable(v) THEN NotWriteable(v) ELSE IF f = "EIO" THEN Failed("EIO", Critical(v)) ELSE Done(w)
  BY DEF RedCoreVolTransact, w
<1>7. Result(v, r, {})
  <2>. HIDE DEF r
  <2>. QED  BY <1>5, <1>6, CriticalResult
<1>8. Failed("EIO", Critical(v)).v.fReadOnly /\ Done(w).ret = "OK"
  BY CriticalKeeps DEF Failed, Done
<1>. HIDE DEF r
<1>9. /\ Result(v, r, {}) /\ r.v.fMounted = v.fMounted
      /\ Writeable(v) /\ f = "OK" => r.ret = "OK"
      /\ Writeable(v) /\ r.ret # "OK" => r.v.fReadOnly
  BY <1>6, <1>7, <1>8 DEF Result, Keeps
<1>. QED  BY <1>9 DEF r

\* Freeing an orphan changes that inode alone.
LEMMA FreeOrphanResult ==
  ASSUME NEW v, VolumeGood(v), NEW i \in Inodes, NEW f \in {"OK", "EIO"}
  PROVE  LET r == RedCoreFreeOrphan(v, i, f)
         IN  /\ Result(v, r, {i})
             /\ r.ret # "OK" \/ i \notin v.orphans => Result(v, r, {})
<1>. DEFINE u == FreeOrphan(v, i)
            p == FreeOrphan(AsDir(v), i)
            r == RedCoreFreeOrphan(v, i, f)
<1>1. /\ v \in PosixVolumes /\ AsDir(v) \in DirVolumes /\ Tidy(AsDir(v)) /\ Carries(v, v, AsDir(v))
      /\ v.orphans \cap v.defunct = {}
  BY VolumeIs DEF VolumeGood, ContentGood
<1>2. CASE i \in v.orphans /\ Writeable(v) /\ f = "OK"
  <2>1. i \in AsDir(v).orphans
    BY <1>2 DEF AsDir
  <2>2. p \in DirVolumes /\ Tidy(p)
    BY <1>1, <2>1, FreeOrphanTidy
  <2>3. Carries(v, u, p)
    <3>1. /\ u = [v EXCEPT !.node = [v.node EXCEPT ![i] = FREE_INODE], !.orphans = v.orphans \ {i}]
          /\ p.node = [v.node EXCEPT ![i] = FREE_INODE] /\ p.orphans = (v.orphans \cup v.defunct) \ {i}
          /\ p.fMounted = TRUE /\ p.fReadOnly = FALSE /\ DOMAIN p = {"node", "orphans", "fMounted", "fReadOnly"}
      BY <1>1 DEF FreeOrphan, RedInodeFree, AsDir, PosixVolumes
    <3>. HIDE DEF u, p
    <3>2. u.node = [v.node EXCEPT ![i] = FREE_INODE] /\ u.orphans = v.orphans \ {i}
      BY <1>1, <3>1 DEF PosixVolumes
    <3>3. (v.orphans \cup v.defunct) \ {i} = (v.orphans \ {i}) \cup v.defunct
      BY <1>1, <1>2
    <3>. QED  BY <3>1, <3>2, <3>3 DEF Carries
  <2>4. /\ \A j \in Inodes \ {i} : u.node[j] = v.node[j] /\ (j \in u.orphans <=> j \in v.orphans)
        /\ u.orphans \subseteq v.orphans
    BY <1>1 DEF FreeOrphan, RedInodeFree, PosixVolumes
  <2>. HIDE DEF u, p
  <2>5. u \in PosixVolumes /\ AsDir(u) = p /\ u.fMounted = v.fMounted /\ u.fReadOnly = v.fReadOnly
        /\ u.defunct = v.defunct /\ u.cmt = v.cmt
    BY <1>1, <2>2, <2>3, CarriedIs
  <2>6. VolumeGood(u)
    BY <1>1, <2>2, <2>4, <2>5 DEF VolumeGood, ContentGood
  <2>7. Keeps(v, u, {i})
    BY <2>4, <2>5, <2>6 DEF Keeps
  <2>8. r = Done(u)
    BY <1>2 DEF RedCoreFreeOrphan, Step, u
  <2>9. r.ret = "OK" /\ r.v = u
    BY <2>8 DEF Done
  <2>. HIDE DEF r
  <2>. QED  BY <1>2, <2>7, <2>9 DEF Result, Statuses, r
<1>3. CASE ~(i \in v.orphans /\ Writeable(v) /\ f = "OK")
  <2>1. r \in {NotWriteable(v), Failed("EBADF", v)} \/ (Writeable(v) /\ r = Failed("EIO", Critical(v)))
    <3>. HIDE DEF u
    <3>. QED  BY <1>3 DEF RedCoreFreeOrphan, Step
  <2>. HIDE DEF r
  <2>2. Result(v, r, {})
    BY <2>1, NotWriteableIs, FailsWith, CriticalResult DEF Statuses
  <2>3. Result(v, r, {i})
    BY <2>2 DEF Result, Keeps
  <2>. QED  BY <2>2, <2>3 DEF r
<1>. QED  BY <1>2, <1>3

\* Calls that change attributes or data, or only ask, give good results.
LEMMA ChangeResult ==
  ASSUME NEW v, VolumeGood(v), NEW i
  PROVE  /\ Result(v, CoreChange(v, i), {}) /\ Result(v, RedCoreFileTruncate(v, i), {})
         /\ Result(v, Stat(v, i), {}) /\ Result(v, Fsync(v, i), {}) /\ Result(v, RedCoreVolStat(v), {})
         /\ Result(v, Failed(RedCoreTransMaskGet(v).ret, v), {})
<1>1. Result(v, NotWriteable(v), {}) /\ \A err \in Statuses : Result(v, Failed(err, v), {})
  BY NotWriteableIs, FailsWith
<1>2. Result(v, Done(v), {}) /\ {"ret", "v"} \subseteq DOMAIN Done(v)
  BY SameKeeps, DoneWith DEF Done
<1>3. Result(v, AutoTransacted(Done(v), "TRUNCATE"), {})
  BY <1>2, AutoTransactedIs
<1>4. Result(v, CoreChange(v, i), {})
  BY <1>1, <1>2 DEF CoreChange, Statuses
<1>5. Result(v, RedCoreFileTruncate(v, i), {})
  BY <1>1, <1>3 DEF RedCoreFileTruncate, Statuses
<1>6. Result(v, Stat(v, i), {})
  BY <1>1 DEF Stat, RedCoreStat, Statuses
<1>7. Result(v, RedCoreVolStat(v), {}) /\ Result(v, Failed(RedCoreTransMaskGet(v).ret, v), {})
  BY <1>1 DEF RedCoreVolStat, RedCoreTransMaskGet, Statuses
<1>8. Result(v, Fsync(v, i), {})
  BY <1>7, TransactResult DEF Fsync
<1>. QED  BY <1>4, <1>5, <1>6, <1>7, <1>8

\* So does setting the transaction mask.
LEMMA MaskResult ==
  ASSUME NEW v, VolumeGood(v), NEW mask \in Masks
  PROVE  Result(v, RedCoreTransMaskSet(v, mask), {})
<1>. DEFINE w == [v EXCEPT !.mask = mask]
<1>1. v \in PosixVolumes
  BY DEF VolumeGood
<1>2. /\ w \in PosixVolumes /\ w.cmt = v.cmt /\ w.node = v.node /\ w.orphans = v.orphans
      /\ w.defunct = v.defunct /\ w.fMounted = v.fMounted /\ w.fReadOnly = v.fReadOnly
  BY <1>1 DEF PosixVolumes
<1>3. RedCoreTransMaskSet(v, mask) = IF Writeable(v) THEN Done(w) ELSE NotWriteable(v)
  BY DEF RedCoreTransMaskSet
<1>. HIDE DEF w
<1>4. AsDir(w) = AsDir(v)
  BY <1>2 DEF AsDir
<1>5. Keeps(v, w, {})
  BY <1>2, <1>4 DEF ContentGood, VolumeGood, Keeps
<1>. QED  BY <1>3, <1>5, DoneWith, NotWriteableIs

\* A finite set has subsets of every size up to its own.
LEMMA SubsetOfSize ==
  ASSUME NEW S, IsFiniteSet(S), NEW n \in 0 .. Cardinality(S)
  PROVE  \E T \in SUBSET S : Cardinality(T) = n
<1>1. Cardinality(S) \in Nat /\ \A T \in SUBSET S : IsFiniteSet(T) /\ Cardinality(T) \in Nat
  BY FS_Subset, FS_CardinalityType
<1>. DEFINE None == {k \in Nat : k <= Cardinality(S) /\ \A T \in SUBSET S : Cardinality(T) # k}
<1>. SUFFICES ASSUME None # {} PROVE FALSE
  BY <1>1
<1>2. PICK k \in None : \A j \in None : k <= j
  BY LeastMember
<1>3. k # 0
  BY <1>2, FS_EmptySet
<1>4. k - 1 \in Nat /\ k - 1 < Cardinality(S) /\ k - 1 \notin None
  BY <1>1, <1>2, <1>3
<1>5. PICK T \in SUBSET S : Cardinality(T) = k - 1
  BY <1>1, <1>4
<1>6. PICK x \in S : x \notin T
  <2>1. T # S
    BY <1>1, <1>4, <1>5
  <2>. QED  BY <1>5, <2>1
<1>7. Cardinality(T \cup {x}) = k /\ T \cup {x} \in SUBSET S
  BY <1>1, <1>2, <1>4, <1>5, <1>6, FS_AddElement
<1>. QED  BY <1>2, <1>7

\* The orphans freed at once are those that there are, or as many as asked for.
LEMMA FreeSomeResult ==
  ASSUME NEW v, VolumeGood(v), NEW ulCount \in Nat
  PROVE  LET r == RedCoreVolFreeOrphans(v, ulCount)
         IN  Result(v, IF r.ret = "ENOENT" THEN Done(r.v) ELSE r, {})
<1>. DEFINE n == Cardinality(v.defunct)
            some == CHOOSE inos \in SUBSET v.defunct : Cardinality(inos) = Min({ulCount, n})
            w == RedVolFreeOrphans(v, some)
            r == RedCoreVolFreeOrphans(v, ulCount)
            result == IF r.ret = "ENOENT" THEN Done(r.v) ELSE r
<1>1. IsFiniteSet(v.defunct)
  BY DirAssumption, FS_Subset DEF VolumeGood, PosixVolumes
<1>2. n \in Nat
  BY <1>1, FS_CardinalityType
<1>3. Min({ulCount, n}) \in 0 .. n
  <2>1. {ulCount, n} \subseteq Nat
    BY <1>2
  <2>2. Min({ulCount, n}) \in {ulCount, n} /\ Min({ulCount, n}) <= n
    BY <2>1, MinIs
  <2>. QED  BY <1>2, <2>2
<1>4. \E inos \in SUBSET v.defunct : Cardinality(inos) = Min({ulCount, n})
  BY <1>1, <1>3, SubsetOfSize
<1>5. some \in SUBSET v.defunct
  BY <1>4
<1>. HIDE DEF some
<1>6. Keeps(v, w, {}) /\ Visible(w) = Visible(v) /\ w.fReadOnly = v.fReadOnly
  BY <1>5, FreeKeeps
<1>7. r = IF ~v.fMounted \/ ulCount = 0 THEN Failed("EINVAL", v)
          ELSE IF v.fReadOnly THEN Failed("EROFS", v)
          ELSE IF w.defunct = {} THEN Failed("ENOENT", w) ELSE Done(w)
  BY DEF RedCoreVolFreeOrphans, some
<1>. HIDE DEF w
<1>8. result \in {Failed("EINVAL", v), Failed("EROFS", v), Done(w)}
  <2>. HIDE DEF r
  <2>. QED  BY <1>7 DEF Failed, Done
<1>9. Result(v, result, {})
  <2>. HIDE DEF result
  <2>. QED  BY <1>6, <1>8, FailsWith, DoneWith DEF Statuses
<1>. QED  BY <1>9

\* A transaction point after a call with a good result.
LEMMA AgainResult ==
  ASSUME NEW v, NEW r, Result(v, r, {}), r.ret = "OK", NEW event
  PROVE  Result(v, AutoTransacted(Done(r.v), event), {})
<1>1. Result(v, Done(r.v), {}) /\ {"ret", "v"} \subseteq DOMAIN Done(r.v)
  BY DoneWith DEF Result, Done
<1>. QED  BY <1>1, AutoTransactedIs

-----------------------------------------------------------------------------
(* Volumes that are mounted, unmounted, rolled back and formatted.         *)

\* The root has a name, and is a directory.
LEMMA RootIs ==
  ASSUME NEW v, VolumeGood(v)
  PROVE  Named(v, ROOT) /\ v.node[ROOT].type = "DIR"
<1>1. Tidy(AsDir(v)) /\ AsDir(v).orphans = v.orphans \cup v.defunct /\ \A i : IsDir(AsDir(v), i) <=> IsDir(v, i)
  BY VolumeIs DEF VolumeGood, ContentGood
<1>2. IsDir(AsDir(v), ROOT) /\ ROOT \notin AsDir(v).orphans
  BY <1>1 DEF Tidy, TidyOff, Shape, Orphaned
<1>. QED  BY <1>1, <1>2 DEF Named, IsDir, Exists

\* v with the content c, whose orphans may all be from earlier mounts.
LEMMA ContentIs ==
  ASSUME NEW v, VolumeGood(v), NEW c \in Contents, ContentGood(c), NEW w \in PosixVolumes,
         w.node = c.node, w.orphans \cup w.defunct = c.orphans \cup c.defunct,
         w.orphans \cap w.defunct = {}, w.cmt = v.cmt
  PROVE  VolumeGood(w)
<1>1. AsDir(w) = AsDir(c)
  BY DEF AsDir
<1>. QED  BY <1>1 DEF VolumeGood, ContentGood

\* Mounting a good volume gives a good volume, or changes nothing.
LEMMA MountIs ==
  ASSUME NEW v, VolumeGood(v), NEW flags, NEW f \in {"OK", "EIO"}
  PROVE  LET r == RedCoreVolMount(v, flags, f)
         IN  /\ VolumeGood(r.v)
             /\ (r.ret = "OK" /\ r.v.fMounted) \/ (r.ret = "EIO" /\ r.v = v)
<1>. DEFINE w == [v EXCEPT !.node = v.cmt.node, !.orphans = {}, !.fMounted = TRUE,
                     !.defunct = v.cmt.defunct \cup v.cmt.orphans,
                     !.fReadOnly = "READONLY" \in flags]
            r == RedCoreVolMount(v, flags, f)
<1>1. v \in PosixVolumes /\ v.cmt \in Contents /\ ContentGood(v.cmt)
  BY DEF VolumeGood, PosixVolumes
<1>2. /\ w \in PosixVolumes /\ w.node = v.cmt.node /\ w.orphans = {} /\ w.defunct = v.cmt.defunct \cup v.cmt.orphans
      /\ w.cmt = v.cmt /\ w.fMounted
  <2>1. PICK fReadOnly \in BOOLEAN : fReadOnly = ("READONLY" \in flags)
    <3>1. CASE "READONLY" \in flags
      <4>1. ("READONLY" \in flags) = TRUE
        BY <3>1
      <4>. QED  BY <4>1
    <3>2. CASE "READONLY" \notin flags
      <4>1. ("READONLY" \in flags) = FALSE
        BY <3>2
      <4>. QED  BY <4>1
    <3>. QED  BY <3>1, <3>2
  <2>2. PICK D \in SUBSET Inodes : D = v.cmt.defunct \cup v.cmt.orphans
    BY <1>1 DEF Contents
  <2>3. PICK N \in [Inodes -> Nodes] : N = v.cmt.node
    BY <1>1 DEF Contents
  <2>4. w = [v EXCEPT !.node = N, !.orphans = {}, !.fMounted = TRUE, !.defunct = D, !.fReadOnly = fReadOnly]
    BY <2>1, <2>2, <2>3
  <2>. HIDE DEF w
  <2>. QED  BY <1>1, <2>2, <2>3, <2>4 DEF PosixVolumes
<1>3. r = IF f = "EIO" THEN Failed("EIO", v)
          ELSE Done(IF "SKIP_DELETE" \in flags THEN w ELSE RedVolFreeOrphans(w, w.defunct))
  BY DEF RedCoreVolMount
<1>. HIDE DEF w
<1>4. w.orphans \cup w.defunct = v.cmt.orphans \cup v.cmt.defunct /\ w.orphans \cap w.defunct = {}
  BY <1>2
<1>5. VolumeGood(w)
  BY <1>1, <1>2, <1>4, ContentIs
<1>6. Keeps(w, RedVolFreeOrphans(w, w.defunct), {})
  BY <1>5, FreeKeeps
<1>7. VolumeGood(RedVolFreeOrphans(w, w.defunct)) /\ RedVolFreeOrphans(w, w.defunct).fMounted
  BY <1>2, <1>6 DEF Keeps
<1>. HIDE DEF r
<1>8. VolumeGood(r.v) /\ ((r.ret = "OK" /\ r.v.fMounted) \/ (r.ret = "EIO" /\ r.v = v))
  BY <1>2, <1>3, <1>5, <1>7 DEF Done, Failed
<1>. QED  BY <1>8 DEF r

\* Unmounting a good volume gives a good volume; if it fails the volume is read-only.
LEMMA UnmountIs ==
  ASSUME NEW v, VolumeGood(v), v.fMounted, NEW f \in {"OK", "EIO"}
  PROVE  LET r == RedCoreVolUnmount(v, f)
         IN  /\ VolumeGood(r.v)
             /\ (r.ret = "OK" /\ ~r.v.fMounted) \/ (r.ret # "OK" /\ Result(v, r, {}) /\ ~v.fReadOnly /\ r.v.fReadOnly)
<1>. DEFINE q == IF ~v.fReadOnly /\ "UMOUNT" \in v.mask THEN RedCoreVolTransact(v, f) ELSE Done(v)
            w == [q.v EXCEPT !.fMounted = FALSE]
            r == RedCoreVolUnmount(v, f)
<1>1. Result(v, q, {})
  BY TransactResult, SameKeeps, DoneWith
<1>a. q.ret # "OK" => ~v.fReadOnly /\ q.v.fReadOnly
  BY TransactResult DEF Done, Writeable
<1>2. r = IF q.ret = "OK" THEN Done(w) ELSE q
  BY DEF RedCoreVolUnmount
<1>. HIDE DEF q
<1>3. VolumeGood(q.v) /\ q.v \in PosixVolumes
  BY <1>1 DEF Result, Keeps, VolumeGood
<1>4. /\ w \in PosixVolumes /\ w.node = q.v.node /\ w.orphans = q.v.orphans /\ w.defunct = q.v.defunct
      /\ w.cmt = q.v.cmt /\ ~w.fMounted
  BY <1>3 DEF PosixVolumes
<1>. HIDE DEF w
<1>5. VolumeGood(w)
  BY <1>3, <1>4 DEF VolumeGood, ContentGood, AsDir
<1>. HIDE DEF r
<1>6. VolumeGood(r.v) /\ ((r.ret = "OK" /\ ~r.v.fMounted) \/ (r.ret # "OK" /\ Result(v, r, {}) /\ ~v.fReadOnly /\ r.v.fReadOnly))
  BY <1>a, <1>1, <1>2, <1>3, <1>4, <1>5 DEF Done
<1>. QED  BY <1>6 DEF r

\* A rollback gives a good volume: the committed one.
LEMMA RollbackIs ==
  ASSUME NEW v, VolumeGood(v)
  PROVE  LET r == RedCoreVolRollback(v)
         IN  \/ Result(v, r, {}) /\ r.ret # "OK"
             \/ r.ret = "OK" /\ VolumeGood(r.v) /\ r.v.fMounted = v.fMounted /\ r.v.fReadOnly = v.fReadOnly
<1>. DEFINE w == [v EXCEPT !.node = v.cmt.node, !.orphans = v.cmt.orphans, !.defunct = v.cmt.defunct]
            r == RedCoreVolRollback(v)
<1>1. v \in PosixVolumes /\ v.cmt \in Contents /\ ContentGood(v.cmt)
  BY DEF VolumeGood, PosixVolumes
<1>2. /\ w \in PosixVolumes /\ w.node = v.cmt.node /\ w.orphans = v.cmt.orphans /\ w.defunct = v.cmt.defunct
      /\ w.cmt = v.cmt /\ w.fMounted = v.fMounted /\ w.fReadOnly = v.fReadOnly
  BY <1>1 DEF PosixVolumes, Contents
<1>3. r = IF ~Writeable(v) THEN NotWriteable(v) ELSE Done(w)
  BY DEF RedCoreVolRollback
<1>. HIDE DEF w
<1>4. VolumeGood(w)
  BY <1>1, <1>2, ContentIs DEF ContentGood
<1>. HIDE DEF r
<1>. QED  BY <1>2, <1>3, <1>4, NotWriteableIs DEF Done, r

\* A volume that was formatted is good.
LEMMA FormattedIs ==
  ASSUME NEW mask \in Masks \cup {{}, REDCONF_TRANSACT_DEFAULT}
  PROVE  LET w == [RedVolFormat EXCEPT !.mask = mask] IN VolumeGood(w) /\ ~w.fMounted
<1>. DEFINE w == [RedVolFormat EXCEPT !.mask = mask]
<1>1. EmptyVolume \in DirVolumes /\ Tidy(EmptyVolume)
  BY EmptyTidy
<1>2. EmptyVolume.orphans = {} /\ EmptyVolume.fMounted = TRUE /\ EmptyVolume.fReadOnly = FALSE
  BY DEF EmptyVolume
<1>3. PICK e : e = EmptyVolume
  OBVIOUS
<1>4. e \in DirVolumes /\ e.orphans = {} /\ e.fMounted = TRUE /\ e.fReadOnly = FALSE
  BY <1>1, <1>2, <1>3
<1>5. /\ RedVolFormat.node = e.node /\ RedVolFormat.orphans = {} /\ RedVolFormat.defunct = {}
      /\ RedVolFormat.cmt = [node |-> e.node, orphans |-> {}, defunct |-> {}]
      /\ ~RedVolFormat.fMounted /\ RedVolFormat \in PosixVolumes
  <2>1. e.node \in [Inodes -> Nodes]
    BY <1>4 DEF DirVolumes
  <2>2. [node |-> e.node, orphans |-> {}, defunct |-> {}] \in Contents
    BY ONLY <2>1 DEF Contents
  <2>. QED  BY ONLY <1>3, <2>1, <2>2 DEF RedVolFormat, PosixVolumes
<1>6. /\ w.node = e.node /\ w.orphans = {} /\ w.defunct = {} /\ ~w.fMounted
      /\ w.cmt = [node |-> e.node, orphans |-> {}, defunct |-> {}] /\ w \in PosixVolumes
  BY ONLY <1>5, mask \in Masks \cup {{}, REDCONF_TRANSACT_DEFAULT} DEF PosixVolumes
<1>. HIDE DEF w
<1>7. AsDir(w) = e /\ AsDir(w.cmt) = e
  <2>1. AsDir(w) = [node |-> e.node, orphans |-> {}, fMounted |-> TRUE, fReadOnly |-> FALSE] /\ AsDir(w.cmt) = AsDir(w)
    BY ONLY <1>6 DEF AsDir
  <2>2. e = [node |-> e.node, orphans |-> {}, fMounted |-> TRUE, fReadOnly |-> FALSE]
    BY ONLY <1>4 DEF DirVolumes
  <2>. QED  BY <2>1, <2>2
<1>8. w.orphans \cap w.defunct = {} /\ w.cmt.orphans \cap w.cmt.defunct = {}
  BY ONLY <1>6
<1>. QED  BY <1>1, <1>3, <1>6, <1>7, <1>8 DEF VolumeGood, ContentGood, w

\* Formatting gives a good volume, or changes nothing.
LEMMA FormatIs ==
  ASSUME NEW v, VolumeGood(v)
  PROVE  LET r == RedCoreVolFormat(v)
         IN  \/ Result(v, r, {}) /\ r.ret # "OK"
             \/ r.ret = "OK" /\ VolumeGood(r.v) /\ ~r.v.fMounted /\ ~v.fMounted
<1>. DEFINE w == [RedVolFormat EXCEPT !.mask = v.mask]
            r == RedCoreVolFormat(v)
<1>1. v.mask \in Masks \cup {{}, REDCONF_TRANSACT_DEFAULT}
  BY DEF VolumeGood, PosixVolumes
<1>2. VolumeGood(w) /\ ~w.fMounted
  BY <1>1, FormattedIs
<1>3. r = IF v.fMounted THEN Failed("EBUSY", v) ELSE Done(w)
  BY DEF RedCoreVolFormat
<1>4. Result(v, Failed("EBUSY", v), {})
  BY FailsWith DEF Statuses
<1>. HIDE DEF w, r
<1>5. \/ Result(v, r, {}) /\ r.ret # "OK"
      \/ r.ret = "OK" /\ VolumeGood(r.v) /\ ~r.v.fMounted /\ ~v.fMounted
  BY <1>2, <1>3, <1>4 DEF Done, Failed
<1>. QED  BY <1>5 DEF r

\* A volume after RedCoreInit is good, and not mounted.
LEMMA InitialIs ==
  ASSUME NEW v, VolumeGood(v)
  PROVE  LET w == [v EXCEPT !.fMounted = FALSE, !.fReadOnly = FALSE, !.mask = REDCONF_TRANSACT_DEFAULT]
         IN  VolumeGood(w) /\ ~w.fMounted
<1>. DEFINE w == [v EXCEPT !.fMounted = FALSE, !.fReadOnly = FALSE, !.mask = REDCONF_TRANSACT_DEFAULT]
<1>1. v \in PosixVolumes
  BY DEF VolumeGood
<1>2. /\ w \in PosixVolumes /\ w.node = v.node /\ w.orphans = v.orphans /\ w.defunct = v.defunct
      /\ w.cmt = v.cmt /\ ~w.fMounted
  BY <1>1 DEF PosixVolumes
<1>. HIDE DEF w
<1>. QED  BY <1>2 DEF VolumeGood, ContentGood, AsDir, w

-----------------------------------------------------------------------------
(* Loops: what the recursive functions are.                                *)

\* One pass of a loop of this kind, with what is the same in all passes.
Pass(kind, p, r, i) ==
  IF kind = "walk" THEN WalkName(p.v, r, p.names[i + 1], i + 1 = Len(p.names), p.nofollow)
  ELSE IF i \notin p.set THEN r
  ELSE IF kind = "sync" THEN
    IF ~Writeable(r.s.vol[i]) THEN r
    ELSE IF "SYNC" \notin r.s.vol[i].mask THEN Returns(r.ret, Current(r.s, i))
    ELSE LET w == OnVolume(Current(r.s, i), RedCoreVolTransact(r.s.vol[i], p.f))
         IN  Returns(IF w.ret = "OK" THEN r.ret ELSE w.ret, w.s)
  ELSE IF r.ret # "OK" THEN r
  ELSE IF kind = "cwd" THEN CwdClose(r.s, i, p.fClearVol, p.fReset, p.f)
  ELSE HandleClose(r.s, i, {}, p.f)

\* The results g of the passes.
Loop(g, m, a, kind, p) == g = [n \in 0 .. m |-> IF n = 0 THEN a ELSE Pass(kind, p, g[n - 1], n - 1)]

\* There are results of every pass of a loop.
LEMMA LoopExists ==
  ASSUME NEW m \in Nat, NEW a, NEW kind, NEW p
  PROVE  \E g : Loop(g, m, a, kind, p)
<1>. DEFINE Body(g, n) == IF n = 0 THEN a ELSE Pass(kind, p, g[n - 1], n - 1)
            P(n, g) == g = [k \in 0 .. n |-> Body(g, k)]
            Bad == {n \in Nat : ~\E g : P(n, g)}
<1>. SUFFICES ASSUME Bad # {} PROVE FALSE
  BY DEF Loop
<1>1. PICK b \in Bad : \A k \in Bad : b <= k
  BY LeastMember
<1>2. CASE b = 0
  <2>1. PICK h : h = [k \in 0 .. 0 |-> a]
    OBVIOUS
  <2>2. \A k \in 0 .. 0 : k = 0
    OBVIOUS
  <2>3. \A k \in 0 .. 0 : Body(h, k) = a
    BY <2>2
  <2>. HIDE DEF Body
  <2>4. [k \in 0 .. 0 |-> a] = [k \in 0 .. 0 |-> Body(h, k)]
    BY ONLY <2>3
  <2>5. P(0, h)
    BY ONLY <2>1, <2>4
  <2>. QED  BY <1>1, <1>2, <2>5
<1>3. CASE b # 0
  <2>1. PICK g : P(b - 1, g)
    <3>. HIDE DEF P
    <3>1. b \in Nat /\ b - 1 \in Nat /\ ~(b <= b - 1)
      BY <1>1, <1>3
    <3>2. b - 1 \notin Bad
      BY <1>1, <3>1
    <3>. QED  BY <3>1, <3>2
  <2>2. PICK h : h = [k \in 0 .. b |-> IF k = b THEN Body(g, b) ELSE g[k]]
    OBVIOUS
  <2>3. b \in Nat /\ b - 1 \in Nat /\ \A k \in 0 .. b - 1 : h[k] = g[k] /\ k # b
    BY <1>1, <1>3, <2>2
  <2>4. ASSUME NEW k \in 0 .. b PROVE h[k] = Body(h, k)
    <3>1. Body(h, k) = Body(g, k)
      BY <2>3
    <3>2. CASE k = b
      BY <2>2, <3>1, <3>2
    <3>3. CASE k # b
      <4>1. k \in 0 .. b - 1 /\ h[k] = g[k]
        BY <2>3, <3>3
      <4>. QED  BY <2>1, <3>1, <4>1
    <3>. QED  BY <3>2, <3>3
  <2>. HIDE DEF Body
  <2>5. P(b, h)
    BY <2>2, <2>4
  <2>. QED  BY <1>1, <2>5
<1>. QED  BY <1>2, <1>3

\* What holds first and is kept by each pass holds last.
LEMMA LoopEnd ==
  ASSUME NEW m \in Nat, NEW a, NEW kind, NEW p, NEW g, Loop(g, m, a, kind, p)
  PROVE  g[0] = a /\ \A n \in 1 .. m : g[n] = Pass(kind, p, g[n - 1], n - 1)
BY DEF Loop

\* A walk is a loop over the names.
LEMMA PathWalkIs ==
  ASSUME NEW v, NEW dir, NEW S, NEW names \in Seq(S), NEW nofollow
  PROVE  \E g : /\ g[0] = [ret |-> RedCoreDirParent(v, dir).ret, ino |-> dir, p |-> RedCoreDirParent(v, dir).ino]
                /\ \A k \in 1 .. Len(names) :
                     g[k] = WalkName(v, g[k - 1], names[k], k = Len(names), nofollow)
                /\ PathWalk(v, dir, names, nofollow) = g[Len(names)]
<1>. DEFINE a == [ret |-> RedCoreDirParent(v, dir).ret, ino |-> dir, p |-> RedCoreDirParent(v, dir).ino]
            m == Len(names)
            p == [v |-> v, names |-> names, nofollow |-> nofollow]
            Is(g) == g = [k \in 0 .. m |-> IF k = 0 THEN a ELSE WalkName(v, g[k - 1], names[k], k = m, nofollow)]
<1>1. m \in Nat
  OBVIOUS
<1>2. PICK h : Loop(h, m, a, "walk", p)
  BY <1>1, LoopExists
<1>3. Is(h)
  <2>1. \A k \in 0 .. m : k # 0 => Pass("walk", p, h[k - 1], k - 1) = WalkName(v, h[k - 1], names[k], k = m, nofollow)
    <3>. SUFFICES ASSUME NEW k \in 0 .. m PROVE Pass("walk", p, h[k - 1], k - 1) = WalkName(v, h[k - 1], names[k], k = m, nofollow)
      OBVIOUS
    <3>1. (k - 1) + 1 = k
      BY <1>1
    <3>2. Pass("walk", p, h[k - 1], k - 1) = WalkName(v, h[k - 1], names[(k - 1) + 1], (k - 1) + 1 = m, nofollow)
      BY DEF Pass
    <3>. QED  BY <3>1, <3>2
  <2>. HIDE DEF a, m, p
  <2>. QED  BY <1>2, <2>1 DEF Loop
<1>4. PICK g : g = CHOOSE x : Is(x)
  OBVIOUS
<1>5. Is(g)
  BY <1>3, <1>4
<1>6. PathWalk(v, dir, names, nofollow) = g[m]
  BY <1>4 DEF PathWalk
<1>. QED  BY <1>1, <1>5, <1>6

-----------------------------------------------------------------------------
(* What walks lead to.                                                     *)

WalkStatuses == {"OK", "ENOENT", "ENOTDIR", "EINVAL", "ENAMETOOLONG", "EBADF"}

\* A state of a walk.
WalkGood(v, w) == w.ret \in WalkStatuses /\ (w.ret = "OK" => v.fMounted /\ Named(v, w.ino))

\* The parent of a directory, as a walk asks for it.
LEMMA DirParentIs ==
  ASSUME NEW v, VolumeGood(v), NEW i
  PROVE  /\ RedCoreDirParent(v, i).ret \in WalkStatuses
         /\ RedCoreDirParent(v, i).ret = "OK" => v.fMounted /\ Named(v, i)
<1>1. RedCoreDirParent(v, i).ret \in WalkStatuses
  BY DEF RedCoreDirParent, MountDir, WalkStatuses
<1>2. ASSUME RedCoreDirParent(v, i).ret = "OK", i # ROOT
      PROVE  v.fMounted /\ IsDir(v, i) /\ v.node[i].ulPInode # INODE_INVALID
  BY <1>2 DEF RedCoreDirParent, MountDir
<1>3. Tidy(AsDir(v)) /\ AsDir(v).orphans = v.orphans \cup v.defunct /\ AsDir(v).node = v.node
      /\ \A j : IsDir(AsDir(v), j) <=> IsDir(v, j)
  BY VolumeIs DEF VolumeGood, ContentGood
<1>4. \A j \in v.orphans \cup v.defunct : IsDir(v, j) => v.node[j].ulPInode = INODE_INVALID
  BY <1>3 DEF Tidy, TidyOff, Orphaned
<1>5. RedCoreDirParent(v, i).ret = "OK" => v.fMounted
  BY DEF RedCoreDirParent
<1>. QED  BY <1>1, <1>2, <1>4, <1>5, RootIs DEF Named, IsDir, Exists

\* What a walk finds in a directory has a name.
LEMMA LookupIn ==
  ASSUME NEW v, VolumeGood(v), NEW d, NEW name
  PROVE  LET at == RedCoreLookup(v, d, name)
         IN  /\ at.ret \in WalkStatuses
             /\ at.ret \in {"OK", "ENOENT"} => v.fMounted /\ at = RedDirEntryLookup(v, d, name)
             /\ at.ret = "OK" => Named(v, at.ino)
<1>. DEFINE at == RedCoreLookup(v, d, name)
            e == RedDirEntryLookup(v, d, name)
<1>1. e.ret \in {"OK", "ENOENT", "ENOTDIR", "EINVAL", "ENAMETOOLONG"} /\ (e.ret = "OK" => Named(v, e.ino))
  BY LookupStatus, FoundIs
<1>. HIDE DEF e
<1>2. \/ at.ret \in {"EINVAL", "EBADF", "ENOTDIR"}
      \/ v.fMounted /\ at = e
  BY DEF RedCoreLookup, MountDir, e
<1>. HIDE DEF at
<1>3. /\ at.ret \in WalkStatuses
      /\ at.ret \in {"OK", "ENOENT"} => v.fMounted /\ at = e
      /\ at.ret = "OK" => Named(v, at.ino)
  BY <1>1, <1>2 DEF WalkStatuses
<1>. QED  BY <1>3 DEF at, e

\* One name on, a walk is still at an inode with a name.
LEMMA WalkNameIs ==
  ASSUME NEW v, VolumeGood(v), NEW w, WalkGood(v, w), {"ret"} \subseteq DOMAIN w, NEW name, NEW fLast, NEW nofollow
  PROVE  LET x == WalkName(v, w, name, fLast, nofollow) IN WalkGood(v, x) /\ {"ret"} \subseteq DOMAIN x
<1>. DEFINE dir == MountDir(v, w.ino)
            up == IF w.ino = ROOT THEN ROOT ELSE w.p
            found == RedCoreLookup(v, w.ino, name)
            above == [ret |-> RedCoreDirParent(v, up).ret, ino |-> up, p |-> RedCoreDirParent(v, up).ino]
            next == [ret |-> "OK", ino |-> found.ino, p |-> w.ino]
            x == WalkName(v, w, name, fLast, nofollow)
            Is(y) == \/ y = w
                     \/ \E err \in WalkStatuses \ {"OK"} : y = [w EXCEPT !.ret = err]
                     \/ y = above
                     \/ found.ret = "OK" /\ y = next
<1>1. found.ret \in WalkStatuses /\ (found.ret = "OK" => Named(v, found.ino)) /\ (found.ret = "OK" => v.fMounted)
  BY LookupIn
<1>2. dir \in {"OK", "EBADF", "ENOTDIR"}
  BY DEF MountDir
<1>. HIDE DEF up
<1>3. /\ RedCoreDirParent(v, up).ret \in WalkStatuses
      /\ RedCoreDirParent(v, up).ret = "OK" => v.fMounted /\ Named(v, up)
  BY ONLY VolumeGood(v), DirParentIs
<1>4. WalkGood(v, above) /\ {"ret"} \subseteq DOMAIN above
  BY <1>3 DEF WalkGood
<1>5. Is(x)
  <2>1. \A err \in WalkStatuses \ {"OK"} : Is([w EXCEPT !.ret = err])
    OBVIOUS
  <2>2. "ENOENT" \in WalkStatuses \ {"OK"} /\ (dir # "OK" => dir \in WalkStatuses \ {"OK"})
        /\ (found.ret # "OK" => found.ret \in WalkStatuses \ {"OK"})
    BY <1>1, <1>2 DEF WalkStatuses
  <2>3. \/ x = w \/ (dir # "OK" /\ x = [w EXCEPT !.ret = dir]) \/ x = above
        \/ (found.ret # "OK" /\ x = [w EXCEPT !.ret = found.ret])
        \/ x = [w EXCEPT !.ret = "ENOENT"]
        \/ (found.ret = "OK" /\ x = next)
    BY DEF WalkName, up
  <2>. HIDE DEF x, dir, found, above, next
  <2>. QED  BY <2>1, <2>2, <2>3
<1>. HIDE DEF x, found, above
<1>6. \A err \in WalkStatuses \ {"OK"} : WalkGood(v, [w EXCEPT !.ret = err]) /\ {"ret"} \subseteq DOMAIN [w EXCEPT !.ret = err]
  BY DEF WalkGood
<1>7. found.ret = "OK" => WalkGood(v, next) /\ {"ret"} \subseteq DOMAIN next
  BY <1>1 DEF WalkGood, WalkStatuses
<1>. HIDE DEF next
<1>8. WalkGood(v, x) /\ {"ret"} \subseteq DOMAIN x
  BY <1>4, <1>5, <1>6, <1>7
<1>. QED  BY <1>8 DEF x

\* A walk that succeeds ends at an inode with a name.
LEMMA WalkIs ==
  ASSUME NEW v, VolumeGood(v), NEW dir, NEW S, NEW names \in Seq(S), NEW nofollow
  PROVE  WalkGood(v, PathWalk(v, dir, names, nofollow))
<1>. DEFINE m == Len(names)
<1>1. PICK g : /\ g[0] = [ret |-> RedCoreDirParent(v, dir).ret, ino |-> dir, p |-> RedCoreDirParent(v, dir).ino]
               /\ \A k \in 1 .. m : g[k] = WalkName(v, g[k - 1], names[k], k = m, nofollow)
               /\ PathWalk(v, dir, names, nofollow) = g[m]
  BY PathWalkIs
<1>. DEFINE Fine(k) == WalkGood(v, g[k]) /\ {"ret"} \subseteq DOMAIN g[k]
            Bad == {k \in 0 .. m : ~Fine(k)}
<1>2. m \in Nat /\ Bad \subseteq Nat
  OBVIOUS
<1>3. Fine(0)
  <2>. DEFINE up == RedCoreDirParent(v, dir)
  <2>1. up.ret \in WalkStatuses /\ (up.ret = "OK" => v.fMounted /\ Named(v, dir))
    BY DirParentIs
  <2>. HIDE DEF up
  <2>2. g[0] = [ret |-> up.ret, ino |-> dir, p |-> up.ino]
    BY <1>1 DEF up
  <2>. QED  BY <2>1, <2>2 DEF WalkGood
<1>4. ASSUME Bad # {} PROVE FALSE
  <2>1. PICK k \in Bad : \A j \in Bad : k <= j
    BY <1>2, <1>4, LeastMember
  <2>. HIDE DEF Fine
  <2>2. k \in 1 .. m /\ k - 1 \in 0 .. m /\ ~(k <= k - 1)
    BY <1>2, <1>3, <2>1
  <2>3. Fine(k - 1)
    BY <2>1, <2>2
  <2>4. Fine(k)
    <3>1. g[k] = WalkName(v, g[k - 1], names[k], k = m, nofollow)
      BY <1>1, <2>2
    <3>2. WalkGood(v, g[k - 1]) /\ {"ret"} \subseteq DOMAIN g[k - 1]
      BY <2>3 DEF Fine
    <3>3. WalkGood(v, WalkName(v, g[k - 1], names[k], k = m, nofollow))
          /\ {"ret"} \subseteq DOMAIN WalkName(v, g[k - 1], names[k], k = m, nofollow)
      BY <3>2, WalkNameIs
    <3>. QED  BY <3>1, <3>3 DEF Fine
  <2>. QED  BY <2>1, <2>4
<1>5. Fine(m)
  <2>. HIDE DEF Fine
  <2>1. m \in 0 .. m
    BY <1>2
  <2>. QED  BY <1>4, <2>1
<1>. QED  BY <1>1, <1>5

PathNames == Seq(Names \cup LongNames \cup {".", ".."})

\* The last name of a path, and its directory, which has a name.
LEMMA PathToNameIs ==
  ASSUME NEW v, VolumeGood(v), NEW dir, NEW names \in PathNames, NEW rootDirError
  PROVE  LET r == RedPathToName(v, dir, names, rootDirError)
         IN  /\ r.ret \in WalkStatuses \cup {rootDirError}
             /\ r.ret = "OK" /\ rootDirError # "OK" => v.fMounted /\ Named(v, r.p) /\ r.name \in Names \cup LongNames
             /\ r.ret \notin WalkStatuses => v.fMounted
<1>. DEFINE whole == PathWalk(v, dir, names, FALSE)
            front == PathWalk(v, dir, Front(names), FALSE)
            last == Last(names)
            noName == ""
            fNone == names = <<>> \/ ~IsName(last)
            r == RedPathToName(v, dir, names, rootDirError)
            none == [ ret |-> IF whole.ret # "OK" THEN whole.ret
                              ELSE IF whole.ino = ROOT THEN rootDirError ELSE "EINVAL",
                      p |-> whole.ino, name |-> noName ]
            in == [ret |-> front.ret, p |-> front.ino, name |-> last]
<1>1. r = IF fNone THEN none ELSE in
  BY Zenon DEF RedPathToName
<1>2. WalkGood(v, whole)
  BY WalkIs DEF PathNames
<1>3. ~fNone => WalkGood(v, front) /\ last \in Names \cup LongNames
  <2>. SUFFICES ASSUME ~fNone PROVE WalkGood(v, front) /\ last \in Names \cup LongNames
    OBVIOUS
  <2>1. Front(names) \in PathNames /\ last \in Names \cup LongNames \cup {".", ".."}
    BY DEF PathNames, Front, Last
  <2>2. last \in Names \cup LongNames
    BY <2>1 DEF IsName
  <2>. QED  BY <2>1, <2>2, WalkIs DEF PathNames
<1>. HIDE DEF whole, front, last, noName, fNone, r
<1>4. /\ r.ret \in WalkStatuses \cup {rootDirError}
      /\ r.ret = "OK" /\ rootDirError # "OK" => v.fMounted /\ Named(v, r.p) /\ r.name \in Names \cup LongNames
      /\ r.ret \notin WalkStatuses => v.fMounted
  <2>1. CASE fNone
    <3>1. r.ret = IF whole.ret # "OK" THEN whole.ret ELSE IF whole.ino = ROOT THEN rootDirError ELSE "EINVAL"
      BY <1>1, <2>1
    <3>. QED  BY <1>2, <3>1 DEF WalkGood, WalkStatuses
  <2>2. CASE ~fNone
    <3>1. r.ret = front.ret /\ r.p = front.ino /\ r.name = last
      BY <1>1, <2>2
    <3>. QED  BY <1>3, <2>2, <3>1 DEF WalkGood
  <2>. QED  BY <2>1, <2>2
<1>. QED  BY <1>4 DEF r

\* The forms of what the resolution of a last name returns.
LEMMA PathToNameShape ==
  ASSUME NEW v, NEW dir, NEW names, NEW rootDirError, NEW r, r = RedPathToName(v, dir, names, rootDirError)
  PROVE  r = [ret |-> r.ret, p |-> r.p, name |-> r.name]
<1>. DEFINE whole == PathWalk(v, dir, names, FALSE)
            front == PathWalk(v, dir, Front(names), FALSE)
            noName == ""
            err == IF whole.ret # "OK" THEN whole.ret ELSE IF whole.ino = ROOT THEN rootDirError ELSE "EINVAL"
            none == [ret |-> err, p |-> whole.ino, name |-> noName]
            in == [ret |-> front.ret, p |-> front.ino, name |-> Last(names)]
<1>1. r = none \/ r = in
  BY Zenon DEF RedPathToName
<1>. HIDE DEF whole, front, noName, err
<1>. QED  BY <1>1

\* A set with 0 and with the successors of its members has all numbers up to a bound.
LEMMA Counting ==
  ASSUME NEW m \in Nat, NEW S, 0 \in S, \A n \in 1 .. m : n - 1 \in S => n \in S
  PROVE  \A n \in 0 .. m : n \in S
<1>. DEFINE Bad == {n \in 0 .. m : n \notin S}
<1>. SUFFICES ASSUME Bad # {} PROVE FALSE
  OBVIOUS
<1>1. Bad \subseteq Nat
  OBVIOUS
<1>2. PICK k \in Bad : \A j \in Bad : k <= j
  BY <1>1, LeastMember
<1>3. k \in 1 .. m /\ k - 1 \in 0 .. m /\ ~(k <= k - 1)
  BY <1>2
<1>4. k - 1 \in S
  BY <1>2, <1>3
<1>. QED  BY <1>2, <1>3, <1>4

\* Finitely many numbers have a bound.
LEMMA FiniteBound ==
  ASSUME NEW S \in SUBSET Nat, IsFiniteSet(S)
  PROVE  \E b \in Nat : \A x \in S : x <= b
<1>. DEFINE Bounded(T) == \E b \in Nat : \A x \in T : x <= b
            Bad == {n \in Nat : \E T \in SUBSET Nat : IsFiniteSet(T) /\ Cardinality(T) = n /\ ~Bounded(T)}
<1>0. Cardinality(S) \in Nat
  BY FS_CardinalityType
<1>. SUFFICES ASSUME Bad # {} PROVE FALSE
  BY <1>0
<1>1. PICK k \in Bad : \A j \in Bad : k <= j
  BY LeastMember
<1>2. PICK T \in SUBSET Nat : IsFiniteSet(T) /\ Cardinality(T) = k /\ ~Bounded(T)
  BY <1>1
<1>3. T # {}
  BY <1>2
<1>4. PICK x \in T : TRUE
  BY <1>3
<1>5. PICK U : U = T \ {x}
  OBVIOUS
<1>6. U \in SUBSET Nat /\ IsFiniteSet(U) /\ Cardinality(U) = k - 1
  BY <1>2, <1>4, <1>5, FS_RemoveElement
<1>7. Cardinality(U) \in Nat /\ ~(k <= k - 1)
  BY <1>1, <1>6, FS_CardinalityType
<1>8. Bounded(U)
  <2>. HIDE DEF Bounded
  <2>. QED  BY <1>1, <1>6, <1>7
<1>9. PICK b \in Nat : \A y \in U : y <= b
  BY <1>8
<1>10. \A y \in T : y <= b + x
  BY <1>2, <1>4, <1>5, <1>9
<1>11. b + x \in Nat
  BY <1>2, <1>4, <1>9
<1>. QED  BY <1>2, <1>10, <1>11

\* Where a loop over a table ends.
LEMMA EndIs ==
  ASSUME NEW S \in SUBSET Nat, IsFiniteSet(S), NEW m, m = Max({0} \cup {i + 1 : i \in S})
  PROVE  m \in Nat /\ \A i \in S : i + 1 <= m
<1>. DEFINE A == {0} \cup {i + 1 : i \in S}
<1>1. PICK b \in Nat : \A x \in S : x <= b
  BY FiniteBound
<1>2. A \subseteq Nat /\ 0 \in A /\ \A x \in A : x <= b + 1
  BY <1>1
<1>. DEFINE Upper == {u \in Nat : \A x \in A : x <= u}
<1>3. b + 1 \in Upper
  BY <1>1, <1>2
<1>4. PICK u \in Upper : \A w \in Upper : u <= w
  BY <1>3, LeastMember
<1>5. u \in A
  <2>. SUFFICES ASSUME u \notin A PROVE FALSE
    OBVIOUS
  <2>. HIDE DEF A
  <2>1. u \in Nat /\ u # 0
    BY <1>2, <1>4
  <2>2. \A x \in A : x <= u /\ x # u /\ x \in Nat
    BY <1>2, <1>4
  <2>3. u - 1 \in Upper
    BY <2>1, <2>2
  <2>. QED  BY <1>4, <2>1, <2>3
<1>. HIDE DEF A
<1>6. \A x \in A : u >= x /\ x \in Nat
  BY <1>2, <1>4
<1>7. \E x \in A : \A y \in A : x >= y
  BY <1>5, <1>6
<1>8. m = CHOOSE x \in A : \A y \in A : x >= y
  BY DEF Max, A
<1>9. m \in A /\ \A y \in A : m >= y
  BY <1>7, <1>8
<1>. QED  BY <1>2, <1>9 DEF A

-----------------------------------------------------------------------------
(* The users of open inodes: handles and tasks.                            *)

OpenEntries == [uRefs : Nat \ {0}, fOrphan : BOOLEAN]

UserIds == ({0} \X Handles) \cup ({1} \X Slots)
HandleUser(h) == <<0, h>>
SlotUser(i) == <<1, i>>

\* What each of them uses.
Uses(s) ==
  [u \in UserIds |-> IF u[1] = 0 THEN s.gaHandle[u[2]].pOpenIno ELSE s.gaTask[u[2]].pCwd]

UsersOf(k, key) == Cardinality({u \in UserIds : k[u] = key})

\* The references of the open inodes are their users.
RefsExact(k, table) ==
  \A key \in Keys : UsersOf(k, key) = IF key \in DOMAIN table THEN table[key].uRefs ELSE 0

Table(table) == DOMAIN table \subseteq Keys /\ \A key \in DOMAIN table : table[key] \in OpenEntries

\* There are finitely many handles, slots and users.
LEMMA UserIdsFinite ==
  /\ IsFiniteSet(UserIds) /\ IsFiniteSet(Handles) /\ IsFiniteSet(Slots)
  /\ \A S \in SUBSET UserIds : IsFiniteSet(S) /\ Cardinality(S) \in Nat
<1>1. IsFiniteSet(Handles) /\ IsFiniteSet(Slots)
  BY PosixAssumption
<1>2. IsFiniteSet({0}) /\ IsFiniteSet({1})
  BY FS_Singleton
<1>3. IsFiniteSet({0} \X Handles) /\ IsFiniteSet({1} \X Slots)
  BY <1>1, <1>2, FS_Product
<1>4. IsFiniteSet(UserIds)
  BY <1>3, FS_Union DEF UserIds
<1>. QED  BY <1>1, <1>4, FS_Subset, FS_CardinalityType

\* No inode is the pointer that is none.
LEMMA NullIs ==
  NULL \notin Keys
BY DEF NULL, Keys

\* Every user is one handle or one task.
LEMMA UsersNamed ==
  /\ \A h \in Handles : HandleUser(h) \in UserIds
  /\ \A i \in Slots : SlotUser(i) \in UserIds
  /\ \A h, i : HandleUser(h) # SlotUser(i)
  /\ \A h, g : HandleUser(h) = HandleUser(g) => h = g
  /\ \A h, g : SlotUser(h) = SlotUser(g) => h = g
  /\ \A u \in UserIds : (\E h \in Handles : u = HandleUser(h)) \/ (\E i \in Slots : u = SlotUser(i))
BY DEF UserIds, HandleUser, SlotUser

\* What a handle or a task uses.
LEMMA UsesIs ==
  ASSUME NEW s
  PROVE  /\ \A h \in Handles : Uses(s)[HandleUser(h)] = s.gaHandle[h].pOpenIno
         /\ \A i \in Slots : Uses(s)[SlotUser(i)] = s.gaTask[i].pCwd
         /\ DOMAIN Uses(s) = UserIds
BY DEF Uses, UserIds, HandleUser, SlotUser

\* One user goes from one key to another.
LEMMA CountMoves ==
  ASSUME NEW k, NEW l, NEW u \in UserIds, \A x \in UserIds : x # u => l[x] = k[x], NEW key
  PROVE  /\ l[u] = key /\ k[u] # key => UsersOf(l, key) = UsersOf(k, key) + 1
         /\ l[u] # key /\ k[u] = key => UsersOf(l, key) = UsersOf(k, key) - 1
         /\ (l[u] = key <=> k[u] = key) => UsersOf(l, key) = UsersOf(k, key)
<1>. DEFINE A == {x \in UserIds : k[x] = key}
            B == {x \in UserIds : l[x] = key}
<1>1. A \in SUBSET UserIds /\ B \in SUBSET UserIds
  OBVIOUS
<1>2. IsFiniteSet(A) /\ IsFiniteSet(B) /\ Cardinality(A) \in Nat /\ Cardinality(B) \in Nat
  BY <1>1, UserIdsFinite
<1>3. l[u] = key /\ k[u] # key => B = A \cup {u} /\ u \notin A
  OBVIOUS
<1>4. l[u] # key /\ k[u] = key => B = A \ {u} /\ u \in A
  OBVIOUS
<1>5. (l[u] = key <=> k[u] = key) => B = A
  OBVIOUS
<1>. HIDE DEF A, B
<1>. QED  BY <1>2, <1>3, <1>4, <1>5, FS_AddElement, FS_RemoveElement DEF A, B, UsersOf

TableWith(table, key) ==
  IF key \in DOMAIN table THEN [table EXCEPT ![key].uRefs = @ + 1]
  ELSE [x \in DOMAIN table \cup {key} |-> IF x = key THEN [uRefs |-> 1, fOrphan |-> FALSE] ELSE table[x]]

TableLess(table, key) ==
  IF table[key].uRefs > 1 THEN [table EXCEPT ![key].uRefs = @ - 1] ELSE Without(table, key)

RefLess(l, table, key, t) ==
  /\ key \in DOMAIN table
  /\ Table(t) /\ RefsExact(l, t) /\ DOMAIN t \subseteq DOMAIN table
  /\ \A x \in DOMAIN t : t[x].fOrphan = table[x].fOrphan
  /\ ~(table[key].uRefs > 1) => /\ \A x \in UserIds : l[x] # key
                                /\ DOMAIN t = DOMAIN table \ {key}

RefMore(l, table, key, t) ==
  /\ Table(t) /\ RefsExact(l, t) /\ DOMAIN t = DOMAIN table \cup {key}
  /\ \A x \in DOMAIN table : t[x].fOrphan = table[x].fOrphan
  /\ key \notin DOMAIN table => t[key].fOrphan = FALSE

\* A reference more, of a user that had none: the references are exact again.
LEMMA RefAdded ==
  ASSUME NEW k, NEW table, Table(table), RefsExact(k, table), NEW key \in Keys,
         NEW u \in UserIds, k[u] = NULL, NEW l, l[u] = key, \A x \in UserIds : x # u => l[x] = k[x]
  PROVE  RefMore(l, table, key, TableWith(table, key))
<1>. DEFINE t == TableWith(table, key)
<1>0. \A x : /\ l[u] = x /\ k[u] # x => UsersOf(l, x) = UsersOf(k, x) + 1
             /\ l[u] # x /\ k[u] = x => UsersOf(l, x) = UsersOf(k, x) - 1
             /\ (l[u] = x <=> k[u] = x) => UsersOf(l, x) = UsersOf(k, x)
  BY CountMoves, ZenonT(30)
<1>1. key # NULL
  BY NullIs
<1>2. \A x \in Keys : UsersOf(l, x) = UsersOf(k, x) + (IF x = key THEN 1 ELSE 0)
  <2>. SUFFICES ASSUME NEW x \in Keys PROVE UsersOf(l, x) = UsersOf(k, x) + (IF x = key THEN 1 ELSE 0)
    OBVIOUS
  <2>1. x # NULL
    BY NullIs
  <2>2. UsersOf(k, x) \in Nat
    BY UserIdsFinite DEF UsersOf
  <2>3. CASE x = key
    <3>1. l[u] = x /\ k[u] # x
      BY <1>1, <2>3
    <3>2. UsersOf(l, x) = UsersOf(k, x) + 1
      BY <1>0, <3>1
    <3>. QED  BY <2>2, <2>3, <3>2
  <2>4. CASE x # key
    <3>0. l[u] # x /\ k[u] # x
      BY <2>1, <2>4
    <3>1. UsersOf(l, x) = UsersOf(k, x)
      BY <1>0, <3>0
    <3>. QED  BY <2>2, <2>4, <3>1
  <2>. QED  BY <2>3, <2>4
<1>3. \A x \in Keys : UsersOf(k, x) = IF x \in DOMAIN table THEN table[x].uRefs ELSE 0
  BY DEF RefsExact
<1>4. CASE key \in DOMAIN table
  <2>1. t = [table EXCEPT ![key].uRefs = @ + 1]
    BY <1>4 DEF TableWith
  <2>. HIDE DEF t
  <2>2. DOMAIN t = DOMAIN table /\ \A x \in DOMAIN table : x # key => t[x] = table[x]
    BY <2>1
  <2>3. table[key] \in OpenEntries
    BY <1>4 DEF Table
  <2>4. t[key] \in OpenEntries /\ t[key].uRefs = table[key].uRefs + 1 /\ t[key].fOrphan = table[key].fOrphan
    BY <1>4, <2>1, <2>3 DEF OpenEntries
  <2>5. Table(t)
    BY <2>2, <2>4 DEF Table
  <2>6. \A x \in Keys : UsersOf(l, x) = IF x \in DOMAIN t THEN t[x].uRefs ELSE 0
    <3>. SUFFICES ASSUME NEW x \in Keys PROVE UsersOf(l, x) = IF x \in DOMAIN t THEN t[x].uRefs ELSE 0
      OBVIOUS
    <3>1. CASE x = key
      BY <1>2, <1>3, <1>4, <2>2, <2>4, <3>1
    <3>2. CASE x # key
      <4>1. x \in DOMAIN table => table[x].uRefs \in Nat
        BY DEF Table, OpenEntries
      <4>. QED  BY <1>2, <1>3, <2>2, <3>2, <4>1
    <3>. QED  BY <3>1, <3>2
  <2>7. DOMAIN t = DOMAIN table \cup {key} /\ \A x \in DOMAIN table : t[x].fOrphan = table[x].fOrphan
    BY <1>4, <2>2, <2>4
  <2>. QED  BY <1>4, <2>5, <2>6, <2>7 DEF t, RefsExact, RefMore
<1>5. CASE key \notin DOMAIN table
  <2>1. t = [x \in DOMAIN table \cup {key} |-> IF x = key THEN [uRefs |-> 1, fOrphan |-> FALSE] ELSE table[x]]
    BY <1>5 DEF TableWith
  <2>. HIDE DEF t
  <2>2. DOMAIN t = DOMAIN table \cup {key} /\ \A x \in DOMAIN table : t[x] = table[x]
    BY <1>5, <2>1
  <2>3. t[key] \in OpenEntries /\ t[key].uRefs = 1 /\ t[key].fOrphan = FALSE
    BY <2>1 DEF OpenEntries
  <2>4. Table(t)
    BY <2>2, <2>3 DEF Table
  <2>5. \A x \in Keys : UsersOf(l, x) = IF x \in DOMAIN t THEN t[x].uRefs ELSE 0
    <3>. SUFFICES ASSUME NEW x \in Keys PROVE UsersOf(l, x) = IF x \in DOMAIN t THEN t[x].uRefs ELSE 0
      OBVIOUS
    <3>1. CASE x = key
      BY <1>2, <1>3, <1>5, <2>2, <2>3, <3>1
    <3>2. CASE x # key
      <4>1. x \in DOMAIN table => table[x].uRefs \in Nat
        BY DEF Table, OpenEntries
      <4>. QED  BY <1>2, <1>3, <2>2, <3>2, <4>1
    <3>. QED  BY <3>1, <3>2
  <2>. QED  BY <2>2, <2>3, <2>4, <2>5 DEF t, RefsExact, RefMore
<1>. QED  BY <1>4, <1>5

\* A reference fewer: the references are exact again, and the last one takes the entry away.
LEMMA RefDropped ==
  ASSUME NEW k, NEW table, Table(table), RefsExact(k, table), NEW key \in Keys,
         NEW u \in UserIds, k[u] = key, NEW l, l[u] = NULL, \A x \in UserIds : x # u => l[x] = k[x]
  PROVE  RefLess(l, table, key, TableLess(table, key))
<1>. DEFINE t == TableLess(table, key)
<1>0. \A x : /\ l[u] = x /\ k[u] # x => UsersOf(l, x) = UsersOf(k, x) + 1
             /\ l[u] # x /\ k[u] = x => UsersOf(l, x) = UsersOf(k, x) - 1
             /\ (l[u] = x <=> k[u] = x) => UsersOf(l, x) = UsersOf(k, x)
  BY CountMoves, ZenonT(30)
<1>1. key # NULL
  BY NullIs
<1>2. \A x \in Keys : /\ UsersOf(l, x) = UsersOf(k, x) - (IF x = key THEN 1 ELSE 0)
                      /\ UsersOf(l, x) \in Nat /\ UsersOf(k, x) \in Nat
  <2>. SUFFICES ASSUME NEW x \in Keys PROVE /\ UsersOf(l, x) = UsersOf(k, x) - (IF x = key THEN 1 ELSE 0)
                                            /\ UsersOf(l, x) \in Nat /\ UsersOf(k, x) \in Nat
    OBVIOUS
  <2>1. x # NULL
    BY NullIs
  <2>2. UsersOf(k, x) \in Nat /\ UsersOf(l, x) \in Nat
    BY UserIdsFinite DEF UsersOf
  <2>3. CASE x = key
    <3>0. l[u] # x /\ k[u] = x
      BY <1>1, <2>3
    <3>1. UsersOf(l, x) = UsersOf(k, x) - 1
      BY <1>0, <3>0
    <3>. QED  BY <2>2, <2>3, <3>1
  <2>4. CASE x # key
    <3>0. l[u] # x /\ k[u] # x
      BY <2>1, <2>4
    <3>1. UsersOf(l, x) = UsersOf(k, x)
      BY <1>0, <3>0
    <3>. QED  BY <2>2, <2>4, <3>1
  <2>. QED  BY <2>3, <2>4
<1>3. \A x \in Keys : UsersOf(k, x) = IF x \in DOMAIN table THEN table[x].uRefs ELSE 0
  BY DEF RefsExact
<1>4. UsersOf(l, key) = 0 => \A x \in UserIds : l[x] # key
  <2>1. {x \in UserIds : l[x] = key} \in SUBSET UserIds
    OBVIOUS
  <2>2. IsFiniteSet({x \in UserIds : l[x] = key})
    BY <2>1, UserIdsFinite
  <2>3. UsersOf(l, key) = 0 => {x \in UserIds : l[x] = key} = {}
    BY <2>2, FS_EmptySet DEF UsersOf
  <2>. QED  BY <2>3
<1>5. key \in DOMAIN table
  BY <1>2, <1>3
<1>6. table[key] \in OpenEntries /\ \A x \in DOMAIN table : table[x].uRefs \in Nat
  BY <1>5 DEF Table, OpenEntries
<1>7. CASE table[key].uRefs > 1
  <2>1. t = [table EXCEPT ![key].uRefs = @ - 1]
    BY <1>7 DEF TableLess
  <2>. HIDE DEF t
  <2>2. DOMAIN t = DOMAIN table /\ \A x \in DOMAIN table : x # key => t[x] = table[x]
    BY <2>1
  <2>3. t[key] \in OpenEntries /\ t[key].uRefs = table[key].uRefs - 1 /\ t[key].fOrphan = table[key].fOrphan
    BY <1>5, <1>6, <1>7, <2>1 DEF OpenEntries
  <2>4. Table(t)
    BY <2>2, <2>3 DEF Table
  <2>5. \A x \in Keys : UsersOf(l, x) = IF x \in DOMAIN t THEN t[x].uRefs ELSE 0
    <3>. SUFFICES ASSUME NEW x \in Keys PROVE UsersOf(l, x) = IF x \in DOMAIN t THEN t[x].uRefs ELSE 0
      OBVIOUS
    <3>1. CASE x = key
      BY <1>2, <1>3, <1>5, <2>2, <2>3, <3>1
    <3>2. CASE x # key
      BY <1>2, <1>3, <1>6, <2>2, <3>2
    <3>. QED  BY <3>1, <3>2
  <2>6. \A x \in DOMAIN t : t[x].fOrphan = table[x].fOrphan
    BY <1>5, <2>2, <2>3
  <2>. QED  BY <1>5, <1>7, <2>2, <2>4, <2>5, <2>6 DEF t, RefLess, RefsExact
<1>8. CASE ~(table[key].uRefs > 1)
  <2>1. t = [x \in DOMAIN table \ {key} |-> table[x]]
    BY <1>8 DEF TableLess, Without
  <2>. HIDE DEF t
  <2>2. DOMAIN t = DOMAIN table \ {key} /\ \A x \in DOMAIN t : t[x] = table[x]
    BY <2>1
  <2>3. table[key].uRefs = 1
    BY <1>6, <1>8 DEF OpenEntries
  <2>4. Table(t)
    BY <2>2 DEF Table
  <2>5. \A x \in Keys : UsersOf(l, x) = IF x \in DOMAIN t THEN t[x].uRefs ELSE 0
    <3>. SUFFICES ASSUME NEW x \in Keys PROVE UsersOf(l, x) = IF x \in DOMAIN t THEN t[x].uRefs ELSE 0
      OBVIOUS
    <3>1. CASE x = key
      BY <1>2, <1>3, <1>5, <2>2, <2>3, <3>1
    <3>2. CASE x # key
      BY <1>2, <1>3, <1>6, <2>2, <3>2
    <3>. QED  BY <3>1, <3>2
  <2>6. \A x \in UserIds : l[x] # key
    BY <1>2, <1>3, <1>4, <1>5, <2>3
  <2>. QED  BY <1>5, <2>2, <2>4, <2>5, <2>6 DEF t, RefLess, RefsExact
<1>. QED  BY <1>7, <1>8


\* There are as many open inodes as there can be users.
LEMMA UsersRoom ==
  Cardinality(UserIds) = OPEN_INODE_COUNT
<1>1. IsFiniteSet({0}) /\ IsFiniteSet({1}) /\ Cardinality({0}) = 1 /\ Cardinality({1}) = 1
  BY FS_Singleton
<1>2. Cardinality(Handles) \in Nat /\ Cardinality(Slots) \in Nat
  BY UserIdsFinite, FS_CardinalityType
<1>3. IsFiniteSet({0} \X Handles) /\ Cardinality({0} \X Handles) = Cardinality({0}) * Cardinality(Handles)
  BY <1>1, UserIdsFinite, FS_Product
<1>4. IsFiniteSet({1} \X Slots) /\ Cardinality({1} \X Slots) = Cardinality({1}) * Cardinality(Slots)
  BY <1>1, UserIdsFinite, FS_Product
<1>5. ({0} \X Handles) \cap ({1} \X Slots) = {}
  OBVIOUS
<1>6. Cardinality(({0} \X Handles) \cap ({1} \X Slots)) = 0
  BY <1>5, FS_EmptySet
<1>7. Cardinality(UserIds) = Cardinality({0} \X Handles) + Cardinality({1} \X Slots) - 0
  BY <1>3, <1>4, <1>6, FS_Union DEF UserIds
<1>8. Cardinality({0} \X Handles) = Cardinality(Handles) /\ Cardinality({1} \X Slots) = Cardinality(Slots)
  <2>1. \A n \in Nat : 1 * n = n
    OBVIOUS
  <2>. QED  BY <1>1, <1>2, <1>3, <1>4, <2>1
<1>. QED  BY <1>2, <1>7, <1>8 DEF OPEN_INODE_COUNT

\* As long as a user has no inode, there is a slot for one (OpenInoFind).
LEMMA RoomIs ==
  ASSUME NEW k, NEW table, Table(table), RefsExact(k, table)
  PROVE  /\ IsFiniteSet(DOMAIN table) /\ Cardinality(DOMAIN table) <= OPEN_INODE_COUNT
         /\ \A u \in UserIds : k[u] = NULL => Cardinality(DOMAIN table) < OPEN_INODE_COUNT
<1>. DEFINE D == DOMAIN table
            f == [key \in D |-> CHOOSE u \in UserIds : k[u] = key]
<1>1. \A key \in D : \E u \in UserIds : k[u] = key
  <2>. SUFFICES ASSUME NEW key \in D, \A u \in UserIds : k[u] # key PROVE FALSE
    OBVIOUS
  <2>1. {u \in UserIds : k[u] = key} = {}
    OBVIOUS
  <2>2. UsersOf(k, key) = 0
    BY <2>1, FS_EmptySet DEF UsersOf
  <2>3. UsersOf(k, key) = table[key].uRefs /\ table[key].uRefs \in Nat \ {0}
    BY DEF RefsExact, Table, OpenEntries
  <2>. QED  BY <2>2, <2>3
<1>2. \A key \in D : f[key] \in UserIds /\ k[f[key]] = key /\ key # NULL
  BY <1>1, NullIs DEF Table
<1>3. DOMAIN f = D /\ f \in [D -> UserIds]
  BY <1>2
<1>. HIDE DEF f, D
<1>4. f \in Injection(D, UserIds)
  BY <1>2, <1>3 DEF Injection, IsInjective
<1>5. IsFiniteSet(D) /\ Cardinality(D) <= Cardinality(UserIds)
  BY <1>4, UserIdsFinite, FS_Injection
<1>6. ASSUME NEW u \in UserIds, k[u] = NULL PROVE Cardinality(D) < Cardinality(UserIds)
  <2>1. f \in [D -> UserIds \ {u}]
    BY <1>2, <1>3, <1>6
  <2>2. f \in Injection(D, UserIds \ {u})
    BY <2>1, <1>2 DEF Injection, IsInjective
  <2>3. IsFiniteSet(UserIds \ {u}) /\ Cardinality(UserIds \ {u}) = Cardinality(UserIds) - 1
    BY UserIdsFinite, FS_RemoveElement
  <2>4. Cardinality(D) <= Cardinality(UserIds) - 1
    BY <2>2, <2>3, FS_Injection
  <2>. QED  BY <1>5, <2>4, UserIdsFinite, FS_CardinalityType
<1>. QED  BY <1>5, <1>6, UsersRoom DEF D

-----------------------------------------------------------------------------
(* Sound states of the driver.                                             *)

Fields == {"gfPosixInited", "gbRedVolNum", "vol", "gaHandle", "gaOpenInos", "gaTask", "gauGeneration"}

\* t is s but for some fields.
Frame(s, t, F) == DOMAIN s = Fields /\ DOMAIN t = Fields /\ \A x \in Fields \ F : t[x] = s[x]

HandleRecord(r) ==
  /\ DOMAIN r = {"pOpenIno", "bFlags", "ulDirPosition", "fildes"} /\ r.pOpenIno \in Keys \cup {NULL}
  /\ r.ulDirPosition \in Nat

TaskRecord(r) == DOMAIN r = {"ulTaskId", "pCwd"} /\ r.pCwd \in Keys \cup {NULL}

Tables(s) ==
  /\ DOMAIN s = Fields
  /\ s.gfPosixInited \in BOOLEAN /\ s.gbRedVolNum \in Volumes
  /\ DOMAIN s.vol = Volumes /\ \A n \in Volumes : VolumeGood(s.vol[n])
  /\ DOMAIN s.gaHandle = Handles /\ \A h \in Handles : HandleRecord(s.gaHandle[h])
  /\ Table(s.gaOpenInos)
  /\ DOMAIN s.gaTask = Slots /\ \A i \in Slots : TaskRecord(s.gaTask[i])
  /\ s.gauGeneration \in [Volumes -> 0 .. FD_GEN_MAX]

InUseAs(v, i, type) == v.fMounted /\ Exists(v, i) /\ i \notin v.defunct /\ v.node[i].type = type

HandleGood(s, h) ==
  LET key == s.gaHandle[h].pOpenIno
  IN  key # NULL => /\ InUseAs(s.vol[key[1]], key[2], HandleType(s, h))
                    /\ s.gaHandle[h].fildes = FildesPack(s, h, key[1])

TaskGood(s, i) ==
  LET key == s.gaTask[i].pCwd
  IN  /\ s.gfPosixInited => key # NULL
      /\ key # NULL => key[2] = ROOT \/ InUseAs(s.vol[key[1]], key[2], "DIR")

\* By a handle, or by a task that is not in a slot of X.
InUseBy(s, X, key) == \E u \in UserIds : Uses(s)[u] = key /\ \A i \in X : u # SlotUser(i)

MarkGood(s, X, key) ==
  /\ key[2] = ROOT => ~s.gaOpenInos[key].fOrphan
  /\ ~SameNameRenames /\ s.vol[key[1]].fMounted /\ InUseBy(s, X, key) =>
       (s.gaOpenInos[key].fOrphan <=> key[2] \in s.vol[key[1]].orphans)

\* But for the working directories of X, which are about to change.
Sound(s, X) ==
  /\ Tables(s)
  /\ \A h \in Handles : HandleGood(s, h)
  /\ \A i \in Slots \ X : TaskGood(s, i)
  /\ RefsExact(Uses(s), s.gaOpenInos)
  /\ \A key \in DOMAIN s.gaOpenInos : MarkGood(s, X, key)
  /\ \A n \in Volumes : s.vol[n].fMounted => s.gauGeneration[n] >= 1

\* What is the same where only some fields change.
LEMMA FrameIs ==
  ASSUME NEW s, NEW t, NEW F, Frame(s, t, F)
  PROVE  /\ "gfPosixInited" \notin F => t.gfPosixInited = s.gfPosixInited
         /\ "gbRedVolNum" \notin F => t.gbRedVolNum = s.gbRedVolNum
         /\ "vol" \notin F => t.vol = s.vol
         /\ "gaHandle" \notin F => t.gaHandle = s.gaHandle
         /\ "gaOpenInos" \notin F => t.gaOpenInos = s.gaOpenInos
         /\ "gaTask" \notin F => t.gaTask = s.gaTask
         /\ "gauGeneration" \notin F => t.gauGeneration = s.gauGeneration
         /\ DOMAIN s = Fields /\ DOMAIN t = Fields
BY DEF Frame, Fields

\* Only the volumes change.
LEMMA VolFrame ==
  ASSUME NEW s, NEW t, DOMAIN s = Fields, DOMAIN t = Fields, t.gfPosixInited = s.gfPosixInited,
         t.gbRedVolNum = s.gbRedVolNum, t.gaHandle = s.gaHandle, t.gaOpenInos = s.gaOpenInos,
         t.gaTask = s.gaTask, t.gauGeneration = s.gauGeneration
  PROVE  Frame(s, t, {"vol"})
BY DEF Frame, Fields

\* The users are those of the handles and the tasks.
LEMMA SameUses ==
  ASSUME NEW s, NEW t, t.gaHandle = s.gaHandle, t.gaTask = s.gaTask
  PROVE  Uses(t) = Uses(s) /\ \A X, key : InUseBy(t, X, key) <=> InUseBy(s, X, key)
<1>1. Uses(t) = Uses(s)
  BY DEF Uses
<1>. QED  BY <1>1 DEF InUseBy

\* An inode in use is a root, or exists on a mounted volume.
LEMMA UserGood ==
  ASSUME NEW s, NEW X, Sound(s, X), NEW key \in Keys, InUseBy(s, X, key)
  PROVE  key[2] = ROOT \/ \E type : InUseAs(s.vol[key[1]], key[2], type)
<1>1. PICK u \in UserIds : Uses(s)[u] = key /\ \A i \in X : u # SlotUser(i)
  BY DEF InUseBy
<1>2. key # NULL
  BY NullIs
<1>3. ASSUME NEW h \in Handles, u = HandleUser(h) PROVE \E type : InUseAs(s.vol[key[1]], key[2], type)
  <2>1. s.gaHandle[h].pOpenIno = key
    BY <1>1, <1>3, UsesIs
  <2>. QED  BY <1>2, <2>1 DEF Sound, HandleGood
<1>4. ASSUME NEW i \in Slots, u = SlotUser(i) PROVE key[2] = ROOT \/ InUseAs(s.vol[key[1]], key[2], "DIR")
  <2>1. s.gaTask[i].pCwd = key /\ i \notin X
    BY <1>1, <1>4, UsesIs
  <2>. QED  BY <1>2, <2>1 DEF Sound, TaskGood
<1>. QED  BY <1>3, <1>4, UsersNamed

\* A call that changes the volume n, where no inode of Y is in use.
LEMMA VolStep ==
  ASSUME NEW s, NEW X, Sound(s, X), NEW t, Frame(s, t, {"vol"}), NEW n \in Volumes, NEW Y, Keeps(s.vol[n], t.vol[n], Y),
         DOMAIN t.vol = Volumes, \A m \in Volumes \ {n} : t.vol[m] = s.vol[m],
         \A i \in Y : ~InUseBy(s, X, <<n, i>>)
  PROVE  Sound(t, X)
<1>0. /\ t.gfPosixInited = s.gfPosixInited /\ t.gbRedVolNum = s.gbRedVolNum /\ t.gaHandle = s.gaHandle
      /\ t.gaOpenInos = s.gaOpenInos /\ t.gaTask = s.gaTask /\ t.gauGeneration = s.gauGeneration /\ DOMAIN t = Fields
  BY FrameIs
<1>1. Tables(t)
  BY <1>0 DEF Sound, Tables, Keeps
<1>2. \A m \in Volumes : t.vol[m].fMounted = s.vol[m].fMounted
  BY DEF Keeps
<1>3. ASSUME NEW key \in Keys, InUseBy(s, X, key), NEW type, InUseAs(s.vol[key[1]], key[2], type)
      PROVE  /\ InUseAs(t.vol[key[1]], key[2], type)
             /\ key[2] \in t.vol[key[1]].orphans <=> key[2] \in s.vol[key[1]].orphans
  <2>0. key[1] \in Volumes /\ key[2] \in Inodes /\ key = <<key[1], key[2]>>
    BY DEF Keys
  <2>1. CASE key[1] = n
    <3>1. key[2] \in Inodes \ Y
      BY <1>3, <2>0, <2>1
    <3>. QED  BY <1>2, <1>3, <2>0, <2>1, <3>1 DEF InUseAs, Keeps, Exists
  <2>. QED  BY <1>3, <2>0, <2>1
<1>4. Uses(t) = Uses(s) /\ \A key : InUseBy(t, X, key) <=> InUseBy(s, X, key)
  BY <1>0, SameUses
<1>5. ASSUME NEW h \in Handles PROVE HandleGood(t, h)
  <2>. DEFINE key == s.gaHandle[h].pOpenIno
  <2>. SUFFICES ASSUME key # NULL PROVE HandleGood(t, h)
    BY <1>0 DEF HandleGood
  <2>1. key \in Keys
    BY DEF Sound, Tables, HandleRecord
  <2>2. InUseBy(s, X, key)
    BY UsersNamed, UsesIs DEF InUseBy
  <2>3. InUseAs(s.vol[key[1]], key[2], HandleType(s, h)) /\ s.gaHandle[h].fildes = FildesPack(s, h, key[1])
    BY DEF Sound, HandleGood
  <2>4. InUseAs(t.vol[key[1]], key[2], HandleType(s, h))
    BY <1>3, <2>1, <2>2, <2>3
  <2>. QED  BY <1>0, <2>3, <2>4 DEF HandleGood, HandleType, FildesPack
<1>6. ASSUME NEW i \in Slots \ X PROVE TaskGood(t, i)
  <2>. DEFINE key == s.gaTask[i].pCwd
  <2>0. TaskGood(s, i)
    BY DEF Sound
  <2>. SUFFICES ASSUME key # NULL, key[2] # ROOT PROVE InUseAs(t.vol[key[1]], key[2], "DIR")
    BY <1>0, <2>0 DEF TaskGood
  <2>1. key \in Keys
    BY DEF Sound, Tables, TaskRecord
  <2>2. InUseBy(s, X, key)
    BY UsersNamed, UsesIs DEF InUseBy
  <2>3. InUseAs(s.vol[key[1]], key[2], "DIR")
    BY <2>0 DEF TaskGood
  <2>. QED  BY <1>3, <2>1, <2>2, <2>3
<1>7. ASSUME NEW key \in DOMAIN t.gaOpenInos PROVE MarkGood(t, X, key)
  <2>0. key \in Keys /\ key[1] \in Volumes /\ MarkGood(s, X, key)
    BY <1>0 DEF Sound, Tables, Table, Keys
  <2>. SUFFICES ASSUME ~SameNameRenames, t.vol[key[1]].fMounted, InUseBy(t, X, key)
                PROVE  t.gaOpenInos[key].fOrphan <=> key[2] \in t.vol[key[1]].orphans
    BY <1>0, <2>0 DEF MarkGood
  <2>1. InUseBy(s, X, key) /\ s.vol[key[1]].fMounted
    BY <1>2, <1>4, <2>0
  <2>2. s.gaOpenInos[key].fOrphan <=> key[2] \in s.vol[key[1]].orphans
    BY <2>0, <2>1 DEF MarkGood
  <2>3. CASE key[2] = ROOT
    <3>1. ~s.gaOpenInos[key].fOrphan
      BY <2>0, <2>3 DEF MarkGood
    <3>2. VolumeGood(t.vol[key[1]])
      BY <1>1, <2>0 DEF Tables
    <3>3. key[2] \notin t.vol[key[1]].orphans
      BY <2>3, <3>2, RootIs DEF Named
    <3>. QED  BY <1>0, <3>1, <3>3
  <2>4. CASE key[2] # ROOT
    <3>1. PICK type : InUseAs(s.vol[key[1]], key[2], type)
      BY <2>0, <2>1, <2>4, UserGood
    <3>. QED  BY <1>0, <1>3, <2>0, <2>1, <2>2, <3>1
  <2>. QED  BY <2>3, <2>4
<1>8. \A m \in Volumes : t.vol[m].fMounted => t.gauGeneration[m] >= 1
  BY <1>0, <1>2 DEF Sound
<1>. QED  BY <1>0, <1>1, <1>4, <1>5, <1>6, <1>7, <1>8 DEF Sound

-----------------------------------------------------------------------------
(* What a call answers.                                                    *)

Stays(s, t) ==
  /\ t.gfPosixInited = s.gfPosixInited /\ t.gauGeneration = s.gauGeneration
  /\ \A n \in Volumes : /\ t.vol[n].fMounted = s.vol[n].fMounted
                        /\ s.vol[n].fReadOnly => t.vol[n].fReadOnly

FlagsSame(s, t) == \A n \in Volumes : t.vol[n].fReadOnly = s.vol[n].fReadOnly

\* A call on s, but for those that mount or unmount.
Answers(s, r) ==
  /\ Sound(r.s, {}) /\ Stays(s, r.s) /\ r.ret # "EFUBAR"
  /\ r.ret # "OK" /\ FlagsSame(s, r.s) => Seen(r.s) = Seen(s)

\* What a caller sees depends on handles, directories and names alone.
LEMMA SeenIs ==
  ASSUME NEW s, NEW t, t.gaHandle = s.gaHandle, t.gaOpenInos = s.gaOpenInos,
         \A i \in Slots : t.gaTask[i].pCwd = s.gaTask[i].pCwd,
         \A n \in Volumes : Visible(t.vol[n]) = Visible(s.vol[n])
  PROVE  Seen(t) = Seen(s)
<1>1. [i \in Slots |-> t.gaTask[i].pCwd] = [i \in Slots |-> s.gaTask[i].pCwd]
  OBVIOUS
<1>2. [n \in Volumes |-> Visible(t.vol[n])] = [n \in Volumes |-> Visible(s.vol[n])]
  OBVIOUS
<1>3. \A x : Seen(x) = [ handles |-> x.gaHandle, inos |-> x.gaOpenInos, cwds |-> [i \in Slots |-> x.gaTask[i].pCwd],
                         names |-> [n \in Volumes |-> Visible(x.vol[n])] ]
  BY DEF Seen, Visible
<1>. QED  BY <1>1, <1>2, <1>3

\* Another current volume is nothing that a caller sees.
LEMMA CurrentIs ==
  ASSUME NEW s, NEW X, Sound(s, X), NEW n \in Volumes
  PROVE  LET t == Current(s, n)
         IN  /\ Sound(t, X) /\ t.gbRedVolNum = n /\ Frame(s, t, {"gbRedVolNum"})
             /\ Stays(s, t) /\ FlagsSame(s, t) /\ Seen(t) = Seen(s)
<1>. DEFINE t == Current(s, n)
<1>1. Frame(s, t, {"gbRedVolNum"}) /\ t.gbRedVolNum = n
  BY DEF Current, Frame, Sound, Tables, Fields
<1>. HIDE DEF t
<1>2. /\ t.gfPosixInited = s.gfPosixInited /\ t.vol = s.vol /\ t.gaHandle = s.gaHandle
      /\ t.gaOpenInos = s.gaOpenInos /\ t.gaTask = s.gaTask /\ t.gauGeneration = s.gauGeneration /\ DOMAIN t = Fields
  BY <1>1, FrameIs
<1>3. Tables(t)
  BY <1>1, <1>2 DEF Sound, Tables
<1>4. Uses(t) = Uses(s) /\ \A key : InUseBy(t, X, key) <=> InUseBy(s, X, key)
  BY <1>2, SameUses
<1>5. \A h \in Handles : HandleGood(t, h)
  BY <1>2 DEF Sound, HandleGood, HandleType, FildesPack
<1>6. \A i \in Slots \ X : TaskGood(t, i)
  BY <1>2 DEF Sound, TaskGood
<1>7. \A key \in DOMAIN t.gaOpenInos : MarkGood(t, X, key)
  BY <1>2, <1>4 DEF Sound, MarkGood
<1>8. Sound(t, X)
  BY <1>2, <1>3, <1>4, <1>5, <1>6, <1>7 DEF Sound
<1>9. Stays(s, t) /\ FlagsSame(s, t)
  BY <1>2 DEF Stays, FlagsSame
<1>10. Seen(t) = Seen(s)
  BY <1>2, SeenIs
<1>. QED  BY <1>1, <1>8, <1>9, <1>10 DEF t

\* A call on the current volume changes that volume alone.
LEMMA OnVolumeIs ==
  ASSUME NEW s, Tables(s), NEW r
  PROVE  LET t == OnVolume(s, r).s
             n == s.gbRedVolNum
         IN  /\ Frame(s, t, {"vol"}) /\ DOMAIN t.vol = Volumes /\ n \in Volumes /\ t.vol[n] = r.v
             /\ \A m \in Volumes \ {n} : t.vol[m] = s.vol[m]
             /\ OnVolume(s, r).ret = r.ret /\ Vol(s) = s.vol[n] /\ Vol(t) = r.v /\ t.gbRedVolNum = n
<1>. DEFINE n == s.gbRedVolNum
            t == [s EXCEPT !.vol[n] = r.v]
<1>1. OnVolume(s, r).s = t /\ OnVolume(s, r).ret = r.ret
  BY DEF OnVolume, Returns
<1>2. DOMAIN s = Fields /\ n \in Volumes /\ DOMAIN s.vol = Volumes
  BY DEF Tables
<1>3. Frame(s, t, {"vol"}) /\ t.vol = [s.vol EXCEPT ![n] = r.v] /\ t.gbRedVolNum = n
  BY <1>2 DEF Frame, Fields
<1>. HIDE DEF t
<1>. QED  BY <1>1, <1>2, <1>3 DEF Vol

\* The result of a call on the current volume.
LEMMA VolumeAnswers ==
  ASSUME NEW s, Sound(s, {}), NEW r, NEW Y, Result(Vol(s), r, Y), \A i \in Y : ~InUseBy(s, {}, <<s.gbRedVolNum, i>>)
  PROVE  Answers(s, OnVolume(s, r)) /\ Frame(s, OnVolume(s, r).s, {"vol"})
<1>. DEFINE n == s.gbRedVolNum
            t == OnVolume(s, r).s
<1>1. /\ Frame(s, t, {"vol"}) /\ DOMAIN t.vol = Volumes /\ n \in Volumes /\ t.vol[n] = r.v
      /\ \A m \in Volumes \ {n} : t.vol[m] = s.vol[m]
      /\ OnVolume(s, r).ret = r.ret /\ Vol(s) = s.vol[n]
  BY OnVolumeIs DEF Sound
<1>. HIDE DEF t
<1>2. Sound(t, {})
  BY <1>1, VolStep DEF Result
<1>3. /\ t.gfPosixInited = s.gfPosixInited /\ t.gaHandle = s.gaHandle
      /\ t.gaOpenInos = s.gaOpenInos /\ t.gaTask = s.gaTask /\ t.gauGeneration = s.gauGeneration
  BY <1>1, FrameIs
<1>4. Stays(s, t)
  BY <1>1, <1>3 DEF Stays, Result, Keeps
<1>5. ASSUME r.ret # "OK", FlagsSame(s, t) PROVE Seen(t) = Seen(s)
  <2>1. \A m \in Volumes : Visible(t.vol[m]) = Visible(s.vol[m])
    BY <1>1, <1>5 DEF Result, FlagsSame
  <2>. QED  BY <1>3, <2>1, SeenIs
<1>6. Answers(s, OnVolume(s, r))
  BY <1>1, <1>2, <1>4, <1>5 DEF Answers, t, Result, Statuses
<1>. QED  BY <1>1, <1>6 DEF t

\* A call that is refused answers with the driver as it is.
LEMMA Refuses ==
  ASSUME NEW s, Sound(s, {}), NEW ret, ret # "EFUBAR"
  PROVE  Answers(s, Returns(ret, s))
BY DEF Answers, Returns, Stays

\* An answer after a change that nobody sees.
LEMMA AnswersAfter ==
  ASSUME NEW s, NEW t, Stays(s, t), FlagsSame(s, t), Seen(t) = Seen(s), NEW r, Answers(t, r)
  PROVE  Answers(s, r)
BY DEF Answers, Stays, FlagsSame

-----------------------------------------------------------------------------
(* A user more or less.                                                    *)

\* q is s, without the user u, and the tables but for users and references.
LEMMA DropUser ==
  ASSUME NEW s, NEW X, Sound(s, X), NEW u \in UserIds, NEW key \in Keys, Uses(s)[u] = key,
         NEW q, Uses(q)[u] = NULL, \A x \in UserIds : x # u => Uses(q)[x] = Uses(s)[x],
         q.vol = s.vol, q.gaOpenInos = TableLess(s.gaOpenInos, key), NEW Y, X \subseteq Y
  PROVE  /\ Table(q.gaOpenInos) /\ RefsExact(Uses(q), q.gaOpenInos) /\ key \in DOMAIN s.gaOpenInos
         /\ \A k \in DOMAIN q.gaOpenInos : MarkGood(q, Y, k)
         /\ ~(s.gaOpenInos[key].uRefs > 1) => ~InUseBy(q, {}, key)
<1>1. Table(s.gaOpenInos) /\ RefsExact(Uses(s), s.gaOpenInos)
  BY DEF Sound, Tables
<1>2. /\ key \in DOMAIN s.gaOpenInos
      /\ Table(q.gaOpenInos) /\ RefsExact(Uses(q), q.gaOpenInos) /\ DOMAIN q.gaOpenInos \subseteq DOMAIN s.gaOpenInos
      /\ \A x \in DOMAIN q.gaOpenInos : q.gaOpenInos[x].fOrphan = s.gaOpenInos[x].fOrphan
      /\ ~(s.gaOpenInos[key].uRefs > 1) => \A x \in UserIds : Uses(q)[x] # key
  <2>1. PICK k, l, table, less : k = Uses(s) /\ l = Uses(q) /\ table = s.gaOpenInos /\ less = TableLess(table, key)
    OBVIOUS
  <2>2. Table(table) /\ RefsExact(k, table) /\ k[u] = key /\ l[u] = NULL /\ \A x \in UserIds : x # u => l[x] = k[x]
    BY <1>1, <2>1
  <2>3. /\ key \in DOMAIN table
        /\ Table(less) /\ RefsExact(l, less) /\ DOMAIN less \subseteq DOMAIN table
        /\ \A x \in DOMAIN less : less[x].fOrphan = table[x].fOrphan
        /\ ~(table[key].uRefs > 1) => \A x \in UserIds : l[x] # key
    <3>1. RefLess(l, table, key, TableLess(table, key))
      BY ONLY key \in Keys, u \in UserIds, <2>2, RefDropped
    <3>. QED  BY <2>1, <3>1 DEF RefLess
  <2>. QED  BY <2>1, <2>3
<1>3. ASSUME NEW k \in Keys, InUseBy(q, Y, k) PROVE InUseBy(s, X, k)
  <2>1. k # NULL
    BY NullIs
  <2>. QED  BY <1>3, <2>1 DEF InUseBy
<1>4. \A k \in DOMAIN q.gaOpenInos : MarkGood(q, Y, k)
  BY <1>2, <1>3 DEF Sound, MarkGood, Table
<1>5. ~(s.gaOpenInos[key].uRefs > 1) => ~InUseBy(q, {}, key)
  BY <1>2 DEF InUseBy
<1>. QED  BY <1>2, <1>4, <1>5

\* A handle or a task with another inode: the other users have theirs.
LEMMA UsersMove ==
  ASSUME NEW s, NEW q
  PROVE  /\ \A h \in Handles : q.gaTask = s.gaTask /\ (\A g \in Handles : g # h => q.gaHandle[g] = s.gaHandle[g]) =>
              /\ Uses(q)[HandleUser(h)] = q.gaHandle[h].pOpenIno
              /\ \A x \in UserIds : x # HandleUser(h) => Uses(q)[x] = Uses(s)[x]
         /\ \A i \in Slots : q.gaHandle = s.gaHandle /\ (\A j \in Slots : j # i => q.gaTask[j] = s.gaTask[j]) =>
              /\ Uses(q)[SlotUser(i)] = q.gaTask[i].pCwd
              /\ \A x \in UserIds : x # SlotUser(i) => Uses(q)[x] = Uses(s)[x]
<1>1. ASSUME NEW h \in Handles, q.gaTask = s.gaTask, \A g \in Handles : g # h => q.gaHandle[g] = s.gaHandle[g],
             NEW x \in UserIds, x # HandleUser(h)
      PROVE  Uses(q)[x] = Uses(s)[x]
  <2>1. ASSUME NEW g \in Handles, x = HandleUser(g) PROVE Uses(q)[x] = Uses(s)[x]
    <3>1. g # h
      BY <1>1, <2>1
    <3>2. Uses(q)[HandleUser(g)] = q.gaHandle[g].pOpenIno /\ Uses(s)[HandleUser(g)] = s.gaHandle[g].pOpenIno
      BY ONLY g \in Handles, UsesIs
    <3>. QED  BY ONLY g \in Handles, <1>1, <2>1, <3>1, <3>2
  <2>2. ASSUME NEW g \in Slots, x = SlotUser(g) PROVE Uses(q)[x] = Uses(s)[x]
    <3>1. Uses(q)[SlotUser(g)] = q.gaTask[g].pCwd /\ Uses(s)[SlotUser(g)] = s.gaTask[g].pCwd
      BY ONLY g \in Slots, UsesIs
    <3>. QED  BY ONLY <1>1, <2>2, <3>1
  <2>. QED  BY <2>1, <2>2, UsersNamed
<1>2. ASSUME NEW h \in Slots, q.gaHandle = s.gaHandle, \A g \in Slots : g # h => q.gaTask[g] = s.gaTask[g],
             NEW x \in UserIds, x # SlotUser(h)
      PROVE  Uses(q)[x] = Uses(s)[x]
  <2>1. ASSUME NEW g \in Slots, x = SlotUser(g) PROVE Uses(q)[x] = Uses(s)[x]
    <3>1. g # h
      BY <1>2, <2>1
    <3>2. Uses(q)[SlotUser(g)] = q.gaTask[g].pCwd /\ Uses(s)[SlotUser(g)] = s.gaTask[g].pCwd
      BY ONLY g \in Slots, UsesIs
    <3>. QED  BY ONLY g \in Slots, <1>2, <2>1, <3>1, <3>2
  <2>2. ASSUME NEW g \in Handles, x = HandleUser(g) PROVE Uses(q)[x] = Uses(s)[x]
    <3>1. Uses(q)[HandleUser(g)] = q.gaHandle[g].pOpenIno /\ Uses(s)[HandleUser(g)] = s.gaHandle[g].pOpenIno
      BY ONLY g \in Handles, UsesIs
    <3>. QED  BY ONLY <1>2, <2>2, <3>1
  <2>. QED  BY <2>1, <2>2, UsersNamed
<1>. QED  BY <1>1, <1>2, UsesIs

\* A handle is closed, and its reference dropped.
LEMMA DropHandle ==
  ASSUME NEW s, NEW X, Sound(s, X), NEW h \in Handles, NEW key, key = s.gaHandle[h].pOpenIno, key # NULL,
         NEW q, Frame(s, q, {"gaHandle", "gaOpenInos", "gbRedVolNum"}), q.gbRedVolNum \in Volumes,
         q.gaHandle = [s.gaHandle EXCEPT ![h] = FreeHandle], q.gaOpenInos = TableLess(s.gaOpenInos, key)
  PROVE  /\ Sound(q, X) /\ key \in Keys /\ key \in DOMAIN s.gaOpenInos
         /\ ~(s.gaOpenInos[key].uRefs > 1) => ~InUseBy(q, {}, key)
<1>0. /\ q.gfPosixInited = s.gfPosixInited /\ q.vol = s.vol
      /\ q.gaTask = s.gaTask /\ q.gauGeneration = s.gauGeneration /\ DOMAIN q = Fields
  BY FrameIs
<1>1. /\ DOMAIN s.gaHandle = Handles /\ \A g \in Handles : HandleRecord(s.gaHandle[g])
  BY DEF Sound, Tables
<1>2. q.gaHandle[h] = FreeHandle /\ DOMAIN q.gaHandle = Handles /\ \A g \in Handles : g # h => q.gaHandle[g] = s.gaHandle[g]
  BY <1>1
<1>3. key \in Keys
  BY <1>1 DEF HandleRecord
<1>4. HandleRecord(FreeHandle) /\ FreeHandle.pOpenIno = NULL
  BY DEF HandleRecord, FreeHandle
<1>. PICK u \in UserIds : u = HandleUser(h)
  BY UsersNamed
<1>a. Uses(s)[u] = key
  BY UsesIs
<1>b. Uses(q)[u] = NULL /\ \A x \in UserIds : x # u => Uses(q)[x] = Uses(s)[x]
  BY <1>0, <1>2, <1>4, UsersMove
<1>5. /\ Table(q.gaOpenInos) /\ RefsExact(Uses(q), q.gaOpenInos) /\ key \in DOMAIN s.gaOpenInos
      /\ \A k \in DOMAIN q.gaOpenInos : MarkGood(q, X, k)
      /\ ~(s.gaOpenInos[key].uRefs > 1) => ~InUseBy(q, {}, key)
  BY ONLY Sound(s, X), q.gaOpenInos = TableLess(s.gaOpenInos, key), <1>0, <1>3, <1>a, <1>b, DropUser
<1>6. Tables(q)
  BY <1>0, <1>1, <1>2, <1>4, <1>5 DEF Sound, Tables
<1>7. \A g \in Handles : HandleGood(q, g)
  BY <1>0, <1>2, <1>4 DEF Sound, HandleGood, HandleType, FildesPack
<1>8. \A i \in Slots \ X : TaskGood(q, i)
  BY <1>0 DEF Sound, TaskGood
<1>. QED  BY <1>0, <1>3, <1>5, <1>6, <1>7, <1>8 DEF Sound

\* A task leaves its directory, and its reference is dropped.
LEMMA DropTask ==
  ASSUME NEW s, NEW X, Sound(s, X), NEW i \in Slots, NEW key, key = s.gaTask[i].pCwd, key # NULL,
         NEW q, Frame(s, q, {"gaTask", "gaOpenInos", "gbRedVolNum"}), q.gbRedVolNum \in Volumes,
         q.gaTask = [s.gaTask EXCEPT ![i].pCwd = NULL], q.gaOpenInos = TableLess(s.gaOpenInos, key)
  PROVE  /\ Sound(q, X \cup {i}) /\ key \in Keys /\ key \in DOMAIN s.gaOpenInos
         /\ ~(s.gaOpenInos[key].uRefs > 1) => ~InUseBy(q, {}, key)
<1>0. /\ q.gfPosixInited = s.gfPosixInited /\ q.vol = s.vol
      /\ q.gaHandle = s.gaHandle /\ q.gauGeneration = s.gauGeneration /\ DOMAIN q = Fields
  BY FrameIs
<1>1. /\ DOMAIN s.gaTask = Slots /\ \A j \in Slots : TaskRecord(s.gaTask[j])
  BY DEF Sound, Tables
<1>2. /\ q.gaTask[i].pCwd = NULL /\ DOMAIN q.gaTask[i] = {"ulTaskId", "pCwd"} /\ DOMAIN q.gaTask = Slots
      /\ \A j \in Slots : j # i => q.gaTask[j] = s.gaTask[j]
  BY <1>1 DEF TaskRecord
<1>3. key \in Keys
  BY <1>1 DEF TaskRecord
<1>. PICK u \in UserIds : u = SlotUser(i)
  BY UsersNamed
<1>a. Uses(s)[u] = key
  BY UsesIs
<1>b. Uses(q)[u] = NULL /\ \A x \in UserIds : x # u => Uses(q)[x] = Uses(s)[x]
  BY <1>0, <1>2, UsersMove
<1>c. X \subseteq X \cup {i}
  OBVIOUS
<1>4. /\ Table(q.gaOpenInos) /\ RefsExact(Uses(q), q.gaOpenInos) /\ key \in DOMAIN s.gaOpenInos
      /\ \A k \in DOMAIN q.gaOpenInos : MarkGood(q, X \cup {i}, k)
      /\ ~(s.gaOpenInos[key].uRefs > 1) => ~InUseBy(q, {}, key)
  BY ONLY Sound(s, X), q.gaOpenInos = TableLess(s.gaOpenInos, key), <1>0, <1>3, <1>a, <1>b, <1>c, DropUser
<1>5. Tables(q)
  BY <1>0, <1>1, <1>2, <1>4 DEF Sound, Tables, TaskRecord
<1>6. \A g \in Handles : HandleGood(q, g)
  BY <1>0 DEF Sound, HandleGood, HandleType, FildesPack
<1>7. \A j \in Slots \ (X \cup {i}) : TaskGood(q, j)
  BY <1>0, <1>2 DEF Sound, TaskGood
<1>. QED  BY <1>0, <1>3, <1>4, <1>5, <1>6, <1>7 DEF Sound

\* The volume of an open inode may have changed,
VolumeOf(s, key, t) ==
  /\ DOMAIN t = Fields /\ t.gbRedVolNum \in {s.gbRedVolNum, key[1]} /\ DOMAIN t.vol = Volumes
  /\ \A m \in Volumes \ {key[1]} : t.vol[m] = s.vol[m]

\* and its references are one less,
Dereferenced(s, key, t) ==
  /\ VolumeOf(s, key, t) /\ Frame(s, t, {"gbRedVolNum", "vol", "gaOpenInos"})
  /\ t.gaOpenInos = TableLess(s.gaOpenInos, key)
  /\ \E Y : /\ Keeps(s.vol[key[1]], t.vol[key[1]], Y)
            /\ Y = {} \/ (Y = {key[2]} /\ ~(s.gaOpenInos[key].uRefs > 1) /\ ~Named(s.vol[key[1]], key[2]))

\* or it could not be freed.
NotDereferenced(s, key, t) ==
  /\ VolumeOf(s, key, t) /\ Frame(s, t, {"gbRedVolNum", "vol"})
  /\ Keeps(s.vol[key[1]], t.vol[key[1]], {})
  /\ t.vol[key[1]].fReadOnly = s.vol[key[1]].fReadOnly => Visible(t.vol[key[1]]) = Visible(s.vol[key[1]])

\* What OpenInoDeref does: the reference is dropped, with the orphan freed by the last, or the volume fails.
LEMMA DerefIs ==
  ASSUME NEW s, NEW X, Sound(s, X), NEW key \in Keys, key \in DOMAIN s.gaOpenInos, NEW fDoCleanup, NEW fPropagate,
         NEW f \in {"OK", "EIO"}, NEW r, r = OpenInoDeref(s, key, fDoCleanup, fPropagate, f)
  PROVE  \/ r.ret = "OK" /\ Dereferenced(s, key, r.s)
         \/ r.ret \in Statuses \ {"OK"} /\ fPropagate /\ NotDereferenced(s, key, r.s)
<1>. DEFINE n == key[1]
            oi == s.gaOpenInos[key]
            fCleans == fDoCleanup /\ ~Vol(s).fReadOnly
            t == IF fCleans THEN Current(s, n) ELSE s
            x == RedCoreFreeOrphan(Vol(t), key[2], f)
            fFrees == fCleans /\ oi.fOrphan
            y == IF fFrees THEN OnVolume(t, x) ELSE Returns("OK", t)
            table == [s.gaOpenInos EXCEPT ![key].uRefs = @ - 1]
<1>1. Tables(s) /\ n \in Volumes /\ key[2] \in Inodes /\ DOMAIN s = Fields /\ DOMAIN s.vol = Volumes
  BY DEF Sound, Tables, Keys
<1>2. r = IF oi.uRefs > 1 THEN Returns("OK", [s EXCEPT !.gaOpenInos[key].uRefs = @ - 1])
          ELSE IF y.ret # "OK" /\ fPropagate THEN y
          ELSE Returns("OK", [y.s EXCEPT !.gaOpenInos = Without(y.s.gaOpenInos, key)])
  BY DEF OpenInoDeref
<1>3. VolumeGood(s.vol[n]) /\ Keeps(s.vol[n], s.vol[n], {})
  BY <1>1, SameKeeps DEF Tables
<1>4. Sound(t, X) /\ t.vol = s.vol /\ Frame(s, t, {"gbRedVolNum"}) /\ t.gbRedVolNum \in {s.gbRedVolNum, n}
      /\ (fCleans => t.gbRedVolNum = n)
  <2>1. Sound(Current(s, n), X) /\ Current(s, n).gbRedVolNum = n /\ Frame(s, Current(s, n), {"gbRedVolNum"})
    BY <1>1, CurrentIs
  <2>2. Frame(s, s, {"gbRedVolNum"})
    BY <1>1 DEF Frame
  <2>3. Frame(s, t, {"gbRedVolNum"})
    BY <2>1, <2>2
  <2>. QED  BY <2>1, <2>3, FrameIs
<1>. HIDE DEF t
<1>5. ASSUME fFrees
      PROVE  /\ Frame(s, y.s, {"gbRedVolNum", "vol"}) /\ y.s.gbRedVolNum = n /\ DOMAIN y.s.vol = Volumes
             /\ \A m \in Volumes \ {n} : y.s.vol[m] = s.vol[m]
             /\ y.s.vol[n] = x.v /\ y.ret = x.ret /\ Result(s.vol[n], x, {key[2]})
             /\ x.ret # "OK" \/ Named(s.vol[n], key[2]) => Result(s.vol[n], x, {})
  <2>1. y = OnVolume(t, x) /\ t.gbRedVolNum = n /\ Vol(t) = s.vol[n]
    BY <1>4, <1>5 DEF Vol
  <2>2. Result(s.vol[n], x, {key[2]}) /\ (x.ret # "OK" \/ Named(s.vol[n], key[2]) => Result(s.vol[n], x, {}))
    BY <1>1, <1>3, <2>1, FreeOrphanResult DEF Named
  <2>. HIDE DEF x
  <2>3. /\ Frame(t, OnVolume(t, x).s, {"vol"}) /\ DOMAIN OnVolume(t, x).s.vol = Volumes
        /\ OnVolume(t, x).s.vol[n] = x.v
        /\ \A m \in Volumes \ {n} : OnVolume(t, x).s.vol[m] = t.vol[m]
        /\ OnVolume(t, x).ret = x.ret /\ OnVolume(t, x).s.gbRedVolNum = n
    <3>1. Tables(t) /\ t.gbRedVolNum = n
      BY <1>4, <2>1 DEF Sound
    <3>. QED  BY ONLY <3>1, OnVolumeIs
  <2>4. Frame(s, OnVolume(t, x).s, {"gbRedVolNum", "vol"})
    BY <1>4, <2>3 DEF Frame
  <2>. QED  BY <1>4, <2>1, <2>2, <2>3, <2>4
<1>6. ~fFrees => y.ret = "OK" /\ y.s = t
  BY DEF Returns
<1>. HIDE DEF y, x, fFrees
<1>7. CASE oi.uRefs > 1
  <2>1. r.ret = "OK" /\ r.s = [s EXCEPT !.gaOpenInos = table]
    BY <1>2, <1>7 DEF Returns
  <2>2. table = TableLess(s.gaOpenInos, key)
    BY <1>7 DEF TableLess
  <2>. HIDE DEF table
  <2>3. Frame(s, r.s, {"gbRedVolNum", "vol", "gaOpenInos"}) /\ r.s.gaOpenInos = table
        /\ r.s.vol = s.vol /\ r.s.gbRedVolNum = s.gbRedVolNum /\ DOMAIN r.s = Fields
    BY <1>1, <2>1 DEF Frame, Fields
  <2>4. \E Y : /\ Keeps(s.vol[n], r.s.vol[n], Y)
               /\ Y = {} \/ (Y = {key[2]} /\ ~(oi.uRefs > 1) /\ ~Named(s.vol[n], key[2]))
    BY <1>3, <2>3
  <2>. QED  BY <1>1, <2>1, <2>2, <2>3, <2>4 DEF VolumeOf, Dereferenced
<1>8. CASE ~(oi.uRefs > 1) /\ y.ret # "OK" /\ fPropagate
  <2>1. r = y /\ fFrees
    BY <1>2, <1>6, <1>8
  <2>2. DOMAIN y.s = Fields
    BY <1>5, <2>1 DEF Frame
  <2>. QED  BY <1>5, <1>8, <2>1, <2>2 DEF Result, VolumeOf, NotDereferenced
<1>9. CASE ~(oi.uRefs > 1) /\ ~(y.ret # "OK" /\ fPropagate)
  <2>1. r.ret = "OK" /\ r.s = [y.s EXCEPT !.gaOpenInos = Without(y.s.gaOpenInos, key)]
    BY <1>2, <1>9 DEF Returns
  <2>2. /\ Frame(s, y.s, {"gbRedVolNum", "vol"}) /\ y.s.gbRedVolNum \in {s.gbRedVolNum, n} /\ DOMAIN y.s.vol = Volumes
        /\ \A m \in Volumes \ {n} : y.s.vol[m] = s.vol[m]
    <3>1. CASE fFrees
      BY <1>5, <3>1
    <3>2. CASE ~fFrees
      <4>1. Frame(s, t, {"gbRedVolNum", "vol"})
        BY <1>4 DEF Frame
      <4>. QED  BY <1>1, <1>4, <1>6, <3>2, <4>1
    <3>. QED  BY <3>1, <3>2
  <2>3. \E Y : /\ Keeps(s.vol[n], y.s.vol[n], Y)
               /\ Y = {} \/ (Y = {key[2]} /\ ~(oi.uRefs > 1) /\ ~Named(s.vol[n], key[2]))
    <3>1. CASE fFrees
      BY <1>5, <1>9, <3>1 DEF Result
    <3>2. CASE ~fFrees
      BY <1>3, <1>4, <1>6, <3>2
    <3>. QED  BY <3>1, <3>2
  <2>4. y.s.gaOpenInos = s.gaOpenInos /\ DOMAIN y.s = Fields
    BY <2>2, FrameIs
  <2>5. TableLess(s.gaOpenInos, key) = Without(y.s.gaOpenInos, key)
    BY <1>9, <2>4 DEF TableLess
  <2>6. /\ Frame(s, r.s, {"gbRedVolNum", "vol", "gaOpenInos"}) /\ r.s.gaOpenInos = TableLess(s.gaOpenInos, key)
        /\ r.s.vol = y.s.vol /\ r.s.gbRedVolNum = y.s.gbRedVolNum /\ DOMAIN r.s = Fields
    BY <2>1, <2>2, <2>4, <2>5 DEF Frame, Fields
  <2>. QED  BY <2>1, <2>2, <2>3, <2>6 DEF VolumeOf, Dereferenced
<1>. QED  BY <1>7, <1>8, <1>9

\* It mounts and unmounts nothing, and where it fails nothing is seen to change.
LEMMA DerefStays ==
  ASSUME NEW s, NEW X, Sound(s, X), NEW key \in Keys, key \in DOMAIN s.gaOpenInos, NEW fDoCleanup, NEW fPropagate,
         NEW f \in {"OK", "EIO"}, NEW r, r = OpenInoDeref(s, key, fDoCleanup, fPropagate, f)
  PROVE  /\ Stays(s, r.s) /\ r.s.gaHandle = s.gaHandle /\ r.s.gaTask = s.gaTask /\ r.s.gbRedVolNum \in {s.gbRedVolNum, key[1]}
         /\ ~fPropagate => r.ret = "OK"
         /\ r.ret # "EFUBAR"
         /\ r.ret # "OK" => /\ Sound(r.s, X)
                            /\ FlagsSame(s, r.s) => Seen(r.s) = Seen(s)
<1>. DEFINE n == key[1]
<1>0. /\ \/ r.ret = "OK" /\ Dereferenced(s, key, r.s)
         \/ r.ret # "OK" /\ fPropagate /\ NotDereferenced(s, key, r.s)
      /\ r.ret # "EFUBAR"
  BY DerefIs DEF Statuses
<1>1. /\ DOMAIN r.s = Fields /\ r.s.gbRedVolNum \in {s.gbRedVolNum, n} /\ DOMAIN r.s.vol = Volumes
      /\ \A m \in Volumes \ {n} : r.s.vol[m] = s.vol[m]
      /\ Frame(s, r.s, {"gbRedVolNum", "vol", "gaOpenInos"})
  <2>1. VolumeOf(s, key, r.s)
    BY <1>0 DEF Dereferenced, NotDereferenced
  <2>2. Frame(s, r.s, {"gbRedVolNum", "vol", "gaOpenInos"})
    BY <1>0 DEF Dereferenced, NotDereferenced, Frame
  <2>. QED  BY <2>1, <2>2 DEF VolumeOf
<1>2. n \in Volumes /\ s.gbRedVolNum \in Volumes
  BY DEF Keys, Sound, Tables
<1>3. PICK Y : Keeps(s.vol[n], r.s.vol[n], Y)
  BY <1>0 DEF Dereferenced, NotDereferenced
<1>4. /\ r.s.gfPosixInited = s.gfPosixInited /\ r.s.gauGeneration = s.gauGeneration
      /\ r.s.gaHandle = s.gaHandle /\ r.s.gaTask = s.gaTask
  BY <1>1, FrameIs
<1>5. Stays(s, r.s)
  <2>1. ASSUME NEW m \in Volumes PROVE r.s.vol[m].fMounted = s.vol[m].fMounted /\ (s.vol[m].fReadOnly => r.s.vol[m].fReadOnly)
    <3>1. CASE m = n
      BY <1>3, <3>1 DEF Keeps
    <3>2. CASE m # n
      BY <1>1, <2>1, <3>2
    <3>. QED  BY <3>1, <3>2
  <2>. QED  BY <1>4, <2>1 DEF Stays
<1>6. ASSUME r.ret # "OK" PROVE Sound(r.s, X) /\ (FlagsSame(s, r.s) => Seen(r.s) = Seen(s))
  <2>1. /\ Frame(s, r.s, {"gbRedVolNum", "vol"}) /\ Keeps(s.vol[n], r.s.vol[n], {})
        /\ r.s.vol[n].fReadOnly = s.vol[n].fReadOnly => Visible(r.s.vol[n]) = Visible(s.vol[n])
    BY <1>0, <1>6 DEF NotDereferenced
  <2>2. PICK q : q = Current(s, r.s.gbRedVolNum)
    OBVIOUS
  <2>3. Sound(q, X) /\ q.gbRedVolNum = r.s.gbRedVolNum /\ Frame(s, q, {"gbRedVolNum"})
    BY <1>1, <1>2, <2>2, CurrentIs
  <2>4. Frame(q, r.s, {"vol"}) /\ q.vol = s.vol
    BY <2>1, <2>3, FrameIs DEF Frame
  <2>5. Sound(r.s, X)
    BY <1>1, <1>2, <2>1, <2>3, <2>4, VolStep
  <2>6. r.s.gaOpenInos = s.gaOpenInos
    BY <2>1, FrameIs
  <2>7. ASSUME FlagsSame(s, r.s) PROVE Seen(r.s) = Seen(s)
    <3>1. \A m \in Volumes : Visible(r.s.vol[m]) = Visible(s.vol[m])
      BY <1>1, <1>2, <2>1, <2>7 DEF FlagsSame
    <3>. QED  BY <1>4, <2>6, <3>1, SeenIs
  <2>. QED  BY <2>5, <2>7
<1>. QED  BY <1>0, <1>1, <1>4, <1>5, <1>6

\* The state after the references are one less, and the user is none.
LEMMA DropSound ==
  ASSUME NEW s, NEW key \in Keys, NEW Y, NEW q, Sound(q, Y), NEW t, Frame(q, t, {"vol"}), DOMAIN t.vol = Volumes,
         \A m \in Volumes \ {key[1]} : t.vol[m] = q.vol[m],
         \E Z : /\ Keeps(q.vol[key[1]], t.vol[key[1]], Z)
                /\ Z = {} \/ (Z = {key[2]} /\ ~InUseBy(q, {}, key))
  PROVE  Sound(t, Y)
<1>1. PICK Z : /\ Keeps(q.vol[key[1]], t.vol[key[1]], Z)
               /\ Z = {} \/ (Z = {key[2]} /\ ~InUseBy(q, {}, key))
  OBVIOUS
<1>2. key[1] \in Volumes /\ key = <<key[1], key[2]>>
  BY DEF Keys
<1>3. \A i \in Z : ~InUseBy(q, Y, <<key[1], i>>)
  BY <1>1, <1>2 DEF InUseBy
<1>. QED  BY <1>1, <1>2, <1>3, VolStep

\* An inode in use is open.
LEMMA UsedIsOpen ==
  ASSUME NEW s, NEW X, Sound(s, X), NEW u \in UserIds, Uses(s)[u] \in Keys
  PROVE  Uses(s)[u] \in DOMAIN s.gaOpenInos
<1>. DEFINE key == Uses(s)[u]
            S == {x \in UserIds : Uses(s)[x] = key}
<1>1. S \in SUBSET UserIds /\ S # {}
  OBVIOUS
<1>2. UsersOf(Uses(s), key) # 0
  BY <1>1, UserIdsFinite, FS_EmptySet DEF UsersOf
<1>. QED  BY <1>2 DEF Sound, RefsExact

\* OpenInoDeref for a handle that is closed.
LEMMA DerefHandle ==
  ASSUME NEW s, NEW X, Sound(s, X), NEW h \in Handles, NEW key, key = s.gaHandle[h].pOpenIno, key # NULL,
         NEW fDoCleanup, NEW fPropagate,
         NEW f \in {"OK", "EIO"}, NEW r, r = OpenInoDeref(s, key, fDoCleanup, fPropagate, f), r.ret = "OK",
         NEW t, Frame(r.s, t, {"gaHandle"}), t.gaHandle = [s.gaHandle EXCEPT ![h] = FreeHandle]
  PROVE  Sound(t, X)
<1>1. PICK q : q = [s EXCEPT !.gbRedVolNum = r.s.gbRedVolNum, !.gaOpenInos = TableLess(s.gaOpenInos, key),
                             !.gaHandle = [s.gaHandle EXCEPT ![h] = FreeHandle]]
  OBVIOUS
<1>2. DOMAIN s = Fields /\ s.gbRedVolNum \in Volumes /\ key \in Keys /\ key[1] \in Volumes
  BY DEF Sound, Tables, HandleRecord, Keys
<1>3. /\ Frame(s, q, {"gaHandle", "gaOpenInos", "gbRedVolNum"}) /\ q.gbRedVolNum = r.s.gbRedVolNum
      /\ q.gaHandle = [s.gaHandle EXCEPT ![h] = FreeHandle] /\ q.gaOpenInos = TableLess(s.gaOpenInos, key)
  BY <1>1, <1>2 DEF Frame, Fields
<1>4. key \in DOMAIN s.gaOpenInos
  BY <1>2, UsedIsOpen, UsesIs, UsersNamed
<1>a. Dereferenced(s, key, r.s)
  BY <1>2, <1>4, DerefIs
<1>5. /\ DOMAIN r.s = Fields /\ r.s.gbRedVolNum \in {s.gbRedVolNum, key[1]} /\ DOMAIN r.s.vol = Volumes
      /\ \A m \in Volumes \ {key[1]} : r.s.vol[m] = s.vol[m]
      /\ Frame(s, r.s, {"gbRedVolNum", "vol", "gaOpenInos"})
      /\ r.s.gaOpenInos = TableLess(s.gaOpenInos, key)
      /\ \E Y : /\ Keeps(s.vol[key[1]], r.s.vol[key[1]], Y)
                /\ Y = {} \/ (Y = {key[2]} /\ ~(s.gaOpenInos[key].uRefs > 1))
  BY <1>a DEF Dereferenced, VolumeOf
<1>6. Sound(q, X) /\ (~(s.gaOpenInos[key].uRefs > 1) => ~InUseBy(q, {}, key))
  <2>1. q.gbRedVolNum \in Volumes
    BY <1>2, <1>3, <1>5
  <2>. QED  BY ONLY Sound(s, X), h \in Handles, key = s.gaHandle[h].pOpenIno, key # NULL, <1>3, <2>1, DropHandle
<1>7. q.vol = s.vol /\ t.vol = r.s.vol
  BY <1>3, FrameIs
<1>8. Frame(q, t, {"vol"})
  <2>1. /\ q.gfPosixInited = s.gfPosixInited /\ q.gaTask = s.gaTask /\ q.gauGeneration = s.gauGeneration
        /\ DOMAIN q = Fields
    BY <1>3, FrameIs
  <2>0. Frame(s, r.s, {"gbRedVolNum", "vol", "gaOpenInos"})
    BY <1>5
  <2>2. /\ r.s.gfPosixInited = s.gfPosixInited /\ r.s.gaTask = s.gaTask /\ r.s.gauGeneration = s.gauGeneration
    BY ONLY <2>0, FrameIs
  <2>3. /\ t.gfPosixInited = r.s.gfPosixInited /\ t.gaTask = r.s.gaTask /\ t.gauGeneration = r.s.gauGeneration
        /\ t.gbRedVolNum = r.s.gbRedVolNum /\ t.gaOpenInos = r.s.gaOpenInos /\ DOMAIN t = Fields
    BY FrameIs
  <2>4. /\ DOMAIN q = Fields /\ DOMAIN t = Fields /\ t.gfPosixInited = q.gfPosixInited
        /\ t.gaHandle = q.gaHandle /\ t.gaTask = q.gaTask /\ t.gauGeneration = q.gauGeneration
    BY ONLY t.gaHandle = [s.gaHandle EXCEPT ![h] = FreeHandle], <1>3, <2>1, <2>2, <2>3
  <2>5. t.gbRedVolNum = q.gbRedVolNum /\ t.gaOpenInos = q.gaOpenInos
    BY ONLY <1>3, <1>5, <2>3
  <2>. QED  BY ONLY <2>4, <2>5, VolFrame
<1>9. /\ DOMAIN t.vol = Volumes /\ \A m \in Volumes \ {key[1]} : t.vol[m] = q.vol[m]
      /\ \E Z : /\ Keeps(q.vol[key[1]], t.vol[key[1]], Z)
                /\ Z = {} \/ (Z = {key[2]} /\ ~InUseBy(q, {}, key))
  BY <1>5, <1>6, <1>7
<1>. QED  BY ONLY <1>2, <1>6, <1>8, <1>9, DropSound

\* OpenInoDeref for a task that leaves its directory.
LEMMA DerefTask ==
  ASSUME NEW s, NEW X, Sound(s, X), NEW i \in Slots, NEW key, key = s.gaTask[i].pCwd, key # NULL,
         NEW fDoCleanup, NEW fPropagate,
         NEW f \in {"OK", "EIO"}, NEW r, r = OpenInoDeref(s, key, fDoCleanup, fPropagate, f), r.ret = "OK",
         NEW t, Frame(r.s, t, {"gaTask"}), t.gaTask = [s.gaTask EXCEPT ![i].pCwd = NULL]
  PROVE  Sound(t, X \cup {i})
<1>1. PICK q : q = [s EXCEPT !.gbRedVolNum = r.s.gbRedVolNum, !.gaOpenInos = TableLess(s.gaOpenInos, key),
                             !.gaTask = [s.gaTask EXCEPT ![i].pCwd = NULL]]
  OBVIOUS
<1>2. DOMAIN s = Fields /\ s.gbRedVolNum \in Volumes /\ key \in Keys /\ key[1] \in Volumes
  BY DEF Sound, Tables, TaskRecord, Keys
<1>3. /\ Frame(s, q, {"gaTask", "gaOpenInos", "gbRedVolNum"}) /\ q.gbRedVolNum = r.s.gbRedVolNum
      /\ q.gaTask = [s.gaTask EXCEPT ![i].pCwd = NULL] /\ q.gaOpenInos = TableLess(s.gaOpenInos, key)
  BY <1>1, <1>2 DEF Frame, Fields
<1>4. key \in DOMAIN s.gaOpenInos
  BY <1>2, UsedIsOpen, UsesIs, UsersNamed
<1>a. Dereferenced(s, key, r.s)
  BY <1>2, <1>4, DerefIs
<1>5. /\ DOMAIN r.s = Fields /\ r.s.gbRedVolNum \in {s.gbRedVolNum, key[1]} /\ DOMAIN r.s.vol = Volumes
      /\ \A m \in Volumes \ {key[1]} : r.s.vol[m] = s.vol[m]
      /\ Frame(s, r.s, {"gbRedVolNum", "vol", "gaOpenInos"})
      /\ r.s.gaOpenInos = TableLess(s.gaOpenInos, key)
      /\ \E Y : /\ Keeps(s.vol[key[1]], r.s.vol[key[1]], Y)
                /\ Y = {} \/ (Y = {key[2]} /\ ~(s.gaOpenInos[key].uRefs > 1))
  BY <1>a DEF Dereferenced, VolumeOf
<1>6. Sound(q, X \cup {i}) /\ (~(s.gaOpenInos[key].uRefs > 1) => ~InUseBy(q, {}, key))
  <2>1. q.gbRedVolNum \in Volumes
    BY <1>2, <1>3, <1>5
  <2>. QED  BY ONLY Sound(s, X), i \in Slots, key = s.gaTask[i].pCwd, key # NULL, <1>3, <2>1, DropTask
<1>7. q.vol = s.vol /\ t.vol = r.s.vol
  BY <1>3, FrameIs
<1>8. Frame(q, t, {"vol"})
  <2>1. /\ q.gfPosixInited = s.gfPosixInited /\ q.gaHandle = s.gaHandle /\ q.gauGeneration = s.gauGeneration
        /\ DOMAIN q = Fields
    BY <1>3, FrameIs
  <2>0. Frame(s, r.s, {"gbRedVolNum", "vol", "gaOpenInos"})
    BY <1>5
  <2>2. /\ r.s.gfPosixInited = s.gfPosixInited /\ r.s.gaHandle = s.gaHandle /\ r.s.gauGeneration = s.gauGeneration
    BY ONLY <2>0, FrameIs
  <2>3. /\ t.gfPosixInited = r.s.gfPosixInited /\ t.gaHandle = r.s.gaHandle /\ t.gauGeneration = r.s.gauGeneration
        /\ t.gbRedVolNum = r.s.gbRedVolNum /\ t.gaOpenInos = r.s.gaOpenInos /\ DOMAIN t = Fields
    BY FrameIs
  <2>4. /\ DOMAIN q = Fields /\ DOMAIN t = Fields /\ t.gfPosixInited = q.gfPosixInited
        /\ t.gaHandle = q.gaHandle /\ t.gaTask = q.gaTask /\ t.gauGeneration = q.gauGeneration
    BY ONLY t.gaTask = [s.gaTask EXCEPT ![i].pCwd = NULL], <1>3, <2>1, <2>2, <2>3
  <2>5. t.gbRedVolNum = q.gbRedVolNum /\ t.gaOpenInos = q.gaOpenInos
    BY ONLY <1>3, <1>5, <2>3
  <2>. QED  BY ONLY <2>4, <2>5, VolFrame
<1>9. /\ DOMAIN t.vol = Volumes /\ \A m \in Volumes \ {key[1]} : t.vol[m] = q.vol[m]
      /\ \E Z : /\ Keeps(q.vol[key[1]], t.vol[key[1]], Z)
                /\ Z = {} \/ (Z = {key[2]} /\ ~InUseBy(q, {}, key))
  BY <1>5, <1>6, <1>7
<1>. QED  BY ONLY <1>2, <1>6, <1>8, <1>9, DropSound

\* t is q, with the user u of the open inode key.
LEMMA AddUser ==
  ASSUME NEW q, NEW X, Sound(q, X), NEW u \in UserIds, NEW key \in Keys, Uses(q)[u] = NULL,
         NEW t, Uses(t)[u] = key, \A x \in UserIds : x # u => Uses(t)[x] = Uses(q)[x],
         t.vol = q.vol, t.gaOpenInos = TableWith(q.gaOpenInos, key), NEW Y,
         \A i \in X \ Y : u = SlotUser(i),
         key[2] = ROOT \/ (Named(q.vol[key[1]], key[2]) /\ \A i \in X : Uses(q)[SlotUser(i)] = NULL)
  PROVE  /\ Table(t.gaOpenInos) /\ RefsExact(Uses(t), t.gaOpenInos)
         /\ \A k \in DOMAIN t.gaOpenInos : MarkGood(t, Y, k)
<1>1. Table(q.gaOpenInos) /\ RefsExact(Uses(q), q.gaOpenInos)
  BY DEF Sound, Tables
<1>2. /\ Table(t.gaOpenInos) /\ RefsExact(Uses(t), t.gaOpenInos) /\ DOMAIN t.gaOpenInos = DOMAIN q.gaOpenInos \cup {key}
      /\ \A x \in DOMAIN q.gaOpenInos : t.gaOpenInos[x].fOrphan = q.gaOpenInos[x].fOrphan
      /\ key \notin DOMAIN q.gaOpenInos => t.gaOpenInos[key].fOrphan = FALSE
  <2>1. RefMore(Uses(t), q.gaOpenInos, key, t.gaOpenInos)
    BY <1>1, RefAdded
  <2>. QED  BY <2>1 DEF RefMore
<1>3. ASSUME NEW k \in DOMAIN t.gaOpenInos PROVE MarkGood(t, Y, k)
  <2>0. k \in Keys /\ key # NULL /\ k # NULL /\ k[1] \in Volumes /\ (k \in DOMAIN q.gaOpenInos => MarkGood(q, X, k))
    BY <1>2, <1>3, NullIs DEF Table, Keys, Sound
  <2>1. k[2] = ROOT => ~t.gaOpenInos[k].fOrphan
    <3>1. CASE k \in DOMAIN q.gaOpenInos
      BY <1>2, <2>0, <3>1 DEF MarkGood
    <3>2. CASE k \notin DOMAIN q.gaOpenInos
      BY <1>2, <1>3, <3>2
    <3>. QED  BY <3>1, <3>2
  <2>. SUFFICES ASSUME ~SameNameRenames, t.vol[k[1]].fMounted, InUseBy(t, Y, k)
                PROVE  t.gaOpenInos[k].fOrphan <=> k[2] \in t.vol[k[1]].orphans
    BY <2>1 DEF MarkGood
  <2>2. CASE k # key
    <3>1. k \in DOMAIN q.gaOpenInos
      BY <1>2, <1>3, <2>2
    <3>2. PICK x \in UserIds : Uses(t)[x] = k /\ \A i \in Y : x # SlotUser(i)
      BY DEF InUseBy
    <3>3. x # u /\ Uses(q)[x] = k
      BY <2>2, <3>2
    <3>4. \A i \in X : x # SlotUser(i)
      BY <3>2, <3>3
    <3>5. InUseBy(q, X, k)
      BY <3>3, <3>4 DEF InUseBy
    <3>. QED  BY <1>2, <2>0, <3>1, <3>5 DEF MarkGood
  <2>3. CASE k[2] = ROOT
    <3>1. VolumeGood(t.vol[k[1]])
      BY <2>0 DEF Sound, Tables
    <3>2. k[2] \notin t.vol[k[1]].orphans
      BY <2>3, <3>1, RootIs DEF Named
    <3>. QED  BY <2>1, <2>3, <3>2
  <2>4. CASE k = key /\ key[2] # ROOT
    <3>1. key[2] \notin t.vol[key[1]].orphans /\ \A i \in X : Uses(q)[SlotUser(i)] = NULL
      BY <2>4 DEF Named
    <3>2. CASE key \notin DOMAIN q.gaOpenInos
      BY <1>2, <2>4, <3>1, <3>2
    <3>3. CASE key \in DOMAIN q.gaOpenInos
      <4>1. UsersOf(Uses(q), key) # 0
        BY <1>1, <3>3 DEF RefsExact, Table, OpenEntries
      <4>2. {x \in UserIds : Uses(q)[x] = key} # {}
        BY <4>1, FS_EmptySet DEF UsersOf
      <4>3. PICK x \in UserIds : Uses(q)[x] = key
        BY <4>2
      <4>4. InUseBy(q, X, key)
        BY <2>0, <3>1, <4>3 DEF InUseBy
      <4>. QED  BY <1>2, <2>0, <2>4, <3>1, <3>3, <4>4 DEF MarkGood
    <3>. QED  BY <3>2, <3>3
  <2>. QED  BY <2>2, <2>3, <2>4
<1>. QED  BY <1>2, <1>3

\* A task without directory enters one.
LEMMA AddTask ==
  ASSUME NEW q, NEW X, Sound(q, X), NEW i \in Slots, i \in X, q.gaTask[i].pCwd = NULL, NEW key \in Keys,
         \/ key[2] = ROOT
         \/ /\ Named(q.vol[key[1]], key[2]) /\ InUseAs(q.vol[key[1]], key[2], "DIR")
            /\ X \subseteq Slots /\ \A j \in X : q.gaTask[j].pCwd = NULL,
         NEW t, Frame(q, t, {"gaTask", "gaOpenInos", "gbRedVolNum"}), t.gbRedVolNum \in Volumes,
         t.gaTask = [q.gaTask EXCEPT ![i].pCwd = key], t.gaOpenInos = TableWith(q.gaOpenInos, key)
  PROVE  Sound(t, X \ {i})
<1>0. /\ t.gfPosixInited = q.gfPosixInited /\ t.vol = q.vol
      /\ t.gaHandle = q.gaHandle /\ t.gauGeneration = q.gauGeneration /\ DOMAIN t = Fields
  BY FrameIs
<1>1. /\ DOMAIN q.gaTask = Slots /\ \A j \in Slots : TaskRecord(q.gaTask[j])
  BY DEF Sound, Tables
<1>2. /\ t.gaTask[i].pCwd = key /\ DOMAIN t.gaTask[i] = {"ulTaskId", "pCwd"} /\ DOMAIN t.gaTask = Slots
      /\ \A j \in Slots : j # i => t.gaTask[j] = q.gaTask[j]
  BY <1>1 DEF TaskRecord
<1>. PICK u \in UserIds : u = SlotUser(i)
  BY UsersNamed
<1>a. Uses(q)[u] = NULL
  BY UsesIs
<1>b. Uses(t)[u] = key /\ \A x \in UserIds : x # u => Uses(t)[x] = Uses(q)[x]
  BY <1>0, <1>2, UsersMove
<1>c. \A j \in X \ (X \ {i}) : u = SlotUser(j)
  OBVIOUS
<1>d. key[2] = ROOT \/ (Named(q.vol[key[1]], key[2]) /\ \A j \in X : Uses(q)[SlotUser(j)] = NULL)
  BY UsesIs
<1>4. /\ Table(t.gaOpenInos) /\ RefsExact(Uses(t), t.gaOpenInos)
      /\ \A k \in DOMAIN t.gaOpenInos : MarkGood(t, X \ {i}, k)
  BY ONLY Sound(q, X), t.gaOpenInos = TableWith(q.gaOpenInos, key), key \in Keys, u \in UserIds,
          <1>0, <1>a, <1>b, <1>c, <1>d, AddUser
<1>5. Tables(t)
  BY <1>0, <1>1, <1>2, <1>4 DEF Sound, Tables, TaskRecord
<1>6. \A g \in Handles : HandleGood(t, g)
  BY <1>0 DEF Sound, HandleGood, HandleType, FildesPack
<1>7. \A j \in Slots \ (X \ {i}) : TaskGood(t, j)
  <2>1. TaskGood(t, i)
    BY <1>0, <1>2, NullIs DEF TaskGood
  <2>2. ASSUME NEW j \in Slots \ X PROVE TaskGood(t, j)
    BY <1>0, <1>2 DEF Sound, TaskGood
  <2>. QED  BY <2>1, <2>2
<1>. QED  BY <1>0, <1>4, <1>5, <1>6, <1>7 DEF Sound

\* A handle is opened.
LEMMA AddHandle ==
  ASSUME NEW q, Sound(q, {}), NEW h \in Handles, q.gaHandle[h].pOpenIno = NULL, NEW key \in Keys, Named(q.vol[key[1]], key[2]),
         NEW t, Frame(q, t, {"gaHandle", "gaOpenInos"}),
         NEW rec, HandleRecord(rec), rec.pOpenIno = key, rec.fildes = FildesPack(q, h, key[1]),
         t.gaHandle = [q.gaHandle EXCEPT ![h] = rec], t.gaOpenInos = TableWith(q.gaOpenInos, key),
         InUseAs(q.vol[key[1]], key[2], HandleType(t, h))
  PROVE  Sound(t, {})
<1>0. /\ t.gfPosixInited = q.gfPosixInited /\ t.vol = q.vol /\ t.gbRedVolNum = q.gbRedVolNum
      /\ t.gaTask = q.gaTask /\ t.gauGeneration = q.gauGeneration /\ DOMAIN t = Fields
  BY FrameIs
<1>1. /\ DOMAIN q.gaHandle = Handles /\ \A j \in Handles : HandleRecord(q.gaHandle[j])
  BY DEF Sound, Tables
<1>2. /\ t.gaHandle[h] = rec /\ DOMAIN t.gaHandle = Handles
      /\ \A j \in Handles : j # h => t.gaHandle[j] = q.gaHandle[j]
  BY <1>1
<1>. PICK u \in UserIds : u = HandleUser(h)
  BY UsersNamed
<1>a. Uses(q)[u] = NULL
  BY UsesIs
<1>b. Uses(t)[u] = key /\ \A x \in UserIds : x # u => Uses(t)[x] = Uses(q)[x]
  BY <1>0, <1>2, UsersMove
<1>4. /\ Table(t.gaOpenInos) /\ RefsExact(Uses(t), t.gaOpenInos)
      /\ \A k \in DOMAIN t.gaOpenInos : MarkGood(t, {}, k)
  BY ONLY Sound(q, {}), t.gaOpenInos = TableWith(q.gaOpenInos, key), key \in Keys, u \in UserIds,
          Named(q.vol[key[1]], key[2]), <1>0, <1>a, <1>b, AddUser
<1>5. Tables(t)
  BY <1>0, <1>1, <1>2, <1>4 DEF Sound, Tables
<1>6. ASSUME NEW g \in Handles PROVE HandleGood(t, g)
  <2>1. CASE g = h
    BY <1>0, <1>2, <2>1 DEF HandleGood, FildesPack
  <2>2. CASE g # h
    BY <1>0, <1>2, <2>2 DEF Sound, HandleGood, HandleType, FildesPack
  <2>. QED  BY <2>1, <2>2
<1>7. \A j \in Slots : TaskGood(t, j)
  BY <1>0 DEF Sound, TaskGood
<1>. QED  BY <1>0, <1>4, <1>5, <1>6, <1>7 DEF Sound

\* What is sound but for some tasks is sound but for more.
LEMMA SoundMore ==
  ASSUME NEW s, NEW X, Sound(s, X), NEW Y, X \subseteq Y
  PROVE  Sound(s, Y)
<1>1. \A key : InUseBy(s, Y, key) => InUseBy(s, X, key)
  BY DEF InUseBy
<1>2. \A key \in DOMAIN s.gaOpenInos : MarkGood(s, Y, key)
  BY <1>1 DEF Sound, MarkGood
<1>. QED  BY <1>2 DEF Sound

\* A reference is added to the open inodes alone.
LEMMA WithRefIs ==
  ASSUME NEW s, DOMAIN s = Fields, NEW key
  PROVE  LET t == WithRef(s, key)
         IN  Frame(s, t, {"gaOpenInos"}) /\ t.gaOpenInos = TableWith(s.gaOpenInos, key)
<1>. DEFINE table == TableWith(s.gaOpenInos, key)
<1>1. WithRef(s, key) = [s EXCEPT !.gaOpenInos = table]
  BY DEF WithRef, TableWith, IsOpen
<1>. HIDE DEF table
<1>. QED  BY <1>1 DEF Frame, Fields, table

\* OpenInoDeref frees no inode that has a name.
LEMMA DerefNamed ==
  ASSUME NEW s, NEW X, Sound(s, X), NEW key \in Keys, key \in DOMAIN s.gaOpenInos, NEW fDoCleanup, NEW fPropagate,
         NEW f \in {"OK", "EIO"}, NEW r, r = OpenInoDeref(s, key, fDoCleanup, fPropagate, f), r.ret = "OK",
         NEW m \in Volumes, NEW i, Named(s.vol[m], i)
  PROVE  Named(r.s.vol[m], i) /\ r.s.vol[m].node[i].type = s.vol[m].node[i].type
<1>1. Dereferenced(s, key, r.s)
  BY DerefIs
<1>2. CASE m # key[1]
  BY <1>1, <1>2 DEF Dereferenced, VolumeOf
<1>3. CASE m = key[1]
  <2>1. PICK Y : /\ Keeps(s.vol[m], r.s.vol[m], Y)
                 /\ Y = {} \/ (Y = {key[2]} /\ ~Named(s.vol[m], key[2]))
    BY <1>1, <1>3 DEF Dereferenced
  <2>2. i \notin Y
    BY <2>1
  <2>. QED  BY <2>1, <2>2, NamedStays
<1>. QED  BY <1>2, <1>3

\* A task moves: what stays the same.
LEMMA TaskFrame ==
  ASSUME NEW s, NEW t, DOMAIN s = Fields, DOMAIN t = Fields, t.gfPosixInited = s.gfPosixInited,
         t.vol = s.vol, t.gaHandle = s.gaHandle, t.gauGeneration = s.gauGeneration
  PROVE  Frame(s, t, {"gaTask", "gaOpenInos", "gbRedVolNum"})
BY DEF Frame, Fields

\* What DerefStays says of a call that is not to fail.
Dropped(s, key, r) ==
  /\ Stays(s, r.s) /\ r.s.gaHandle = s.gaHandle /\ r.s.gaTask = s.gaTask
  /\ r.s.gbRedVolNum \in {s.gbRedVolNum, key[1]} /\ r.ret = "OK" /\ DOMAIN r.s = Fields
  /\ \A m \in Volumes : \A j : Named(s.vol[m], j) =>
       Named(r.s.vol[m], j) /\ r.s.vol[m].node[j].type = s.vol[m].node[j].type

\* OpenInoDeref for a task, which never fails.
LEMMA DerefDrops ==
  ASSUME NEW s, NEW X, Sound(s, X), NEW key \in Keys, key \in DOMAIN s.gaOpenInos, NEW fDoCleanup,
         NEW f \in {"OK", "EIO"}
  PROVE  Dropped(s, key, OpenInoDeref(s, key, fDoCleanup, FALSE, f))
<1>a. PICK fPropagate : fPropagate = FALSE
  OBVIOUS
<1>b. PICK r : r = OpenInoDeref(s, key, fDoCleanup, fPropagate, f)
  OBVIOUS
<1>1. /\ Stays(s, r.s) /\ r.s.gaHandle = s.gaHandle /\ r.s.gaTask = s.gaTask
      /\ r.s.gbRedVolNum \in {s.gbRedVolNum, key[1]} /\ r.ret = "OK"
  <2>1. /\ Stays(s, r.s) /\ r.s.gaHandle = s.gaHandle /\ r.s.gaTask = s.gaTask
        /\ r.s.gbRedVolNum \in {s.gbRedVolNum, key[1]} /\ (~fPropagate => r.ret = "OK")
    BY ONLY Sound(s, X), key \in Keys, key \in DOMAIN s.gaOpenInos, f \in {"OK", "EIO"}, <1>b, DerefStays
  <2>. QED  BY <1>a, <2>1
<1>2. Dereferenced(s, key, r.s)
  BY <1>b, <1>1, DerefIs
<1>3. DOMAIN r.s = Fields
  BY <1>2 DEF Dereferenced, VolumeOf
<1>4. \A m \in Volumes : \A j : Named(s.vol[m], j) =>
        Named(r.s.vol[m], j) /\ r.s.vol[m].node[j].type = s.vol[m].node[j].type
  BY <1>b, <1>1, DerefNamed
<1>5. Dropped(s, key, r)
  BY <1>1, <1>3, <1>4 DEF Dropped
<1>. QED  BY <1>5, <1>a, <1>b

\* A task leaves its directory, if it has one, for another.
Leave(s, i, fDoCleanup, f) ==
  IF s.gaTask[i].pCwd = NULL THEN Returns("OK", s)
  ELSE OpenInoDeref(s, s.gaTask[i].pCwd, fDoCleanup, FALSE, f)

MovedTo(x, i, key) == [WithRef(x.s, key) EXCEPT !.gaTask[i].pCwd = key]

Moved(s, X, i, x, key) ==
  LET t == MovedTo(x, i, key)
  IN  /\ x.ret = "OK" /\ OpenInoFind(x.s, key)
      /\ Sound(t, X \ {i}) /\ Stays(s, t) /\ t.gaHandle = s.gaHandle
      /\ t.gaTask = [s.gaTask EXCEPT ![i].pCwd = key]
      /\ t.gbRedVolNum = x.s.gbRedVolNum

\* A task leaves its directory, if it has one.
LEMMA LeaveIs ==
  ASSUME NEW s, NEW X, Sound(s, X), NEW i \in Slots, NEW fDoCleanup, NEW f \in {"OK", "EIO"},
         NEW x, x = Leave(s, i, fDoCleanup, f)
  PROVE  /\ Stays(s, x.s) /\ x.s.gaHandle = s.gaHandle /\ x.s.gaTask = s.gaTask /\ x.ret = "OK" /\ DOMAIN x.s = Fields
         /\ \/ x.s.gbRedVolNum = s.gbRedVolNum
            \/ s.gaTask[i].pCwd # NULL /\ x.s.gbRedVolNum = s.gaTask[i].pCwd[1]
         /\ x.s.gbRedVolNum \in Volumes
         /\ \A m \in Volumes : \A j : Named(s.vol[m], j) =>
              Named(x.s.vol[m], j) /\ x.s.vol[m].node[j].type = s.vol[m].node[j].type
<1>. PICK old : old = s.gaTask[i].pCwd
  OBVIOUS
<1>1. /\ DOMAIN s = Fields /\ s.gbRedVolNum \in Volumes /\ (old # NULL => old \in Keys /\ old[1] \in Volumes)
  BY DEF Sound, Tables, TaskRecord, Keys
<1>2. CASE old = NULL
  BY <1>1, <1>2 DEF Leave, Returns, Stays
<1>3. CASE old # NULL
  <2>1. old \in DOMAIN s.gaOpenInos
    BY <1>1, <1>3, UsedIsOpen, UsesIs, UsersNamed
  <2>2. x = OpenInoDeref(s, old, fDoCleanup, FALSE, f)
    BY <1>3 DEF Leave
  <2>3. Dropped(s, old, x)
    BY <1>1, <1>3, <2>1, <2>2, DerefDrops
  <2>. QED  BY <1>1, <1>3, <2>3 DEF Dropped
<1>. QED  BY <1>2, <1>3

\* A task goes from one directory to another, or to a root.
LEMMA TaskMoves ==
  ASSUME NEW s, NEW X, Sound(s, X), NEW i \in Slots, NEW fDoCleanup, NEW f \in {"OK", "EIO"},
         NEW x, x = Leave(s, i, fDoCleanup, f), NEW key \in Keys,
         \/ key[2] = ROOT
         \/ X = {} /\ Named(s.vol[key[1]], key[2]) /\ s.vol[key[1]].node[key[2]].type = "DIR" /\ s.vol[key[1]].fMounted
  PROVE  Moved(s, X, i, x, key)
<1>. PICK old : old = s.gaTask[i].pCwd
  OBVIOUS
<1>1. DOMAIN s.gaTask = Slots /\ \A j \in Slots : TaskRecord(s.gaTask[j])
  BY DEF Sound, Tables
<1>3. old # NULL => x = OpenInoDeref(s, old, fDoCleanup, FALSE, f)
  BY DEF Leave
<1>4. old = NULL => x.ret = "OK" /\ x.s = s
  BY DEF Leave, Returns
<1>5. /\ x.ret = "OK" /\ Stays(s, x.s) /\ x.s.gaHandle = s.gaHandle /\ x.s.gaTask = s.gaTask
      /\ x.s.gbRedVolNum \in Volumes /\ DOMAIN x.s = Fields
      /\ \A m \in Volumes : \A j : Named(s.vol[m], j) =>
           Named(x.s.vol[m], j) /\ x.s.vol[m].node[j].type = s.vol[m].node[j].type
  BY ONLY Sound(s, X), i \in Slots, f \in {"OK", "EIO"}, x = Leave(s, i, fDoCleanup, f), LeaveIs
<1>q. PICK q : q = [x.s EXCEPT !.gaTask[i].pCwd = NULL]
  OBVIOUS
<1>6. Frame(x.s, q, {"gaTask"}) /\ q.gaTask = [s.gaTask EXCEPT ![i].pCwd = NULL]
  <2>1. DOMAIN x.s = Fields /\ x.s.gaTask = s.gaTask
    BY <1>5
  <2>2. Frame(x.s, q, {"gaTask"}) /\ q.gaTask = [x.s.gaTask EXCEPT ![i].pCwd = NULL]
    BY ONLY <2>1, <1>q DEF Frame, Fields
  <2>. QED  BY <2>1, <2>2
<1>a. Frame(x.s, q, {"gaTask"})
  BY <1>6
<1>7. q.gaTask[i].pCwd = NULL
  BY <1>1, <1>6 DEF TaskRecord
<1>8. q.vol = x.s.vol /\ q.gbRedVolNum = x.s.gbRedVolNum /\ q.gaOpenInos = x.s.gaOpenInos /\ q.gaHandle = s.gaHandle
  <2>1. q.vol = x.s.vol /\ q.gbRedVolNum = x.s.gbRedVolNum /\ q.gaOpenInos = x.s.gaOpenInos /\ q.gaHandle = x.s.gaHandle
    BY ONLY <1>a, FrameIs
  <2>. QED  BY <1>5, <2>1
<1>b. q.gfPosixInited = x.s.gfPosixInited /\ q.gauGeneration = x.s.gauGeneration /\ DOMAIN q = Fields
  BY ONLY <1>a, FrameIs
<1>9. Sound(q, X \cup {i})
  <2>1. CASE old = NULL
    <3>1. Sound(s, X \cup {i})
      BY SoundMore
    <3>2. \A r : TaskRecord(r) /\ r.pCwd = NULL => [r EXCEPT !.pCwd = NULL].pCwd = NULL
      BY DEF TaskRecord
    <3>3. /\ q.gfPosixInited = s.gfPosixInited /\ q.vol = s.vol /\ q.gauGeneration = s.gauGeneration /\ DOMAIN q = Fields
          /\ q.gbRedVolNum = s.gbRedVolNum /\ q.gaOpenInos = s.gaOpenInos
      BY <1>4, <1>8, <1>b, <2>1
    <3>4. /\ DOMAIN q.gaTask = Slots /\ \A j \in Slots : j # i => q.gaTask[j] = s.gaTask[j]
          /\ TaskRecord(q.gaTask[i])
      BY <1>1, <1>6 DEF TaskRecord
    <3>5. Uses(q) = Uses(s)
      <4>1. ASSUME NEW u \in UserIds PROVE Uses(q)[u] = Uses(s)[u]
        <5>1. ASSUME NEW h \in Handles, u = HandleUser(h) PROVE Uses(q)[u] = Uses(s)[u]
          <6>1. q.gaHandle = s.gaHandle
            BY <1>8
          <6>. QED  BY ONLY <5>1, <6>1, h \in Handles, UsesIs
        <5>2. ASSUME NEW j \in Slots, u = SlotUser(j) PROVE Uses(q)[u] = Uses(s)[u]
          <6>1. q.gaTask[j].pCwd = s.gaTask[j].pCwd
            <7>1. CASE j = i
              BY <1>7, <2>1, <7>1
            <7>. QED  BY <3>4, <7>1
          <6>. QED  BY ONLY <5>2, <6>1, j \in Slots, UsesIs
        <5>. QED  BY <5>1, <5>2, UsersNamed
      <4>. QED  BY <4>1 DEF Uses
    <3>6. \A Y, k : InUseBy(q, Y, k) <=> InUseBy(s, Y, k)
      BY <3>5 DEF InUseBy
    <3>7. Tables(q)
      BY <1>8, <3>1, <3>3, <3>4 DEF Sound, Tables
    <3>8. \A h \in Handles : HandleGood(q, h)
      BY <1>8, <3>1, <3>3 DEF Sound, HandleGood, HandleType, FildesPack
    <3>9. \A j \in Slots \ (X \cup {i}) : TaskGood(q, j)
      BY <3>1, <3>3, <3>4 DEF Sound, TaskGood
    <3>10. \A k \in DOMAIN q.gaOpenInos : MarkGood(q, X \cup {i}, k)
      BY <3>1, <3>3, <3>6 DEF Sound, MarkGood
    <3>. QED  BY <3>1, <3>3, <3>5, <3>7, <3>8, <3>9, <3>10 DEF Sound
  <2>2. CASE old # NULL
    <3>1. x = OpenInoDeref(s, old, fDoCleanup, FALSE, f) /\ x.ret = "OK" /\ i \in Slots /\ f \in {"OK", "EIO"}
      BY <1>3, <1>5, <2>2
    <3>2. old = s.gaTask[i].pCwd /\ old # NULL
      BY <2>2
    <3>. QED  BY ONLY Sound(s, X), <1>6, <3>1, <3>2, DerefTask
  <2>. QED  BY <2>1, <2>2
<1>10. OpenInoFind(x.s, key)
  <2>1. Table(q.gaOpenInos) /\ RefsExact(Uses(q), q.gaOpenInos)
    BY <1>9 DEF Sound, Tables
  <2>2. SlotUser(i) \in UserIds /\ Uses(q)[SlotUser(i)] = NULL
    BY <1>7, UsesIs, UsersNamed
  <2>3. Cardinality(DOMAIN q.gaOpenInos) < OPEN_INODE_COUNT
    BY ONLY <2>1, <2>2, RoomIs
  <2>. QED  BY <1>8, <2>3 DEF OpenInoFind
<1>w. PICK w : w = WithRef(x.s, key)
  OBVIOUS
<1>11. Frame(x.s, w, {"gaOpenInos"}) /\ w.gaOpenInos = TableWith(x.s.gaOpenInos, key)
  BY <1>5, <1>w, WithRefIs
<1>12. Frame(x.s, w, {"gaOpenInos"})
  BY <1>11
<1>15. /\ w.gfPosixInited = x.s.gfPosixInited /\ w.vol = x.s.vol /\ w.gauGeneration = x.s.gauGeneration
       /\ w.gbRedVolNum = x.s.gbRedVolNum /\ w.gaHandle = x.s.gaHandle /\ w.gaTask = x.s.gaTask /\ DOMAIN w = Fields
  BY ONLY <1>12, FrameIs
<1>t. PICK t : t = MovedTo(x, i, key)
  OBVIOUS
<1>13. Frame(w, t, {"gaTask"}) /\ t.gaTask = [s.gaTask EXCEPT ![i].pCwd = key]
  <2>1. DOMAIN w = Fields /\ w.gaTask = s.gaTask
    BY <1>5, <1>15
  <2>2. t = [w EXCEPT !.gaTask[i].pCwd = key]
    BY <1>t, <1>w DEF MovedTo
  <2>3. Frame(w, t, {"gaTask"}) /\ t.gaTask = [w.gaTask EXCEPT ![i].pCwd = key]
    BY ONLY <2>1, <2>2 DEF Frame, Fields
  <2>. QED  BY <2>1, <2>3
<1>c. Frame(w, t, {"gaTask"})
  BY <1>13
<1>14. t.gaTask = [q.gaTask EXCEPT ![i].pCwd = key]
  BY <1>1, <1>6, <1>13 DEF TaskRecord
<1>16. /\ t.gfPosixInited = w.gfPosixInited /\ t.vol = w.vol /\ t.gauGeneration = w.gauGeneration
       /\ t.gbRedVolNum = w.gbRedVolNum /\ t.gaHandle = w.gaHandle /\ t.gaOpenInos = w.gaOpenInos /\ DOMAIN t = Fields
  BY ONLY <1>c, FrameIs
<1>d. /\ t.gfPosixInited = x.s.gfPosixInited /\ t.vol = x.s.vol /\ t.gauGeneration = x.s.gauGeneration
      /\ t.gbRedVolNum = x.s.gbRedVolNum /\ t.gaHandle = s.gaHandle
  BY <1>5, <1>15, <1>16
<1>17. Frame(q, t, {"gaTask", "gaOpenInos", "gbRedVolNum"})
  <2>1. /\ DOMAIN q = Fields /\ DOMAIN t = Fields /\ t.gfPosixInited = q.gfPosixInited
        /\ t.vol = q.vol /\ t.gaHandle = q.gaHandle /\ t.gauGeneration = q.gauGeneration
    BY <1>8, <1>16, <1>b, <1>d
  <2>. QED  BY ONLY <2>1, TaskFrame
<1>18. Sound(t, X \ {i})
  <2>1. t.gbRedVolNum \in Volumes
    BY <1>5, <1>d
  <2>2. t.gaOpenInos = TableWith(q.gaOpenInos, key)
    BY <1>8, <1>11, <1>16
  <2>3. \/ key[2] = ROOT
        \/ /\ Named(q.vol[key[1]], key[2]) /\ InUseAs(q.vol[key[1]], key[2], "DIR")
           /\ X \cup {i} \subseteq Slots /\ \A j \in X \cup {i} : q.gaTask[j].pCwd = NULL
    <3>. SUFFICES ASSUME key[2] # ROOT
                  PROVE  /\ Named(q.vol[key[1]], key[2]) /\ InUseAs(q.vol[key[1]], key[2], "DIR")
                         /\ X \cup {i} \subseteq Slots /\ \A j \in X \cup {i} : q.gaTask[j].pCwd = NULL
      OBVIOUS
    <3>0. X = {} /\ Named(s.vol[key[1]], key[2]) /\ s.vol[key[1]].node[key[2]].type = "DIR" /\ s.vol[key[1]].fMounted
      OBVIOUS
    <3>1. key[1] \in Volumes
      BY DEF Keys
    <3>2. Named(x.s.vol[key[1]], key[2]) /\ x.s.vol[key[1]].node[key[2]].type = "DIR"
      BY <1>5, <3>0, <3>1
    <3>3. x.s.vol[key[1]].fMounted
      BY <1>5, <3>0, <3>1 DEF Stays
    <3>. QED  BY <1>7, <1>8, <3>0, <3>2, <3>3 DEF InUseAs, Named
  <2>4. i \in X \cup {i} /\ (X \cup {i}) \ {i} = X \ {i}
    OBVIOUS
  <2>5. Sound(t, (X \cup {i}) \ {i})
    BY ONLY i \in Slots, key \in Keys, <1>7, <1>9, <1>14, <1>17, <2>1, <2>2, <2>3, <2>4, AddTask
  <2>. QED  BY <2>4, <2>5
<1>19. Stays(s, t)
  BY <1>5, <1>d DEF Stays
<1>. QED  BY <1>5, <1>10, <1>13, <1>18, <1>19, <1>d, <1>t DEF Moved

\* The task of slot i has been sent to a root.
SentHome(s, X, i, fClearVol, r) ==
  /\ r.ret = "OK" /\ Sound(r.s, X \ {i}) /\ Stays(s, r.s) /\ r.s.gaHandle = s.gaHandle
  /\ \E n \in Volumes : /\ r.s.gaTask = [s.gaTask EXCEPT ![i].pCwd = <<n, ROOT>>]
                        /\ n = IF fClearVol THEN 0 ELSE r.s.gbRedVolNum
  /\ r.s.gbRedVolNum = s.gbRedVolNum \/ (s.gaTask[i].pCwd # NULL /\ r.s.gbRedVolNum = s.gaTask[i].pCwd[1])

\* CwdClose sends a task to a root.
LEMMA CwdCloseIs ==
  ASSUME NEW s, NEW X, Sound(s, X), NEW i \in Slots, NEW fClearVol, NEW fReset, NEW f \in {"OK", "EIO"}
  PROVE  SentHome(s, X, i, fClearVol, CwdClose(s, i, fClearVol, fReset, f))
<1>d. PICK fDoCleanup : fDoCleanup = ~fReset
  OBVIOUS
<1>x. PICK x : x = Leave(s, i, fDoCleanup, f)
  OBVIOUS
<1>n. PICK n : n = IF fClearVol THEN 0 ELSE x.s.gbRedVolNum
  OBVIOUS
<1>1. /\ x.ret = "OK" /\ x.s.gbRedVolNum \in Volumes
      /\ x.s.gbRedVolNum = s.gbRedVolNum \/ (s.gaTask[i].pCwd # NULL /\ x.s.gbRedVolNum = s.gaTask[i].pCwd[1])
  BY <1>x, LeaveIs
<1>2. n \in Volumes
  BY <1>1, <1>n, PosixAssumption
<1>k. PICK key : key = <<n, ROOT>>
  OBVIOUS
<1>3. key \in Keys /\ key[2] = ROOT
  BY <1>2, <1>k, DirAssumption DEF Keys
<1>4. Moved(s, X, i, x, key)
  BY ONLY Sound(s, X), i \in Slots, f \in {"OK", "EIO"}, <1>x, <1>3, TaskMoves
<1>r. PICK r : r = CwdClose(s, i, fClearVol, fReset, f)
  OBVIOUS
<1>5. OpenInoFind(x.s, key)
  BY <1>4 DEF Moved
<1>6. r = Returns("OK", MovedTo(x, i, key))
  BY <1>1, <1>5, <1>d, <1>x, <1>n, <1>k, <1>r DEF CwdClose, Leave, MovedTo
<1>7. r.ret = "OK" /\ r.s = MovedTo(x, i, key)
  BY <1>6 DEF Returns
<1>8. /\ Sound(r.s, X \ {i}) /\ Stays(s, r.s) /\ r.s.gaHandle = s.gaHandle
      /\ r.s.gaTask = [s.gaTask EXCEPT ![i].pCwd = key] /\ r.s.gbRedVolNum = x.s.gbRedVolNum
  BY <1>4, <1>7 DEF Moved
<1>9. SentHome(s, X, i, fClearVol, r)
  BY <1>1, <1>2, <1>7, <1>8, <1>k, <1>n DEF SentHome
<1>. QED  BY <1>9, <1>r

\* A loop of the driver, from its state s on: what holds first and is kept holds last.
CwdLoop(s, slots, fClearVol, fReset, f) ==
  [set |-> slots, fClearVol |-> fClearVol, fReset |-> fReset, f |-> f]

\* CwdCloseAll is a loop over the tasks.
LEMMA CwdCloseAllIs ==
  ASSUME NEW s, NEW slots \in SUBSET Slots, NEW fClearVol, NEW fReset, NEW f,
         NEW p, p = CwdLoop(s, slots, fClearVol, fReset, f)
  PROVE  \E m \in Nat : \E g :
           /\ \A i \in slots : i + 1 <= m
           /\ g[0] = Returns("OK", s) /\ \A n \in 1 .. m : g[n] = Pass("cwd", p, g[n - 1], n - 1)
           /\ CwdCloseAll(s, slots, fClearVol, fReset, f) = g[m]
<1>. DEFINE m == Max({0} \cup {i + 1 : i \in slots})
            Next1(r, i) == IF r.ret = "OK" THEN CwdClose(r.s, i, fClearVol, fReset, f) ELSE r
            Is(g) == g = [n \in 0 .. m |-> IF n = 0 THEN Returns("OK", s)
                                           ELSE IF n - 1 \in slots THEN Next1(g[n - 1], n - 1) ELSE g[n - 1]]
            result == CwdCloseAll(s, slots, fClearVol, fReset, f)
<1>1. m \in Nat /\ \A i \in slots : i + 1 <= m
  <2>1. slots \in SUBSET Nat /\ IsFiniteSet(slots)
    BY UserIdsFinite, FS_Subset, PosixAssumption
  <2>. QED  BY <2>1, EndIs
<1>2. result = (CHOOSE g : Is(g))[m]
  BY DEF CwdCloseAll, InTurn, InOrder
<1>3. \A r, i : i \in slots => Pass("cwd", p, r, i) = Next1(r, i)
  BY DEF Pass, CwdLoop
<1>4. \A r, i : i \notin slots => Pass("cwd", p, r, i) = r
  BY DEF Pass, CwdLoop
<1>. HIDE DEF m, Next1, result
<1>a. PICK a : a = Returns("OK", s)
  OBVIOUS
<1>5. PICK h : Loop(h, m, a, "cwd", p)
  BY <1>1, LoopExists
<1>6. Is(h)
  BY <1>3, <1>4, <1>5, <1>a DEF Loop
<1>7. PICK g : g = CHOOSE x : Is(x)
  OBVIOUS
<1>8. Is(g)
  BY <1>6, <1>7
<1>9. g[0] = Returns("OK", s) /\ \A n \in 1 .. m : g[n] = Pass("cwd", p, g[n - 1], n - 1)
  BY <1>1, <1>3, <1>4, <1>8
<1>10. result = g[m]
  BY <1>2, <1>7
<1>. QED  BY <1>1, <1>9, <1>10 DEF result

\* What stays over two steps stays over both.
LEMMA StaysOn ==
  ASSUME NEW s, NEW t, NEW u, Stays(s, t), Stays(t, u)
  PROVE  Stays(s, u)
BY DEF Stays

\* The tasks of these slots have been sent to a root, up to slot n.
AllHome(s, slots, n, r) ==
  /\ r.ret = "OK" /\ Sound(r.s, {i \in slots : i >= n}) /\ Stays(s, r.s) /\ r.s.gaHandle = s.gaHandle
  /\ \A i \in Slots : i \notin slots \/ i >= n => r.s.gaTask[i] = s.gaTask[i]
  /\ \A i \in slots : i < n => r.s.gaTask[i].pCwd[2] = ROOT
  /\ (\A i \in slots : s.gaTask[i].pCwd # NULL => s.gaTask[i].pCwd[1] = s.gbRedVolNum)
       => r.s.gbRedVolNum = s.gbRedVolNum

\* One pass of it sends one task more to a root.
LEMMA OneMoreHome ==
  ASSUME NEW s, NEW slots \in SUBSET Slots, NEW fClearVol, NEW fReset, NEW f \in {"OK", "EIO"}, NEW n \in Nat \ {0},
         NEW r, AllHome(s, slots, n - 1, r), NEW p, p = CwdLoop(s, slots, fClearVol, fReset, f)
  PROVE  AllHome(s, slots, n, Pass("cwd", p, r, n - 1))
<1>. DEFINE X(k) == {i \in slots : i >= k}
<1>0. slots \subseteq Nat /\ Slots \subseteq Nat
  BY PosixAssumption
<1>1. CASE n - 1 \notin slots
  <2>1. Pass("cwd", p, r, n - 1) = r
    BY <1>1 DEF Pass, CwdLoop
  <2>2. \A i \in slots : (i >= n <=> i >= n - 1) /\ (i < n <=> i < n - 1)
    BY <1>0, <1>1
  <2>3. X(n) = X(n - 1)
    BY <2>2
  <2>4. \A i \in Slots : i \notin slots \/ i >= n => i \notin slots \/ i >= n - 1
    BY <1>0
  <2>. QED  BY <2>1, <2>2, <2>3, <2>4 DEF AllHome
<1>2. CASE n - 1 \in slots
  <2>j. PICK j \in slots : j = n - 1
    BY <1>2
  <2>s. r.ret = "OK" /\ Sound(r.s, X(j))
    BY <2>j DEF AllHome
  <2>x. PICK x : x = CwdClose(r.s, j, fClearVol, fReset, f)
    OBVIOUS
  <2>1. Pass("cwd", p, r, n - 1) = x
    BY <2>j, <2>s, <2>x DEF Pass, CwdLoop
  <2>y. PICK Y : Y = X(j)
    OBVIOUS
  <2>2. SentHome(r.s, Y, j, fClearVol, x)
    <3>1. j \in Slots /\ Sound(r.s, Y)
      BY <2>s, <2>y
    <3>. QED  BY ONLY f \in {"OK", "EIO"}, <2>x, <3>1, CwdCloseIs
  <2>3. PICK k \in Volumes : x.s.gaTask = [r.s.gaTask EXCEPT ![j].pCwd = <<k, ROOT>>]
    BY <2>2 DEF SentHome
  <2>4. DOMAIN r.s.gaTask = Slots /\ TaskRecord(r.s.gaTask[j])
    BY <2>s DEF Sound, Tables
  <2>5. x.s.gaTask[j].pCwd[2] = ROOT /\ \A i \in Slots : i # j => x.s.gaTask[i] = r.s.gaTask[i]
    BY <2>3, <2>4 DEF TaskRecord
  <2>6. X(j) \ {j} = X(n) /\ \A i \in slots : (i < n => i < j \/ i = j) /\ (i >= n => i >= j /\ i # j)
    <3>1. \A i \in Nat : (i >= n <=> i >= j /\ i # j) /\ (i < n <=> i < j \/ i = j)
      BY <1>0, <2>j
    <3>2. \A i \in slots : (i >= n <=> i >= j /\ i # j) /\ (i < n <=> i < j \/ i = j)
      BY <1>0, <3>1
    <3>. QED  BY <3>2
  <2>7. Sound(x.s, X(n)) /\ Stays(r.s, x.s) /\ x.s.gaHandle = r.s.gaHandle /\ x.ret = "OK"
        /\ (x.s.gbRedVolNum = r.s.gbRedVolNum \/ (r.s.gaTask[j].pCwd # NULL /\ x.s.gbRedVolNum = r.s.gaTask[j].pCwd[1]))
    BY <2>2, <2>6, <2>y DEF SentHome
  <2>8. /\ Stays(s, r.s) /\ r.s.gaHandle = s.gaHandle
        /\ \A i \in Slots : i \notin slots \/ i >= j => r.s.gaTask[i] = s.gaTask[i]
        /\ \A i \in slots : i < j => r.s.gaTask[i].pCwd[2] = ROOT
        /\ (\A i \in slots : s.gaTask[i].pCwd # NULL => s.gaTask[i].pCwd[1] = s.gbRedVolNum)
             => r.s.gbRedVolNum = s.gbRedVolNum
    BY <2>j DEF AllHome
  <2>9. Stays(s, x.s)
    BY <2>7, <2>8, StaysOn
  <2>10. \A i \in Slots : i \notin slots \/ i >= n => x.s.gaTask[i] = s.gaTask[i]
    BY <1>0, <2>5, <2>6, <2>8
  <2>11. \A i \in slots : i < n => x.s.gaTask[i].pCwd[2] = ROOT
    BY <2>5, <2>6, <2>8
  <2>12. (\A i \in slots : s.gaTask[i].pCwd # NULL => s.gaTask[i].pCwd[1] = s.gbRedVolNum)
           => x.s.gbRedVolNum = s.gbRedVolNum
    <3>1. r.s.gaTask[j] = s.gaTask[j]
      BY <1>0, <2>8, <2>j
    <3>. QED  BY <2>7, <2>8, <3>1
  <2>. QED  BY <2>1, <2>7, <2>8, <2>9, <2>10, <2>11, <2>12 DEF AllHome
<1>. QED  BY <1>1, <1>2

\* It sends all of them there.
LEMMA CwdsHome ==
  ASSUME NEW s, NEW slots \in SUBSET Slots, Sound(s, slots), NEW fClearVol, NEW fReset, NEW f \in {"OK", "EIO"},
         NEW r, r = CwdCloseAll(s, slots, fClearVol, fReset, f)
  PROVE  /\ r.ret = "OK" /\ Sound(r.s, {}) /\ Stays(s, r.s) /\ r.s.gaHandle = s.gaHandle
         /\ \A i \in Slots \ slots : r.s.gaTask[i] = s.gaTask[i]
         /\ \A i \in slots : r.s.gaTask[i].pCwd[2] = ROOT
         /\ (\A i \in slots : s.gaTask[i].pCwd # NULL => s.gaTask[i].pCwd[1] = s.gbRedVolNum)
              => r.s.gbRedVolNum = s.gbRedVolNum
<1>p. PICK p : p = CwdLoop(s, slots, fClearVol, fReset, f)
  OBVIOUS
<1>1. PICK m \in Nat : \E g :
        /\ \A i \in slots : i + 1 <= m
        /\ g[0] = Returns("OK", s) /\ \A n \in 1 .. m : g[n] = Pass("cwd", p, g[n - 1], n - 1)
        /\ CwdCloseAll(s, slots, fClearVol, fReset, f) = g[m]
  BY <1>p, CwdCloseAllIs
<1>2. PICK g :
        /\ \A i \in slots : i + 1 <= m
        /\ g[0] = Returns("OK", s) /\ \A n \in 1 .. m : g[n] = Pass("cwd", p, g[n - 1], n - 1)
        /\ CwdCloseAll(s, slots, fClearVol, fReset, f) = g[m]
  BY <1>1
<1>3. slots \subseteq Nat /\ Slots \subseteq Nat
  BY PosixAssumption
<1>4. AllHome(s, slots, 0, g[0])
  <2>1. g[0].ret = "OK" /\ g[0].s = s
    BY <1>2 DEF Returns
  <2>2. {i \in slots : i >= 0} = slots /\ \A i \in slots : ~(i < 0)
    <3>1. \A i \in Nat : i >= 0 /\ ~(i < 0)
      OBVIOUS
    <3>2. \A i \in slots : i >= 0 /\ ~(i < 0)
      BY <1>3, <3>1
    <3>. QED  BY <3>2
  <2>3. Stays(s, s)
    BY DEF Stays
  <2>. QED  BY <2>1, <2>2, <2>3 DEF AllHome
<1>5. ASSUME NEW n \in 1 .. m, AllHome(s, slots, n - 1, g[n - 1])
      PROVE  AllHome(s, slots, n, g[n])
  <2>1. n \in Nat \ {0} /\ g[n] = Pass("cwd", p, g[n - 1], n - 1)
    BY <1>2
  <2>. QED  BY <1>5, <1>p, <2>1, OneMoreHome
<1>6. AllHome(s, slots, m, g[m])
  <2>. DEFINE S == {n \in 0 .. m : AllHome(s, slots, n, g[n])}
  <2>1. 0 \in S
    BY <1>4
  <2>2. \A n \in 1 .. m : n - 1 \in S => n \in S
    BY <1>5
  <2>3. m \in 0 .. m
    OBVIOUS
  <2>. HIDE DEF S
  <2>4. m \in S
    BY <2>1, <2>2, <2>3, Counting
  <2>. QED  BY <2>4 DEF S
<1>7. {i \in slots : i >= m} = {} /\ \A i \in slots : i < m
  <2>1. \A i \in Nat : i + 1 <= m => i < m /\ ~(i >= m)
    OBVIOUS
  <2>2. \A i \in slots : i < m /\ ~(i >= m)
    BY <1>2, <1>3, <2>1
  <2>. QED  BY <2>2
<1>8. r = g[m]
  BY <1>2
<1>. QED  BY <1>6, <1>7, <1>8 DEF AllHome

-----------------------------------------------------------------------------
(* Closing.                                                                *)

\* A good result of a call on the current volume, in the driver.
LEMMA VolumeDone ==
  ASSUME NEW s, Sound(s, {}), NEW r, NEW Y, Result(Vol(s), r, Y), \A i \in Y : ~InUseBy(s, {}, <<s.gbRedVolNum, i>>),
         NEW c, c = OnVolume(s, r)
  PROVE  /\ Answers(s, c) /\ c.ret = r.ret /\ Vol(c.s) = r.v /\ Frame(s, c.s, {"vol"})
         /\ s.gbRedVolNum \in Volumes /\ c.s.vol[s.gbRedVolNum] = r.v /\ Vol(s) = s.vol[s.gbRedVolNum]
         /\ c.s.gaHandle = s.gaHandle /\ c.s.gaTask = s.gaTask /\ c.s.gaOpenInos = s.gaOpenInos
         /\ c.s.gbRedVolNum = s.gbRedVolNum /\ c.s.gauGeneration = s.gauGeneration
         /\ \A m \in Volumes \ {s.gbRedVolNum} : c.s.vol[m] = s.vol[m]
<1>1. Answers(s, c) /\ Frame(s, c.s, {"vol"})
  BY VolumeAnswers
<1>2. Tables(s)
  BY DEF Sound
<1>3. /\ c.ret = r.ret /\ c.s.vol[s.gbRedVolNum] = r.v /\ Vol(c.s) = r.v /\ Vol(s) = s.vol[s.gbRedVolNum]
      /\ s.gbRedVolNum \in Volumes /\ \A m \in Volumes \ {s.gbRedVolNum} : c.s.vol[m] = s.vol[m]
  BY ONLY c = OnVolume(s, r), <1>2, OnVolumeIs
<1>4. /\ c.s.gaHandle = s.gaHandle /\ c.s.gaTask = s.gaTask /\ c.s.gaOpenInos = s.gaOpenInos
      /\ c.s.gbRedVolNum = s.gbRedVolNum /\ c.s.gauGeneration = s.gauGeneration
  BY ONLY <1>1, FrameIs
<1>. QED  BY <1>1, <1>3, <1>4

\* A handle has been closed.
HandleClosed(s, h, flags, r) ==
  /\ Answers(s, r) /\ r.s.gaTask = s.gaTask /\ r.s.gbRedVolNum = s.gaHandle[h].pOpenIno[1]
  /\ flags = {} => r.ret = "OK" /\ r.s.gaHandle = [s.gaHandle EXCEPT ![h] = FreeHandle]

\* HandleClose closes a handle, or fails with the volume.
LEMMA HandleCloseIs ==
  ASSUME NEW s, Sound(s, {}), NEW h \in Handles, InUse(s, h), NEW flags, NEW f \in {"OK", "EIO"},
         NEW c, c = HandleClose(s, h, flags, f)
  PROVE  HandleClosed(s, h, flags, c)
<1>k. PICK key : key = s.gaHandle[h].pOpenIno
  OBVIOUS
<1>t. PICK t : t = Current(s, key[1])
  OBVIOUS
<1>m. PICK mask : mask = IF Vol(t).fReadOnly THEN [ret |-> "OK", mask |-> {}] ELSE RedCoreTransMaskGet(Vol(t))
  OBVIOUS
<1>p. PICK fTransacting : fTransacting = (mask.mask \cap flags # {})
  OBVIOUS
<1>d. PICK fDoCleanup : fDoCleanup = TRUE
  OBVIOUS
<1>r. PICK r : r = OpenInoDeref(t, key, fDoCleanup, fTransacting, f)
  OBVIOUS
<1>u. PICK u : u = [r.s EXCEPT !.gaHandle[h] = FreeHandle]
  OBVIOUS
<1>1. key \in Keys /\ key # NULL /\ key[1] \in Volumes /\ s.vol[key[1]].fMounted
  BY <1>k, NullIs DEF Sound, Tables, HandleRecord, HandleGood, InUseAs, InUse, Keys
<1>2. /\ Sound(t, {}) /\ t.gbRedVolNum = key[1] /\ Frame(s, t, {"gbRedVolNum"})
      /\ Stays(s, t) /\ FlagsSame(s, t) /\ Seen(t) = Seen(s)
  BY <1>1, <1>t, CurrentIs
<1>3. t.gaHandle = s.gaHandle /\ t.gaTask = s.gaTask /\ t.vol = s.vol
  BY ONLY <1>2, FrameIs
<1>4. Vol(t).fMounted /\ mask.ret = "OK"
  BY <1>1, <1>2, <1>3, <1>m DEF Vol, RedCoreTransMaskGet
<1>5. c = IF r.ret # "OK" THEN r
          ELSE IF ~Vol(u).fReadOnly /\ fTransacting THEN OnVolume(u, RedCoreVolTransact(Vol(u), f))
          ELSE Returns("OK", u)
  BY <1>4, <1>d, <1>k, <1>m, <1>p, <1>r, <1>t, <1>u DEF HandleClose
<1>6. key \in DOMAIN t.gaOpenInos /\ key = t.gaHandle[h].pOpenIno
  BY <1>1, <1>2, <1>3, <1>k, UsedIsOpen, UsesIs, UsersNamed
<1>7. /\ Stays(t, r.s) /\ r.s.gaHandle = s.gaHandle /\ r.s.gaTask = s.gaTask /\ r.s.gbRedVolNum = key[1]
      /\ (~fTransacting => r.ret = "OK") /\ r.ret # "EFUBAR"
      /\ r.ret # "OK" => Sound(r.s, {}) /\ (FlagsSame(t, r.s) => Seen(r.s) = Seen(t))
  <2>1. /\ Stays(t, r.s) /\ r.s.gaHandle = t.gaHandle /\ r.s.gaTask = t.gaTask /\ r.s.gbRedVolNum \in {t.gbRedVolNum, key[1]}
        /\ (~fTransacting => r.ret = "OK") /\ r.ret # "EFUBAR"
        /\ r.ret # "OK" => Sound(r.s, {}) /\ (FlagsSame(t, r.s) => Seen(r.s) = Seen(t))
    BY ONLY f \in {"OK", "EIO"}, <1>1, <1>2, <1>6, <1>r, DerefStays
  <2>. QED  BY <1>2, <1>3, <2>1
<1>8. flags = {} => r.ret = "OK" /\ ~fTransacting
  <2>1. flags = {} => ~fTransacting
    BY <1>p
  <2>. QED  BY <1>7, <2>1
<1>9. CASE r.ret # "OK"
  <2>1. Answers(t, r)
    BY <1>7, <1>9 DEF Answers
  <2>2. Answers(s, r)
    BY <1>2, <2>1, AnswersAfter
  <2>. QED  BY <1>5, <1>7, <1>8, <1>9, <1>k, <2>2 DEF HandleClosed
<1>10. CASE r.ret = "OK"
  <2>1. DOMAIN r.s = Fields
    <3>1. Dereferenced(t, key, r.s)
      BY ONLY f \in {"OK", "EIO"}, <1>1, <1>2, <1>6, <1>10, <1>r, DerefIs
    <3>. QED  BY <3>1 DEF Dereferenced, VolumeOf
  <2>2. Frame(r.s, u, {"gaHandle"}) /\ u.gaHandle = [t.gaHandle EXCEPT ![h] = FreeHandle]
    BY ONLY <1>3, <1>7, <1>u, <2>1 DEF Frame, Fields
  <2>3. Sound(u, {})
    BY ONLY f \in {"OK", "EIO"}, h \in Handles, <1>1, <1>2, <1>6, <1>r, <1>10, <2>2, DerefHandle
  <2>4. u.gaTask = s.gaTask /\ u.gbRedVolNum = key[1] /\ u.vol = r.s.vol
        /\ u.gfPosixInited = r.s.gfPosixInited /\ u.gauGeneration = r.s.gauGeneration
    BY <1>7, <2>2, FrameIs
  <2>5. Stays(s, u)
    BY <1>2, <1>7, <2>4 DEF Stays
  <2>6. CASE ~Vol(u).fReadOnly /\ fTransacting
    <3>x. PICK x : x = RedCoreVolTransact(Vol(u), f)
      OBVIOUS
    <3>1. VolumeGood(Vol(u)) /\ Vol(u) = u.vol[key[1]] /\ Vol(u).fMounted
      BY <1>1, <2>3, <2>4, <2>5 DEF Vol, Sound, Tables, Stays
    <3>2. Result(Vol(u), x, {}) /\ (x.ret # "OK" => x.v.fReadOnly)
      BY <2>6, <3>1, <3>x, TransactResult DEF Writeable
    <3>3. c = OnVolume(u, x)
      BY <1>5, <1>10, <2>6, <3>x
    <3>4. Answers(u, c) /\ c.ret = x.ret /\ c.s.vol[key[1]] = x.v /\ c.s.gaTask = u.gaTask /\ c.s.gbRedVolNum = u.gbRedVolNum
      <4>1. /\ Answers(u, c) /\ c.ret = x.ret /\ c.s.vol[u.gbRedVolNum] = x.v
            /\ c.s.gaTask = u.gaTask /\ c.s.gbRedVolNum = u.gbRedVolNum
        BY ONLY <2>3, <3>2, <3>3, VolumeDone
      <4>. QED  BY <2>4, <4>1
    <3>7. Stays(s, c.s)
      BY <2>5, <3>4, StaysOn DEF Answers
    <3>8. c.ret # "OK" => ~FlagsSame(s, c.s)
      BY <1>1, <2>5, <2>6, <3>1, <3>2, <3>4 DEF FlagsSame, Stays
    <3>9. Answers(s, c)
      BY <3>4, <3>7, <3>8 DEF Answers
    <3>. QED  BY <1>8, <1>k, <2>4, <2>6, <3>4, <3>9 DEF HandleClosed
  <2>7. CASE ~(~Vol(u).fReadOnly /\ fTransacting)
    <3>1. c.ret = "OK" /\ c.s = u
      BY <1>5, <1>10, <2>7 DEF Returns
    <3>2. Answers(s, c)
      BY <2>3, <2>5, <3>1 DEF Answers
    <3>. QED  BY <1>3, <1>k, <2>2, <2>4, <3>1, <3>2 DEF HandleClosed
  <2>. QED  BY <2>6, <2>7
<1>. QED  BY <1>9, <1>10

HandleLoop(handles, f) == [set |-> handles, f |-> f]

\* HandleCloseAll is a loop over the handles.
LEMMA HandleCloseAllIs ==
  ASSUME NEW s, NEW handles \in SUBSET Handles, NEW f, NEW p, p = HandleLoop(handles, f)
  PROVE  \E m \in Nat : \E g :
           /\ \A i \in handles : i + 1 <= m
           /\ g[0] = Returns("OK", s) /\ \A n \in 1 .. m : g[n] = Pass("handle", p, g[n - 1], n - 1)
           /\ HandleCloseAll(s, handles, f) = g[m]
<1>. DEFINE m == Max({0} \cup {i + 1 : i \in handles})
            Next1(r, i) == IF r.ret = "OK" THEN HandleClose(r.s, i, {}, f) ELSE r
            Is(g) == g = [n \in 0 .. m |-> IF n = 0 THEN Returns("OK", s)
                                           ELSE IF n - 1 \in handles THEN Next1(g[n - 1], n - 1) ELSE g[n - 1]]
            result == HandleCloseAll(s, handles, f)
<1>1. m \in Nat /\ \A i \in handles : i + 1 <= m
  <2>1. handles \in SUBSET Nat /\ IsFiniteSet(handles)
    BY UserIdsFinite, FS_Subset, PosixAssumption
  <2>. QED  BY <2>1, EndIs
<1>2. result = (CHOOSE g : Is(g))[m]
  BY DEF HandleCloseAll, InTurn, InOrder
<1>3. \A r, i : i \in handles => Pass("handle", p, r, i) = Next1(r, i)
  BY DEF Pass, HandleLoop
<1>4. \A r, i : i \notin handles => Pass("handle", p, r, i) = r
  BY DEF Pass, HandleLoop
<1>. HIDE DEF m, Next1, result
<1>a. PICK a : a = Returns("OK", s)
  OBVIOUS
<1>5. PICK h : Loop(h, m, a, "handle", p)
  BY <1>1, LoopExists
<1>6. Is(h)
  BY <1>3, <1>4, <1>5, <1>a DEF Loop
<1>7. PICK g : g = CHOOSE x : Is(x)
  OBVIOUS
<1>8. Is(g)
  BY <1>6, <1>7
<1>9. g[0] = Returns("OK", s) /\ \A n \in 1 .. m : g[n] = Pass("handle", p, g[n - 1], n - 1)
  BY <1>1, <1>3, <1>4, <1>8
<1>10. result = g[m]
  BY <1>2, <1>7
<1>. QED  BY <1>1, <1>9, <1>10 DEF result

\* The handles of the current volume have been closed, up to handle n.
AllClosed(s, handles, n, r) ==
  /\ r.ret = "OK" /\ Sound(r.s, {}) /\ Stays(s, r.s) /\ r.s.gaTask = s.gaTask /\ r.s.gbRedVolNum = s.gbRedVolNum
  /\ \A h \in Handles : h \notin handles \/ h >= n => r.s.gaHandle[h] = s.gaHandle[h]
  /\ \A h \in handles : h < n => r.s.gaHandle[h] = FreeHandle

\* One pass of it closes one handle more.
LEMMA OneMoreClosed ==
  ASSUME NEW s, NEW handles, handles \subseteq HandlesOf(s, s.gbRedVolNum), NEW f \in {"OK", "EIO"}, NEW n \in Nat \ {0},
         NEW r, AllClosed(s, handles, n - 1, r), NEW p, p = HandleLoop(handles, f)
  PROVE  AllClosed(s, handles, n, Pass("handle", p, r, n - 1))
<1>0. handles \subseteq Handles /\ Handles \subseteq Nat /\ handles \subseteq Nat
  BY PosixAssumption DEF HandlesOf
<1>1. CASE n - 1 \notin handles
  <2>1. Pass("handle", p, r, n - 1) = r
    BY <1>1 DEF Pass, HandleLoop
  <2>2. \A i \in Nat : i # n - 1 => (i < n <=> i < n - 1)
    OBVIOUS
  <2>3. \A i \in handles : i < n => i < n - 1
    BY <1>0, <1>1, <2>2
  <2>4. \A i \in Nat : i >= n => i >= n - 1
    OBVIOUS
  <2>5. \A i \in Handles : i \notin handles \/ i >= n => i \notin handles \/ i >= n - 1
    BY <1>0, <2>4
  <2>. QED  BY <2>1, <2>3, <2>5 DEF AllClosed
<1>2. CASE n - 1 \in handles
  <2>j. PICK j \in handles : j = n - 1
    BY <1>2
  <2>1. /\ r.ret = "OK" /\ Sound(r.s, {}) /\ Stays(s, r.s) /\ r.s.gaTask = s.gaTask /\ r.s.gbRedVolNum = s.gbRedVolNum
        /\ \A h \in Handles : h \notin handles \/ h >= j => r.s.gaHandle[h] = s.gaHandle[h]
        /\ \A h \in handles : h < j => r.s.gaHandle[h] = FreeHandle
    BY <2>j DEF AllClosed
  <2>a. \A i \in Nat : (i < n => i < j \/ i = j) /\ (i >= n => i >= j /\ i # j) /\ j >= j /\ j \in Nat
    BY <1>0, <2>j
  <2>2. j \in Handles /\ InUse(s, j) /\ s.gaHandle[j].pOpenIno[1] = s.gbRedVolNum /\ r.s.gaHandle[j] = s.gaHandle[j]
    <3>1. j \in Handles /\ InUse(s, j) /\ s.gaHandle[j].pOpenIno[1] = s.gbRedVolNum
      BY DEF HandlesOf
    <3>2. j >= j
      BY <1>0, <2>a
    <3>. QED  BY <2>1, <3>1, <3>2
  <2>c. PICK c : c = HandleClose(r.s, j, {}, f)
    OBVIOUS
  <2>3. Pass("handle", p, r, n - 1) = c
    BY <2>1, <2>c, <2>j DEF Pass, HandleLoop
  <2>4. InUse(r.s, j)
    BY <2>2 DEF InUse
  <2>z. PICK flags : flags = {}
    OBVIOUS
  <2>5. HandleClosed(r.s, j, flags, c)
    <3>1. c = HandleClose(r.s, j, flags, f)
      BY <2>c, <2>z
    <3>. QED  BY ONLY f \in {"OK", "EIO"}, <2>1, <2>2, <2>4, <3>1, HandleCloseIs
  <2>6. /\ Sound(c.s, {}) /\ Stays(r.s, c.s) /\ c.s.gaTask = s.gaTask /\ c.ret = "OK"
        /\ c.s.gbRedVolNum = s.gbRedVolNum /\ c.s.gaHandle = [r.s.gaHandle EXCEPT ![j] = FreeHandle]
    BY <2>1, <2>2, <2>5, <2>z DEF HandleClosed, Answers
  <2>7. DOMAIN r.s.gaHandle = Handles
    BY <2>1 DEF Sound, Tables
  <2>8. c.s.gaHandle[j] = FreeHandle /\ \A h \in Handles : h # j => c.s.gaHandle[h] = r.s.gaHandle[h]
    BY <2>2, <2>6, <2>7
  <2>9. \A h \in Handles : h \notin handles \/ h >= n => h # j /\ (h \notin handles \/ h >= j)
    BY <1>0, <2>a
  <2>10. \A h \in Handles : h \notin handles \/ h >= n => c.s.gaHandle[h] = s.gaHandle[h]
    BY <2>1, <2>8, <2>9
  <2>11. \A h \in handles : h < n => c.s.gaHandle[h] = FreeHandle
    BY <1>0, <2>1, <2>8, <2>a
  <2>12. Stays(s, c.s)
    BY <2>1, <2>6, StaysOn
  <2>. QED  BY <2>3, <2>6, <2>10, <2>11, <2>12 DEF AllClosed
<1>. QED  BY <1>1, <1>2

\* It closes all of them.
LEMMA HandlesClosed ==
  ASSUME NEW s, Sound(s, {}), NEW handles, handles \subseteq HandlesOf(s, s.gbRedVolNum), NEW f \in {"OK", "EIO"},
         NEW r, r = HandleCloseAll(s, handles, f)
  PROVE  /\ r.ret = "OK" /\ Sound(r.s, {}) /\ Stays(s, r.s) /\ r.s.gaTask = s.gaTask /\ r.s.gbRedVolNum = s.gbRedVolNum
         /\ \A h \in Handles \ handles : r.s.gaHandle[h] = s.gaHandle[h]
         /\ \A h \in handles : r.s.gaHandle[h] = FreeHandle
<1>p. PICK p : p = HandleLoop(handles, f)
  OBVIOUS
<1>0. handles \subseteq Handles /\ Handles \subseteq Nat /\ handles \subseteq Nat
  BY PosixAssumption DEF HandlesOf
<1>1. PICK m \in Nat : \E g :
        /\ \A i \in handles : i + 1 <= m
        /\ g[0] = Returns("OK", s) /\ \A n \in 1 .. m : g[n] = Pass("handle", p, g[n - 1], n - 1)
        /\ HandleCloseAll(s, handles, f) = g[m]
  BY <1>0, <1>p, HandleCloseAllIs
<1>2. PICK g :
        /\ \A i \in handles : i + 1 <= m
        /\ g[0] = Returns("OK", s) /\ \A n \in 1 .. m : g[n] = Pass("handle", p, g[n - 1], n - 1)
        /\ HandleCloseAll(s, handles, f) = g[m]
  BY <1>1
<1>4. AllClosed(s, handles, 0, g[0])
  <2>1. g[0].ret = "OK" /\ g[0].s = s
    BY <1>2 DEF Returns
  <2>2. \A i \in handles : ~(i < 0)
    <3>1. \A i \in Nat : ~(i < 0)
      OBVIOUS
    <3>. QED  BY <1>0, <3>1
  <2>3. Stays(s, s)
    BY DEF Stays
  <2>. QED  BY <2>1, <2>2, <2>3 DEF AllClosed
<1>5. ASSUME NEW n \in 1 .. m, AllClosed(s, handles, n - 1, g[n - 1])
      PROVE  AllClosed(s, handles, n, g[n])
  <2>1. n \in Nat \ {0} /\ g[n] = Pass("handle", p, g[n - 1], n - 1)
    BY <1>2
  <2>. QED  BY <1>5, <1>p, <2>1, OneMoreClosed
<1>6. AllClosed(s, handles, m, g[m])
  <2>. DEFINE S == {n \in 0 .. m : AllClosed(s, handles, n, g[n])}
  <2>1. 0 \in S
    BY <1>4
  <2>2. \A n \in 1 .. m : n - 1 \in S => n \in S
    BY <1>5
  <2>3. m \in 0 .. m
    OBVIOUS
  <2>. HIDE DEF S
  <2>4. m \in S
    BY <2>1, <2>2, <2>3, Counting
  <2>. QED  BY <2>4 DEF S
<1>7. \A i \in handles : i < m
  <2>1. \A i \in Nat : i + 1 <= m => i < m
    OBVIOUS
  <2>. QED  BY <1>0, <1>2, <2>1
<1>8. r = g[m]
  BY <1>2
<1>. QED  BY <1>6, <1>7, <1>8 DEF AllClosed

-----------------------------------------------------------------------------
(* Transaction points of all volumes.                                      *)

SyncLoop == [set |-> Volumes, f |-> "OK"]

\* red_sync is a loop over the volumes.
LEMMA SyncIs ==
  ASSUME NEW s
  PROVE  \E m \in Nat : \E g :
           /\ g[0] = Returns("OK", s) /\ \A n \in 1 .. m : g[n] = Pass("sync", SyncLoop, g[n - 1], n - 1)
           /\ red_sync(s, "OK") = g[m]
<1>. DEFINE m == Max({0} \cup {i + 1 : i \in Volumes})
            Next1(r, n) ==
              IF ~Writeable(r.s.vol[n]) THEN r
              ELSE IF "SYNC" \notin r.s.vol[n].mask THEN Returns(r.ret, Current(r.s, n))
              ELSE LET w == OnVolume(Current(r.s, n), RedCoreVolTransact(r.s.vol[n], "OK"))
                   IN  Returns(IF w.ret = "OK" THEN r.ret ELSE w.ret, w.s)
            Is(g) == g = [n \in 0 .. m |-> IF n = 0 THEN Returns("OK", s)
                                           ELSE IF n - 1 \in Volumes THEN Next1(g[n - 1], n - 1) ELSE g[n - 1]]
            result == red_sync(s, "OK")
<1>p. PICK p : p = SyncLoop
  OBVIOUS
<1>1. m \in Nat
  BY EndIs, PosixAssumption
<1>2. result = (CHOOSE g : Is(g))[m]
  BY DEF red_sync, InOrder
<1>3. \A r, i : i \in Volumes => Pass("sync", p, r, i) = Next1(r, i)
  BY <1>p DEF Pass, SyncLoop
<1>4. \A r, i : i \notin Volumes => Pass("sync", p, r, i) = r
  BY <1>p DEF Pass, SyncLoop
<1>. HIDE DEF m, Next1, result
<1>a. PICK a : a = Returns("OK", s)
  OBVIOUS
<1>5. PICK h : Loop(h, m, a, "sync", p)
  BY <1>1, LoopExists
<1>6. Is(h)
  BY <1>3, <1>4, <1>5, <1>a DEF Loop
<1>7. PICK g : g = CHOOSE x : Is(x)
  OBVIOUS
<1>8. Is(g)
  BY <1>6, <1>7
<1>9. g[0] = Returns("OK", s) /\ \A n \in 1 .. m : g[n] = Pass("sync", p, g[n - 1], n - 1)
  BY <1>1, <1>3, <1>4, <1>8
<1>10. result = g[m]
  BY <1>2, <1>7
<1>. QED  BY <1>1, <1>9, <1>10, <1>p DEF result

Synced(s, r) == r.ret = "OK" /\ Sound(r.s, {}) /\ Stays(s, r.s)

\* One pass of it keeps the driver sound.
LEMMA OneMoreSynced ==
  ASSUME NEW s, NEW r, Synced(s, r), NEW n
  PROVE  Synced(s, Pass("sync", SyncLoop, r, n))
<1>c. PICK c : c = Pass("sync", SyncLoop, r, n)
  OBVIOUS
<1>u. PICK u : u = Current(r.s, n)
  OBVIOUS
<1>x. PICK x : x = RedCoreVolTransact(r.s.vol[n], "OK")
  OBVIOUS
<1>w. PICK w : w = OnVolume(u, x)
  OBVIOUS
<1>1. \/ c = r
      \/ n \in Volumes /\ Writeable(r.s.vol[n]) /\ c = Returns(r.ret, u)
      \/ n \in Volumes /\ Writeable(r.s.vol[n]) /\ c = Returns(IF w.ret = "OK" THEN r.ret ELSE w.ret, w.s)
  BY <1>c, <1>u, <1>w, <1>x DEF Pass, SyncLoop
<1>2. CASE c = r
  BY <1>2, <1>c
<1>3. CASE n \in Volumes /\ Writeable(r.s.vol[n])
  <2>0. Sound(r.s, {})
    BY DEF Synced
  <2>1. Sound(u, {}) /\ u.gbRedVolNum = n /\ Frame(r.s, u, {"gbRedVolNum"}) /\ Stays(r.s, u)
    BY <1>3, <1>u, <2>0, CurrentIs
  <2>2. u.vol = r.s.vol
    BY ONLY <2>1, FrameIs
  <2>3. Vol(u) = r.s.vol[n] /\ VolumeGood(Vol(u))
    BY <1>3, <2>1, <2>2 DEF Vol, Sound, Tables
  <2>4. Result(Vol(u), x, {}) /\ x.ret = "OK"
    BY <1>3, <1>x, <2>3, TransactResult
  <2>5. Answers(u, w) /\ w.ret = x.ret
    BY ONLY <1>w, <2>1, <2>4, VolumeDone
  <2>6. Sound(w.s, {}) /\ Stays(r.s, w.s)
    BY <2>1, <2>5, StaysOn DEF Answers
  <2>7. Synced(s, Returns("OK", u)) /\ Synced(s, Returns("OK", w.s))
    BY <2>1, <2>6, StaysOn DEF Synced, Returns
  <2>8. c = r \/ c = Returns("OK", u) \/ c = Returns("OK", w.s)
    BY <1>1, <2>4, <2>5 DEF Synced
  <2>. QED  BY <1>2, <1>c, <2>7, <2>8
<1>. QED  BY <1>1, <1>2, <1>3

\* red_sync answers.
LEMMA SyncAnswers ==
  ASSUME NEW s, Sound(s, {})
  PROVE  Answers(s, red_sync(s, "OK"))
<1>1. PICK m \in Nat : \E g :
        /\ g[0] = Returns("OK", s) /\ \A n \in 1 .. m : g[n] = Pass("sync", SyncLoop, g[n - 1], n - 1)
        /\ red_sync(s, "OK") = g[m]
  BY SyncIs
<1>2. PICK g :
        /\ g[0] = Returns("OK", s) /\ \A n \in 1 .. m : g[n] = Pass("sync", SyncLoop, g[n - 1], n - 1)
        /\ red_sync(s, "OK") = g[m]
  BY <1>1
<1>3. Synced(s, g[0])
  BY <1>2 DEF Synced, Returns, Stays
<1>4. \A n \in 1 .. m : Synced(s, g[n - 1]) => Synced(s, g[n])
  BY <1>2, OneMoreSynced
<1>5. Synced(s, g[m])
  <2>. DEFINE S == {n \in 0 .. m : Synced(s, g[n])}
  <2>1. 0 \in S
    BY <1>3
  <2>2. \A n \in 1 .. m : n - 1 \in S => n \in S
    BY <1>4
  <2>3. m \in 0 .. m
    OBVIOUS
  <2>. HIDE DEF S
  <2>4. m \in S
    BY <2>1, <2>2, <2>3, Counting
  <2>. QED  BY <2>4 DEF S
<1>. QED  BY <1>2, <1>5 DEF Synced, Answers

-----------------------------------------------------------------------------
(* Where a call begins.                                                    *)

Registered(s, t) == s.gfPosixInited /\ TaskFind(s, t) # {}

\* u is s but for the current volume.
Shows(s, u) ==
  /\ Sound(u, {}) /\ Stays(s, u) /\ FlagsSame(s, u) /\ Seen(u) = Seen(s)
  /\ u.vol = s.vol /\ u.gaHandle = s.gaHandle /\ u.gaTask = s.gaTask /\ u.gaOpenInos = s.gaOpenInos

\* The driver with another current volume shows the same.
LEMMA ShowsIs ==
  ASSUME NEW s, Sound(s, {})
  PROVE  Shows(s, s) /\ \A n \in Volumes : Shows(s, Current(s, n))
<1>1. Shows(s, s)
  BY DEF Shows, Stays, FlagsSame
<1>2. ASSUME NEW n \in Volumes PROVE Shows(s, Current(s, n))
  <2>t. PICK t : t = Current(s, n)
    OBVIOUS
  <2>1. Sound(t, {}) /\ Frame(s, t, {"gbRedVolNum"}) /\ Stays(s, t) /\ FlagsSame(s, t) /\ Seen(t) = Seen(s)
    BY <2>t, CurrentIs
  <2>2. t.vol = s.vol /\ t.gaHandle = s.gaHandle /\ t.gaTask = s.gaTask /\ t.gaOpenInos = s.gaOpenInos
    BY ONLY <2>1, FrameIs
  <2>. QED  BY <2>t, <2>1, <2>2 DEF Shows
<1>. QED  BY <1>1, <1>2

\* What shows the same over two steps shows it over both.
LEMMA ShowsOn ==
  ASSUME NEW s, NEW u, NEW w, Shows(s, u), Shows(u, w)
  PROVE  Shows(s, w)
BY DEF Shows, Stays, FlagsSame

\* Answers after another volume became the current one.
LEMMA ShowsAnswers ==
  ASSUME NEW s, NEW u, Shows(s, u)
  PROVE  (\A ret : ret # "EFUBAR" => Answers(s, Returns(ret, u))) /\ (\A r : Answers(u, r) => Answers(s, r))
<1>1. \A ret : ret # "EFUBAR" => Answers(s, Returns(ret, u))
  BY DEF Shows, Answers, Returns
<1>2. \A r : Answers(u, r) => Answers(s, r)
  BY AnswersAfter DEF Shows
<1>. QED  BY <1>1, <1>2

StartGood(s, start) ==
  /\ Shows(s, start.s) /\ start.names \in PathNames
  /\ VolumeGood(Vol(start.s)) /\ start.s.gbRedVolNum \in Volumes /\ start.ret # "EFUBAR"

\* There is a longest among the prefixes that match.
LEMMA LongestPrefix ==
  ASSUME NEW match \in SUBSET Volumes, match # {}
  PROVE  \E n \in match : \A m \in match : Len(Prefix[m]) <= Len(Prefix[n])
<1>. DEFINE A == {Len(Prefix[m]) : m \in match}
            Upper == {u \in Nat : \A x \in A : x <= u}
<1>1. IsFiniteSet(match)
  BY PosixAssumption, FS_Subset
<1>2. IsFiniteSet(A)
  <2>. DEFINE f == [m \in match |-> Len(Prefix[m])]
  <2>1. f \in Surjection(match, A)
    BY DEF Surjection
  <2>. QED  BY <1>1, <2>1, FS_Surjection
<1>3. \A m \in match : Len(Prefix[m]) \in Nat
  <2>1. \A m \in match : Prefix[m] \in Seq(Names)
    BY PosixAssumption
  <2>. QED  BY <2>1
<1>4. A \in SUBSET Nat /\ A # {}
  BY <1>3
<1>. HIDE DEF A
<1>5. PICK b \in Nat : \A x \in A : x <= b
  BY <1>2, <1>4, FiniteBound
<1>6. PICK u \in Upper : \A w \in Upper : u <= w
  BY <1>5, LeastMember
<1>7. u \in A
  <2>. SUFFICES ASSUME u \notin A PROVE FALSE
    OBVIOUS
  <2>1. u \in Nat /\ \A x \in A : x <= u /\ x # u /\ x \in Nat
    BY <1>4, <1>6
  <2>2. PICK x \in A : x <= u /\ x # u /\ x \in Nat
    BY <1>4, <2>1
  <2>3. u - 1 \in Upper
    BY <2>1, <2>2
  <2>. QED  BY <1>6, <2>1, <2>2, <2>3
<1>8. PICK n \in match : u = Len(Prefix[n])
  BY <1>7 DEF A
<1>9. \A m \in match : Len(Prefix[m]) <= Len(Prefix[n])
  BY <1>6, <1>8 DEF A
<1>. QED  BY <1>9

\* The volume of a path is a volume.
LEMMA PrefixLookupIs ==
  ASSUME NEW path
  PROVE  RedPathVolumePrefixLookup(path) \subseteq Volumes
<1>. DEFINE match == {n \in Volumes : Prefix[n] # <<>> /\ IsPrefix(Prefix[n], path)}
            default == {n \in Volumes : Prefix[n] = <<>>}
            one == CHOOSE n \in match : \A m \in match : Len(Prefix[m]) <= Len(Prefix[n])
            found == RedPathVolumePrefixLookup(path)
<1>1. found = IF match # {} THEN {one} ELSE default
  BY DEF RedPathVolumePrefixLookup
<1>2. match \in SUBSET Volumes /\ default \subseteq Volumes
  OBVIOUS
<1>. HIDE DEF match, default
<1>3. match # {} => one \in match
  BY <1>2, LongestPrefix
<1>. QED  BY <1>1, <1>2, <1>3

\* A descriptor that is accepted has a handle in use.
LEMMA FildesIs ==
  ASSUME NEW s, Sound(s, {}), NEW fd, NEW expected, FildesToHandle(s, fd, expected) = "OK"
  PROVE  /\ fd.idx \in Handles /\ InUse(s, fd.idx)
         /\ s.gaHandle[fd.idx].pOpenIno \in Keys /\ s.gaHandle[fd.idx].pOpenIno[1] \in Volumes
<1>1. fd.idx \in Handles /\ InUse(s, fd.idx)
  BY DEF FildesToHandle
<1>. QED  BY <1>1 DEF Sound, Tables, HandleRecord, InUse, Keys

\* A path starts on a volume, with names.
LEMMA StartIs ==
  ASSUME NEW s, Sound(s, {}), NEW t, Registered(s, t), NEW fd, NEW path \in Paths,
         NEW start, start = PathStartingPoint(s, t, fd, path)
  PROVE  StartGood(s, start)
<1>f. PICK found : found = RedPathVolumePrefixLookup(path)
  OBVIOUS
<1>n. PICK n : n = CHOOSE m \in found : TRUE
  OBVIOUS
<1>d. PICK at : at = FildesDir(s, t, fd)
  OBVIOUS
<1>c. PICK names : names = LocalNames(path)
  OBVIOUS
<1>u. PICK u : u = IF found = {} THEN s ELSE Current(s, n)
  OBVIOUS
<1>1. start.names = names /\ (start.s = s \/ start.s = u \/ (found # {} /\ start.s = Current(s, n))
                              \/ (at.ret = "OK" /\ start.s = Current(u, at.key[1])))
  BY <1>f, <1>n, <1>d, <1>c, <1>u DEF PathStartingPoint
<1>2. names \in PathNames
  BY <1>c, PathsAssumption DEF PathNames
<1>3. found # {} => n \in Volumes
  BY <1>f, <1>n, PrefixLookupIs
<1>4. Shows(s, s) /\ Shows(s, u) /\ (found # {} => Shows(s, Current(s, n)))
  BY <1>3, <1>u, ShowsIs
<1>5. at.ret = "OK" => at.key[1] \in Volumes
  <2>i. PICK i : i = CHOOSE j \in TaskFind(s, t) : TRUE
    OBVIOUS
  <2>1. i \in Slots
    BY <2>i DEF Registered, TaskFind
  <2>2. s.gaTask[i].pCwd # NULL => s.gaTask[i].pCwd[1] \in Volumes
    BY <2>1 DEF Sound, Tables, TaskRecord, Keys
  <2>3. CASE fd = FDCWD
    <3>1. Cwd(s, t) = s.gaTask[i].pCwd
      BY <2>i DEF Cwd
    <3>2. at = [ret |-> IF Cwd(s, t) = NULL THEN "EFUBAR" ELSE "OK", key |-> Cwd(s, t)]
      BY <1>d, <2>3 DEF FildesDir
    <3>. QED  BY <2>2, <3>1, <3>2
  <2>4. CASE fd # FDCWD
    <3>1. at.ret = "OK" => FildesToHandle(s, fd, {"DIR"}) = "OK" /\ at.key = s.gaHandle[fd.idx].pOpenIno
      BY <1>d, <2>4 DEF FildesDir
    <3>. QED  BY <3>1, FildesIs
  <2>. QED  BY <2>3, <2>4
<1>6. at.ret = "OK" => Shows(s, Current(u, at.key[1]))
  <2>1. Sound(u, {})
    BY <1>4 DEF Shows
  <2>. QED  BY <1>4, <1>5, <2>1, ShowsIs, ShowsOn
<1>7. Shows(s, start.s)
  BY <1>1, <1>4, <1>6
<1>8. VolumeGood(Vol(start.s)) /\ start.s.gbRedVolNum \in Volumes
  BY <1>7 DEF Shows, Sound, Tables, Vol
<1>9. at.ret # "EFUBAR"
  <2>1. CASE fd = FDCWD
    <3>1. PICK i : i = CHOOSE j \in TaskFind(s, t) : TRUE
      OBVIOUS
    <3>2. i \in Slots /\ Cwd(s, t) = s.gaTask[i].pCwd
      BY <3>1 DEF Registered, TaskFind, Cwd
    <3>3. Cwd(s, t) # NULL
      BY <3>2 DEF Registered, Sound, TaskGood
    <3>. QED  BY <1>d, <2>1, <3>3 DEF FildesDir
  <2>2. CASE fd # FDCWD
    <3>1. PICK dirs : dirs = {"DIR"}
      OBVIOUS
    <3>2. FildesToHandle(s, fd, dirs) # "EFUBAR"
      BY DEF FildesToHandle, RedFileTypeCheck
    <3>3. at.ret \in {"OK", "EBADF", FildesToHandle(s, fd, dirs)}
      BY <1>d, <2>2, <3>1 DEF FildesDir
    <3>. QED  BY <3>2, <3>3
  <2>. QED  BY <2>1, <2>2
<1>10. start.ret \in {at.ret, "OK", "ENOENT"}
  BY <1>f, <1>n, <1>d, <1>c DEF PathStartingPoint
<1>11. start.ret # "EFUBAR"
  BY <1>9, <1>10
<1>. QED  BY <1>1, <1>2, <1>7, <1>8, <1>11 DEF StartGood

\* A good result on the volume of a path answers.
LEMMA VolumeCall ==
  ASSUME NEW s, NEW u, Shows(s, u), NEW x, Result(Vol(u), x, {})
  PROVE  Answers(s, OnVolume(u, x))
<1>c. PICK c : c = OnVolume(u, x)
  OBVIOUS
<1>1. Sound(u, {})
  BY DEF Shows
<1>2. Answers(u, c)
  BY <1>1, <1>c, VolumeDone
<1>. QED  BY <1>2, <1>c, ShowsAnswers

\* What a path leads to, and the directory and the name of a last name.
LEMMA WalkAt ==
  ASSUME NEW s, NEW start, StartGood(s, start), NEW nofollow,
         NEW w, w = RedPathLookup(Vol(start.s), start.dir, start.names, nofollow)
  PROVE  w.ret \in WalkStatuses /\ (w.ret = "OK" => Vol(start.s).fMounted /\ Named(Vol(start.s), w.ino))
<1>1. VolumeGood(Vol(start.s)) /\ start.names \in Seq(Names \cup LongNames \cup {".", ".."})
  BY DEF StartGood, PathNames
<1>2. w = PathWalk(Vol(start.s), start.dir, start.names, nofollow)
  BY DEF RedPathLookup
<1>3. WalkGood(Vol(start.s), w)
  BY <1>1, <1>2, WalkIs
<1>. QED  BY <1>3 DEF WalkGood

\* The last name of a path, in a directory with a name.
LEMMA NameAt ==
  ASSUME NEW s, NEW start, StartGood(s, start), NEW err, err \in Statuses \ {"OK"}, NEW u, u = start.s,
         NEW dir, NEW names, names \in PathNames,
         NEW name, name = RedPathToName(Vol(u), dir, names, err)
  PROVE  /\ name.ret \in Statuses
         /\ name.ret = "OK" => Vol(u).fMounted /\ Named(Vol(u), name.p) /\ name.name \in Names \cup LongNames
<1>1. VolumeGood(Vol(u))
  BY DEF StartGood
<1>2. WalkStatuses \subseteq Statuses
  BY DEF WalkStatuses, Statuses
<1>. QED  BY <1>1, <1>2, PathToNameIs
=============================================================================
