--------------------------------- MODULE Dir ---------------------------------
(***************************************************************************)
(* Directories (dir.c) and the entry points of the core that change names  *)
(* (core.c), as operators on the state v of one volume.  An operator for a *)
(* call returns [ret, v], the status and the volume after it, and more     *)
(* fields where the call has results.  Each place where a call may fail is *)
(* an argument f: OK, ENOSPC (the step finds no block) or EIO (the step    *)
(* fails and makes the volume read-only).                                  *)
(*                                                                         *)
(* A directory is an array of entries and a size in bytes.  As in the code *)
(* nothing else says how many entries there are or whether it is empty.    *)
(***************************************************************************)
EXTENDS Integers, FiniteSets, FiniteSetsExt, TLC

CONSTANTS
  Inodes, ROOT,         \* the inode numbers; the root directory
  Names, LongNames,     \* the names callers use; those longer than REDCONF_NAME_MAX
  UINT16_MAX,           \* the most names of an inode
  BLOCK_SIZE, DIRENT_SIZE, NODEHEADER_SIZE,
  DIRENTS_MAX           \* the most entries of a directory

INODE_INVALID == 0

ASSUME DirAssumption ==
  /\ Inodes \subseteq Nat \ {INODE_INVALID} /\ IsFiniteSet(Inodes)
  /\ ROOT \in Inodes
  /\ {UINT16_MAX, BLOCK_SIZE, DIRENT_SIZE, DIRENTS_MAX} \subseteq Nat \ {0}
  /\ NODEHEADER_SIZE \in Nat
  /\ BLOCK_SIZE >= NODEHEADER_SIZE + DIRENT_SIZE

DIRENTS_PER_BLOCK      == (BLOCK_SIZE - NODEHEADER_SIZE) \div DIRENT_SIZE
DIR_BLOCK_UNUSED_SPACE == (BLOCK_SIZE - NODEHEADER_SIZE) % DIRENT_SIZE
DIR_INDEX_INVALID      == DIRENTS_MAX

Unused   == [name |-> "", ino |-> INODE_INVALID]
NoDirents == [idx \in 0 .. DIRENTS_MAX - 1 |-> Unused]

FREE_INODE == [type |-> "FREE", uNLink |-> 0, ulPInode |-> INODE_INVALID,
               ullSize |-> 0, dirents |-> NoDirents]
NewNode(type, p) == [FREE_INODE EXCEPT !.type = type, !.uNLink = 1, !.ulPInode = p]

\* A freshly formatted volume.
EmptyVolume ==
  [ node |-> [i \in Inodes |-> IF i = ROOT THEN NewNode("DIR", INODE_INVALID) ELSE FREE_INODE],
    orphans |-> {}, fMounted |-> TRUE, fReadOnly |-> FALSE ]

Exists(v, i) == i \in Inodes /\ v.node[i].type # "FREE"
IsDir(v, i)  == Exists(v, i) /\ v.node[i].type = "DIR"

Done(v)        == [ret |-> "OK", v |-> v]
Failed(err, v) == [ret |-> err, v |-> v]

\* RedVolCriticalError.
Critical(v) == [v EXCEPT !.fReadOnly = TRUE]

\* A step that may fail with f and else makes the volume w.
Step(v, f, w) ==
  IF f = "OK" THEN Done(w)
  ELSE Failed(f, IF f = "EIO" THEN Critical(v) ELSE v)

\* RedInodeMount of an inode that must be (or not be) a directory.
MountDir(v, i) ==
  IF ~Exists(v, i) THEN "EBADF" ELSE IF ~IsDir(v, i) THEN "ENOTDIR" ELSE "OK"

-----------------------------------------------------------------------------
(* Entries and sizes.                                                      *)

DirEntryIndexToOffset(idx) ==
  (idx \div DIRENTS_PER_BLOCK) * BLOCK_SIZE + NODEHEADER_SIZE
    + (idx % DIRENTS_PER_BLOCK) * DIRENT_SIZE

DirOffsetToEntryIndex(off) ==
  (off \div BLOCK_SIZE) * DIRENTS_PER_BLOCK +
    (IF off % BLOCK_SIZE = 0 THEN 0
     ELSE ((off % BLOCK_SIZE) - NODEHEADER_SIZE) \div DIRENT_SIZE)

Count(v, d)     == DirOffsetToEntryIndex(v.node[d].ullSize)
Used(v, d, idx) == v.node[d].dirents[idx].ino # INODE_INVALID

\* Inodes, and what the entries in use of a directory are.
Nodes ==
  [ type : {"FREE", "DIR", "REG", "LNK"}, uNLink : 0 .. UINT16_MAX,
    ulPInode : Inodes \cup {INODE_INVALID},
    ullSize : 0 .. DirEntryIndexToOffset(DIRENTS_MAX - 1) + DIRENT_SIZE,
    dirents : [0 .. DIRENTS_MAX - 1 ->
                 [name : Names \cup {""}, ino : Inodes \cup {INODE_INVALID}]] ]

Entries(v, d) ==
  {v.node[d].dirents[i] : i \in {j \in 0 .. DIRENTS_MAX - 1 : Used(v, d, j)}}

\* The entry of that name, or else where one could be put.
RedDirEntryLookup(v, d, name) ==
  LET no(err, idx) == [ret |-> err, idx |-> idx, ino |-> INODE_INVALID]
      room(n, free) == IF free # {} THEN Min(free) ELSE IF n < DIRENTS_MAX THEN n ELSE DIR_INDEX_INVALID
      seek(n, found) ==
        IF found # {}
        THEN [ret |-> "OK", idx |-> Min(found), ino |-> v.node[d].dirents[Min(found)].ino]
        ELSE no("ENOENT", room(n, {i \in 0 .. n - 1 : ~Used(v, d, i)}))
      among(n) == seek(n, {i \in 0 .. n - 1 : Used(v, d, i) /\ v.node[d].dirents[i].name = name})
  IN  IF ~IsDir(v, d) THEN no("ENOTDIR", 0)
      ELSE IF name = "" THEN no("EINVAL", 0)
      ELSE IF name \in LongNames THEN no("ENAMETOOLONG", 0)
      ELSE among(Count(v, d))

\* RedInodeDataWrite of one entry grows the file to its end.
DirEntryWrite(v, d, idx, ino, name, f) ==
  LET end == DirEntryIndexToOffset(idx) + DIRENT_SIZE
  IN  Step(v, f, [v EXCEPT !.node[d].dirents[idx] = [name |-> name, ino |-> ino],
                           !.node[d].ullSize = IF end > @ THEN end ELSE @])

RedDirEntryCreate(v, d, name, ino, f) ==
  LET put(at) ==
        IF at.ret = "OK" THEN Failed("EEXIST", v)
        ELSE IF at.ret # "ENOENT" THEN Failed(at.ret, v)
        ELSE IF at.idx = DIR_INDEX_INVALID THEN Failed("ENOSPC", v)
        ELSE DirEntryWrite(v, d, at.idx, ino, name, f)
  IN  IF name \in {".", ".."} THEN Failed("EINVAL", v)
      ELSE put(RedDirEntryLookup(v, d, name))

\* The number of entries left when the last one goes: unused entries before
\* it go too.
TruncIdx(v, d, last) == Max({-1} \cup {i \in 0 .. last - 1 : Used(v, d, i)}) + 1

\* Bug: the header of a block that becomes empty stays.
TruncSizeKeepingHeader(idx) == DirEntryIndexToOffset(idx)

\* The size for so many entries, without the header of the block after them
\* and without the space at the end of the block before.
TruncSize(idx) ==
  LET off  == DirEntryIndexToOffset(idx)
      trim(size) == IF size >= BLOCK_SIZE /\ size % BLOCK_SIZE = 0
                    THEN size - DIR_BLOCK_UNUSED_SPACE ELSE size
  IN  trim(IF idx % DIRENTS_PER_BLOCK = 0 THEN off - NODEHEADER_SIZE ELSE off)

\* Bug: the last entry moves to the place of the one deleted.
DeleteMovingLast(v, d, idx, f) ==
  LET last == Count(v, d) - 1
  IN  Step(v, f,
        [v EXCEPT !.node[d].ullSize = TruncSize(last),
                  !.node[d].dirents = [@ EXCEPT ![idx] = v.node[d].dirents[last], ![last] = Unused]])

RedDirEntryDelete(v, d, idx, f) ==
  LET k == TruncIdx(v, d, idx)
  IN  IF ~IsDir(v, d) THEN Failed("ENOTDIR", v)
      ELSE IF idx >= DIRENTS_MAX THEN Failed("EINVAL", v)
      ELSE IF DirEntryIndexToOffset(idx) >= v.node[d].ullSize THEN Failed("EINVAL", v)
      ELSE IF DirEntryIndexToOffset(idx) + DIRENT_SIZE = v.node[d].ullSize
           THEN Step(v, f,
                  [v EXCEPT !.node[d].ullSize = TruncSize(k),
                            !.node[d].dirents = [i \in DOMAIN @ |-> IF i < k THEN @[i] ELSE Unused]])
      ELSE DirEntryWrite(v, d, idx, INODE_INVALID, "", f)

\* Bug: the entry after the one found is skipped.
NextUsedSkipping(v, d, pos) == {i \in pos .. Count(v, d) - 2 : Used(v, d, i)}

NextUsed(v, d, pos) == {i \in pos .. Count(v, d) - 1 : Used(v, d, i)}

\* The next entry from *pulIdx on, and where to go on after it.
RedDirEntryRead(v, d, pos) ==
  LET next == NextUsed(v, d, pos)
  IN  IF ~IsDir(v, d) THEN [ret |-> "ENOTDIR", pos |-> pos, entry |-> Unused]
      ELSE IF next # {}
           THEN [ret |-> "OK", pos |-> Min(next) + 1, entry |-> v.node[d].dirents[Min(next)]]
      ELSE [ret |-> "ENOENT", pos |-> Count(v, d), entry |-> Unused]

-----------------------------------------------------------------------------
(* Rename.                                                                 *)

\* Bug: only the new parent itself is compared with the directory renamed.
CyclicByParentOnly(v, src, dstP) == src = dstP

\* DirCyclicRenameCheck: the parents of dstP, up to the root.
Ancestors(v, d) ==
  LET a[n \in 0 .. Cardinality(Inodes)] ==
        IF n = 0 THEN d
        ELSE IF a[n - 1] \in {ROOT, INODE_INVALID} THEN a[n - 1]
        ELSE v.node[a[n - 1]].ulPInode
  IN  {a[n] : n \in DOMAIN a}

DirCyclicRenameCheck(v, src, dstP) == src \in Ancestors(v, dstP)

\* Bug: the old entry of the new name is not put back.
UndoDeleting(v, dstP, dst, dstName, f) == RedDirEntryDelete(v, dstP, dst.idx, f)

\* The old entry of the new name is put back, or the new entry removed.
RenameUndo(v, dstP, dst, dstName, f) ==
  IF dst.ino # INODE_INVALID
  THEN DirEntryWrite(v, dstP, dst.idx, dst.ino, dstName, f)
  ELSE RedDirEntryDelete(v, dstP, dst.idx, f)

\* The entries of both names are known; the new one is written before the old
\* one is deleted.
RenameEntries(v, srcP, src, dstP, dst, dstName, f) ==
  LET ends(undone) ==
        IF undone.ret = "OK" THEN Failed("ENOSPC", undone.v)
        ELSE Failed(undone.ret, Critical(undone.v))
      move(deleted) ==
        IF deleted.ret = "OK"
        THEN Done([deleted.v EXCEPT !.node[src.ino].ulPInode = dstP])
        ELSE IF deleted.ret # "ENOSPC" THEN deleted
        ELSE ends(RenameUndo(deleted.v, dstP, dst, dstName, f.undo))
      delete(written) ==
        IF written.ret = "OK" THEN move(RedDirEntryDelete(written.v, srcP, src.idx, f.src))
        ELSE written
  IN  delete(DirEntryWrite(v, dstP, dst.idx, src.ino, dstName, f.dst))

\* What RedInodeMount says of the inode to replace.
ReplaceCheck(v, src, dst) ==
  IF dst = INODE_INVALID THEN "OK"
  ELSE IF ~Exists(v, dst) THEN "EBADF"
  ELSE IF IsDir(v, src) /\ ~IsDir(v, dst) THEN "ENOTDIR"
  ELSE IF ~IsDir(v, src) /\ IsDir(v, dst) THEN "EISDIR"
  ELSE IF IsDir(v, dst) /\ v.node[dst].ullSize > 0 THEN "ENOTEMPTY"
  ELSE "OK"

RedDirEntryRename(v, srcP, srcName, dstP, dstName, f) ==
  LET rename(src, dst, check) ==
        IF dstName \in {".", ".."} THEN Failed("EINVAL", v)
        ELSE IF src.ret # "OK" THEN Failed(src.ret, v)
        ELSE IF dst.ret \notin {"OK", "ENOENT"} THEN Failed(dst.ret, v)
        ELSE IF dst.idx = DIR_INDEX_INVALID THEN Failed("ENOSPC", v)
        ELSE IF src.ino = dst.ino THEN Done(v)
        ELSE IF check # "OK" THEN Failed(check, v)
        ELSE IF IsDir(v, src.ino) /\ DirCyclicRenameCheck(v, src.ino, dstP)
             THEN Failed("EINVAL", v)
        ELSE RenameEntries(v, srcP, src, dstP, dst, dstName, f)
      named(r, src, dst) == [ret |-> r.ret, v |-> r.v, src |-> src.ino, dst |-> dst.ino]
      with(src, dst) ==
        named(rename(src, dst, ReplaceCheck(v, src.ino, dst.ino)), src, dst)
  IN  with(RedDirEntryLookup(v, srcP, srcName), RedDirEntryLookup(v, dstP, dstName))

-----------------------------------------------------------------------------
(* core.c: one attempt of a call.                                          *)

RedInodeFree(v, i) == [v EXCEPT !.node[i] = FREE_INODE]

\* Bug: an orphan remembers its parent.
LinkDecKeepingParent(v, i, fOrphan) ==
  IF v.node[i].uNLink > 1 THEN [v EXCEPT !.node[i].uNLink = @ - 1]
  ELSE IF fOrphan THEN [v EXCEPT !.node[i].uNLink = 0, !.orphans = @ \cup {i}]
  ELSE RedInodeFree(v, i)

RedInodeLinkDec(v, i, fOrphan) ==
  IF v.node[i].uNLink > 1 THEN [v EXCEPT !.node[i].uNLink = @ - 1]
  ELSE IF fOrphan
       THEN [v EXCEPT !.node[i].uNLink = 0, !.node[i].ulPInode = INODE_INVALID,
                      !.orphans = @ \cup {i}]
  ELSE RedInodeFree(v, i)

\* RedCoreFreeOrphan.
FreeOrphan(v, i) == [RedInodeFree(v, i) EXCEPT !.orphans = @ \ {i}]

FreeInodes(v) == {i \in Inodes : ~Exists(v, i)}

\* Bug: the new inode is kept when its name cannot be written.
CoreCreateKeeping(v, p, name, type, f) ==
  LET new == Min(FreeInodes(v))
      w   == [v EXCEPT !.node[new] = NewNode(type, p)]
      r   == RedDirEntryCreate(w, p, name, new, f)
  IN  IF MountDir(v, p) # "OK" THEN Failed(MountDir(v, p), v) @@ [ino |-> INODE_INVALID]
      ELSE IF FreeInodes(v) = {} THEN Failed("ENFILE", v) @@ [ino |-> INODE_INVALID]
      ELSE r @@ [ino |-> new]

\* The inode is made before its name, and freed if the name fails.
CoreCreate(v, p, name, type, f) ==
  LET new == Min(FreeInodes(v))
      none(err, u) == [ret |-> err, v |-> u, ino |-> INODE_INVALID]
      named(r) == IF r.ret = "OK" THEN [ret |-> "OK", v |-> r.v, ino |-> new]
                  ELSE none(r.ret, RedInodeFree(r.v, new))
  IN  IF MountDir(v, p) # "OK" THEN none(MountDir(v, p), v)
      ELSE IF FreeInodes(v) = {} THEN none("ENFILE", v)
      ELSE named(RedDirEntryCreate([v EXCEPT !.node[new] = NewNode(type, p)], p, name, new, f))

\* Bug: the link count is not checked.
CoreLinkUnlimited(v, p, name, ino, f) ==
  LET r == RedDirEntryCreate(v, p, name, ino, f)
  IN  IF ~Exists(v, ino) \/ IsDir(v, ino) \/ r.ret # "OK" THEN r
      ELSE Done([r.v EXCEPT !.node[ino].uNLink = @ + 1])

CoreLink(v, p, name, ino, f) ==
  LET count(r) == IF r.ret = "OK" THEN Done([r.v EXCEPT !.node[ino].uNLink = @ + 1]) ELSE r
  IN  IF MountDir(v, p) # "OK" THEN Failed(MountDir(v, p), v)
      ELSE IF ~Exists(v, ino) THEN Failed("EBADF", v)
      ELSE IF IsDir(v, ino) THEN Failed("EPERM", v)
      ELSE IF v.node[ino].uNLink = UINT16_MAX THEN Failed("EMLINK", v)
      ELSE count(RedDirEntryCreate(v, p, name, ino, f))

Unlinkable(v, i) == ~(IsDir(v, i) /\ v.node[i].ullSize > 0)

CoreUnlink(v, p, name, fOrphan, f) ==
  LET count(r, ino) == IF r.ret = "OK" THEN Done(RedInodeLinkDec(r.v, ino, fOrphan)) ELSE r
      delete(at) ==
        IF at.ret # "OK" THEN Failed(at.ret, v)
        ELSE IF ~Unlinkable(v, at.ino) THEN Failed("ENOTEMPTY", v)
        ELSE count(RedDirEntryDelete(v, p, at.idx, f), at.ino)
  IN  IF MountDir(v, p) # "OK" THEN Failed(MountDir(v, p), v)
      ELSE delete(RedDirEntryLookup(v, p, name))

\* The inode replaced loses a name, after the entries changed.
CoreRename(v, srcP, srcName, dstP, dstName, fOrphan, f) ==
  LET count(r) ==
        IF r.ret = "OK" /\ r.dst # INODE_INVALID /\ r.dst # r.src
        THEN Done(RedInodeLinkDec(r.v, r.dst, fOrphan))
        ELSE Failed(r.ret, r.v)
  IN  IF MountDir(v, srcP) # "OK" THEN Failed(MountDir(v, srcP), v)
      ELSE IF MountDir(v, dstP) # "OK" THEN Failed(MountDir(v, dstP), v)
      ELSE count(RedDirEntryRename(v, srcP, srcName, dstP, dstName, f))

-----------------------------------------------------------------------------
(* core.c: the entry points.  A call that finds no space is tried once     *)
(* more if CoreFull (f.full) made some; f.transact is the outcome of an    *)
(* automatic transaction point, if one follows.                            *)

Writeable(v) == v.fMounted /\ ~v.fReadOnly
NotWriteable(v) == Failed(IF v.fMounted THEN "EROFS" ELSE "EINVAL", v)

\* CoreAutoTransact.
Transacted(r, f) ==
  IF r.ret = "OK" /\ f.transact = "EIO" THEN Failed("EIO", Critical(r.v)) ELSE r

\* attempt(w, g) is the call on the volume w with faults g.
Retried(v, attempt(_, _), f) ==
  LET again(first) ==
        IF first.ret = "ENOSPC" /\ f.full THEN attempt(first.v, f.two) ELSE first
  IN  Transacted(again(attempt(v, f.one)), f)

RedCoreCreate(v, p, name, type, f) ==
  IF ~Writeable(v) THEN [ret |-> NotWriteable(v).ret, v |-> v, ino |-> INODE_INVALID]
  ELSE Retried(v, LAMBDA w, g : CoreCreate(w, p, name, type, g.dst), f)

RedCoreLink(v, p, name, ino, f) ==
  IF ~Writeable(v) THEN NotWriteable(v)
  ELSE Retried(v, LAMBDA w, g : CoreLink(w, p, name, ino, g.dst), f)

RedCoreUnlink(v, p, name, fOrphan, f) ==
  IF ~Writeable(v) THEN NotWriteable(v)
  ELSE Retried(v, LAMBDA w, g : CoreUnlink(w, p, name, fOrphan, g.src), f)

RedCoreRename(v, srcP, srcName, dstP, dstName, fOrphan, f) ==
  IF ~Writeable(v) THEN NotWriteable(v)
  ELSE Retried(v, LAMBDA w, g : CoreRename(w, srcP, srcName, dstP, dstName, fOrphan, g), f)

RedCoreLookup(v, p, name) ==
  IF ~v.fMounted THEN [ret |-> "EINVAL", idx |-> 0, ino |-> INODE_INVALID]
  ELSE IF MountDir(v, p) # "OK" THEN [ret |-> MountDir(v, p), idx |-> 0, ino |-> INODE_INVALID]
  ELSE RedDirEntryLookup(v, p, name)

RedCoreStat(v, i) ==
  IF ~v.fMounted THEN [ret |-> "EINVAL", stat |-> FREE_INODE]
  ELSE IF ~Exists(v, i) THEN [ret |-> "EBADF", stat |-> FREE_INODE]
  ELSE [ret |-> "OK", stat |-> v.node[i]]

RedCoreDirRead(v, d, pos) ==
  IF ~v.fMounted THEN [ret |-> "EINVAL", pos |-> pos, entry |-> Unused]
  ELSE IF MountDir(v, d) # "OK" THEN [ret |-> MountDir(v, d), pos |-> pos, entry |-> Unused]
  ELSE RedDirEntryRead(v, d, pos)

RedCoreDirParent(v, d) ==
  IF ~v.fMounted THEN [ret |-> "EINVAL", ino |-> INODE_INVALID]
  ELSE IF d = ROOT THEN [ret |-> "OK", ino |-> INODE_INVALID]
  ELSE IF MountDir(v, d) # "OK" THEN [ret |-> MountDir(v, d), ino |-> INODE_INVALID]
  ELSE IF v.node[d].ulPInode = INODE_INVALID THEN [ret |-> "ENOENT", ino |-> INODE_INVALID]
  ELSE [ret |-> "OK", ino |-> v.node[d].ulPInode]
=============================================================================
