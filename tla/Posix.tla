-------------------------------- MODULE Posix --------------------------------
(***************************************************************************)
(* The POSIX-like API (posix.c) over the directories of its volumes: tasks *)
(* and their working directories, open inodes, handles, and the file       *)
(* descriptors that outlive them.  File contents are in FileIo, symbolic   *)
(* links in Path; the links made here have targets that do not exist.      *)
(*                                                                         *)
(* As in Dir an operator for a function returns [ret, s], its status and   *)
(* the state of the driver after it.  f says what happens to the first     *)
(* block that a call on a volume writes: OK, ENOSPC or EIO.                *)
(***************************************************************************)
EXTENDS Dir, Sequences, SequencesExt

CONSTANTS
  Volumes, Prefix,       \* volume numbers, from 0; path prefix of each, a sequence
  Tasks, Slots,          \* task IDs; indices of gaTask
  Handles,               \* indices of gaHandle, from 0
  FD_GEN_MAX,            \* the last generation before they start again
  Paths,                 \* the paths callers use: sequences of names and "/"
  OpenFlags,             \* the flags they open with: sets
  Masks,                 \* the transaction masks they set: sets of events
  REDCONF_TRANSACT_DEFAULT,
  MountFlags,
  Faults,                \* of calls that change names: OK, ENOSPC
  MAX_CALLS,             \* the most calls that change the driver
  SameNameRenames        \* are there renames of a name to itself?

ASSUME PosixAssumption ==
  /\ 0 \in Volumes /\ \A set \in {Volumes, Handles, Slots} : set \subseteq Nat /\ IsFiniteSet(set)
  /\ "none" \notin Tasks /\ MAX_CALLS \in Nat
  /\ FD_GEN_MAX \in Nat \ {0, 1} /\ SameNameRenames \in BOOLEAN
  /\ Paths \subseteq Seq(Names \cup LongNames \cup {"/", ".", ".."})
  /\ Prefix \in [Volumes -> Seq(Names)]
  /\ Faults \subseteq {"OK", "ENOSPC"}

\* No name means a directory or its parent, and the long ones are others.
ASSUME NamesAssumption == Names \cap (LongNames \cup {".", ".."}) = {}

VARIABLES
  red,                   \* the driver: see Init
  outcome,               \* of the last call: OK, EFUBAR or error
  stale,                 \* descriptors of handles that the last unmount closed
  calls                  \* that changed the driver

vars == <<red, outcome, stale, calls>>

NULL    == <<>>
NoTask  == "none"
Returns(ret, s) == [ret |-> ret, s |-> s]

Vol(s) == s.vol[s.gbRedVolNum]

\* RedCoreVolSetCurrent.
Current(s, n) == [s EXCEPT !.gbRedVolNum = n]

\* The result r, [ret, v], of a core call on the current volume.
OnVolume(s, r) == Returns(r.ret, [s EXCEPT !.vol[s.gbRedVolNum] = r.v])

\* A loop over a table: step(r, i) for each index of a set, in their order,
\* on the result r of the steps before.
InOrder(s, set, step(_, _)) ==
  LET end == Max({0} \cup {i + 1 : i \in set})
      at(r, i) == IF i \in set THEN step(r, i) ELSE r
      loop[n \in 0 .. end] == IF n = 0 THEN Returns("OK", s) ELSE at(loop[n - 1], n - 1)
  IN  loop[end]

\* The steps end with the first error.
InTurn(s, set, step(_, _)) ==
  InOrder(s, set, LAMBDA r, i : IF r.ret = "OK" THEN step(r.s, i) ELSE r)

\* f as an argument of the operators of Dir.
CoreFault(f) ==
  [ one |-> [dst |-> f, src |-> f, undo |-> "OK"], full |-> FALSE, transact |-> "OK",
    two |-> [dst |-> "OK", src |-> "OK", undo |-> "OK"] ]

-----------------------------------------------------------------------------
(* Volumes (core.c, volume.c).  A volume of Dir and its committed state,   *)
(* its transaction mask and the orphans of earlier mounts.                 *)

Content(v) == [node |-> v.node, orphans |-> v.orphans, defunct |-> v.defunct]

RedVolFormat ==
  [ node |-> EmptyVolume.node, orphans |-> {}, fMounted |-> FALSE, fReadOnly |-> FALSE,
    defunct |-> {}, mask |-> {},
    cmt |-> [node |-> EmptyVolume.node, orphans |-> {}, defunct |-> {}] ]

RedCoreVolFormat(v) ==
  IF v.fMounted THEN Failed("EBUSY", v)
  ELSE Done([RedVolFormat EXCEPT !.mask = v.mask])

RedCoreVolTransact(v, f) ==
  IF ~Writeable(v) THEN NotWriteable(v)
  ELSE IF f = "EIO" THEN Failed("EIO", Critical(v))
  ELSE Done([v EXCEPT !.cmt = Content(v)])

\* CoreAutoTransact after a call that succeeded.
AutoTransacted(r, event) ==
  IF r.ret = "OK" /\ event \in r.v.mask THEN [r EXCEPT !.v.cmt = Content(r.v)] ELSE r

RedVolFreeOrphans(v, inos) ==
  [v EXCEPT !.node = [i \in Inodes |-> IF i \in inos THEN FREE_INODE ELSE @[i]],
            !.defunct = @ \ inos]

\* The newest metaroot, and what becomes of the orphans it has.
RedCoreVolMount(v, flags, f) ==
  LET w == [v EXCEPT !.node = v.cmt.node, !.orphans = {}, !.fMounted = TRUE,
                     !.defunct = v.cmt.defunct \cup v.cmt.orphans,
                     !.fReadOnly = "READONLY" \in flags]
  IN  IF f = "EIO" THEN Failed("EIO", v)
      ELSE Done(IF "SKIP_DELETE" \in flags THEN w ELSE RedVolFreeOrphans(w, w.defunct))

RedCoreVolUnmount(v, f) ==
  LET r == IF ~v.fReadOnly /\ "UMOUNT" \in v.mask THEN RedCoreVolTransact(v, f) ELSE Done(v)
  IN  IF r.ret = "OK" THEN Done([r.v EXCEPT !.fMounted = FALSE]) ELSE r

\* RedVolRollback.
RedCoreVolRollback(v) ==
  IF ~Writeable(v) THEN NotWriteable(v)
  ELSE Done([v EXCEPT !.node = v.cmt.node, !.orphans = v.cmt.orphans, !.defunct = v.cmt.defunct])

\* At most ulCount of the defunct orphans; RED_ENOENT if none are left.
RedCoreVolFreeOrphans(v, ulCount) ==
  LET some == CHOOSE inos \in SUBSET v.defunct :
                Cardinality(inos) = Min({ulCount, Cardinality(v.defunct)})
      w    == RedVolFreeOrphans(v, some)
  IN  IF ~v.fMounted \/ ulCount = 0 THEN Failed("EINVAL", v)
      ELSE IF v.fReadOnly THEN Failed("EROFS", v)
      ELSE IF w.defunct = {} THEN Failed("ENOENT", w) ELSE Done(w)

RedCoreTransMaskSet(v, mask) ==
  IF ~Writeable(v) THEN NotWriteable(v) ELSE Done([v EXCEPT !.mask = mask])

RedCoreTransMaskGet(v) ==
  IF v.fMounted THEN [ret |-> "OK", mask |-> v.mask] ELSE [ret |-> "EINVAL", mask |-> {}]

RedCoreVolStat(v) == Failed(IF v.fMounted THEN "OK" ELSE "EINVAL", v)

RedCoreFreeOrphan(v, i, f) ==
  IF ~Writeable(v) THEN NotWriteable(v)
  ELSE IF i \notin v.orphans THEN Failed("EBADF", v)
  ELSE Step(v, f, FreeOrphan(v, i))

\* RedInodeCreate frees a defunct orphan when no inode is free.
CreateInode(v, p, name, type, f) ==
  LET w == IF Writeable(v) /\ IsDir(v, p) /\ FreeInodes(v) = {} /\ v.defunct # {}
           THEN RedVolFreeOrphans(v, {Min(v.defunct)}) ELSE v
  IN  AutoTransacted(RedCoreCreate(w, p, name, type, CoreFault(f)),
                     IF type = "DIR" THEN "MKDIR" ELSE "CREAT")

\* The data of a file are not modelled here.
RedCoreFileTruncate(v, i) ==
  IF ~Writeable(v) THEN NotWriteable(v)
  ELSE IF IsDir(v, i) THEN Failed("EISDIR", v)
  ELSE IF ~Exists(v, i) THEN Failed("EBADF", v)
  ELSE AutoTransacted(Done(v), "TRUNCATE")

\* Attributes are not modelled.
CoreChange(v, i) ==
  IF ~Writeable(v) THEN NotWriteable(v)
  ELSE IF ~Exists(v, i) THEN Failed("EBADF", v) ELSE Done(v)

RedCoreChmod(v, i)  == CoreChange(v, i)
RedCoreChown(v, i)  == CoreChange(v, i)
RedCoreUTimes(v, i) == CoreChange(v, i)

-----------------------------------------------------------------------------
(* Open inodes (gaOpenInos): functions from <<volume, inode>>.             *)

OPEN_INODE_COUNT == Cardinality(Handles) + Cardinality(Slots)

IsOpen(s, key) == key \in DOMAIN s.gaOpenInos

\* OpenInoFind with fAlloc: is there a slot for the inode?
OpenInoFind(s, key) == IsOpen(s, key) \/ Cardinality(DOMAIN s.gaOpenInos) < OPEN_INODE_COUNT

Without(fn, key) == [k \in DOMAIN fn \ {key} |-> fn[k]]

\* A reference to a new or already open inode.
WithRef(s, key) ==
  IF IsOpen(s, key) THEN [s EXCEPT !.gaOpenInos[key].uRefs = @ + 1]
  ELSE [s EXCEPT !.gaOpenInos = [k \in DOMAIN @ \cup {key} |->
                                  IF k = key THEN [uRefs |-> 1, fOrphan |-> FALSE] ELSE @[k]]]

\* The last reference frees the inode if it is an orphan.  The read-only flag
\* looked at is that of the volume which is current before the call.
OpenInoDeref(s, key, fDoCleanup, fPropagate, f) ==
  LET oi      == s.gaOpenInos[key]
      fCleans == fDoCleanup /\ ~Vol(s).fReadOnly
      t       == IF fCleans THEN Current(s, key[1]) ELSE s
      r       == IF fCleans /\ oi.fOrphan THEN OnVolume(t, RedCoreFreeOrphan(Vol(t), key[2], f))
                 ELSE Returns("OK", t)
  IN  IF oi.uRefs > 1 THEN Returns("OK", [s EXCEPT !.gaOpenInos[key].uRefs = @ - 1])
      ELSE IF r.ret # "OK" /\ fPropagate THEN r
      ELSE Returns("OK", [r.s EXCEPT !.gaOpenInos = Without(@, key)])

\* An inode in use that loses its only name becomes an orphan.
InodeUnlinkCheck(s, ino) ==
  /\ IsOpen(s, <<s.gbRedVolNum, ino>>)
  /\ RedCoreStat(Vol(s), ino).stat.uNLink = 1

InodeOrphaned(s, ino) ==
  IF IsOpen(s, <<s.gbRedVolNum, ino>>)
  THEN [s EXCEPT !.gaOpenInos[<<s.gbRedVolNum, ino>>].fOrphan = TRUE] ELSE s

-----------------------------------------------------------------------------
(* Handles and file descriptors.                                           *)

FreeHandle == [pOpenIno |-> NULL, bFlags |-> {}, ulDirPosition |-> 0, fildes |-> NULL]

InUse(s, h) == s.gaHandle[h].pOpenIno # NULL

HandleFindFree(s) == {h \in Handles : ~InUse(s, h)}

\* A descriptor is a generation of the volume, the volume and the handle.
FildesPack(s, h, n) == [gen |-> s.gauGeneration[n], vol |-> n, idx |-> h]

\* The descriptors that are none: start at the root, or at the working directory.
FDCWD == [gen |-> 0, vol |-> 0, idx |-> -100]
FDABS == [gen |-> 0, vol |-> 0, idx |-> -101]

HandleType(s, h) ==
  IF "DIRECTORY" \in s.gaHandle[h].bFlags THEN "DIR"
  ELSE IF "SYMLINK" \in s.gaHandle[h].bFlags THEN "LNK" ELSE "REG"

FTYPE_ANY == {"DIR", "REG", "LNK"}

RedFileTypeCheck(actual, expected) ==
  IF actual \in expected THEN "OK"
  ELSE IF actual = "LNK" \/ expected = {"LNK"} THEN "ENOLINK"
  ELSE IF actual = "DIR" THEN "EISDIR" ELSE "ENOTDIR"

\* Bug: the generation is not compared.
FildesIsCurrentVolume(s, fd) == s.gaHandle[fd.idx].pOpenIno[1] = fd.vol

FildesIsCurrent(s, fd) ==
  /\ s.gaHandle[fd.idx].pOpenIno[1] = fd.vol
  /\ s.gauGeneration[fd.vol] = fd.gen

FildesToHandle(s, fd, expected) ==
  IF ~(fd.idx \in Handles /\ fd.vol \in Volumes) THEN "EBADF"
  ELSE IF ~InUse(s, fd.idx) THEN "EBADF"
  ELSE IF ~FildesIsCurrent(s, fd) THEN "EBADF"
  ELSE RedFileTypeCheck(HandleType(s, fd.idx), expected)

\* A directory stream is a pointer to a handle.
DirStreamIsValid(s, h) == InUse(s, h) /\ "DIRECTORY" \in s.gaHandle[h].bFlags

\* The handle of an inode of the current volume, with what FildesOpen adds.
HandleOpen(s, h, ino, flags) ==
  LET key == <<s.gbRedVolNum, ino>>
  IN  IF ~OpenInoFind(s, key) THEN Returns("EFUBAR", s)
      ELSE Returns("OK",
             [WithRef(s, key) EXCEPT
                !.gaHandle[h] = [FreeHandle EXCEPT
                                   !.pOpenIno = key, !.bFlags = flags,
                                   !.fildes = FildesPack(s, h, s.gbRedVolNum)]])

HandleClose(s, h, ulTransFlag, f) ==
  LET t == Current(s, s.gaHandle[h].pOpenIno[1])
      mask == IF Vol(t).fReadOnly THEN [ret |-> "OK", mask |-> {}] ELSE RedCoreTransMaskGet(Vol(t))
      fTransacting == mask.mask \cap ulTransFlag # {}
      r == OpenInoDeref(t, s.gaHandle[h].pOpenIno, TRUE, fTransacting, f)
      u == [r.s EXCEPT !.gaHandle[h] = FreeHandle]
  IN  IF mask.ret # "OK" THEN Returns(mask.ret, t)
      ELSE IF r.ret # "OK" THEN r
      ELSE IF ~Vol(u).fReadOnly /\ fTransacting
           THEN OnVolume(u, RedCoreVolTransact(Vol(u), f))
      ELSE Returns("OK", u)

FildesClose(s, fd, f) ==
  LET ret == FildesToHandle(s, fd, FTYPE_ANY)
  IN  IF ret # "OK" THEN Returns(ret, s) ELSE HandleClose(s, fd.idx, {"CLOSE"}, f)

red_close(s, fd, f) == FildesClose(s, fd, f)

-----------------------------------------------------------------------------
(* Tasks and their working directories.                                    *)

TaskFind(s, t) == {i \in Slots : s.gaTask[i].ulTaskId = t}

\* The slot of a task, or else the first free one.
TaskRegister(s, t) ==
  LET free == TaskFind(s, NoTask)
  IN  IF TaskFind(s, t) # {} THEN Returns("OK", s)
      ELSE IF free = {} THEN Returns("EUSERS", s)
      ELSE Returns("OK", [s EXCEPT !.gaTask[Min(free)].ulTaskId = t])

\* PosixEnter.  The bodies of the calls below are given Entered(t).
PosixEnter(t) ==
  IF red.gfPosixInited THEN TaskRegister(red, t) ELSE Returns("EINVAL", red)

Entered(t) == PosixEnter(t).s

Cwd(s, t) == s.gaTask[CHOOSE i \in TaskFind(s, t) : TRUE].pCwd

\* The directory of a task becomes the root of the current volume, or of
\* volume 0.
CwdClose(s, i, fClearVol, fReset, f) ==
  LET old  == s.gaTask[i].pCwd
      r    == IF old = NULL THEN Returns("OK", s) ELSE OpenInoDeref(s, old, ~fReset, FALSE, f)
      root == <<IF fClearVol THEN 0 ELSE r.s.gbRedVolNum, ROOT>>
  IN  IF r.ret # "OK" THEN r
      ELSE IF ~OpenInoFind(r.s, root)
           THEN Returns("EFUBAR", [r.s EXCEPT !.gaTask[i].pCwd = NULL])
      ELSE Returns("OK", [WithRef(r.s, root) EXCEPT !.gaTask[i].pCwd = root])

\* Bug: the tasks stay in the directories they are in.
CwdCloseNone(s, fReset, f) == Returns("OK", s)

\* Tasks one after the other.
CwdCloseAll(s, slots, fClearVol, fReset, f) ==
  InTurn(s, slots, LAMBDA t, i : CwdClose(t, i, fClearVol, fReset, f))

CwdCloseVol(s, fReset, f) ==
  CwdCloseAll(s, {i \in Slots : s.gaTask[i].pCwd # NULL /\ s.gaTask[i].pCwd[1] = s.gbRedVolNum},
              FALSE, fReset, f)

CwdResetAll(s) == CwdCloseAll(s, Slots, TRUE, TRUE, "OK").s

TaskUnregister(s, t, f) ==
  LET i == CHOOSE j \in TaskFind(s, t) : TRUE
  IN  IF TaskFind(s, t) = {} THEN Returns("ENOENT", s)
      ELSE CwdClose([s EXCEPT !.gaTask[i].ulTaskId = NoTask], i, TRUE, FALSE, f)

-----------------------------------------------------------------------------
(* Paths (path.c): sequences of names, and "/" where a separator is at the *)
(* beginning or the end, or after the prefix of a volume.                  *)

\* The volume with the longest prefix of the path, or the one without prefix.
RedPathVolumePrefixLookup(path) ==
  LET match   == {n \in Volumes : Prefix[n] # <<>> /\ IsPrefix(Prefix[n], path)}
      default == {n \in Volumes : Prefix[n] = <<>>}
  IN  IF match # {} THEN {CHOOSE n \in match : \A m \in match : Len(Prefix[m]) <= Len(Prefix[n])}
      ELSE default

LocalPath(path, n) == SubSeq(path, Len(Prefix[n]) + 1, Len(path))

\* The names of a local path, without the separators before and after them.
Components(local) ==
  LET first == IF local # <<>> /\ Head(local) = "/" THEN 2 ELSE 1
      last  == IF Len(local) >= first /\ local[Len(local)] = "/" THEN Len(local) - 1 ELSE Len(local)
  IN  SubSeq(local, first, last)

\* The names of a path after the prefix of its volume.
LocalNames(path) ==
  LET found == RedPathVolumePrefixLookup(path)
  IN  Components(IF found = {} THEN path ELSE LocalPath(path, CHOOSE n \in found : TRUE))

\* No separator is left between them: see Paths.
ASSUME PathsAssumption ==
  \A path \in Paths : LocalNames(path) \in Seq(Names \cup LongNames \cup {".", ".."})

\* A volume by its prefix alone.
RedPathVolumeLookup(s, path) ==
  LET found == RedPathVolumePrefixLookup(path)
      n     == CHOOSE m \in found : TRUE
  IN  IF found = {} THEN Returns("ENOENT", s)
      ELSE Returns(IF Range(LocalPath(path, n)) \subseteq {"/"} THEN "OK" ELSE "ENOENT",
                   Current(s, n))

IsName(name) == name \notin {".", ".."}

\* One name on, from directory w.ino with parent w.p.
WalkName(v, w, name, fLast, nofollow) ==
  LET dir    == MountDir(v, w.ino)
      up     == IF w.ino = ROOT THEN ROOT ELSE w.p
      found  == RedCoreLookup(v, w.ino, name)
      at(i)  == [ret |-> RedCoreDirParent(v, i).ret, ino |-> i, p |-> RedCoreDirParent(v, i).ino]
      fLink  == found.ret = "OK" /\ v.node[found.ino].type = "LNK"
  IN  IF w.ret # "OK" THEN w
      ELSE IF dir # "OK" /\ w.ino # ROOT THEN [w EXCEPT !.ret = dir]
      ELSE IF name = "." THEN w
      ELSE IF name = ".." THEN at(up)
      ELSE IF found.ret # "OK" THEN [w EXCEPT !.ret = found.ret]
      ELSE IF fLink /\ ~(fLast /\ nofollow) THEN [w EXCEPT !.ret = "ENOENT"]
      ELSE [ret |-> "OK", ino |-> found.ino, p |-> w.ino]

\* The walk of some names from a directory.
PathWalk(v, dir, names, nofollow) ==
  LET from(parent) == [ret |-> parent.ret, ino |-> dir, p |-> parent.ino]
      w[k \in 0 .. Len(names)] ==
        IF k = 0 THEN from(RedCoreDirParent(v, dir))
        ELSE WalkName(v, w[k - 1], names[k], k = Len(names), nofollow)
  IN  w[Len(names)]

RedPathLookup(v, dir, names, nofollow) == PathWalk(v, dir, names, nofollow)

\* The directory and the name of the last name of a path.
RedPathToName(v, dir, names, rootDirError) ==
  LET none(whole) ==
        [ ret |-> IF whole.ret # "OK" THEN whole.ret
                  ELSE IF whole.ino = ROOT THEN rootDirError ELSE "EINVAL",
          p |-> whole.ino, name |-> "" ]
      in(p) == [ret |-> p.ret, p |-> p.ino, name |-> Last(names)]
  IN  IF names = <<>> \/ ~IsName(Last(names))
      THEN none(PathWalk(v, dir, names, FALSE))
      ELSE in(PathWalk(v, dir, Front(names), FALSE))

\* The directory of a descriptor, or of the task.
FildesDir(s, t, fd) ==
  LET checked(ret) ==
        IF ret # "OK" THEN [ret |-> ret, key |-> NULL]
        ELSE IF "READABLE" \notin s.gaHandle[fd.idx].bFlags THEN [ret |-> "EBADF", key |-> NULL]
        ELSE [ret |-> "OK", key |-> s.gaHandle[fd.idx].pOpenIno]
  IN  IF fd # FDCWD THEN checked(FildesToHandle(s, fd, {"DIR"}))
      ELSE [ret |-> IF Cwd(s, t) = NULL THEN "EFUBAR" ELSE "OK", key |-> Cwd(s, t)]

\* Where a descriptor says, or a task is, if the path is relative.
PathStartingPoint(s, t, fd, path) ==
  LET start(ret, u, i) == [ret |-> ret, s |-> u, dir |-> i, names |-> LocalNames(path)]
      fRelative(found) ==
        /\ fd # FDABS /\ path # <<>> /\ Head(path) # "/"
        /\ \A n \in found : Prefix[n] = <<>>
      relative(u, at) ==
        IF at.ret # "OK" THEN start(at.ret, u, ROOT)
        ELSE start("OK", Current(u, at.key[1]), at.key[2])
      from(found) ==
        LET n == CHOOSE m \in found : TRUE
        IN  IF fRelative(found)
            THEN relative(IF found = {} THEN s ELSE Current(s, n), FildesDir(s, t, fd))
            ELSE IF found = {} THEN start("ENOENT", s, ROOT)
            ELSE start("OK", Current(s, n), ROOT)
  IN  from(RedPathVolumePrefixLookup(path))

\* what(start) at the starting point of a path, what(s, ino) at what the path
\* leads to, and what(s, name) at its last name.
AtStart(s, t, fd, path, what(_)) ==
  LET go(start) == IF start.ret = "OK" THEN what(start) ELSE Returns(start.ret, start.s)
  IN  go(PathStartingPoint(s, t, fd, path))

AtPath(s, t, fd, path, nofollow, what(_, _)) ==
  LET go(u, w) == IF w.ret = "OK" THEN what(u, w.ino) ELSE Returns(w.ret, u)
  IN  AtStart(s, t, fd, path, LAMBDA start :
        go(start.s, RedPathLookup(Vol(start.s), start.dir, start.names, nofollow)))

AtName(s, t, fd, path, rootDirError, what(_, _)) ==
  LET go(u, name) == IF name.ret = "OK" THEN what(u, name) ELSE Returns(name.ret, u)
  IN  AtStart(s, t, fd, path, LAMBDA start :
        go(start.s, RedPathToName(Vol(start.s), start.dir, start.names, rootDirError)))

\* Two paths, resolved to their starting points before either is walked.
AtBoth(s, t, fd, path, newFd, newPath, what(_, _)) ==
  AtStart(s, t, fd, path, LAMBDA old :
    AtStart(old.s, t, newFd, newPath, LAMBDA new :
      IF old.s.gbRedVolNum # new.s.gbRedVolNum THEN Returns("EXDEV", new.s)
      ELSE what(old, new)))

-----------------------------------------------------------------------------
(* Opening (FildesOpen), with the flags of redposix.h.                     *)

\* red_openat.
OpenFlagsValid(flags) ==
  /\ Cardinality(flags \cap {"RDONLY", "WRONLY", "RDWR"}) = 1
  /\ ~({"TRUNC", "RDONLY"} \subseteq flags)
  /\ "EXCL" \in flags => "CREAT" \in flags
  /\ ~({"NOFOLLOW", "SYMLINK"} \subseteq flags)

\* The inode to open when the path may be created: made, or found if it is
\* there or the volume is read-only.
OpenCreating(v, start, flags, type, f) ==
  LET to(ret, w, i, fCreated) == [ret |-> ret, v |-> w, ino |-> i, fCreated |-> fCreated]
      found(made, old) ==
        to(IF made.ret # "EROFS" THEN old.ret
           ELSE IF old.ret = "OK" /\ "EXCL" \in flags THEN "EEXIST"
           ELSE IF old.ret = "ENOENT" THEN "EROFS" ELSE old.ret, made.v, old.ino, FALSE)
      create(name, made) ==
        IF made.ret = "OK" THEN to("OK", made.v, made.ino, TRUE)
        ELSE IF made.ret = "EROFS" \/ (made.ret = "EEXIST" /\ "EXCL" \notin flags)
        THEN found(made, RedCoreLookup(v, name.p, name.name))
        ELSE to(made.ret, made.v, ROOT, FALSE)
      at(name) ==
        IF name.ret = "EISDIR"
        THEN to(IF "EXCL" \notin flags THEN "OK"
                ELSE IF "RDONLY" \in flags THEN "EEXIST" ELSE "EISDIR", v, ROOT, FALSE)
        ELSE IF name.ret # "OK" THEN to(name.ret, v, ROOT, FALSE)
        ELSE create(name, CreateInode(v, name.p, name.name, type, f))
  IN  at(RedPathToName(v, start.dir, start.names, "EISDIR"))

OpenExisting(v, start, flags) ==
  LET to(w) == [ret |-> w.ret, v |-> v, ino |-> w.ino, fCreated |-> FALSE]
  IN  to(RedPathLookup(v, start.dir, start.names, flags \cap {"SYMLINK", "NOFOLLOW"} # {}))

\* RedModeTypeCheck, and what else the inode found must be.
OpenCheck(v, i, flags, expected) ==
  LET type == v.node[i].type
      ret  == RedFileTypeCheck(type, expected)
  IN  IF ~Exists(v, i) THEN "EBADF"
      ELSE IF ret = "ENOLINK" /\ "NOFOLLOW" \in flags THEN "ELOOP"
      ELSE IF ret # "OK" THEN ret
      ELSE IF type = "DIR" /\ "RDONLY" \notin flags THEN "EISDIR" ELSE "OK"

HandleFlags(type, flags) ==
  (IF type = "DIR" THEN {"DIRECTORY"} ELSE IF type = "LNK" THEN {"SYMLINK"} ELSE {})
    \cup (IF flags \cap {"RDONLY", "RDWR"} # {} THEN {"READABLE"} ELSE {})
    \cup (IF flags \cap {"WRONLY", "RDWR"} # {} THEN {"WRITEABLE"} ELSE {})
    \cup (IF "APPEND" \in flags THEN {"APPENDING"} ELSE {})

FildesOpen(s, t, fd, path, flags, expected, type, f) ==
  LET truncate(v, found) ==
        IF "TRUNC" \in flags /\ ~found.fCreated THEN RedCoreFileTruncate(v, found.ino) ELSE Done(v)
      handle(r, ino) ==
        IF r.ret # "OK" THEN r
        ELSE HandleOpen(r.s, Min(HandleFindFree(r.s)), ino,
                        HandleFlags(Vol(r.s).node[ino].type, flags))
      check(u, found, ret) ==
        IF ret # "OK" THEN OnVolume(u, Failed(ret, found.v))
        ELSE handle(OnVolume(u, truncate(found.v, found)), found.ino)
      to(u, found) ==
        IF found.ret # "OK" THEN OnVolume(u, Failed(found.ret, found.v))
        ELSE check(u, found, IF found.fCreated THEN "OK"
                             ELSE OpenCheck(found.v, found.ino, flags, expected))
  IN  AtStart(s, t, fd, path, LAMBDA start :
        IF Vol(start.s).fReadOnly /\ flags \cap {"WRONLY", "RDWR", "TRUNC"} # {}
        THEN Returns("EROFS", start.s)
        ELSE IF HandleFindFree(start.s) = {} THEN Returns("EMFILE", start.s)
        ELSE to(start.s, IF "CREAT" \in flags THEN OpenCreating(Vol(start.s), start, flags, type, f)
                         ELSE OpenExisting(Vol(start.s), start, flags)))

red_openat(s, t, fd, path, flags, f) ==
  LET open(expected, type) == FildesOpen(s, t, fd, path, flags, expected, type, f)
  IN  IF ~OpenFlagsValid(flags) THEN Returns("EINVAL", s)
      ELSE open(IF "SYMLINK" \in flags THEN {"LNK"} ELSE {"REG", "DIR"},
                IF "SYMLINK" \in flags THEN "LNK" ELSE "REG")

red_opendir(s, t, path) ==
  FildesOpen(s, t, FDCWD, path, {"RDONLY"}, {"DIR"}, "DIR", "OK")

-----------------------------------------------------------------------------
(* Names.                                                                  *)

red_mkdirat(s, t, fd, path, f) ==
  AtName(s, t, fd, path, "EEXIST", LAMBDA u, name :
    OnVolume(u, CreateInode(Vol(u), name.p, name.name, "DIR", f)))

\* Bug: the link stays when its target cannot be written.
SymlinkKeeping(s, t, path, fData, f) ==
  LET write(r) == IF r.ret = "OK" THEN Failed(fData, r.v) ELSE r
  IN  AtName(s, t, FDCWD, path, "EISDIR", LAMBDA u, name :
        OnVolume(u, write(CreateInode(Vol(u), name.p, name.name, "LNK", f))))

\* The link is created, then its target written, or the link is removed again.
red_symlink(s, t, path, fData, f) ==
  LET undo(name, r) == IF r.ret = "OK" THEN Failed(fData, r.v) ELSE r
      write(name, r) ==
        IF r.ret # "OK" THEN r
        ELSE IF fData = "OK" THEN AutoTransacted(Done(r.v), "WRITE")
        ELSE undo(name, AutoTransacted(
                          RedCoreUnlink(r.v, name.p, name.name, FALSE, CoreFault("OK")), "UNLINK"))
  IN  AtName(s, t, FDCWD, path, "EISDIR", LAMBDA u, name :
        OnVolume(u, write(name, CreateInode(Vol(u), name.p, name.name, "LNK", f))))

red_readlink(s, t, path) ==
  AtPath(s, t, FDCWD, path, TRUE, LAMBDA u, ino :
    Returns(IF Vol(u).node[ino].type = "LNK" THEN "OK" ELSE "EINVAL", u))

red_unlinkat(s, t, fd, path, fRemoveDir, f) ==
  LET mark(r, ino, fOrphan) ==
        IF r.ret = "OK" /\ fOrphan THEN Returns("OK", InodeOrphaned(r.s, ino)) ELSE r
      unlink(u, name, ino, fOrphan) ==
        mark(OnVolume(u, AutoTransacted(
                           RedCoreUnlink(Vol(u), name.p, name.name, fOrphan, CoreFault(f)), "UNLINK")),
             ino, fOrphan)
      found(u, name, at) ==
        IF at.ret # "OK" THEN Returns(at.ret, u)
        ELSE IF fRemoveDir /\ Vol(u).node[at.ino].type # "DIR" THEN Returns("ENOTDIR", u)
        ELSE unlink(u, name, at.ino, InodeUnlinkCheck(u, at.ino))
  IN  AtName(s, t, fd, path, "EBUSY", LAMBDA u, name :
        found(u, name, RedCoreLookup(Vol(u), name.p, name.name)))

\* The new name may exist.
red_renameat(s, t, oldFd, oldPath, newFd, newPath, f) ==
  LET mark(r, ino, fOrphan) ==
        IF r.ret = "OK" /\ fOrphan THEN Returns("OK", InodeOrphaned(r.s, ino)) ELSE r
      rename(u, src, dst, ino, fOrphan) ==
        mark(OnVolume(u, AutoTransacted(
                           RedCoreRename(Vol(u), src.p, src.name, dst.p, dst.name, fOrphan, CoreFault(f)),
                           "RENAME")),
             ino, fOrphan)
      replace(u, src, dst, dest) ==
        IF dest.ret \notin {"OK", "ENOENT"} THEN Returns(dest.ret, u)
        ELSE rename(u, src, dst, dest.ino, dest.ret = "OK" /\ InodeUnlinkCheck(u, dest.ino))
      names(u, src, dst) ==
        IF src.ret # "OK" THEN Returns(src.ret, u)
        ELSE IF dst.ret # "OK" THEN Returns(dst.ret, u)
        ELSE replace(u, src, dst, RedCoreLookup(Vol(u), dst.p, dst.name))
  IN  AtBoth(s, t, oldFd, oldPath, newFd, newPath, LAMBDA old, new :
        names(new.s, RedPathToName(Vol(new.s), old.dir, old.names, "EBUSY"),
                     RedPathToName(Vol(new.s), new.dir, new.names, "EBUSY")))

red_linkat(s, t, fd, path, linkFd, linkPath, fFollow, f) ==
  LET link(u, w, name) ==
        IF w.ret # "OK" THEN Returns(w.ret, u)
        ELSE IF name.ret # "OK" THEN Returns(name.ret, u)
        ELSE OnVolume(u, AutoTransacted(
                           RedCoreLink(Vol(u), name.p, name.name, w.ino, CoreFault(f)), "LINK"))
  IN  AtBoth(s, t, fd, path, linkFd, linkPath, LAMBDA old, new :
        link(new.s, RedPathLookup(Vol(new.s), old.dir, old.names, ~fFollow),
                    RedPathToName(Vol(new.s), new.dir, new.names, "EEXIST")))

-----------------------------------------------------------------------------
(* Attributes, by path and by descriptor: what(v, ino) is the core call.   *)

AtPathVolume(s, t, fd, path, nofollow, what(_, _)) ==
  AtPath(s, t, fd, path, nofollow, LAMBDA u, ino : OnVolume(u, what(Vol(u), ino)))

AtFildes(s, fd, expected, what(_, _)) ==
  LET on(u, ino) == OnVolume(u, what(Vol(u), ino))
      at(key) == on(Current(s, key[1]), key[2])
      ret == FildesToHandle(s, fd, expected)
  IN  IF ret # "OK" THEN Returns(ret, s) ELSE at(s.gaHandle[fd.idx].pOpenIno)

Stat(v, i)  == Failed(RedCoreStat(v, i).ret, v)
Fsync(v, i) == IF "FSYNC" \in RedCoreTransMaskGet(v).mask THEN RedCoreVolTransact(v, "OK")
               ELSE Failed(RedCoreTransMaskGet(v).ret, v)

red_fchmodat(s, t, fd, path, nofollow) == AtPathVolume(s, t, fd, path, nofollow, RedCoreChmod)
red_fchownat(s, t, fd, path, nofollow) == AtPathVolume(s, t, fd, path, nofollow, RedCoreChown)
red_utimesat(s, t, fd, path, nofollow) == AtPathVolume(s, t, fd, path, nofollow, RedCoreUTimes)
red_fstatat(s, t, fd, path, nofollow)  == AtPathVolume(s, t, fd, path, nofollow, Stat)
red_fchmod(s, fd)  == AtFildes(s, fd, FTYPE_ANY, RedCoreChmod)
red_fchown(s, fd)  == AtFildes(s, fd, FTYPE_ANY, RedCoreChown)
red_futimes(s, fd) == AtFildes(s, fd, FTYPE_ANY, RedCoreUTimes)
red_fstat(s, fd)   == AtFildes(s, fd, FTYPE_ANY, Stat)
red_fsync(s, fd)   == AtFildes(s, fd, FTYPE_ANY, Fsync)

\* Without a directory: from the working directory (RED_AT_FDNONE).
red_open2(s, t, path, flags, f)     == red_openat(s, t, FDCWD, path, flags, f)
red_open(s, t, path, flags, f)      == red_open2(s, t, path, flags, f)
red_mkdir2(s, t, path, f)           == red_mkdirat(s, t, FDCWD, path, f)
red_mkdir(s, t, path, f)            == red_mkdir2(s, t, path, f)
red_unlink(s, t, path, f)           == red_unlinkat(s, t, FDCWD, path, FALSE, f)
red_rmdir(s, t, path, f)            == red_unlinkat(s, t, FDCWD, path, TRUE, f)
red_rename(s, t, path, newPath, f)  == red_renameat(s, t, FDCWD, path, FDCWD, newPath, f)
red_link(s, t, path, linkPath, f)   == red_linkat(s, t, FDCWD, path, FDCWD, linkPath, FALSE, f)
red_chmod(s, t, path)               == red_fchmodat(s, t, FDCWD, path, FALSE)
red_chown(s, t, path)               == red_fchownat(s, t, FDCWD, path, FALSE)
red_utimes(s, t, path)              == red_utimesat(s, t, FDCWD, path, FALSE)
red_stat(s, t, path)                == red_fstatat(s, t, FDCWD, path, FALSE)

-----------------------------------------------------------------------------
(* Directory streams.                                                      *)

red_fdopendir(s, fd) == Returns(FildesToHandle(s, fd, {"DIR"}), s)

red_readdir(s, h) ==
  LET key  == s.gaHandle[h].pOpenIno
      u    == Current(s, key[1])
      read == RedCoreDirRead(Vol(u), key[2], s.gaHandle[h].ulDirPosition)
      w    == [u EXCEPT !.gaHandle[h].ulDirPosition = read.pos]
  IN  IF ~DirStreamIsValid(s, h) THEN Returns("EBADF", s)
      ELSE IF read.ret = "OK" THEN Returns(RedCoreStat(Vol(u), read.entry.ino).ret, w)
      ELSE Returns(IF read.ret = "ENOENT" THEN "OK" ELSE read.ret, w)

red_seekdir(s, h, ulPosition) ==
  IF DirStreamIsValid(s, h)
  THEN Returns("OK", [s EXCEPT !.gaHandle[h].ulDirPosition = ulPosition])
  ELSE Returns("OK", s)

red_rewinddir(s, h) == red_seekdir(s, h, 0)

red_telldir(s, h) ==
  IF DirStreamIsValid(s, h) THEN s.gaHandle[h].ulDirPosition ELSE 0

red_closedir(s, h, f) ==
  IF DirStreamIsValid(s, h) THEN HandleClose(s, h, {}, f) ELSE Returns("EBADF", s)

-----------------------------------------------------------------------------
(* Working directories.                                                    *)

red_chdir(s, t, path, f) ==
  LET i == CHOOSE j \in TaskFind(s, t) : TRUE
      enter(r, key) ==
        IF ~OpenInoFind(r.s, key) THEN Returns("EFUBAR", [r.s EXCEPT !.gaTask[i].pCwd = NULL])
        ELSE Returns(r.ret, [WithRef(r.s, key) EXCEPT !.gaTask[i].pCwd = key])
  IN  AtPath(s, t, FDCWD, path, FALSE, LAMBDA u, ino :
        IF ino # ROOT /\ ~IsDir(Vol(u), ino) THEN Returns("ENOTDIR", u)
        ELSE IF u.gaTask[i].pCwd = NULL THEN Returns("EFUBAR", u)
        ELSE enter(OpenInoDeref(u, u.gaTask[i].pCwd, TRUE, FALSE, f), <<u.gbRedVolNum, ino>>))

\* The names from the root down to a directory: each is looked for in the
\* parent by its inode.  One that is not found is an error of the driver.
DirInodeToPath(v, dir) ==
  LET parent(i) == RedCoreDirParent(v, i)
      entry(i)  == {k \in 0 .. DIRENTS_MAX - 1 :
                      Used(v, parent(i).ino, k) /\ v.node[parent(i).ino].dirents[k].ino = i}
      name(i)   == v.node[parent(i).ino].dirents[Min(entry(i))].name
      climb(w)  == IF w.ret # "OK" \/ w.ino = ROOT THEN w
                   ELSE IF parent(w.ino).ret # "OK" THEN [w EXCEPT !.ret = parent(w.ino).ret]
                   ELSE IF entry(w.ino) = {} THEN [w EXCEPT !.ret = "EFUBAR"]
                   ELSE [w EXCEPT !.ino = parent(w.ino).ino, !.path = <<name(w.ino)>> \o @]
      w[n \in 0 .. Cardinality(Inodes)] ==
        IF n = 0 THEN [ret |-> "OK", ino |-> dir, path |-> <<>>] ELSE climb(w[n - 1])
  IN  w[Cardinality(Inodes)]

\* The prefix of the volume, a separator, and the names.
PathOf(s, key) ==
  LET r == DirInodeToPath(s.vol[key[1]], key[2])
  IN  [ret |-> r.ret, path |-> Prefix[key[1]] \o <<"/">> \o r.path]

red_getcwd(s, t) ==
  IF Cwd(s, t) = NULL THEN Returns("EFUBAR", s)
  ELSE Returns(PathOf(s, Cwd(s, t)).ret, Current(s, Cwd(s, t)[1]))

red_getdirpath(s, fd) ==
  LET ret == FildesToHandle(s, fd, {"DIR"})
      key == s.gaHandle[fd.idx].pOpenIno
  IN  IF ret # "OK" THEN Returns(ret, s)
      ELSE Returns(PathOf(s, key).ret, Current(s, key[1]))

-----------------------------------------------------------------------------
(* Volumes.                                                                *)

\* What is done with the volume of a path, and a core call on it.
AtVolume(s, path, what(_)) ==
  LET go(r) == IF r.ret = "OK" THEN what(r.s) ELSE r
  IN  go(RedPathVolumeLookup(s, path))

OnPathVolume(s, path, what(_)) ==
  AtVolume(s, path, LAMBDA u : OnVolume(u, what(Vol(u))))

HandlesOf(s, n) == {h \in Handles : InUse(s, h) /\ s.gaHandle[h].pOpenIno[1] = n}

\* Bug: a generation is used again with the next mount.
SameGeneration(gen) == IF gen = 0 THEN 1 ELSE gen

\* Bug: generations do not start again.
GenerationUnbounded(gen) == gen + 1

NextGeneration(gen) == IF gen + 1 > FD_GEN_MAX THEN 1 ELSE gen + 1

red_mount2(s, path, flags, f) ==
  LET mounted(r) ==
        IF r.ret # "OK" THEN r
        ELSE Returns("OK", [r.s EXCEPT !.gauGeneration[r.s.gbRedVolNum] = NextGeneration(@)])
  IN  AtVolume(s, path, LAMBDA u :
        IF Vol(u).fMounted THEN Returns("EBUSY", u)
        ELSE mounted(OnVolume(u, RedCoreVolMount(Vol(u), flags, f))))

\* Open handles are closed only by force; tasks that are in the volume go to
\* its root.
HandleCloseAll(s, handles, f) == InTurn(s, handles, LAMBDA u, h : HandleClose(u, h, {}, f))

red_umount2(s, path, fForce, f) ==
  LET unmount(cwds)   == IF cwds.ret = "OK" THEN OnVolume(cwds.s, RedCoreVolUnmount(Vol(cwds.s), f))
                         ELSE cwds
      leave(handles)  == IF handles.ret = "OK" THEN unmount(CwdCloseVol(handles.s, FALSE, f))
                         ELSE handles
      close(u, mine)  == leave(HandleCloseAll(u, mine, f))
      check(u, mine)  == IF ~Vol(u).fMounted THEN Returns("EINVAL", u)
                         ELSE IF mine # {} /\ ~fForce THEN Returns("EBUSY", u)
                         ELSE close(u, mine)
  IN  AtVolume(s, path, LAMBDA u : check(u, HandlesOf(u, u.gbRedVolNum)))

red_rollback(s, path) ==
  LET leave(r) == IF r.ret = "OK" THEN Returns("OK", CwdCloseVol(r.s, TRUE, "OK").s) ELSE r
  IN  AtVolume(s, path, LAMBDA u :
        IF HandlesOf(u, u.gbRedVolNum) # {} THEN Returns("EBUSY", u)
        ELSE leave(OnVolume(u, RedCoreVolRollback(Vol(u)))))

red_mount(s, path, f)         == red_mount2(s, path, {}, f)
red_umount(s, path, f)        == red_umount2(s, path, FALSE, f)
red_format2(s, path)          == OnPathVolume(s, path, RedCoreVolFormat)
red_format(s, path)           == red_format2(s, path)
red_transact(s, path, f)      == OnPathVolume(s, path, LAMBDA v : RedCoreVolTransact(v, f))
red_settransmask(s, path, m)  == OnPathVolume(s, path, LAMBDA v : RedCoreTransMaskSet(v, m))
red_gettransmask(s, path)     == OnPathVolume(s, path, LAMBDA v : Failed(RedCoreTransMaskGet(v).ret, v))
red_statvfs(s, path)          == OnPathVolume(s, path, RedCoreVolStat)

\* The number of orphans that may be left, 0 or 1, is the result of success.
red_freeorphans(s, path, ulCount) ==
  LET one(v) == RedCoreVolFreeOrphans(v, ulCount)
  IN  OnPathVolume(s, path,
        LAMBDA v : IF one(v).ret = "ENOENT" THEN Done(one(v).v) ELSE one(v))

\* A transaction point on every volume that asks for it; errors do not stop it.
red_sync(s, f) ==
  LET transact(r, w) == Returns(IF w.ret = "OK" THEN r.ret ELSE w.ret, w.s)
  IN  InOrder(s, Volumes, LAMBDA r, n :
        IF ~Writeable(r.s.vol[n]) THEN r
        ELSE IF "SYNC" \notin r.s.vol[n].mask THEN Returns(r.ret, Current(r.s, n))
        ELSE transact(r, OnVolume(Current(r.s, n), RedCoreVolTransact(r.s.vol[n], f))))

-----------------------------------------------------------------------------
(* The driver and its tasks.                                               *)

\* RedCoreInit.
RedCoreInit(vol) ==
  [n \in Volumes |-> [vol[n] EXCEPT !.fMounted = FALSE, !.fReadOnly = FALSE,
                              !.mask = REDCONF_TRANSACT_DEFAULT]]

red_init(s) ==
  LET u == [s EXCEPT !.vol = RedCoreInit(@), !.gaHandle = [h \in Handles |-> FreeHandle],
                     !.gaOpenInos = <<>>, !.gfPosixInited = TRUE,
                     !.gaTask = [i \in Slots |-> [ulTaskId |-> NoTask, pCwd |-> NULL]]]
  IN  Returns("OK", IF s.gfPosixInited THEN s ELSE CwdResetAll(u))

red_uninit(s) ==
  IF s.gfPosixInited /\ \E n \in Volumes : s.vol[n].fMounted THEN Returns("EBUSY", s)
  ELSE Returns("OK", [s EXCEPT !.gfPosixInited = FALSE])

red_taskregister(t) ==
  IF red.gfPosixInited THEN TaskRegister(red, t) ELSE Returns("EINVAL", red)

red_taskunregister(t, f) ==
  IF red.gfPosixInited THEN TaskUnregister(red, t, f) ELSE Returns("EINVAL", red)

\* Before the first call.
Formatted ==
  [ gfPosixInited |-> FALSE, gbRedVolNum |-> 0,
    vol |-> [n \in Volumes |-> RedVolFormat],
    gaHandle |-> [h \in Handles |-> FreeHandle],
    gaOpenInos |-> <<>>,
    gaTask |-> [i \in Slots |-> [ulTaskId |-> NoTask, pCwd |-> NULL]],
    gauGeneration |-> [n \in Volumes |-> 0] ]

\* A task has called red_init and mounted volume 0.
Init ==
  /\ \E t \in Tasks :
       red = red_mount2(TaskRegister(red_init(Formatted).s, t).s, Prefix[0], {}, "OK").s
  /\ outcome = "OK" /\ stale = {} /\ calls = 0

\* The descriptors of the handles in use.
Given(s) == {s.gaHandle[h].fildes : h \in {g \in Handles : InUse(s, g)}}

\* A descriptor is stale from the unmount that closes it to the next unmount
\* of its volume: only the generation of the mount after it is surely another.
Stale(s) ==
  LET gone == {n \in Volumes : red.vol[n].fMounted /\ ~s.vol[n].fMounted}
  IN  {fd \in stale : fd.vol \notin gone} \cup {fd \in Given(red) : fd.vol \in gone}

Outcome(ret) == IF ret \in {"OK", "EFUBAR"} THEN ret ELSE "error"

\* Calls that only make another volume the current one are not counted.
Ends(r) ==
  LET n == IF Current(r.s, red.gbRedVolNum) = red THEN calls ELSE calls + 1
  IN  /\ n <= MAX_CALLS /\ calls' = n
      /\ red' = r.s /\ outcome' = Outcome(r.ret) /\ stale' = Stale(r.s)

Driver ==
  \/ Ends(red_init(red))
  \/ Ends(red_uninit(red))
  \/ \E t \in Tasks :
       \/ Ends(red_taskregister(t))
       \/ Ends(red_taskunregister(t, "OK"))

VolumePaths == {Prefix[n] \o <<"/">> : n \in Volumes}

\* Calls that change nothing are alternatives of one choice, of their results.
VolumeCalls(s) ==
  \/ Ends(red_sync(s, "OK"))
  \/ \E path \in VolumePaths :
       \/ \E f \in {"OK", "EIO"} :
            \/ \E flags \in MountFlags : Ends(red_mount2(s, path, flags, f))
            \/ \E fForce \in BOOLEAN : Ends(red_umount2(s, path, fForce, f))
       \/ Ends(red_transact(s, path, "OK"))
       \/ Ends(red_format(s, path))
       \/ Ends(red_rollback(s, path))
       \/ \E mask \in Masks : Ends(red_settransmask(s, path, mask))
       \/ Ends(red_freeorphans(s, path, 1))
       \/ \E r \in {red_gettransmask(s, path), red_statvfs(s, path)} : Ends(r)

\* Every descriptor a caller could have got.
Descriptors == [gen : 1 .. FD_GEN_MAX, vol : Volumes, idx : Handles]

\* The rename of a name to itself: in use, its inode is marked as an orphan
\* although it keeps its name (see Orphans).
IsSameName(s, t, fd, path, newFd, newPath) ==
  LET place(start) == RedPathToName(Vol(start.s), start.dir, start.names, "EBUSY")
      both == AtBoth(s, t, fd, path, newFd, newPath, LAMBDA old, new :
                [ret |-> IF place(old) = place(new) THEN "same" ELSE "other", s |-> new.s])
  IN  both.ret = "same"

NameCalls(t, s) ==
  \E path \in Paths :
    \/ \E f \in Faults :
         \/ \E flags \in OpenFlags : Ends(red_open2(s, t, path, flags, f))
         \/ Ends(red_mkdir(s, t, path, f))
         \/ Ends(red_symlink(s, t, path, f, "OK"))
         \/ Ends(red_unlink(s, t, path, f))
    \/ Ends(red_chdir(s, t, path, "OK"))
    \/ Ends(red_opendir(s, t, path))
    \/ Ends(red_rmdir(s, t, path, "OK"))
    \/ \E to \in Paths :
         \/ /\ SameNameRenames \/ ~IsSameName(s, t, FDCWD, path, FDCWD, to)
            /\ Ends(red_rename(s, t, path, to, "OK"))
         \/ Ends(red_link(s, t, path, to, "OK"))
    \/ \E r \in { red_readlink(s, t, path), red_chmod(s, t, path), red_chown(s, t, path),
                  red_utimes(s, t, path), red_stat(s, t, path) } : Ends(r)

DescriptorCalls(t, s) ==
  \/ \E fd \in Given(s) \cup stale :
       \/ \E f \in {"OK", "EIO"} : Ends(red_close(s, fd, f))
       \/ Ends(red_fsync(s, fd))
       \/ \E r \in { red_fdopendir(s, fd), red_fchmod(s, fd), red_fchown(s, fd), red_futimes(s, fd),
                     red_fstat(s, fd), red_getdirpath(s, fd) } : Ends(r)
  \/ \E fd \in Given(s) \cup stale, path \in Paths :
       \/ Ends(red_openat(s, t, fd, path, {"RDONLY"}, "OK"))
       \/ Ends(red_mkdirat(s, t, fd, path, "OK"))
       \/ Ends(red_unlinkat(s, t, fd, path, FALSE, "OK"))
       \/ \E r \in { red_fstatat(s, t, fd, path, TRUE), red_fchmodat(s, t, fd, path, TRUE),
                     red_fchownat(s, t, fd, path, TRUE), red_utimesat(s, t, fd, path, TRUE) } : Ends(r)
       \/ \E to \in Paths :
            \/ /\ SameNameRenames \/ ~IsSameName(s, t, fd, path, FDABS, to)
               /\ Ends(red_renameat(s, t, fd, path, FDABS, to, "OK"))
            \/ Ends(red_linkat(s, t, fd, path, FDABS, to, TRUE, "OK"))

StreamCalls(s) ==
  \E h \in Handles :
    \/ Ends(red_readdir(s, h))
    \/ Ends(red_rewinddir(s, h))
    \/ Ends(red_seekdir(s, h, red_telldir(s, h)))
    \/ Ends(red_closedir(s, h, "OK"))

\* A call from PosixEnter on.
Calls(t) ==
  IF PosixEnter(t).ret # "OK" THEN Ends(PosixEnter(t))
  ELSE \/ VolumeCalls(Entered(t))
       \/ NameCalls(t, Entered(t))
       \/ DescriptorCalls(t, Entered(t))
       \/ StreamCalls(Entered(t))
       \/ Ends(red_getcwd(Entered(t), t))

Next == Driver \/ \E t \in Tasks : Calls(t)

Spec == Init /\ [][Next]_vars

-----------------------------------------------------------------------------
(* Properties.                                                             *)

Keys == Volumes \X Inodes

\* The types of the driver's tables.
TypeOK ==
  /\ red.gbRedVolNum \in Volumes
  /\ \A h \in Handles : InUse(red, h) => red.gaHandle[h].pOpenIno \in Keys
  /\ \A i \in Slots : red.gaTask[i].pCwd \in Keys \cup {NULL}
  /\ DOMAIN red.gaOpenInos \subseteq Keys /\ Cardinality(DOMAIN red.gaOpenInos) <= OPEN_INODE_COUNT
  /\ \A n \in Volumes : red.gauGeneration[n] \in 0 .. FD_GEN_MAX
  /\ stale \subseteq Descriptors
  /\ outcome \in {"OK", "EFUBAR", "error"} /\ calls \in 0 .. MAX_CALLS

\* A descriptor is accepted exactly if a handle was opened with it and not
\* closed since; above all not if the handle was closed by a forced unmount,
\* and has been opened again after the next mount (FildesToHandle).
DescriptorsExact ==
  /\ \A fd \in Descriptors : FildesToHandle(red, fd, FTYPE_ANY) = "OK" <=> fd \in Given(red)
  /\ \A fd \in stale : FildesToHandle(red, fd, FTYPE_ANY) # "OK"

Users(key) ==
  Cardinality({h \in Handles : red.gaHandle[h].pOpenIno = key})
    + Cardinality({i \in Slots : red.gaTask[i].pCwd = key})

\* Whatever was unmounted, rolled back or removed: an open handle is of an
\* inode that exists on a mounted volume and has the type it was opened with;
\* a working directory is a directory of a mounted volume or the root of one
\* that is not; the references of an open inode are its handles and the tasks
\* that are in it; and it is marked as an orphan exactly if it is one.
HandlesAndTasksValid ==
  red.gfPosixInited =>
    /\ \A h \in Handles : InUse(red, h) =>
         LET key == red.gaHandle[h].pOpenIno
             v   == red.vol[key[1]]
         IN  v.fMounted /\ Exists(v, key[2]) /\ v.node[key[2]].type = HandleType(red, h)
    /\ \A i \in Slots :
         LET key == red.gaTask[i].pCwd
         IN  /\ key # NULL
             /\ key[2] = ROOT \/ (red.vol[key[1]].fMounted /\ IsDir(red.vol[key[1]], key[2]))
    /\ \A key \in Keys : Users(key) = IF IsOpen(red, key) THEN red.gaOpenInos[key].uRefs ELSE 0
    /\ \A key \in DOMAIN red.gaOpenInos :
         red.vol[key[1]].fMounted =>
           (red.gaOpenInos[key].fOrphan <=> key[2] \in red.vol[key[1]].orphans)

\* The path that red_getcwd and red_getdirpath give for a directory that is
\* in use leads back to it, and there is one unless the directory was removed.
\* No call ends in an error of the driver's own.
PathsLeadBack ==
  /\ outcome # "EFUBAR"
  /\ red.gfPosixInited => \A key \in DOMAIN red.gaOpenInos :
       LET v == red.vol[key[1]]
           r == DirInodeToPath(v, key[2])
       IN  v.fMounted /\ IsDir(v, key[2]) =>
             IF key[2] \in v.orphans THEN r.ret = "ENOENT"
             ELSE r.ret = "OK" /\ RedPathLookup(v, ROOT, r.path, FALSE).ino = key[2]

\* What a caller sees of the driver.
Seen(s) ==
  [ handles |-> s.gaHandle, inos |-> s.gaOpenInos, cwds |-> [i \in Slots |-> s.gaTask[i].pCwd],
    names |-> [n \in Volumes |->
                 [i \in Inodes |-> IF i \in s.vol[n].defunct THEN FREE_INODE ELSE s.vol[n].node[i]]] ]

\* A call that fails, for whatever reason but an I/O error that made a volume
\* read-only, has changed nothing that a caller could see: no name, no link
\* count, no handle, no reference, no working directory.
FailedCallsChangeNothing ==
  [][ outcome' = "error" /\ (\A n \in Volumes : red'.vol[n].fReadOnly = red.vol[n].fReadOnly)
        => Seen(red)' = Seen(red) ]_vars
=============================================================================
