--------------------------------- MODULE Fse ---------------------------------
(***************************************************************************)
(* The FSE API (fse.c): an application whose files are inode numbers, and  *)
(* the calls of the core on volumes (core.c, volume.c) that it makes.  The *)
(* state s has the volume and whether the driver is initialized.  A call   *)
(* runs with the mutex of the driver from FseEnter to FseLeave: it is one  *)
(* step.                                                                   *)
(***************************************************************************)
EXTENDS FileIo

CONSTANTS
  REDCONF_TRANSACT_DEFAULT   \* the transaction mask at the start

NotWriteable(v) == ~v.fMounted \/ v.fReadOnly
Refused(v)      == Failed(IF v.fMounted THEN "EROFS" ELSE "EINVAL", v)

-----------------------------------------------------------------------------
(* The core.                                                               *)

\* The working state is that of the last transaction point.
Reverted(v) == [v EXCEPT !.mr = v.cmr, !.ino = v.cino]

\* The counts of reserved blocks are cleared here and nowhere else.
RedCoreInit(v) ==
  [v EXCEPT !.fMounted = FALSE, !.fReadOnly = FALSE, !.mask = REDCONF_TRANSACT_DEFAULT,
            !.ulReservedInodes = 0, !.ulReservedInodeBlocks = 0]

RedCoreVolMount(v) == Done([Reverted(v) EXCEPT !.fMounted = TRUE, !.fReadOnly = FALSE])

RedCoreVolUnmount(v) ==
  LET w == IF ~v.fReadOnly /\ "UMOUNT" \in v.mask THEN RedVolTransact(v) ELSE v
  IN  IF v.fMounted THEN Done([w EXCEPT !.fMounted = FALSE]) ELSE Failed("EINVAL", v)

RedCoreVolFormat(v) ==
  IF v.fMounted THEN Failed("EBUSY", v)
  ELSE Done([Formatted(v) EXCEPT !.ino = EmptyVolume.ino, !.cino = EmptyVolume.ino])

RedCoreVolTransact(v)        == IF NotWriteable(v) THEN Refused(v) ELSE Done(RedVolTransact(v))
RedCoreVolRollback(v)        == IF NotWriteable(v) THEN Refused(v) ELSE Done(Reverted(v))
RedCoreTransMaskSet(v, mask) == IF NotWriteable(v) THEN Refused(v) ELSE Done([v EXCEPT !.mask = mask])
RedCoreTransMaskGet(v)       == Failed(IF v.fMounted THEN "OK" ELSE "EINVAL", v)

RedCoreVolStat(v) ==
  IF v.fMounted THEN [ret |-> "OK", f_bfree |-> RedVolFreeBlockCount(v)]
  ELSE [ret |-> "EINVAL", f_bfree |-> 0]

-----------------------------------------------------------------------------
(* The API.                                                                *)

FseEnter(s, go) == IF s.gfFseInited THEN go ELSE Returns("EINVAL", s)

RedFseInit(s) ==
  Returns("OK", IF s.gfFseInited THEN s
                ELSE [s EXCEPT !.vol = RedCoreInit(@), !.gfFseInited = TRUE])

RedFseUninit(s) ==
  IF s.gfFseInited /\ s.vol.fMounted THEN Returns("EBUSY", s)
  ELSE Returns("OK", [s EXCEPT !.gfFseInited = FALSE])

RedFseMount(s) ==
  FseEnter(s, IF s.vol.fMounted THEN Returns("OK", s) ELSE WithVolume(s, RedCoreVolMount(s.vol)))

RedFseUnmount(s) ==
  FseEnter(s, IF s.vol.fMounted THEN WithVolume(s, RedCoreVolUnmount(s.vol)) ELSE Returns("OK", s))

RedFseFormat(s) == FseEnter(s, WithVolume(s, RedCoreVolFormat(s.vol)))

RedFseStatfs(s) ==
  FseEnter(s, Counts(RedCoreVolStat(s.vol).ret, s, RedCoreVolStat(s.vol).f_bfree))

RedFseRead(s, f, off, ulLength) ==
  LET end(r) == Counts(r.ret, s, r.n)
  IN  IF ulLength > INT32_MAX THEN Returns("EINVAL", s)
      ELSE FseEnter(s, end(RedCoreFileRead(s.vol, f, off, ulLength)))

RedFseWrite(s, f, off, ulLength, tag) ==
  LET end(r) == Counts(r.ret, [s EXCEPT !.vol = r.v], r.n)
  IN  IF ulLength > INT32_MAX THEN Returns("EINVAL", s)
      ELSE FseEnter(s, end(RedCoreFileWrite(s.vol, f, off, ulLength, tag)))

RedFseTruncate(s, f, size) == FseEnter(s, WithVolume(s, RedCoreFileTruncate(s.vol, f, size)))

RedFseSizeGet(s, f) ==
  LET end(r) == Counts(r.ret, s, r.size)
  IN  FseEnter(s, end(RedCoreFileSizeGet(s.vol, f)))

RedFseTransMaskSet(s, mask) == FseEnter(s, WithVolume(s, RedCoreTransMaskSet(s.vol, mask)))
RedFseTransMaskGet(s)       == FseEnter(s, WithVolume(s, RedCoreTransMaskGet(s.vol)))
RedFseTransact(s)           == FseEnter(s, WithVolume(s, RedCoreVolTransact(s.vol)))
RedFseRollback(s)           == FseEnter(s, WithVolume(s, RedCoreVolRollback(s.vol)))
=============================================================================
