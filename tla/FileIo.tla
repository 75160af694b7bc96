-------------------------------- MODULE FileIo --------------------------------
(***************************************************************************)
(* File I/O by descriptor (posix.c) over the files of one volume.  The     *)
(* state s has the volume, the handles, and for every inode that has a     *)
(* handle whether space is reserved for it and up to where that space has  *)
(* been used.  Which descriptors are valid, and of which types, is Posix's *)
(* subject: here a descriptor is a handle of a file or is not open.        *)
(*                                                                         *)
(* An operator for a function returns [ret, s] and, where the function     *)
(* returns a count of units, n.                                            *)
(***************************************************************************)
EXTENDS FileData

CONSTANTS
  Handles,
  INT32_MAX              \* the most units of one call

NoInode    == 0
FreeHandle == [ulInode |-> NoInode, bFlags |-> {}, ullFileOffset |-> 0]
Unreserved == [fReserved |-> FALSE, ullResOff |-> 0]

Returns(ret, s)      == [ret |-> ret, s |-> s, n |-> 0]
Counts(ret, s, n)    == [ret |-> ret, s |-> s, n |-> IF ret = "OK" THEN n ELSE 0]
WithVolume(s, r)     == Returns(r.ret, [s EXCEPT !.vol = r.v])

InodeOf(s, h)  == s.gaHandle[h].ulInode
IsOpen(s, f)   == \E h \in Handles : InodeOf(s, h) = f
OpenIno(s, h)  == s.gaOpenInos[InodeOf(s, h)]
FileSize(s, h) == s.vol.ino[InodeOf(s, h)].ullSize

\* FildesToHandle, and the flag of the handle that the call needs.
Usable(s, h, flag) == InodeOf(s, h) # NoInode /\ flag \in s.gaHandle[h].bFlags

\* An open of a file that exists.
red_open(s, h, f, flags, fTrunc) ==
  LET use(r) == IF r.ret # "OK" THEN r
                ELSE Returns("OK", [r.s EXCEPT !.gaHandle[h] =
                       [ulInode |-> f, bFlags |-> flags, ullFileOffset |-> 0]])
  IN  use(IF fTrunc THEN WithVolume(s, RedCoreFileTruncate(s.vol, f, 0)) ELSE Returns("OK", s))

\* The last handle of an inode is closed.  Whether an error of the cleanup
\* matters depends on what the close is for.
OpenInoDeref(s, f, fPropagate) ==
  LET r == IF s.gaOpenInos[f].fReserved /\ ~s.vol.fReadOnly
           THEN WithVolume(s, RedCoreFileUnreserve(s.vol, f, s.gaOpenInos[f].ullResOff))
           ELSE Returns("OK", s)
  IN  IF r.ret # "OK" /\ fPropagate THEN r
      ELSE Returns("OK", [r.s EXCEPT !.gaOpenInos[f] = Unreserved])

\* HandleClose, of a handle that is open; event is "CLOSE" for red_close.
HandleClose(s, h, event) ==
  LET f == InodeOf(s, h)
      closed(u) == [u EXCEPT !.gaHandle[h] = FreeHandle]
      fTransacting == ~s.vol.fReadOnly /\ event \in s.vol.mask
      transact(u) == IF fTransacting /\ ~u.vol.fReadOnly THEN [u EXCEPT !.vol = RedVolTransact(@)] ELSE u
      done(r) == IF r.ret = "OK" THEN Returns("OK", transact(closed(r.s))) ELSE r
  IN  done(IF IsOpen(closed(s), f) THEN Returns("OK", s) ELSE OpenInoDeref(s, f, fTransacting))

red_close(s, h) == IF InodeOf(s, h) = NoInode THEN Returns("EBADF", s) ELSE HandleClose(s, h, "CLOSE")

ReadSub(s, h, ulLength, fIsPread, ullOffset) ==
  LET from == IF fIsPread THEN ullOffset ELSE s.gaHandle[h].ullFileOffset
      moved(n) == IF fIsPread THEN s ELSE [s EXCEPT !.gaHandle[h].ullFileOffset = @ + n]
      end(r) == Counts(r.ret, IF r.ret = "OK" THEN moved(r.n) ELSE s, r.n)
  IN  IF ulLength > INT32_MAX THEN Returns("EINVAL", s)
      ELSE IF ~Usable(s, h, "READABLE") THEN Returns("EBADF", s)
      ELSE end(RedCoreFileRead(s.vol, InodeOf(s, h), from, ulLength))

red_read(s, h, ulLength)             == ReadSub(s, h, ulLength, FALSE, 0)
red_pread(s, h, ulLength, ullOffset) == ReadSub(s, h, ulLength, TRUE, ullOffset)

\* n units of the reserved part of a file have been written.
ResUsed(u, f, n) == [u EXCEPT !.gaOpenInos[f].ullResOff = @ + n]

\* A write to a file with reserved space goes on where the last one ended, and
\* the reservation ends when all of it is used.
WriteSub(s, h, ulLength, fIsPwrite, ullOffset, tag) ==
  LET f    == InodeOf(s, h)
      size == FileSize(s, h)
      fAppending == ~fIsPwrite /\ "APPENDING" \in s.gaHandle[h].bFlags
      t    == IF fAppending THEN [s EXCEPT !.gaHandle[h].ullFileOffset = size] ELSE s
      off  == IF fIsPwrite THEN ullOffset ELSE t.gaHandle[h].ullFileOffset
      moved(u, n) == IF fIsPwrite THEN u ELSE [u EXCEPT !.gaHandle[h].ullFileOffset = @ + n]
      \* The reservation of a file that has been written to its end.
      ended(u) == IF u.gaOpenInos[f].ullResOff # size THEN Returns("OK", u)
                  ELSE WithVolume([u EXCEPT !.gaOpenInos[f].fReserved = FALSE],
                                  RedCoreFileUnreserve(u.vol, f, size))
      used(u, n)   == ended(ResUsed(u, f, n))
      counted(r, n) == Counts(r.ret, r.s, n)
      written(r) ==
        LET u == [t EXCEPT !.vol = r.v]
        IN  IF r.ret # "OK" THEN Returns(r.ret, u)
            ELSE IF s.gaOpenInos[f].fReserved THEN counted(used(moved(u, r.n), r.n), r.n)
            ELSE Counts("OK", moved(u, r.n), r.n)
      within == IF off + ulLength > size THEN size - off ELSE ulLength
  IN  IF ulLength > INT32_MAX THEN Returns("EINVAL", s)
      ELSE IF ~Usable(s, h, "WRITEABLE") THEN Returns("EBADF", s)
      ELSE IF ~s.gaOpenInos[f].fReserved THEN written(RedCoreFileWrite(t.vol, f, off, ulLength, tag))
      ELSE IF off # s.gaOpenInos[f].ullResOff THEN Returns("EINVAL", t)
      ELSE written(RedCoreFileWriteReserved(t.vol, f, off, within, tag))

red_write(s, h, ulLength, tag)             == WriteSub(s, h, ulLength, FALSE, 0, tag)
red_pwrite(s, h, ulLength, ullOffset, tag) == WriteSub(s, h, ulLength, TRUE, ullOffset, tag)

red_lseek(s, h, llOffset, whence) ==
  LET to == llOffset + (CASE whence = "SET" -> 0
                          [] whence = "CUR" -> s.gaHandle[h].ullFileOffset
                          [] whence = "END" -> FileSize(s, h))
  IN  IF InodeOf(s, h) = NoInode THEN Returns("EBADF", s)
      ELSE IF to < 0 \/ to > INODE_SIZE_MAX THEN Returns("EINVAL", s)
      ELSE Returns("OK", [s EXCEPT !.gaHandle[h].ullFileOffset = to])

red_ftruncate(s, h, ullSize) ==
  LET f == InodeOf(s, h)
      truncate(u) == WithVolume(u, RedCoreFileTruncate(u.vol, f, ullSize))
      go(r) == IF r.ret = "OK" THEN truncate([r.s EXCEPT !.gaOpenInos[f].fReserved = FALSE]) ELSE r
  IN  IF ~Usable(s, h, "WRITEABLE") THEN Returns("EBADF", s)
      ELSE go(IF OpenIno(s, h).fReserved
              THEN WithVolume(s, RedCoreFileUnreserve(s.vol, f, OpenIno(s, h).ullResOff))
              ELSE Returns("OK", s))

red_freserve(s, h, ullSize) ==
  LET f    == InodeOf(s, h)
      size == FileSize(s, h)
      reserved(r) == IF r.ret # "OK" THEN r
                     ELSE Returns("OK", [r.s EXCEPT !.gaOpenInos[f] =
                                           [fReserved |-> TRUE, ullResOff |-> size]])
  IN  IF ~Usable(s, h, "WRITEABLE") THEN Returns("EBADF", s)
      ELSE IF OpenIno(s, h).fReserved \/ ullSize <= size THEN Returns("EINVAL", s)
      ELSE reserved(WithVolume(s, RedCoreFileReserve(s.vol, f, size, ullSize - size)))
=============================================================================
