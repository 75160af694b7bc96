-------------------------------- MODULE Files --------------------------------
(***************************************************************************)
(* Every sequence of calls on the contents of files of which at most       *)
(* MAX_CALLS change something, by the POSIX-like API or by the FSE API (an *)
(* application is built with one of them), from volumes that have been     *)
(* written to before.                                                      *)
(***************************************************************************)
EXTENDS Fse, MdIter

CONSTANTS
  Apis,                  \* a subset of {"POSIX", "FSE"}
  Masks,                 \* the transaction masks
  StartSizes,            \* sizes of the first file at the start
  Writes,                \* the <<offset, length>> that are written
  Lengths,               \* the lengths written where the handle is
  Sizes, Reserves,       \* the sizes that files are truncated and reserved to
  Seeks,                 \* the <<offset, whence>> of red_lseek
  Flags,                 \* the flags that handles are opened with
  TruncReserved,         \* may O_TRUNC meet a file that has reserved space?
  MAX_CALLS

VARIABLES
  api,
  red,                   \* the driver: volume, handles, open inodes
  file,                  \* what each file should read as
  cfile,                 \* and what it should read as after a power loss
  calls

vars == <<api, red, file, cfile, calls>>

f1 == Min(Files)

-----------------------------------------------------------------------------
(* What the calls should do to the contents of files.                      *)

Resized(content, size) ==
  [k \in 1 .. size |-> IF k <= Len(content) THEN content[k] ELSE 0]

Overwritten(content, off, n, tag) ==
  [k \in 1 .. Max({Len(content), off + n}) |->
     IF k - 1 \in off .. off + n - 1 THEN UnitAt(tag, k - 1)
     ELSE IF k <= Len(content) THEN content[k] ELSE 0]

Sized(f, size, r) == IF r.ret = "OK" THEN [file EXCEPT ![f] = Resized(@, size)] ELSE file

Wrote(f, off, r, tag) ==
  IF r.ret = "OK" /\ r.n > 0 THEN [file EXCEPT ![f] = Overwritten(@, off, r.n, tag)] ELSE file

\* A call ends with result r, and the files should be as in new(r).  If the
\* last transaction point in it was its last step they are committed as they
\* are, and if it was before a second attempt, as they were.
Ends(r, new(_)) ==
  /\ calls < MAX_CALLS
  /\ calls' = IF r.s = red THEN calls ELSE calls + 1
  /\ red' = r.s /\ file' = new(r) /\ api' = api
  /\ cfile' = IF red'.vol.cmr = red'.vol.mr /\ red'.vol.cino = red'.vol.ino THEN file'
              ELSE IF red'.vol.cmr = red.vol.cmr /\ red'.vol.cino = red.vol.cino THEN cfile
              ELSE file

Same(r) == file

\* The files after a call that goes back to the last transaction point.
Back(r) == IF r.ret = "OK" THEN cfile ELSE file

tag == calls + 1

-----------------------------------------------------------------------------
(* The POSIX-like API.                                                     *)

Open(h, f, flags, fTrunc) ==
  /\ api = "POSIX" /\ InodeOf(red, h) = NoInode
  /\ fTrunc => "WRITEABLE" \in flags /\ (TruncReserved \/ ~red.gaOpenInos[f].fReserved)
  /\ Ends(red_open(red, h, f, flags, fTrunc), LAMBDA r : IF fTrunc THEN Sized(f, 0, r) ELSE file)

Close(h) == api = "POSIX" /\ Ends(red_close(red, h), Same)

Read(h, len)       == api = "POSIX" /\ Ends(red_read(red, h, len), Same)
Pread(h, len, off) == api = "POSIX" /\ Ends(red_pread(red, h, len, off), Same)
Lseek(h, to)       == api = "POSIX" /\ Ends(red_lseek(red, h, to[1], to[2]), Same)

\* Where red_write puts what it is given.
WriteOffset(h) ==
  IF "APPENDING" \in red.gaHandle[h].bFlags THEN FileSize(red, h) ELSE red.gaHandle[h].ullFileOffset

Write(h, len) ==
  /\ api = "POSIX"
  /\ Ends(red_write(red, h, len, tag), LAMBDA r : Wrote(InodeOf(red, h), WriteOffset(h), r, tag))

Pwrite(h, at) ==
  /\ api = "POSIX"
  /\ Ends(red_pwrite(red, h, at[2], at[1], tag), LAMBDA r : Wrote(InodeOf(red, h), at[1], r, tag))

Ftruncate(h, size) ==
  /\ api = "POSIX"
  /\ Ends(red_ftruncate(red, h, size), LAMBDA r : Sized(InodeOf(red, h), size, r))

Freserve(h, size) ==
  /\ api = "POSIX"
  /\ Ends(red_freserve(red, h, size), LAMBDA r : Sized(InodeOf(red, h), size, r))

Transact == api = "POSIX" /\ Ends(WithVolume(red, RedCoreVolTransact(red.vol)), Same)

\* red_umount2 by force, which closes every handle, and red_mount.
Closed(s, h) == IF InodeOf(s, h) = NoInode THEN s ELSE HandleClose(s, h, "NONE").s

Remount ==
  /\ api = "POSIX"
  /\ LET again(s) == WithVolume(s, RedCoreVolMount(RedCoreVolUnmount(s.vol).v))
     IN  Ends(again(FoldSet(LAMBDA h, u : Closed(u, h), red, Handles)),
              LAMBDA r : IF "UMOUNT" \in red.vol.mask THEN file ELSE cfile)

\* The driver starts again.
PowerLoss ==
  /\ api = "POSIX"
  /\ Ends(WithVolume([red EXCEPT !.gaHandle = [h \in Handles |-> FreeHandle],
                                 !.gaOpenInos = [f \in Files |-> Unreserved]],
                     RedCoreVolMount(RedCoreInit(red.vol))), Back)

PosixCalls ==
  \/ \E h \in Handles :
       \/ \E f \in Files, flags \in Flags, fTrunc \in BOOLEAN : Open(h, f, flags, fTrunc)
       \/ Close(h)
       \/ \E len \in Lengths : Read(h, len) \/ Pread(h, len, 0) \/ Write(h, len)
       \/ \E to \in Seeks : Lseek(h, to)
       \/ \E at \in Writes : Pwrite(h, at)
       \/ \E size \in Sizes : Ftruncate(h, size)
       \/ \E size \in Reserves : Freserve(h, size)
  \/ Transact \/ Remount \/ PowerLoss

-----------------------------------------------------------------------------
(* The FSE API.                                                            *)

FseWrite(f, at) ==
  /\ api = "FSE"
  /\ Ends(RedFseWrite(red, f, at[1], at[2], tag), LAMBDA r : Wrote(f, at[1], r, tag))

FseTruncate(f, size) ==
  /\ api = "FSE"
  /\ Ends(RedFseTruncate(red, f, size), LAMBDA r : Sized(f, size, r))

FseVolume ==
  /\ api = "FSE"
  /\ \/ Ends(RedFseTransact(red), Same)
     \/ Ends(RedFseRollback(red), Back)
     \/ Ends(RedFseUnmount(red), LAMBDA r : IF "UMOUNT" \in red.vol.mask THEN file ELSE Back(r))
     \/ Ends(RedFseMount(red), LAMBDA r : IF red.vol.fMounted THEN file ELSE Back(r))
     \/ Ends(RedFseFormat(red), LAMBDA r : IF r.ret = "OK" THEN [f \in Files |-> <<>>] ELSE file)
     \/ \E mask \in Masks : Ends(RedFseTransMaskSet(red, mask), Same)
     \/ Ends(RedFseUninit(red), Same)
     \/ Ends(RedFseInit(red), Same)

FseQueries ==
  /\ api = "FSE"
  /\ \/ \E f \in Files, len \in Lengths : Ends(RedFseRead(red, f, 0, len), Same)
     \/ \E f \in Files : Ends(RedFseSizeGet(red, f), Same)
     \/ Ends(RedFseStatfs(red), Same)
     \/ Ends(RedFseTransMaskGet(red), Same)

FseCalls ==
  \/ \E f \in Files : \/ \E at \in Writes : FseWrite(f, at)
                      \/ \E size \in Sizes : FseTruncate(f, size)
  \/ FseVolume \/ FseQueries

-----------------------------------------------------------------------------

\* A volume whose first file was written, with or without a transaction point.
Written(size, fTransact, mask) ==
  LET v == RedCoreFileWrite([EmptyVolume EXCEPT !.mask = mask], f1, 0, size, MAX_CALLS + 1).v
  IN  IF fTransact THEN RedVolTransact(v) ELSE v

\* Every handle but one is open, on file f.
Started(v, f) ==
  LET free == CHOOSE h \in Handles : TRUE
      open == [ulInode |-> f, bFlags |-> {"READABLE", "WRITEABLE"}, ullFileOffset |-> 0]
  IN  [ vol |-> v, gfFseInited |-> TRUE,
        gaHandle |-> [h \in Handles |-> IF h = free \/ api = "FSE" THEN FreeHandle ELSE open],
        gaOpenInos |-> [i \in Files |-> Unreserved] ]

Init ==
  /\ api \in Apis
  /\ \E size \in StartSizes, fTransact \in BOOLEAN, mask \in Masks, f \in Files :
       red = Started(Written(size, fTransact, mask), f)
  /\ file = [i \in Files |-> Overwritten(<<>>, 0, red.vol.ino[i].ullSize, MAX_CALLS + 1)]
  /\ cfile = [i \in Files |-> IF red.vol.cmr = red.vol.mr THEN file[i] ELSE <<>>]
  /\ calls = 0

Next == PosixCalls \/ FseCalls

Spec == Init /\ [][Next]_vars

-----------------------------------------------------------------------------
(* Properties.                                                             *)

Unit == 0 .. 16 * (MAX_CALLS + 2)

MetaRoot ==
  [abEntries : [ImapNodes -> 0 .. 1], ulAllocNextBlock : AllocableBlocks]

InodeType ==
  [ ullSize : 0 .. INODE_SIZE_MAX, ulBlocks : 0 .. INODE_DATA_BLOCKS,
    aulEntries : [0 .. INODE_ENTRIES - 1 -> AllocableBlocks \cup {BLOCK_SPARSE}] ]

\* Types of the volume, the handles and the counters (inodedata.c, posix.c).
TypeOK ==
  /\ api \in Apis /\ calls \in 0 .. MAX_CALLS
  /\ red.vol.mr \in MetaRoot /\ red.vol.cmr \in MetaRoot
  /\ red.vol.imap \in [0 .. 2 * ulImapNodeCount - 1 -> SUBSET ImapBlocks]
  /\ red.vol.blk \in [AllocableBlocks -> [0 .. BLOCK_SIZE - 1 -> Unit]]
  /\ \A f \in Files : red.vol.ino[f] \in InodeType /\ red.vol.cino[f] \in InodeType
  /\ red.vol.pIno = NoCoord
  /\ red.vol.ulReservedInodes \in 0 .. Cardinality(Files)
  /\ red.vol.ulReservedInodeBlocks \in 0 .. ulBlocksAllocable
  /\ ~red.vol.fUseReservedBlocks /\ ~red.vol.fUseReservedInodeBlocks
  /\ \A h \in Handles : /\ InodeOf(red, h) \in Files \cup {NoInode}
                        /\ red.gaHandle[h].ullFileOffset \in 0 .. INODE_SIZE_MAX

\* The data blocks that committed inodes count.
SumData(files) == FoldSet(LAMBDA f, n : n + red.vol.cino[f].ulBlocks, 0, files)

Committed(v) == [v EXCEPT !.mr = v.cmr, !.ino = v.cino]

\* Read as a whole, and from within a block to within another.
ReadsAs(v, f, content) ==
  /\ RedInodeDataRead(Mounted(v, f), 0, INODE_SIZE_MAX) = content
  /\ Len(content) > 3 =>
       RedInodeDataRead(Mounted(v, f), 1, Len(content) - 2) = SubSeq(content, 2, Len(content) - 1)

\* A file reads as the calls that reported success wrote it, as much of it as
\* they reported, with zeros where nothing was written: whatever was in its
\* blocks or after its end before, and however a call that failed half way
\* left it (RedInodeDataWrite, Shrink, ExpandPrepare).  And until the next
\* transaction point the committed files read as they were, so that a power
\* loss goes back to them (BranchBlock).
FilesReadBack ==
  red.vol.fMounted =>
    \A f \in Files : /\ ReadsAs(red.vol, f, file[f])
                     /\ ReadsAs(Committed(red.vol), f, cfile[f])

\* The blocks of a file, by where they are named; entries of an entry.
Under(v, refs, lo, hi) ==
  {<<r[1] \o <<k>>, v.blk[r[2]][k]>> : r \in {x \in refs : x[1][2] \in lo .. hi}, k \in 0 .. INDIR_ENTRIES - 1}
NotSparse(refs) == {r \in refs : r[2] # BLOCK_SPARSE}

Top(v, f)    == NotSparse({<<<<f, e>>, v.ino[f].aulEntries[e]>> : e \in 0 .. INODE_ENTRIES - 1})
Second(v, f) == NotSparse(Under(v, Top(v, f), DIRECT_POINTERS, INODE_ENTRIES - 1))
Third(v, f)  == NotSparse(Under(v, Second(v, f), DIRECT_POINTERS + INDIRECT_POINTERS, INODE_ENTRIES - 1))

References(v, f) == Top(v, f) \cup Second(v, f) \cup Third(v, f)

DataReferences(v, f) ==
  {r \in Top(v, f) : r[1][2] < DIRECT_POINTERS}
    \cup {r \in Second(v, f) : r[1][2] < DIRECT_POINTERS + INDIRECT_POINTERS} \cup Third(v, f)

AllReferences(v) == UNION {References(v, f) : f \in Files}

TreesExact(v) ==
  /\ {r[2] : r \in AllReferences(v)} = Allocated(v)
  /\ Cardinality(AllReferences(v)) = Cardinality(Allocated(v))
  /\ \A f \in Files : Cardinality(DataReferences(v, f)) = v.ino[f].ulBlocks

Reserved == {f \in Files : red.gaOpenInos[f].fReserved}

StillReserved(f) ==
  LET v == red.vol
      at == red.gaOpenInos[f].ullResOff
  IN  CountSparseBlocks(Mounted(v, f), at, v.ino[f].ullSize - at).n

\* "The number of inodes which have reserved space": as many as there are open
\* inodes with a reservation (red_freserve, WriteSub, OpenInoDeref).
ReservedInodesExact == red.vol.ulReservedInodes = Cardinality(Reserved)

Blocks(steps, types) == {steps[i][2] : i \in {k \in DOMAIN steps : steps[k][1] \in types}}

\* The indirect and double indirect nodes that a step's block names.
NodesOf(v, step) ==
  {BLOCK_SPARSE} \cup
  (CASE step[1] = "DINDIR" -> {v.blk[step[2]][e] : e \in 0 .. INDIR_ENTRIES - 1}
     [] step[1] = "INODE"  -> {v.cino[f].aulEntries[e] : e \in DIRECT_POINTERS .. INODE_ENTRIES - 1,
                                 f \in {i \in Files : MDInodeBlock(v, i) = step[2]}}
     [] OTHER -> {})

BottomUp(v, steps) ==
  \A i \in DOMAIN steps :
    NodesOf(v, steps[i]) \subseteq Blocks(SubSeq(steps, 1, i), {"INDIR", "DINDIR"}) \cup {BLOCK_SPARSE}

\* After a power loss at any moment the metadata of the last transaction
\* point can be iterated: every block is reported once and what the reported
\* imap nodes have allocated is what is reported, but for the data blocks that
\* the inodes of files count.  A directory has its data reported too.  And "the
\* current order is bottom-up" (mditer.c:41): where a node cannot be read
\* nothing above it is reported.  The committed blocks are those that
\* BranchBlock, Shrink and ImapNodeBranch leave on the volume.
MetadataIterated ==
  LET v == [red.vol EXCEPT !.fMounted = FALSE]
      all(it) ==
        LET steps    == it.steps
            types    == {"MASTER", "METAROOT", "IMAP", "INODE", "DINDIR", "INDIR", "DIRECTORY"}
            reported == SelectSeq(steps, LAMBDA s : s[1] \in types)
            others   == Blocks(steps, types) \ (0 .. ulInodeTableStartBN - 1)
            bits     == UNION {v.imap[b - ulImapStartBN] : b \in Blocks(steps, {"IMAP"})}
        IN  /\ it.ret = "OK" /\ IsInjective([i \in DOMAIN reported |-> reported[i][2]])
            /\ others \subseteq bits
            /\ Cardinality(bits) = Cardinality(others) + SumData(Files \ {f1})
            /\ Cardinality(Blocks(steps, {"DIRECTORY"})) = SumData({f1})
  IN  /\ \E it \in {RedMetadataIterate(v, {f1}, {})} : all(it)
      /\ \E it \in {RedMetadataIterate(v, {}, {v.cino[f1].aulEntries[DIRECT_POINTERS]})} :
           it.ret = "EIO" /\ BottomUp(v, it.steps)

\* No block is lost or named twice, by the working state or by the committed
\* one, whatever call failed where; what is reserved is what the reserved
\* parts of files still need; and so a write to them finds its blocks: the
\* assertion that it does not run out of space holds (core.c), as do those of
\* TruncDindir, and no count of blocks or of reserved blocks is found wrong,
\* which would be a critical error and make the volume read-only.
SpaceExact ==
  /\ TreesExact(red.vol) /\ TreesExact(Committed(red.vol))
  /\ ReservedInodesExact
  /\ red.vol.ulReservedInodeBlocks = FoldSet(LAMBDA f, n : n + StillReserved(f), 0, Reserved)
  /\ ~red.vol.fAssertFailed /\ ~red.vol.fReadOnly

=============================================================================
