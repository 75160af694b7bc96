------------------------------- MODULE Volume -------------------------------
(***************************************************************************)
(* One mounted volume down to the block device: the copy-on-write of       *)
(* inodes and file data (inode.c, inodedata.c), the block buffers          *)
(* (buffer.c), the transaction point with its two device flushes, mount,   *)
(* rollback and unmount (volume.c, core.c), I/O errors and loss of power.  *)
(*                                                                         *)
(* The device may keep written blocks in a volatile cache: media[b] is     *)
(* what a read of block b returns, maybe[b] the contents it may have once  *)
(* power was lost.  A flush makes the two agree.  A block whose write was  *)
(* interrupted may be torn.                                                *)
(*                                                                         *)
(* The imap bits, counters and slot selection are those of Imap.  The      *)
(* purpose of all this is stated by TxnStore, which this module refines.   *)
(***************************************************************************)
EXTENDS Layout

CONSTANTS
  fTransactUmount,      \* RED_TRANSACT_UMOUNT is in the event mask
  fAtomicSectorWrite,   \* the VOLCONF promise: a torn block has whole sectors
  IoMayFail,            \* may a write to the device fail?
  FlushMayFail,         \* may a flush of the device fail?
  fRemountUnstable,     \* is it mounted again from a metaroot not flushed?
  SeqMax,               \* the largest sequence number, UINT64_MAX in the code
  Offsets,              \* the block offsets of a file, 0 .. n
  Values, Zero,         \* contents of a data block; Zero is all zeroes
  Nil,                  \* nothing
  Torn, Junk            \* a partly written metaroot; anything unreadable

ASSUME VolumeAssumption ==
  /\ fTransactUmount \in BOOLEAN /\ fAtomicSectorWrite \in BOOLEAN
  /\ {IoMayFail, FlushMayFail, fRemountUnstable} \subseteq BOOLEAN
  /\ SeqMax \in Nat /\ SeqMax >= 2
  /\ Offsets \subseteq Nat /\ Offsets # {}
  /\ Zero \in Values /\ Values \cap {Nil, Torn, Junk} = {}

VARIABLES
  media,                \* what the device returns when a block is read
  maybe,                \* what it may return after power was lost
  buffers,              \* the buffered blocks: dirty flag and contents
  gpRedMR, cmtMR,       \* aMR[bCurMR] and aMR[1 - bCurMR]
  bCurMR,               \* the metaroot block the next transaction writes
  ullSequence,          \* the sequence number that metaroot will carry
  ulAlmostFreeBlocks, fBranched, fMounted, fReadOnly,
  step                  \* where RedVolTransact stands

devVars == <<media, maybe>>
mrVars  == <<gpRedMR, cmtMR, bCurMR, ullSequence, ulAlmostFreeBlocks, fBranched>>
vars    == <<devVars, buffers, mrVars, fMounted, fReadOnly, step>>

Bits == INSTANCE Imap

\* The operators of TLC with these names, which has no definitions of them that
\* could be reasoned about.
d :> e == [x \in {d} |-> e]
f @@ g == [x \in DOMAIN f \cup DOMAIN g |-> IF x \in DOMAIN f THEN f[x] ELSE g[x]]

-----------------------------------------------------------------------------
(* Blocks and their contents.                                              *)

BLOCK_SPARSE == 0
BLOCK_NUM_FIRST_METAROOT == 1

Files           == FreeableInodes
MetarootBlock(k) == BLOCK_NUM_FIRST_METAROOT + k
MetarootBlocks  == {MetarootBlock(k) : k \in 0 .. 1}
FileSlots       == {InodeBlock(f, w) : f \in Files, w \in Slots}
BufferedBlocks  == FileSlots \cup AllocableBlocks
Blocks          == MetarootBlocks \cup BufferedBlocks

\* An inode is its block pointers, a metaroot its sequence number and body.
InodeNodes     == [Offsets -> AllocableBlocks \cup {BLOCK_SPARSE}]
DiskMetaroots  == [ullSequence : 0 .. SeqMax, body : Bits!MetaRoot]
HoleyInode     == [o \in Offsets |-> BLOCK_SPARSE]

\* Nil, Torn and Junk are none of the things they stand in for.
ASSUME SentinelAssumption ==
  /\ Torn # Junk
  /\ {Torn, Junk} \cap InodeNodes = {}
  /\ Nil \notin DiskMetaroots /\ Torn \notin DiskMetaroots /\ Junk \notin DiskMetaroots
  /\ Nil \notin [fDirty : BOOLEAN, data : InodeNodes \cup Values \cup {Torn, Junk}]
  /\ Nil \notin [Offsets -> Values]

Buffer(fDirty, data) == [fDirty |-> fDirty, data |-> data]
IsDirty(b)  == buffers[b] # Nil /\ buffers[b].fDirty
DirtyBlocks == {b \in BufferedBlocks : IsDirty(b)}

\* What the file system finds in a block: the buffer if there is one.
Cached(b) == IF buffers[b] # Nil THEN buffers[b].data ELSE media[b]

\* RedInodeMount reads the slot the working metaroot has allocated.
CurrentSlot(mr, f) == CHOOSE w \in Slots : Bits!Allocated(mr, InodeBlock(f, w))
InodeNode(f) == Cached(InodeBlock(f, CurrentSlot(gpRedMR, f)))

-----------------------------------------------------------------------------
(* The device.                                                             *)

\* Blocks are written, and power may be lost before they are stable or while
\* they are.  A metaroot then is the old one, the new one or torn, with a
\* valid first sector if the device writes whole sectors.  Of any other block
\* the old contents would be as useless as torn ones, and count as Junk.
Unfinished(b) ==
  IF b \in MetarootBlocks
  THEN maybe[b] \cup {IF fAtomicSectorWrite THEN Torn ELSE Junk}
  ELSE {Junk}

MediaWith(written) == written @@ media
MaybeWith(written) ==
  [b \in DOMAIN written |-> Unfinished(b) \cup {written[b]}] @@ maybe

\* RedIoWrite succeeds.
Written(written) ==
  /\ media' = MediaWith(written)
  /\ maybe' = MaybeWith(written)

\* RedIoWrite fails at block b after the blocks of "written" were written.  (A
\* metaroot that was written nevertheless is one whose flush fails.)
WriteFailed(written, b) ==
  /\ IoMayFail
  /\ \E left \in Unfinished(b) :
       /\ media' = b :> left @@ MediaWith(written)
       /\ maybe' = b :> Unfinished(b) @@ MaybeWith(written)

\* RedIoFlush succeeds.
Flushed == maybe' = [b \in Blocks |-> {media[b]}] /\ UNCHANGED media

NoIo == UNCHANGED devVars

\* RedVolCriticalError.
CriticalError == fReadOnly' = TRUE

-----------------------------------------------------------------------------
(* What a mount finds.                                                     *)

\* Bug: the older of two valid metaroots wins.
OlderMetarootChosen(m) ==
  LET IsValid(k)   == m[k] \notin {Torn, Junk}
      IsRefused(k) == fAtomicSectorWrite /\ m[k] = Junk
  IN  CASE \E k \in 0 .. 1 : IsRefused(k)          -> Nil
        [] \A k \in 0 .. 1 : ~IsValid(k)           -> Nil
        [] IsValid(0) /\ ~IsValid(1)               -> m[0]
        [] ~IsValid(0) /\ IsValid(1)               -> m[1]
        [] \A k \in 0 .. 1 : IsValid(k)            ->
             IF m[1].ullSequence > m[0].ullSequence THEN m[0] ELSE m[1]

\* RedVolMountMetaroot chooses between the two metaroot blocks m[0] and m[1];
\* Nil when it refuses them.
MetarootChosen(m) ==
  LET IsValid(k)   == m[k] \notin {Torn, Junk}
      IsRefused(k) == fAtomicSectorWrite /\ m[k] = Junk
  IN  CASE \E k \in 0 .. 1 : IsRefused(k)          -> Nil
        [] \A k \in 0 .. 1 : ~IsValid(k)           -> Nil
        [] IsValid(0) /\ ~IsValid(1)               -> m[0]
        [] ~IsValid(0) /\ IsValid(1)               -> m[1]
        [] \A k \in 0 .. 1 : IsValid(k)            ->
             IF m[1].ullSequence > m[0].ullSequence THEN m[1] ELSE m[0]

MediaMetaroots == [k \in 0 .. 1 |-> media[MetarootBlock(k)]]

\* The contents of the files under metaroot mr, where block b may hold any
\* member of may[b].
FileViews(mr, f, may) ==
  IF ~Bits!InodeExists(mr, f) THEN {Nil}
  ELSE UNION
    { IF node \in {Torn, Junk} THEN {Junk}
      ELSE LET may1(o) == IF node[o] = BLOCK_SPARSE THEN {Zero} ELSE may[node[o]]
           IN  {c \in [Offsets -> UNION {may1(o) : o \in Offsets}] :
                  \A o \in Offsets : c[o] \in may1(o)}
      : node \in may[InodeBlock(f, CurrentSlot(mr, f))] }

Views(mr, may) ==
  {view \in [Files -> UNION {FileViews(mr, f, may) : f \in Files}] :
     \A f \in Files : view[f] \in FileViews(mr, f, may)}

\* The contents shown by the mounted volume.
WorkingView ==
  LET read(p)     == IF p = BLOCK_SPARSE THEN Zero ELSE Cached(p)
      contents(f) == IF InodeNode(f) \in {Torn, Junk} THEN Junk
                     ELSE [o \in Offsets |-> read(InodeNode(f)[o])]
  IN  [f \in Files |-> IF Bits!InodeExists(gpRedMR, f) THEN contents(f) ELSE Nil]

\* The contents a mount may find once power was lost; Nil is a volume which
\* cannot be mounted.
Recoverable ==
  UNION { LET disk == MetarootChosen(0 :> m0 @@ 1 :> m1)
          IN  IF disk = Nil THEN {Nil} ELSE Views(disk.body, maybe)
          : m0 \in maybe[MetarootBlock(0)], m1 \in maybe[MetarootBlock(1)] }

-----------------------------------------------------------------------------
(* Operations on files.  Each runs to its end under the driver's mutex.    *)

Ready == fMounted /\ ~fReadOnly /\ step = "idle"

FileExists(f) == Bits!InodeExists(gpRedMR, f)

\* RedBufferGet checks every metadata node it reads.  (The critical error of a
\* node that is not valid is met only after fRemountUnstable; the operations on
\* the file end there.)
IsValidNode(f) == InodeNode(f) \notin {Torn, Junk}
InodeMounted(f) == FileExists(f) /\ IsValidNode(f)

\* Bug: the inode is written where the committed state has it.
UnbranchedSlot(f) == CurrentSlot(gpRedMR, f)

\* RedInodeMount with fBranch: the inode is in a slot of its own, its buffer
\* dirty and the committed slot no longer buffered.
BranchedSlot(f) ==
  IF Bits!InodeIsBranched(f) THEN CurrentSlot(gpRedMR, f)
  ELSE CHOOSE w \in Slots : Bits!IsWriteableSlot(f, w)

InodeBranchedMR(f) ==
  IF Bits!InodeIsBranched(f) THEN gpRedMR
  ELSE Bits!WithBlockAllocated(
         Bits!WithBlockFreed(gpRedMR, InodeBlock(f, 1 - BranchedSlot(f))),
         InodeBlock(f, BranchedSlot(f)))

InodeBuffers(f, node) ==
  InodeBlock(f, BranchedSlot(f)) :> Buffer(TRUE, node)
    @@ InodeBlock(f, 1 - BranchedSlot(f)) :> Nil

\* BranchOneBlock for the data block at offset o: a block allocated since the
\* last transaction point is written in place, any other one moves to block b.
IsNewBlock(p) == p # BLOCK_SPARSE /\ Bits!BlockState(p) = "NEW"

DataBlockFor(p, b) ==
  IF IsNewBlock(p) THEN b = p
  ELSE gpRedMR.ulFreeBlocks # 0 /\ Bits!IsNextFree(b)

DataBranchedMR(mr, p, b) ==
  IF IsNewBlock(p) THEN mr
  ELSE LET moved == Bits!WithBlockAllocated(
                      [mr EXCEPT !.ulAllocNextBlock = Bits!Following(b)], b)
       IN  IF p = BLOCK_SPARSE THEN moved ELSE Bits!WithBlockFreed(moved, p)

\* Bug: RedBufferDiscardRange is not called.
NoDroppedBuffers(freed) == <<>>

\* The block the file had before is discarded from the buffers.
DroppedBuffers(freed) == [b \in freed |-> Nil]

\* What every write has in common: data block b with pointer and bits.
BranchForWrite(f, o, b) ==
  LET p == InodeNode(f)[o]
  IN  /\ DataBlockFor(p, b)
      /\ gpRedMR' = DataBranchedMR(InodeBranchedMR(f), p, b)
      /\ ulAlmostFreeBlocks' =
           IF p \notin {BLOCK_SPARSE, b}
           THEN Bits!AlmostFreeAfterFreeing(p) ELSE ulAlmostFreeBlocks
      /\ fBranched' = TRUE
      /\ UNCHANGED <<cmtMR, bCurMR, ullSequence, fMounted, step>>

PointersWith(f, o, b) == InodeBuffers(f, [InodeNode(f) EXCEPT ![o] = b])

\* WriteUnaligned: the data stays in a dirty buffer.
WriteUnaligned(f, o, v) ==
  /\ Ready /\ InodeMounted(f)
  /\ \E b \in AllocableBlocks :
       /\ BranchForWrite(f, o, b)
       /\ buffers' = b :> Buffer(TRUE, v) @@ PointersWith(f, o, b)
            @@ DroppedBuffers({InodeNode(f)[o]} \ {BLOCK_SPARSE}) @@ buffers
  /\ NoIo
  /\ UNCHANGED fReadOnly

\* Bug: RedBufferWriteRange does not discard what it has overwritten.
WriteAlignedKeepsBuffer(f, o, v) ==
  /\ Ready /\ InodeMounted(f)
  /\ \E b \in AllocableBlocks :
       /\ BranchForWrite(f, o, b)
       /\ Written(b :> v)
       /\ buffers' = PointersWith(f, o, b) @@ buffers
  /\ UNCHANGED fReadOnly

\* WriteAligned: the data goes to the device at once, past the buffers, which
\* RedBufferWriteRange then discards.
WriteAligned(f, o, v) ==
  /\ Ready /\ InodeMounted(f)
  /\ \E b \in AllocableBlocks :
       /\ BranchForWrite(f, o, b)
       /\ Written(b :> v)
       /\ buffers' = PointersWith(f, o, b)
            @@ DroppedBuffers({InodeNode(f)[o], b} \ {BLOCK_SPARSE}) @@ buffers
  /\ UNCHANGED fReadOnly

\* The write of the data fails once the pointer is set; a buffer of the block
\* would stay.
WriteAlignedFails(f, o) ==
  /\ Ready /\ InodeMounted(f)
  /\ \E b \in AllocableBlocks :
       /\ BranchForWrite(f, o, b)
       /\ WriteFailed(<<>>, b)
       /\ buffers' = PointersWith(f, o, b)
            @@ DroppedBuffers({InodeNode(f)[o]} \ {BLOCK_SPARSE, b}) @@ buffers
  /\ CriticalError

\* Shrink and TruncDataBlock: the blocks from offset o on become sparse.
FreedMR(mr, freed) ==
  [mr EXCEPT !.abEntries = @ \ freed,
             !.ulFreeBlocks = @ + Cardinality({b \in freed :
               b \in AllocableBlocks /\ ~Bits!Allocated(cmtMR, b)})]

AlmostFreed(freed) == {b \in freed : b \in AllocableBlocks
                                      /\ Bits!Allocated(cmtMR, b)}

BlocksFrom(f, o) ==
  {InodeNode(f)[p] : p \in {p \in Offsets : p >= o}} \ {BLOCK_SPARSE}

Truncate(f, o) ==
  LET freed == BlocksFrom(f, o)
  IN  /\ Ready /\ InodeMounted(f)
      /\ gpRedMR' = FreedMR(InodeBranchedMR(f), freed)
      /\ ulAlmostFreeBlocks' = ulAlmostFreeBlocks + Cardinality(AlmostFreed(freed))
      /\ buffers' = InodeBuffers(f, [p \in Offsets |->
                       IF p >= o THEN BLOCK_SPARSE ELSE InodeNode(f)[p]])
                    @@ DroppedBuffers(freed) @@ buffers
      /\ fBranched' = TRUE
      /\ NoIo
      /\ UNCHANGED <<cmtMR, bCurMR, ullSequence, fMounted, fReadOnly, step>>

\* RedInodeCreate in the writeable slot, with a new buffer.
Create(f) ==
  LET w == CHOOSE w \in Slots : Bits!IsWriteableSlot(f, w)
  IN  /\ Ready /\ ~FileExists(f)
      /\ gpRedMR.ulFreeInodes # 0
      /\ \A g \in Files : g < f => FileExists(g)
      /\ gpRedMR' = [Bits!WithBlockAllocated(gpRedMR, InodeBlock(f, w))
                       EXCEPT !.ulFreeInodes = @ - 1]
      /\ buffers' = [buffers EXCEPT ![InodeBlock(f, w)] = Buffer(TRUE, HoleyInode)]
      /\ fBranched' = TRUE
      /\ NoIo
      /\ UNCHANGED <<cmtMR, bCurMR, ullSequence, ulAlmostFreeBlocks,
                     fMounted, fReadOnly, step>>

\* InodeDelete: the data is truncated and the slot freed, without a branch.
Delete(f) ==
  LET slot  == InodeBlock(f, CurrentSlot(gpRedMR, f))
      freed == BlocksFrom(f, 0)
  IN  /\ Ready /\ InodeMounted(f)
      /\ gpRedMR' = [FreedMR(gpRedMR, freed \cup {slot})
                       EXCEPT !.ulFreeInodes = @ + 1]
      /\ ulAlmostFreeBlocks' = ulAlmostFreeBlocks + Cardinality(AlmostFreed(freed))
      /\ buffers' = DroppedBuffers(freed \cup {slot}) @@ buffers
      /\ fBranched' = TRUE
      /\ NoIo
      /\ UNCHANGED <<cmtMR, bCurMR, ullSequence, fMounted, fReadOnly, step>>

-----------------------------------------------------------------------------
(* The buffers.                                                            *)

\* A read brings a block a mounted file refers to into a clean buffer.
ReferredBlocks ==
  LET current(f) == InodeBlock(f, CurrentSlot(gpRedMR, f))
      exist      == {f \in Files : FileExists(f)}
      pointers(f) == {InodeNode(f)[o] : o \in Offsets} \ {BLOCK_SPARSE}
  IN  {current(f) : f \in exist}
        \cup UNION {pointers(f) : f \in {f \in exist : IsValidNode(f)}}

BufferGet(b) ==
  /\ fMounted /\ step = "idle"
  /\ b \in ReferredBlocks /\ buffers[b] = Nil
  /\ b \in FileSlots => media[b] \in InodeNodes
  /\ buffers' = [buffers EXCEPT ![b] = Buffer(FALSE, media[b])]
  /\ NoIo
  /\ UNCHANGED <<mrVars, fMounted, fReadOnly, step>>

\* RedBufferGet reuses the buffer of another block, written first if dirty.
\* A read-only volume writes its buffers too.
Evict(b) ==
  /\ fMounted /\ step = "idle"
  /\ buffers[b] # Nil
  /\ IF IsDirty(b) THEN Written(b :> buffers[b].data) ELSE NoIo
  /\ buffers' = [buffers EXCEPT ![b] = Nil]
  /\ UNCHANGED <<mrVars, fMounted, fReadOnly, step>>

\* RedBufferReadRange reads past the buffers and flushes them first.
ReadRange(b) ==
  /\ fMounted /\ step = "idle"
  /\ b \in ReferredBlocks \cap AllocableBlocks /\ IsDirty(b)
  /\ Written(b :> buffers[b].data)
  /\ buffers' = [buffers EXCEPT ![b].fDirty = FALSE]
  /\ UNCHANGED <<mrVars, fMounted, fReadOnly, step>>

BufferWriteFails(b) ==
  /\ fMounted /\ step = "idle"
  /\ IsDirty(b)
  /\ WriteFailed(<<>>, b)
  /\ CriticalError
  /\ UNCHANGED <<mrVars, buffers, fMounted, step>>

-----------------------------------------------------------------------------
(* RedVolTransact, in the order of its writes and flushes.                 *)

DirtyData(written) == [b \in written |-> buffers[b].data]

Cleaned(written) ==
  [b \in BufferedBlocks |-> IF b \in written THEN Buffer(FALSE, buffers[b].data)
                            ELSE buffers[b]]

FoldAlmostFree ==
  /\ gpRedMR' = Bits!Transacted
  /\ ulAlmostFreeBlocks' = 0
  /\ UNCHANGED <<cmtMR, bCurMR, fBranched, fMounted>>

\* Bug: the sequence number is not checked.
TransactBuffersUnbounded ==
  /\ Ready /\ fBranched
  /\ FoldAlmostFree
  /\ Written(DirtyData(DirtyBlocks))
  /\ buffers' = Cleaned(DirtyBlocks)
  /\ step' = "flush"
  /\ UNCHANGED <<ullSequence, fReadOnly>>

\* The buffers are flushed and the metaroot gets its sequence number.
TransactBuffers ==
  /\ Ready /\ fBranched
  /\ ullSequence < SeqMax
  /\ FoldAlmostFree
  /\ Written(DirtyData(DirtyBlocks))
  /\ buffers' = Cleaned(DirtyBlocks)
  /\ step' = "flush"
  /\ UNCHANGED <<ullSequence, fReadOnly>>

\* RedVolSeqNumIncrement has no number left, or a buffer cannot be written.
TransactBuffersFail ==
  /\ Ready /\ fBranched
  /\ FoldAlmostFree
  /\ \/ /\ ullSequence = SeqMax
        /\ Written(DirtyData(DirtyBlocks))
        /\ buffers' = Cleaned(DirtyBlocks)
     \/ \E b \in DirtyBlocks : \E before \in SUBSET (DirtyBlocks \ {b}) :
          WriteFailed(DirtyData(before), b) /\ buffers' = Cleaned(before)
  /\ CriticalError
  /\ UNCHANGED <<ullSequence, step>>

\* Bug: the metaroot is written without a flush before it.
TransactWithoutFlush ==
  /\ step = "flush"
  /\ NoIo
  /\ step' = "metaroot"
  /\ UNCHANGED <<mrVars, buffers, fMounted, fReadOnly>>

\* The first flush: everything the metaroot refers to is on the media.
TransactFlush ==
  /\ step = "flush"
  /\ Flushed
  /\ step' = "metaroot"
  /\ UNCHANGED <<mrVars, buffers, fMounted, fReadOnly>>

TransactMetaroot ==
  /\ step = "metaroot"
  /\ Written(MetarootBlock(bCurMR)
               :> [ullSequence |-> ullSequence, body |-> gpRedMR])
  /\ ullSequence' = ullSequence + 1
  /\ step' = "sync"
  /\ UNCHANGED <<gpRedMR, cmtMR, bCurMR, ulAlmostFreeBlocks, fBranched,
                 buffers, fMounted, fReadOnly>>

\* The second flush, then the two metaroot buffers change places.
TransactComplete ==
  /\ step = "sync"
  /\ Flushed
  /\ cmtMR' = gpRedMR
  /\ bCurMR' = 1 - bCurMR
  /\ fBranched' = FALSE
  /\ step' = "idle"
  /\ UNCHANGED <<gpRedMR, ullSequence, ulAlmostFreeBlocks, buffers, fMounted,
                 fReadOnly>>

TransactFails ==
  /\ \/ step \in {"flush", "sync"} /\ FlushMayFail /\ NoIo
     \/ step = "metaroot" /\ WriteFailed(<<>>, MetarootBlock(bCurMR))
  /\ CriticalError
  /\ step' = "idle"
  /\ UNCHANGED <<mrVars, buffers, fMounted>>

-----------------------------------------------------------------------------
(* Mount, rollback, unmount and loss of power.                             *)

NoBuffers == [b \in BufferedBlocks |-> Nil]

\* RedVolMountMetaroot: the next metaroot is written over the other block.
MountMetaroot ==
  LET disk == MetarootChosen(MediaMetaroots)
  IN  /\ disk # Nil
      /\ disk.ullSequence < SeqMax
      /\ gpRedMR' = disk.body
      /\ cmtMR' = disk.body
      /\ \E k \in 0 .. 1 : media[MetarootBlock(k)] = disk /\ bCurMR' = 1 - k
      /\ ullSequence' = disk.ullSequence + 1
      /\ ulAlmostFreeBlocks' = 0
      /\ fMounted' = TRUE

\* Is the metaroot a mount chooses one that a loss of power cannot take back?
ChosenIsStable ==
  \E b \in MetarootBlocks :
    media[b] = MetarootChosen(MediaMetaroots) /\ maybe[b] = {media[b]}

Mount ==
  /\ ~fMounted
  /\ ChosenIsStable \/ fRemountUnstable
  /\ MountMetaroot
  /\ fReadOnly' = FALSE
  /\ NoIo
  /\ UNCHANGED <<buffers, fBranched, step>>

Rollback ==
  /\ Ready /\ fBranched
  /\ buffers' = NoBuffers
  /\ MountMetaroot
  /\ fBranched' = FALSE
  /\ NoIo
  /\ UNCHANGED <<fReadOnly, step>>

ZeroedMetaroot ==
  [ abEntries |-> {}, ulFreeBlocks |-> 0, ulFreeInodes |-> 0,
    ulAllocNextBlock |-> 0 ]

ForgetMetaroots ==
  /\ gpRedMR' = ZeroedMetaroot /\ cmtMR' = ZeroedMetaroot
  /\ bCurMR' = 0 /\ ullSequence' = 0 /\ ulAlmostFreeBlocks' = 0

\* RedCoreVolUnmount once the transaction point it may ask for is done.  The
\* metaroots stay in memory, but the next mount overwrites them.
Unmount ==
  /\ fMounted /\ step = "idle"
  /\ fReadOnly \/ ~fTransactUmount \/ ~fBranched
  /\ buffers' = NoBuffers
  /\ fMounted' = FALSE
  /\ ForgetMetaroots
  /\ NoIo
  /\ UNCHANGED <<fBranched, fReadOnly, step>>

\* What the device may be left with: of the metaroots anything they may hold,
\* of the other blocks the new contents or Junk, each whatever the others have.
Remains ==
  { [b \in Blocks |-> CASE b = MetarootBlock(0) -> m0
                       [] b = MetarootBlock(1) -> m1
                       [] b \in lost           -> Junk
                       [] OTHER                -> media[b]]
    : m0 \in maybe[MetarootBlock(0)], m1 \in maybe[MetarootBlock(1)],
      lost \in SUBSET {b \in BufferedBlocks : Junk \in maybe[b]} }

\* The memory is gone and the volume not mounted; RedCoreInit zeroes it.
PowerLoss ==
  /\ \E m \in Remains : media' = m /\ maybe' = [b \in Blocks |-> {m[b]}]
  /\ buffers' = NoBuffers
  /\ fMounted' = FALSE
  /\ fReadOnly' = FALSE
  /\ ForgetMetaroots
  /\ fBranched' = FALSE
  /\ step' = "idle"

-----------------------------------------------------------------------------

\* A volume just formatted: an empty metaroot, then one with the root
\* directory, and the driver not yet started.
Init ==
  /\ media = [b \in Blocks |->
       CASE b = MetarootBlock(0) ->
              [ullSequence |-> 0,
               body |-> [Bits!RootMetaRoot(ulBlocksAllocable)
                           EXCEPT !.abEntries = {}, !.ulFreeInodes = ulInodeCount]]
         [] b = MetarootBlock(1) ->
              [ullSequence |-> 1, body |-> Bits!RootMetaRoot(ulBlocksAllocable)]
         [] OTHER -> Junk]
  /\ maybe = [b \in Blocks |-> {media[b]}]
  /\ buffers = NoBuffers
  /\ gpRedMR = ZeroedMetaroot /\ cmtMR = ZeroedMetaroot
  /\ bCurMR = 0 /\ ullSequence = 0 /\ ulAlmostFreeBlocks = 0
  /\ fBranched = FALSE /\ fMounted = FALSE /\ fReadOnly = FALSE
  /\ step = "idle"

Next ==
  \/ \E f \in Files : Create(f) \/ Delete(f)
  \/ \E f \in Files, o \in Offsets, v \in Values \ {Zero} :
       WriteUnaligned(f, o, v) \/ WriteAligned(f, o, v)
  \/ \E f \in Files, o \in Offsets : WriteAlignedFails(f, o) \/ Truncate(f, o)
  \/ \E b \in BufferedBlocks :
       BufferGet(b) \/ Evict(b) \/ ReadRange(b) \/ BufferWriteFails(b)
  \/ TransactBuffers \/ TransactBuffersFail \/ TransactFlush
  \/ TransactMetaroot \/ TransactComplete \/ TransactFails
  \/ Mount \/ Rollback \/ Unmount \/ PowerLoss

Spec == Init /\ [][Next]_vars

-----------------------------------------------------------------------------
(* Properties.                                                             *)

Contents(b) ==
  CASE b \in MetarootBlocks  -> DiskMetaroots \cup {Torn, Junk}
    [] b \in FileSlots       -> InodeNodes \cup {Torn, Junk}
    [] b \in AllocableBlocks -> Values \cup {Torn, Junk}

MetaRoots == Bits!MetaRoot \cup {ZeroedMetaroot}

TypeOK ==
  /\ DOMAIN media = Blocks /\ DOMAIN maybe = Blocks
  /\ \A b \in Blocks : maybe[b] \subseteq Contents(b) /\ media[b] \in maybe[b]
  /\ DOMAIN buffers = BufferedBlocks
  /\ \A b \in BufferedBlocks :
       buffers[b] = Nil \/ buffers[b] \in [fDirty : BOOLEAN, data : Contents(b)]
  /\ gpRedMR \in MetaRoots /\ cmtMR \in MetaRoots
  /\ bCurMR \in 0 .. 1 /\ ullSequence \in 0 .. SeqMax
  /\ ulAlmostFreeBlocks \in Nat
  /\ {fBranched, fMounted, fReadOnly} \subseteq BOOLEAN
  /\ step \in {"idle", "flush", "metaroot", "sync"}

(* The volume implements the transactional store: whatever is cut short by *)
(* a power loss, an I/O error or a rollback, the files are as the last     *)
(* transaction point left them or, only while one is being completed, as   *)
(* the new one does; and what the buffers show is what was written last.   *)
Store == INSTANCE TxnStore WITH
  working     <- IF fMounted /\ ~fReadOnly THEN WorkingView ELSE Nil,
  recoverable <- Recoverable,
  mode        <- IF ~fMounted THEN "down" ELSE IF fReadOnly THEN "ro" ELSE "rw",
  committing  <- step = "sync"

ImplementsStore == Store!StoreSpec

(* After a loss of power at any moment the volume mounts, and no file has  *)
(* a block with torn or foreign contents: a set of changes is "committed   *)
(* in its entirety or not at all even if interrupted by power loss".       *)
RecoverableIsIntact == Recoverable \subseteq Store!States

(* A clean buffer holds what the media holds, so that dropping it loses    *)
(* nothing: direct writes discard it and every write cleans it.  (A direct *)
(* write that fails leaves the buffer, but also a read-only volume.)       *)
CleanBuffersMatchMedia ==
  fMounted /\ ~fReadOnly => \A b \in BufferedBlocks :
    buffers[b] # Nil /\ ~IsDirty(b) => buffers[b].data = media[b]

(* A block which is not part of the working state is not buffered: an      *)
(* allocation which found a buffer of its new block would be a critical    *)
(* error in RedBufferGet, or leave two buffers of one block.               *)
NoStaleBuffers ==
  \A b \in BufferedBlocks : buffers[b] # Nil => Bits!Allocated(gpRedMR, b)

(* Copy-on-write down to the device: while the volume stays mounted, no    *)
(* step writes a block the committed metaroot has allocated.  A dirty      *)
(* buffer in particular, which may be written whenever its place in the    *)
(* pool is needed, belongs to a block allocated since then.                *)
CommittedNotWritten ==
  [][ fMounted /\ fMounted' =>
        \A b \in BufferedBlocks :
          Bits!Allocated(cmtMR, b)
            => media'[b] = media[b] /\ maybe'[b] \subseteq maybe[b] ]_vars
=============================================================================
