-------------------------------- MODULE Buffer --------------------------------
(***************************************************************************)
(* The block buffers (buffer.c): one pool of REDCONF_BUFFER_COUNT buffers  *)
(* which all volumes share, reused in the order abMRU keeps, never while   *)
(* it is referenced, and written first if it is dirty.                     *)
(*                                                                         *)
(* The callers are the driver's own inode, imap and data code: one call at *)
(* a time, for the volume gbRedVolNum, with references held only during    *)
(* the call.  Types and checksums of metadata nodes are left out.          *)
(***************************************************************************)
EXTENDS Integers, FiniteSets

CONSTANTS
  REDCONF_BUFFER_COUNT,
  MINIMUM_BUFFER_COUNT, \* the most buffers a call has referenced at a time
  MaxRefs,              \* the most references a call has to one buffer
  Volumes,
  FaultyVolumes,        \* those whose device may fail
  Blocks,               \* the block numbers of a volume, 0 .. n
  Values, Zero          \* contents of a block

ASSUME BufferAssumption ==
  /\ REDCONF_BUFFER_COUNT \in Nat /\ MINIMUM_BUFFER_COUNT \in Nat \ {0}
  /\ MINIMUM_BUFFER_COUNT <= REDCONF_BUFFER_COUNT
  /\ MaxRefs \in Nat \ {0}
  /\ FaultyVolumes \subseteq Volumes /\ Volumes # {}
  /\ Blocks \subseteq Nat
  /\ Zero \in Values

VARIABLES
  gbRedVolNum,          \* the current volume
  uNumUsed,             \* how many buffers are referenced
  abMRU,                \* the buffers, the most recently used first
  aHead,                \* block, volume, references and flags of a buffer
  pbBlkBuf,             \* the contents of a buffer
  media,                \* the contents of a block on its device
  fReadOnly             \* of each volume

poolVars == <<uNumUsed, abMRU, aHead, pbBlkBuf>>
vars     == <<gbRedVolNum, poolVars, media, fReadOnly>>

BBLK_INVALID == -1
Indexes      == 0 .. REDCONF_BUFFER_COUNT - 1
LRU          == REDCONF_BUFFER_COUNT - 1

\* The other fields of a head without a block are never looked at.
Heads == [ulBlock : Blocks, bVolNum : Volumes, bRefCount : 0 .. MaxRefs,
          fDirty : BOOLEAN]
Unused ==
  [ulBlock |-> BBLK_INVALID, bVolNum |-> CHOOSE v \in Volumes : TRUE,
   bRefCount |-> 0, fDirty |-> FALSE]

IsUsed(i)       == aHead[i].ulBlock # BBLK_INVALID
IsDirty(i)      == IsUsed(i) /\ aHead[i].fDirty
IsReferenced(i) == aHead[i].bRefCount > 0
IsOf(i, v, b)   == aHead[i].bVolNum = v /\ aHead[i].ulBlock = b

\* Bug: a referenced buffer is not found.
IsIdle(b) ==
  \E i \in Indexes : IsOf(i, gbRedVolNum, b) /\ ~IsReferenced(i)

\* BufferFind.
IsBuffered(b) == \E i \in Indexes : IsOf(i, gbRedVolNum, b)
BufferFind(b) == CHOOSE i \in Indexes : IsOf(i, gbRedVolNum, b)

\* BufferToIdx: a caller's buffer is one it has, of the current volume.
IsHeld(i) == IsUsed(i) /\ aHead[i].bVolNum = gbRedVolNum /\ IsReferenced(i)

MayWrite == ~fReadOnly[gbRedVolNum]

-----------------------------------------------------------------------------
(* The order of use.                                                       *)

RankOf(order, i) == CHOOSE k \in Indexes : order[k] = i

MakeMRU(order, i) ==
  [k \in Indexes |-> IF k = 0 THEN i
                     ELSE IF k <= RankOf(order, i) THEN order[k - 1]
                     ELSE order[k]]

MakeLRU(order, i) ==
  [k \in Indexes |-> IF k = LRU THEN i
                     ELSE IF k >= RankOf(order, i) THEN order[k + 1]
                     ELSE order[k]]

\* Every buffer of S is made the least recently used, in index order.
MakeAllLRU(order, S) ==
  LET f[n \in 0 .. REDCONF_BUFFER_COUNT] ==
        IF n = 0 THEN order
        ELSE IF n - 1 \in S THEN MakeLRU(f[n - 1], n - 1)
        ELSE f[n - 1]
  IN  f[REDCONF_BUFFER_COUNT]

\* Bug: the search starts from the wrong end and minds no references.
IsFirst(i) == abMRU[0] = i

\* The least recently used buffer without references.
IsVictim(i) ==
  /\ ~IsReferenced(i)
  /\ \A j \in Indexes : RankOf(abMRU, j) > RankOf(abMRU, i) => IsReferenced(j)

-----------------------------------------------------------------------------
(* Getting and putting buffers.                                            *)

\* Bug: the dirty buffer is not written.
VictimDropped(i) == media

\* BufferWrite of a buffer about to be reused.
VictimWritten(i) ==
  IF IsDirty(i)
  THEN [media EXCEPT ![aHead[i].bVolNum][aHead[i].ulBlock] = pbBlkBuf[i]]
  ELSE media

RefsAllowed(i) ==
  aHead[i].bRefCount < MaxRefs /\ (IsReferenced(i) \/ uNumUsed < MINIMUM_BUFFER_COUNT)

\* RedBufferGet of a block that is buffered.
BufferGetFound(b) ==
  /\ IsBuffered(b)
  /\ LET i == BufferFind(b)
     IN  /\ RefsAllowed(i)
         /\ aHead' = [aHead EXCEPT ![i].bRefCount = @ + 1]
         /\ uNumUsed' = IF IsReferenced(i) THEN uNumUsed ELSE uNumUsed + 1
         /\ abMRU' = MakeMRU(abMRU, i)
  /\ UNCHANGED <<gbRedVolNum, pbBlkBuf, media, fReadOnly>>

\* RedBufferGet of a block that is not, read or, with BFLAG_NEW, zeroed.
BufferGet(b, fNew) ==
  /\ ~IsBuffered(b)
  /\ uNumUsed < MINIMUM_BUFFER_COUNT
  /\ fNew => MayWrite
  /\ \E i \in Indexes :
       /\ IsVictim(i)
       /\ media' = VictimWritten(i)
       /\ aHead' = [aHead EXCEPT ![i] =
            [ulBlock |-> b, bVolNum |-> gbRedVolNum, bRefCount |-> 1, fDirty |-> fNew]]
       /\ pbBlkBuf' = [pbBlkBuf EXCEPT ![i] =
            IF fNew THEN Zero ELSE media[gbRedVolNum][b]]
       /\ abMRU' = MakeMRU(abMRU, i)
  /\ uNumUsed' = uNumUsed + 1
  /\ UNCHANGED <<gbRedVolNum, fReadOnly>>

\* RedVolCriticalError makes the current volume read-only.
CriticalError == fReadOnly' = [fReadOnly EXCEPT ![gbRedVolNum] = TRUE]

\* The buffer to reuse cannot be written to its own volume, and stays dirty;
\* "torn" is what the block has after the attempts.
BufferGetWriteFails(b, torn) ==
  /\ ~IsBuffered(b)
  /\ uNumUsed < MINIMUM_BUFFER_COUNT
  /\ \E i \in Indexes :
       /\ IsVictim(i) /\ IsDirty(i) /\ aHead[i].bVolNum \in FaultyVolumes
       /\ media' = [media EXCEPT ![aHead[i].bVolNum][aHead[i].ulBlock] = torn]
  /\ CriticalError
  /\ UNCHANGED <<gbRedVolNum, poolVars>>

\* The block cannot be read: the buffer no longer has its former block.
BufferGetReadFails(b) ==
  /\ gbRedVolNum \in FaultyVolumes
  /\ ~IsBuffered(b)
  /\ uNumUsed < MINIMUM_BUFFER_COUNT
  /\ \E i \in Indexes :
       /\ IsVictim(i)
       /\ media' = VictimWritten(i)
       /\ aHead' = [aHead EXCEPT ![i] = Unused]
       /\ pbBlkBuf' = [pbBlkBuf EXCEPT ![i] = Zero]
  /\ CriticalError
  /\ UNCHANGED <<gbRedVolNum, uNumUsed, abMRU>>

\* Bug: every reference to a buffer counts as a used buffer.
BufferPutEach(i) ==
  /\ IsHeld(i)
  /\ aHead' = [aHead EXCEPT ![i].bRefCount = @ - 1]
  /\ uNumUsed' = uNumUsed - 1
  /\ UNCHANGED <<gbRedVolNum, abMRU, pbBlkBuf, media, fReadOnly>>

BufferPut(i) ==
  /\ IsHeld(i)
  /\ aHead' = [aHead EXCEPT ![i].bRefCount = @ - 1]
  /\ uNumUsed' = IF aHead[i].bRefCount = 1 THEN uNumUsed - 1 ELSE uNumUsed
  /\ UNCHANGED <<gbRedVolNum, abMRU, pbBlkBuf, media, fReadOnly>>

-----------------------------------------------------------------------------
(* Changing blocks.                                                        *)

\* RedBufferDirty, and the caller's change to the contents.
BufferDirty(i, data) ==
  /\ IsHeld(i) /\ MayWrite
  /\ aHead' = [aHead EXCEPT ![i].fDirty = TRUE]
  /\ pbBlkBuf' = [pbBlkBuf EXCEPT ![i] = data]
  /\ UNCHANGED <<gbRedVolNum, uNumUsed, abMRU, media, fReadOnly>>

\* RedBufferBranch: the contents move to a newly allocated block, of which
\* there is no buffer; those of the old block stay on the media.
BufferBranch(i, ulBlockNew) ==
  /\ IsHeld(i) /\ MayWrite
  /\ ~aHead[i].fDirty
  /\ ~IsBuffered(ulBlockNew)
  /\ aHead' = [aHead EXCEPT ![i].ulBlock = ulBlockNew, ![i].fDirty = TRUE]
  /\ UNCHANGED <<gbRedVolNum, uNumUsed, abMRU, pbBlkBuf, media, fReadOnly>>

BufferDiscard(i) ==
  /\ IsHeld(i) /\ aHead[i].bRefCount = 1
  /\ aHead' = [aHead EXCEPT ![i] = Unused]
  /\ pbBlkBuf' = [pbBlkBuf EXCEPT ![i] = Zero]
  /\ uNumUsed' = uNumUsed - 1
  /\ abMRU' = MakeLRU(abMRU, i)
  /\ UNCHANGED <<gbRedVolNum, media, fReadOnly>>

\* Bug: the buffers of every volume.
InAnyRange(range) == {i \in Indexes : aHead[i].ulBlock \in range}

\* The buffers of blocks of the current volume.
InRange(range) ==
  {i \in Indexes : aHead[i].bVolNum = gbRedVolNum /\ aHead[i].ulBlock \in range}

\* What RedBufferDiscardRange does, no buffer of the range being referenced.
Discarded(range) ==
  /\ \A i \in InRange(range) : ~IsReferenced(i)
  /\ aHead' = [i \in Indexes |-> IF i \in InRange(range) THEN Unused ELSE aHead[i]]
  /\ pbBlkBuf' = [i \in Indexes |-> IF i \in InRange(range) THEN Zero ELSE pbBlkBuf[i]]
  /\ abMRU' = MakeAllLRU(abMRU, InRange(range))
  /\ UNCHANGED uNumUsed

BufferDiscardRange(range) ==
  /\ Discarded(range)
  /\ UNCHANGED <<gbRedVolNum, media, fReadOnly>>

\* The buffers S of the current volume are written.
Written(S) ==
  [media EXCEPT ![gbRedVolNum] =
     [b \in Blocks |-> IF \E i \in S : aHead[i].ulBlock = b
                       THEN pbBlkBuf[CHOOSE i \in S : aHead[i].ulBlock = b]
                       ELSE media[gbRedVolNum][b]]]

Cleaned(S) ==
  aHead' = [i \in Indexes |-> IF i \in S THEN [aHead[i] EXCEPT !.fDirty = FALSE]
                                         ELSE aHead[i]]

\* RedBufferFlushRange, also as the first step of RedBufferReadRange, which
\* then reads the media.
BufferFlushRange(range) ==
  LET dirty == {i \in InRange(range) : IsDirty(i)}
  IN  /\ dirty # {}
      /\ media' = Written(dirty)
      /\ Cleaned(dirty)
      /\ UNCHANGED <<gbRedVolNum, uNumUsed, abMRU, pbBlkBuf, fReadOnly>>

\* One of the writes fails: only the buffers before it are clean.
BufferFlushRangeFails(range, torn) ==
  LET dirty == {i \in InRange(range) : IsDirty(i)}
  IN  /\ gbRedVolNum \in FaultyVolumes
      /\ \E failed \in dirty :
           LET before == {i \in dirty : i < failed}
           IN  /\ media' = [Written(before) EXCEPT
                              ![gbRedVolNum][aHead[failed].ulBlock] = torn]
               /\ Cleaned(before)
      /\ CriticalError
      /\ UNCHANGED <<gbRedVolNum, uNumUsed, abMRU, pbBlkBuf>>

\* RedIoWrite of the blocks of a range.
Overwritten(range, data) ==
  [media EXCEPT ![gbRedVolNum] =
     [b \in Blocks |-> IF b \in range THEN data[b] ELSE @[b]]]

\* RedBufferWriteRange writes past the buffers, then discards them.
BufferWriteRange(range, data) ==
  /\ MayWrite
  /\ media' = Overwritten(range, data)
  /\ Discarded(range)
  /\ UNCHANGED <<gbRedVolNum, fReadOnly>>

\* The write fails, after some blocks of the range were written or torn: the
\* buffers of the range are not discarded.
BufferWriteRangeFails(range, torn) ==
  /\ gbRedVolNum \in FaultyVolumes /\ MayWrite
  /\ \A i \in InRange(range) : ~IsReferenced(i)
  /\ media' = Overwritten(range, torn)
  /\ CriticalError
  /\ UNCHANGED <<gbRedVolNum, poolVars>>

\* An unmount discards every buffer of the volume, flushed before or not; the
\* next mount makes the volume writeable.
VolRemount ==
  /\ uNumUsed = 0
  /\ Discarded(Blocks)
  /\ fReadOnly' = [fReadOnly EXCEPT ![gbRedVolNum] = FALSE]
  /\ UNCHANGED <<gbRedVolNum, media>>

\* RedCoreVolSetCurrent, between two calls.
VolSetCurrent(v) ==
  /\ uNumUsed = 0
  /\ gbRedVolNum' = v
  /\ UNCHANGED <<poolVars, media, fReadOnly>>

-----------------------------------------------------------------------------

\* RedBufferInit.
Init ==
  /\ gbRedVolNum \in Volumes
  /\ uNumUsed = 0
  /\ abMRU = [k \in Indexes |-> LRU - k]
  /\ aHead = [i \in Indexes |-> Unused]
  /\ pbBlkBuf = [i \in Indexes |-> Zero]
  /\ media = [v \in Volumes |-> [b \in Blocks |-> Zero]]
  /\ fReadOnly = [v \in Volumes |-> FALSE]

Ranges == {lo .. hi : lo, hi \in Blocks} \ {{}}

Next ==
  \/ \E b \in Blocks :
       \/ BufferGetFound(b)
       \/ \E fNew \in BOOLEAN : BufferGet(b, fNew)
       \/ \E torn \in Values : BufferGetWriteFails(b, torn)
       \/ BufferGetReadFails(b)
  \/ \E i \in Indexes :
       \/ BufferPut(i) \/ BufferDiscard(i)
       \/ \E data \in Values : BufferDirty(i, data)
       \/ \E b \in Blocks : BufferBranch(i, b)
  \/ \E range \in Ranges :
       \/ BufferDiscardRange(range) \/ BufferFlushRange(range)
       \/ \E torn \in Values : BufferFlushRangeFails(range, torn)
       \/ \E data \in [range -> Values] :
            BufferWriteRange(range, data) \/ BufferWriteRangeFails(range, data)
  \/ VolRemount
  \/ \E v \in Volumes : VolSetCurrent(v)

Spec == Init /\ [][Next]_vars

-----------------------------------------------------------------------------
(* Properties.                                                             *)

TypeOK ==
  /\ gbRedVolNum \in Volumes
  /\ uNumUsed \in 0 .. REDCONF_BUFFER_COUNT
  /\ abMRU \in [Indexes -> Indexes]
  /\ aHead \in [Indexes -> Heads \cup {Unused}]
  /\ pbBlkBuf \in [Indexes -> Values]
  /\ media \in [Volumes -> [Blocks -> Values]]
  /\ fReadOnly \in [Volumes -> BOOLEAN]

(* A block has one buffer at most, also when two volumes have blocks of    *)
(* the same number and buffers are branched to other blocks; "each buffer  *)
(* index appears in the array once and only once", and the count of        *)
(* referenced buffers is right: otherwise a buffer would never be reused,  *)
(* or RedBufferGet would find none to reuse.                               *)
PoolConsistent ==
  /\ \A i, j \in Indexes :
       IsUsed(i) /\ IsOf(i, aHead[j].bVolNum, aHead[j].ulBlock) => i = j
  /\ \A i \in Indexes : \E k \in Indexes : abMRU[k] = i
  /\ uNumUsed = Cardinality({i \in Indexes : IsReferenced(i)})

(* A buffer keeps its block for as long as a call has a reference to it,   *)
(* however many other blocks the call gets, unless the call itself moves   *)
(* the contents to another block.                                          *)
ReferencedBuffersKept ==
  [][ \A i \in Indexes : IsReferenced(i) /\ IsReferenced(i)' =>
        \/ aHead'[i].bVolNum = aHead[i].bVolNum /\ aHead'[i].ulBlock = aHead[i].ulBlock
        \/ \E b \in Blocks : BufferBranch(i, b) ]_vars

(* Dropping a clean buffer of a volume that can be written loses nothing,  *)
(* nor does writing it elsewhere by RedBufferBranch.  Only a write past    *)
(* the buffers which fails, and makes the volume read-only, leaves a clean *)
(* buffer of what the block had before; none of them outlives the mount.   *)
CleanBuffersMatchMedia ==
  \A i \in Indexes : IsUsed(i) /\ ~IsDirty(i) /\ ~fReadOnly[aHead[i].bVolNum] =>
    pbBlkBuf[i] = media[aHead[i].bVolNum][aHead[i].ulBlock]

\* The contents of a block as RedBufferGet would return them.
View ==
  [v \in Volumes |-> [b \in Blocks |->
     IF \E i \in Indexes : IsOf(i, v, b)
     THEN pbBlkBuf[CHOOSE i \in Indexes : IsOf(i, v, b)]
     ELSE media[v][b]]]

Changes(b, data) == View' = [View EXCEPT ![gbRedVolNum][b] = data]

\* The blocks "range" of the current volume, and no others, get the contents
\* "new" has for them.
ChangesRange(range, new) ==
  View' = [View EXCEPT ![gbRedVolNum] =
             [b \in Blocks |-> IF b \in range THEN new[b] ELSE @[b]]]

\* A clean buffer differs from the media.
Stale(v, b) ==
  \E i \in Indexes : IsOf(i, v, b) /\ ~IsDirty(i) /\ pbBlkBuf[i] # media[v][b]

\* The contents are "new", but for blocks that a failed write on a volume now
\* read-only left stale, which may show the media.
Kept(new) ==
  \A v \in Volumes, b \in Blocks :
    \/ View'[v][b] = new[v][b]
    \/ fReadOnly[v] /\ Stale(v, b) /\ View'[v][b] = media[v][b]

(* The contents of a block change only when a call of its volume changes   *)
(* it, and only of that block: not when its buffer is reused for a block   *)
(* of any volume, nor by a flush, a direct read or the error of another    *)
(* write.  A write past the buffers that fails changes no block outside    *)
(* its range and none that is buffered; when the buffer of such a block is *)
(* reused, the block shows what the failed write left, on its own volume,  *)
(* which is read-only, and nowhere else.                                   *)
OnlyCallersChangeBlocks ==
  [][ \/ Kept(View)
      \/ \E i \in Indexes, data \in Values :
           BufferDirty(i, data) /\ Changes(aHead[i].ulBlock, data)
      \/ \E i \in Indexes, b \in Blocks :
           BufferBranch(i, b) /\ Changes(b, pbBlkBuf[i])
      \/ \E b \in Blocks :
           BufferGet(b, TRUE) /\ Kept([View EXCEPT ![gbRedVolNum][b] = Zero])
      \/ \E i \in Indexes :
           BufferDiscard(i)
             /\ Changes(aHead[i].ulBlock, media[gbRedVolNum][aHead[i].ulBlock])
      \/ \E range \in Ranges :
           \/ BufferDiscardRange(range) /\ ChangesRange(range, media[gbRedVolNum])
           \/ \E data \in [range -> Values] :
                \/ BufferWriteRange(range, data) /\ ChangesRange(range, data)
                \/ /\ BufferWriteRangeFails(range, data)
                   /\ ChangesRange({b \in range : ~IsBuffered(b)}, data)
      \/ VolRemount /\ View' = [View EXCEPT ![gbRedVolNum] = media[gbRedVolNum]]
    ]_vars

(* A volume becomes read-only only by an error of its own device.          *)
CriticalErrorsAreLocal ==
  \A v \in Volumes : fReadOnly[v] => v \in FaultyVolumes
=============================================================================
