-------------------------------- MODULE Imap --------------------------------
(***************************************************************************)
(* Block and inode-slot allocation of one volume (imap.c, imapinline.c and *)
(* the slot selection of inode.c), with the steps of volume.c that move    *)
(* allocation state between the working and the committed metaroot.        *)
(*                                                                         *)
(* A block carries one bit in each of the two metaroots and so is in one   *)
(* of four states: free, used, new (allocated since the last transaction   *)
(* point) or almost free (freed since then, still part of the committed    *)
(* state).  The counters of the metaroots are kept incrementally; the      *)
(* properties below say that they never drift from the bits, that nothing  *)
(* the committed state holds is handed out, and that the checks which turn *)
(* the volume read-only never fire.                                        *)
(*                                                                         *)
(* I/O errors, the buffers and the copies of the metaroots on the medium   *)
(* belong to Volume.tla: here cmtMR is at once aMR[1 - bCurMR] and what a  *)
(* mount would read back.                                                  *)
(***************************************************************************)
EXTENDS Layout

CONSTANT
  fTransactUmount   \* is RED_TRANSACT_UMOUNT in the volume's event mask?

ASSUME TransMaskAssumption == fTransactUmount \in BOOLEAN

VARIABLES
  gpRedMR,              \* the working metaroot, aMR[bCurMR]
  cmtMR,                \* the committed metaroot, aMR[1 - bCurMR]
  ulAlmostFreeBlocks,   \* blocks which become free at the next transaction
  fBranched,            \* has the working state left the committed one?
  fMounted,
  fReadOnly             \* set by RedVolCriticalError

vars == <<gpRedMR, cmtMR, ulAlmostFreeBlocks, fBranched, fMounted, fReadOnly>>

MetaRoot ==
  [ abEntries        : SUBSET ImapBlocks,
    ulFreeBlocks     : Nat,
    ulFreeInodes     : Nat,
    ulAllocNextBlock : AllocableBlocks ]

TypeOK ==
  /\ gpRedMR \in MetaRoot
  /\ cmtMR \in MetaRoot
  /\ ulAlmostFreeBlocks \in Nat
  /\ fBranched \in BOOLEAN
  /\ fMounted \in BOOLEAN
  /\ fReadOnly \in BOOLEAN

-----------------------------------------------------------------------------
(* What the bits say.                                                      *)

Allocated(mr, block) == block \in mr.abEntries

\* Bug: RedImapIBlockFindFree looks at the working bitmap only.
FreeBlocksInWorking == {b \in AllocableBlocks : ~Allocated(gpRedMR, b)}

FreeBlocks == {b \in AllocableBlocks :
                 ~Allocated(gpRedMR, b) /\ ~Allocated(cmtMR, b)}
AlmostFree == {b \in AllocableBlocks :
                 ~Allocated(gpRedMR, b) /\ Allocated(cmtMR, b)}

\* The four allocation states of RedImapBlockState.
BlockState(block) ==
  CASE Allocated(gpRedMR, block) /\ Allocated(cmtMR, block)   -> "USED"
    [] Allocated(gpRedMR, block) /\ ~Allocated(cmtMR, block)  -> "NEW"
    [] ~Allocated(gpRedMR, block) /\ Allocated(cmtMR, block)  -> "AFREE"
    [] ~Allocated(gpRedMR, block) /\ ~Allocated(cmtMR, block) -> "FREE"

\* Bug: RedInodeIsFree looks at one of the two slots.
InodeExistsInSlot0(mr, ino) == Allocated(mr, InodeBlock(ino, 0))

\* An inode exists in a metaroot when one of its slots is allocated there.
InodeExists(mr, ino) == \E w \in Slots : Allocated(mr, InodeBlock(ino, w))

InodeIsBranched(ino) ==
  \E w \in Slots : BlockState(InodeBlock(ino, w)) = "NEW"

\* Bug: the committed slots are not consulted.
IsFirstSlot(ino, which) == which = 0

\* The slot the committed state does not use; slot 0 when it uses neither.
IsWriteableSlot(ino, which) ==
  IF Allocated(cmtMR, InodeBlock(ino, 0))
  THEN which = 1 /\ ~Allocated(cmtMR, InodeBlock(ino, 1))
  ELSE which = 0

-----------------------------------------------------------------------------
(* RedImapBlockSet.                                                        *)

\* The tests that make RedImapBlockSet (and the bit setter under it) raise a
\* critical error instead of changing the bit.
SetIsCritical(mr, block, fAllocated) ==
  \/ /\ block \in AllocableBlocks
     /\ \/ fAllocated /\ mr.ulFreeBlocks = 0
        \/ ~fAllocated /\ mr.ulFreeBlocks >= ulBlocksAllocable
  \/ Allocated(mr, block) = fAllocated

WithBlockAllocated(mr, block) ==
  [mr EXCEPT !.abEntries    = @ \cup {block},
             !.ulFreeBlocks = IF block \in AllocableBlocks THEN @ - 1 ELSE @]

\* Bug: every freed block counts as free at once.
WithBlockFreedAtOnce(mr, block) ==
  [mr EXCEPT !.abEntries    = @ \ {block},
             !.ulFreeBlocks = IF block \in AllocableBlocks THEN @ + 1 ELSE @]

\* A freed block which the committed state still uses only counts as free
\* after the next transaction point.
WithBlockFreed(mr, block) ==
  [mr EXCEPT !.abEntries    = @ \ {block},
             !.ulFreeBlocks =
               IF block \in AllocableBlocks /\ ~Allocated(cmtMR, block)
               THEN @ + 1 ELSE @]

AlmostFreeAfterFreeing(block) ==
  IF block \in AllocableBlocks /\ Allocated(cmtMR, block)
  THEN ulAlmostFreeBlocks + 1
  ELSE ulAlmostFreeBlocks

\* RedVolCriticalError: whatever was wrong, the volume becomes read-only.
CriticalError ==
  /\ fReadOnly' = TRUE
  /\ UNCHANGED <<gpRedMR, cmtMR, ulAlmostFreeBlocks, fBranched, fMounted>>

\* Every operation that changes the volume checks these two flags first.
Writeable == fMounted /\ ~fReadOnly

-----------------------------------------------------------------------------
(* RedImapAllocBlock.                                                      *)

\* How far ahead of the allocation pointer a block lies, with wrap-around.
ScanDistance(block) ==
  IF block >= gpRedMR.ulAllocNextBlock
  THEN block - gpRedMR.ulAllocNextBlock
  ELSE block - gpRedMR.ulAllocNextBlock + ulBlocksAllocable

IsNextFree(block) ==
  /\ block \in FreeBlocks
  /\ \A c \in FreeBlocks : ScanDistance(block) <= ScanDistance(c)

\* Bug: the search does not wrap around.
FollowingNoWrap(block) == block + 1

Following(block) ==
  IF block + 1 = ulBlockCount THEN ulFirstAllocableBN ELSE block + 1

\* With ulFreeBlocks = 0 the caller gets RED_ENOSPC and nothing changes.  A
\* scan that finds no block although the counter promises one is critical.
AllocBlock ==
  /\ Writeable
  /\ gpRedMR.ulFreeBlocks # 0
  /\ IF FreeBlocks = {}
     THEN CriticalError
     ELSE /\ \E block \in AllocableBlocks :
               /\ IsNextFree(block)
               /\ gpRedMR' = WithBlockAllocated(
                    [gpRedMR EXCEPT !.ulAllocNextBlock = Following(block)],
                    block)
          /\ fBranched' = TRUE
          /\ UNCHANGED <<cmtMR, ulAlmostFreeBlocks, fMounted, fReadOnly>>

\* RedImapBlockSet(block, false) on a block a file refers to: truncation,
\* deletion, and the branch of a committed block.
FreeBlock(block) ==
  /\ Writeable
  /\ Allocated(gpRedMR, block)
  /\ IF SetIsCritical(gpRedMR, block, FALSE)
     THEN CriticalError
     ELSE /\ gpRedMR' = WithBlockFreed(gpRedMR, block)
          /\ ulAlmostFreeBlocks' = AlmostFreeAfterFreeing(block)
          /\ fBranched' = TRUE
          /\ UNCHANGED <<cmtMR, fMounted, fReadOnly>>

-----------------------------------------------------------------------------
(* The slots of an inode.                                                  *)

\* RedInodeCreate for the lowest free inode number; with ulFreeInodes = 0 the
\* caller gets RED_ENFILE.  A count above zero with no free inode is critical.
InodeCreate ==
  LET free == {i \in Inodes : i >= INODE_FIRST_FREE /\ ~InodeExists(gpRedMR, i)}
  IN  /\ Writeable
      /\ gpRedMR.ulFreeInodes # 0
      /\ IF \E ino \in free, w \in Slots :
              /\ \A i \in free : ino <= i
              /\ IsWriteableSlot(ino, w)
         THEN /\ \E ino \in free, w \in Slots :
                   /\ \A i \in free : ino <= i
                   /\ IsWriteableSlot(ino, w)
                   /\ gpRedMR' = [WithBlockAllocated(gpRedMR, InodeBlock(ino, w))
                                    EXCEPT !.ulFreeInodes = @ - 1]
              /\ fBranched' = TRUE
              /\ UNCHANGED <<cmtMR, ulAlmostFreeBlocks, fMounted, fReadOnly>>
         ELSE CriticalError

\* RedInodeBranch: the inode moves to the slot the committed state does not
\* use, so that the committed copy stays where it is.
InodeBranch(ino) ==
  /\ Writeable
  /\ InodeExists(gpRedMR, ino)
  /\ ~InodeIsBranched(ino)
  /\ IF \E w \in Slots : /\ IsWriteableSlot(ino, w)
                         /\ Allocated(gpRedMR, InodeBlock(ino, 1 - w))
     THEN /\ \E w \in Slots :
               /\ IsWriteableSlot(ino, w)
               /\ gpRedMR' = WithBlockAllocated(
                    WithBlockFreed(gpRedMR, InodeBlock(ino, 1 - w)),
                    InodeBlock(ino, w))
          /\ fBranched' = TRUE
          /\ UNCHANGED <<cmtMR, ulAlmostFreeBlocks, fMounted, fReadOnly>>
     ELSE CriticalError

\* RedInodeFree, for an inode that is not the root directory.
InodeFree(ino) ==
  /\ Writeable
  /\ InodeExists(gpRedMR, ino)
  /\ IF /\ \A w \in Slots : Allocated(gpRedMR, InodeBlock(ino, w))
                              # Allocated(gpRedMR, InodeBlock(ino, 1 - w))
        /\ gpRedMR.ulFreeInodes < ulInodeCount
     THEN /\ \E w \in Slots :
               /\ Allocated(gpRedMR, InodeBlock(ino, w))
               /\ gpRedMR' = [WithBlockFreed(gpRedMR, InodeBlock(ino, w))
                                EXCEPT !.ulFreeInodes = @ + 1]
          /\ fBranched' = TRUE
          /\ UNCHANGED <<cmtMR, ulAlmostFreeBlocks, fMounted, fReadOnly>>
     ELSE CriticalError

-----------------------------------------------------------------------------
(* Transaction points and the life of a mount.                             *)

\* Bug: the almost free blocks are forgotten.
TransactedUnfolded == gpRedMR

\* The metaroot a transaction point writes: almost free blocks are now free.
Transacted ==
  [gpRedMR EXCEPT !.ulFreeBlocks = @ + ulAlmostFreeBlocks]

\* Bug: the committed copy is taken before the almost free blocks are added.
CommitBeforeFold ==
  /\ gpRedMR' = IF fBranched THEN Transacted ELSE gpRedMR
  /\ cmtMR' = gpRedMR
  /\ ulAlmostFreeBlocks' = IF fBranched THEN 0 ELSE ulAlmostFreeBlocks
  /\ fBranched' = FALSE

\* Bug: the almost free blocks are added again at the next transaction point.
CommitWithoutReset ==
  /\ gpRedMR' = IF fBranched THEN Transacted ELSE gpRedMR
  /\ cmtMR' = IF fBranched THEN Transacted ELSE cmtMR
  /\ fBranched' = FALSE
  /\ UNCHANGED ulAlmostFreeBlocks

\* RedVolTransact, which does nothing unless fBranched.
CommitWorking ==
  /\ gpRedMR' = IF fBranched THEN Transacted ELSE gpRedMR
  /\ cmtMR' = IF fBranched THEN Transacted ELSE cmtMR
  /\ ulAlmostFreeBlocks' = IF fBranched THEN 0 ELSE ulAlmostFreeBlocks
  /\ fBranched' = FALSE

Transact ==
  /\ Writeable
  /\ fBranched
  /\ CommitWorking
  /\ UNCHANGED <<fMounted, fReadOnly>>

\* RedVolMountMetaroot: both in-memory metaroots become the committed one.
\* fBranched is not touched here.
MountMetaroot ==
  /\ gpRedMR' = cmtMR
  /\ ulAlmostFreeBlocks' = 0
  /\ fMounted' = TRUE
  /\ UNCHANGED cmtMR

\* RedVolRollback.
Rollback ==
  /\ Writeable
  /\ fBranched
  /\ MountMetaroot
  /\ fBranched' = FALSE
  /\ UNCHANGED fReadOnly

\* RedVolMount without RED_MOUNT_READONLY, on a volume without orphans.
Mount ==
  /\ ~fMounted
  /\ MountMetaroot
  /\ fReadOnly' = FALSE
  /\ UNCHANGED fBranched

\* RedCoreVolUnmount.  Without the transaction the in-memory state is left as
\* it stands; the next mount overwrites most of it.
Unmount ==
  /\ fMounted
  /\ fMounted' = FALSE
  /\ IF fTransactUmount /\ ~fReadOnly
     THEN CommitWorking
     ELSE UNCHANGED <<gpRedMR, cmtMR, ulAlmostFreeBlocks, fBranched>>
  /\ UNCHANGED fReadOnly

\* RedVolFormat: its second transaction point writes the metaroot that holds
\* the root directory, in its slot 0, and nothing else.
RootMetaRoot(free) ==
  [ abEntries        |-> {InodeBlock(INODE_ROOTDIR, 0)},
    ulFreeBlocks     |-> free,
    ulFreeInodes     |-> ulInodeCount - 1,
    ulAllocNextBlock |-> ulFirstAllocableBN ]

Format ==
  /\ ~fMounted
  /\ gpRedMR' = RootMetaRoot(ulBlocksAllocable + ulAlmostFreeBlocks)
  /\ cmtMR' = RootMetaRoot(ulBlocksAllocable + ulAlmostFreeBlocks)
  /\ ulAlmostFreeBlocks' = 0
  /\ fBranched' = FALSE
  /\ fReadOnly' = FALSE
  /\ UNCHANGED fMounted

-----------------------------------------------------------------------------

\* The driver has just been initialised; the volume was formatted before.
Init ==
  /\ gpRedMR = RootMetaRoot(ulBlocksAllocable)
  /\ cmtMR = RootMetaRoot(ulBlocksAllocable)
  /\ ulAlmostFreeBlocks = 0
  /\ fBranched = FALSE
  /\ fMounted = FALSE
  /\ fReadOnly = FALSE

Next ==
  \/ AllocBlock
  \/ \E block \in AllocableBlocks : FreeBlock(block)
  \/ InodeCreate
  \/ \E ino \in Inodes : InodeBranch(ino)
  \/ \E ino \in FreeableInodes : InodeFree(ino)
  \/ Transact
  \/ Rollback
  \/ Mount
  \/ Unmount
  \/ Format

Spec == Init /\ [][Next]_vars

-----------------------------------------------------------------------------
(* Properties.                                                             *)

(* The free block count that every allocation and every ENOSPC decision is *)
(* based on is the number of blocks free in both metaroots, and the almost *)
(* free count the number a transaction point will add to it: the counters, *)
(* adjusted one by one in RedImapBlockSet, never drift from the bitmaps.   *)
FreeCountsExact ==
  fMounted => /\ gpRedMR.ulFreeBlocks = Cardinality(FreeBlocks)
              /\ ulAlmostFreeBlocks = Cardinality(AlmostFree)

(* The counters of the committed metaroot, the ones a mount, a rollback or *)
(* a crash brings back, agree with its bitmap: RedVolTransact folds the    *)
(* almost free blocks in at the right moment, once, and from this volume.  *)
CommittedCountsExact ==
  /\ cmtMR.ulFreeBlocks =
       Cardinality({b \in AllocableBlocks : ~Allocated(cmtMR, b)})
  /\ cmtMR.ulFreeInodes =
       Cardinality({i \in Inodes : ~InodeExists(cmtMR, i)})

(* None of the consistency checks of imap.c and inode.c can fire: without  *)
(* an I/O error no sequence of operations makes the volume read-only.      *)
NoCriticalError == ~fReadOnly

(* RedInodeBranch keeps every inode in one of the shapes its comment       *)
(* names: a branched inode has exactly one new slot and the other one is   *)
(* free or almost free, so a committed inode is never the writeable one;   *)
(* an inode that exists and is not branched has one used and one free.     *)
SlotsWellFormed ==
  fMounted =>
    \A ino \in Inodes : \E w \in Slots :
      LET this  == BlockState(InodeBlock(ino, w))
          other == BlockState(InodeBlock(ino, 1 - w))
      IN  \/ this = "NEW"   /\ other \in {"FREE", "AFREE"}
          \/ this = "USED"  /\ other = "FREE"
          \/ this = "AFREE" /\ other = "FREE"
          \/ this = "FREE"  /\ other = "FREE"

(* A transaction point skips its work when fBranched is clear, so every    *)
(* change of the working metaroot must have set it.                        *)
UnbranchedMeansCommitted == fMounted /\ ~fBranched => gpRedMR = cmtMR

(* CoreFull answers RED_ENOSPC after its transaction point unless free     *)
(* blocks appeared; with almost free blocks pending that transaction point *)
(* must not be the empty one.                                              *)
FullVolumeCanReclaim == fMounted /\ ulAlmostFreeBlocks > 0 => fBranched

(* Copy-on-write: no step but a rollback, a mount or a format makes a      *)
(* block of the committed state part of the working state again, as a      *)
(* block so regained would be written in place before it is transacted.    *)
CommittedBlocksNotReused ==
  [][ \/ Rollback \/ Mount \/ Format
      \/ (gpRedMR'.abEntries \ gpRedMR.abEntries) \cap cmtMR.abEntries = {} ]_vars
=============================================================================
