----------------------------- MODULE ImapProofs -----------------------------
(***************************************************************************)
(* Proofs about Imap, for every layout.  Type correctness and copy-on-     *)
(* write hold whatever the transaction mask; the counters are exact when   *)
(* the mask makes an unmount commit (without that a later format inherits  *)
(* a stale count, which a run shows).                                      *)
(***************************************************************************)
EXTENDS Imap, FiniteSetTheorems, WellFoundedInduction, TLAPS

USE LayoutAssumption, TransMaskAssumption

-----------------------------------------------------------------------------
(* The layout.                                                             *)

(* The slots of all inodes are pairwise different blocks of the inode      *)
(* table, so setting the bit of one never disturbs another.                *)
LEMMA SlotLayout ==
  /\ \A i \in Inodes, w \in Slots :
       /\ InodeBlock(i, w) \in InodeBlocks
       /\ InodeBlock(i, w) \in ImapBlocks
       /\ InodeBlock(i, w) \notin AllocableBlocks
       /\ 1 - w \in Slots
  /\ \A i, j \in Inodes, w, v \in Slots :
       InodeBlock(i, w) = InodeBlock(j, v) => i = j /\ w = v
BY DEF Inodes, Slots, InodeBlock, InodeBlocks, ImapBlocks, AllocableBlocks,
       ulFirstAllocableBN, INODE_FIRST_VALID

(* The allocable area is not empty, lies under the imap, and the           *)
(* allocation pointer wraps around inside it.                              *)
LEMMA Regions ==
  /\ AllocableBlocks \subseteq ImapBlocks
  /\ ulFirstAllocableBN \in AllocableBlocks
  /\ ulBlocksAllocable \in Nat \ {0}
  /\ INODE_ROOTDIR \in Inodes
  /\ \A b \in AllocableBlocks : Following(b) \in AllocableBlocks
BY DEF ImapBlocks, AllocableBlocks, ulFirstAllocableBN, ulBlocksAllocable,
       Following, INODE_ROOTDIR, INODE_FIRST_VALID, Inodes

(* The capacities the counters are compared with are the sizes of the two  *)
(* areas.                                                                  *)
LEMMA AreaSizes ==
  /\ IsFiniteSet(AllocableBlocks)
  /\ Cardinality(AllocableBlocks) = ulBlocksAllocable
  /\ IsFiniteSet(Inodes)
  /\ Cardinality(Inodes) = ulInodeCount
<1>1. ulFirstAllocableBN \in Int /\ ulBlockCount - 1 \in Int
  BY DEF ulFirstAllocableBN
<1>2. INODE_FIRST_VALID \in Int
      /\ INODE_FIRST_VALID + ulInodeCount - 1 \in Int
  BY DEF INODE_FIRST_VALID
<1>3. /\ IsFiniteSet(AllocableBlocks)
      /\ Cardinality(AllocableBlocks) = ulBlocksAllocable
  BY <1>1, FS_Interval DEF AllocableBlocks, ulBlocksAllocable
<1>4. IsFiniteSet(Inodes) /\ Cardinality(Inodes) = ulInodeCount
  BY <1>2, FS_Interval DEF Inodes, INODE_FIRST_VALID
<1>. QED  BY <1>3, <1>4

-----------------------------------------------------------------------------
(* What setting and clearing a bit does to a metaroot.                     *)

(* A metaroot stays one when its bits and its count of free blocks change. *)
LEMMA TwoFields ==
  ASSUME NEW mr \in MetaRoot, NEW S \in SUBSET ImapBlocks, NEW n \in Nat
  PROVE  [mr EXCEPT !.abEntries = S, !.ulFreeBlocks = n] \in MetaRoot
<1>1. [mr EXCEPT !.abEntries = S] \in MetaRoot
  BY DEF MetaRoot
<1>2. [[mr EXCEPT !.abEntries = S] EXCEPT !.ulFreeBlocks = n] \in MetaRoot
  BY <1>1 DEF MetaRoot
<1>. QED  BY <1>2

(* RedImapBlockSet, allocating: the bit is set and an allocable block is   *)
(* no longer counted as free.                                              *)
LEMMA AllocatedFields ==
  ASSUME NEW mr \in MetaRoot, NEW b \in ImapBlocks,
         b \in AllocableBlocks => mr.ulFreeBlocks # 0
  PROVE  /\ WithBlockAllocated(mr, b) \in MetaRoot
         /\ WithBlockAllocated(mr, b).abEntries = mr.abEntries \cup {b}
         /\ WithBlockAllocated(mr, b).ulFreeBlocks =
              IF b \in AllocableBlocks THEN mr.ulFreeBlocks - 1
                                       ELSE mr.ulFreeBlocks
         /\ WithBlockAllocated(mr, b).ulFreeInodes = mr.ulFreeInodes
<1>1. /\ mr.abEntries \cup {b} \in SUBSET ImapBlocks
      /\ (IF b \in AllocableBlocks THEN mr.ulFreeBlocks - 1
                                   ELSE mr.ulFreeBlocks) \in Nat
  BY DEF MetaRoot
<1>2. WithBlockAllocated(mr, b) \in MetaRoot
  BY <1>1, TwoFields DEF WithBlockAllocated
<1>. QED  BY <1>2 DEF WithBlockAllocated, MetaRoot

(* RedImapBlockSet, freeing: the bit is cleared; the block is counted as   *)
(* free at once only if the committed state does not use it.               *)
LEMMA FreedFields ==
  ASSUME NEW mr \in MetaRoot, NEW b
  PROVE  /\ WithBlockFreed(mr, b) \in MetaRoot
         /\ WithBlockFreed(mr, b).abEntries = mr.abEntries \ {b}
         /\ WithBlockFreed(mr, b).ulFreeBlocks =
              IF b \in AllocableBlocks /\ ~Allocated(cmtMR, b)
              THEN mr.ulFreeBlocks + 1 ELSE mr.ulFreeBlocks
         /\ WithBlockFreed(mr, b).ulFreeInodes = mr.ulFreeInodes
<1>1. /\ mr.abEntries \ {b} \in SUBSET ImapBlocks
      /\ (IF b \in AllocableBlocks /\ ~Allocated(cmtMR, b)
          THEN mr.ulFreeBlocks + 1 ELSE mr.ulFreeBlocks) \in Nat
  BY DEF MetaRoot
<1>2. WithBlockFreed(mr, b) \in MetaRoot
  BY <1>1, TwoFields DEF WithBlockFreed
<1>. QED  BY <1>2 DEF WithBlockFreed, MetaRoot

(* RedVolFormat's metaroot has the root directory in slot 0 and the given  *)
(* count of free blocks.                                                   *)
LEMMA RootFields ==
  ASSUME NEW n \in Nat
  PROVE  /\ RootMetaRoot(n) \in MetaRoot
         /\ RootMetaRoot(n).abEntries = {InodeBlock(INODE_ROOTDIR, 0)}
         /\ RootMetaRoot(n).ulFreeBlocks = n
         /\ RootMetaRoot(n).ulFreeInodes = ulInodeCount - 1
<1>1. InodeBlock(INODE_ROOTDIR, 0) \in ImapBlocks
  BY SlotLayout, Regions DEF Slots
<1>. QED  BY <1>1, Regions DEF RootMetaRoot, MetaRoot

(* The transaction point adds the almost free blocks to the free count and *)
(* leaves the rest of the working metaroot as it is.                       *)
LEMMA TransactedFields ==
  ASSUME TypeOK
  PROVE  /\ Transacted \in MetaRoot
         /\ Transacted.abEntries = gpRedMR.abEntries
         /\ Transacted.ulFreeBlocks = gpRedMR.ulFreeBlocks + ulAlmostFreeBlocks
         /\ Transacted.ulFreeInodes = gpRedMR.ulFreeInodes
BY DEF Transacted, TypeOK, MetaRoot

-----------------------------------------------------------------------------
(* What each operation that changes the working metaroot leaves behind     *)
(* when none of its consistency checks fires.                              *)

(* RedImapAllocBlock takes a block that is free in both metaroots.         *)
LEMMA AllocBlockStep ==
  ASSUME TypeOK, AllocBlock, ~CriticalError
  PROVE  \E b \in FreeBlocks :
           /\ gpRedMR' \in MetaRoot
           /\ gpRedMR'.abEntries = gpRedMR.abEntries \cup {b}
           /\ gpRedMR'.ulFreeBlocks = gpRedMR.ulFreeBlocks - 1
           /\ gpRedMR'.ulFreeInodes = gpRedMR.ulFreeInodes
           /\ fBranched' = TRUE
           /\ UNCHANGED <<cmtMR, ulAlmostFreeBlocks, fMounted, fReadOnly>>
<1>1. PICK b \in AllocableBlocks :
        /\ b \in FreeBlocks
        /\ gpRedMR' = WithBlockAllocated(
             [gpRedMR EXCEPT !.ulAllocNextBlock = Following(b)], b)
  BY DEF AllocBlock, IsNextFree
<1> DEFINE mr == [gpRedMR EXCEPT !.ulAllocNextBlock = Following(b)]
<1>2. /\ mr \in MetaRoot
      /\ mr.abEntries = gpRedMR.abEntries
      /\ mr.ulFreeBlocks = gpRedMR.ulFreeBlocks
      /\ mr.ulFreeInodes = gpRedMR.ulFreeInodes
  BY Regions DEF TypeOK, MetaRoot
<1>3. mr.ulFreeBlocks # 0 /\ b \in ImapBlocks
  BY <1>2, Regions DEF AllocBlock
<1>4. /\ gpRedMR' \in MetaRoot
      /\ gpRedMR'.abEntries = gpRedMR.abEntries \cup {b}
      /\ gpRedMR'.ulFreeBlocks = gpRedMR.ulFreeBlocks - 1
      /\ gpRedMR'.ulFreeInodes = gpRedMR.ulFreeInodes
  <2> HIDE DEF mr
  <2>. QED  BY <1>1, <1>2, <1>3, AllocatedFields DEF mr
<1>. QED  BY <1>1, <1>4 DEF AllocBlock

(* Freeing a data block raises the free or the almost free count, by       *)
(* whether the committed state uses the block.                             *)
LEMMA FreeBlockStep ==
  ASSUME TypeOK, NEW b \in AllocableBlocks, FreeBlock(b), ~CriticalError
  PROVE  /\ b \in gpRedMR.abEntries
         /\ gpRedMR' \in MetaRoot
         /\ gpRedMR'.abEntries = gpRedMR.abEntries \ {b}
         /\ gpRedMR'.ulFreeBlocks = IF Allocated(cmtMR, b)
                                    THEN gpRedMR.ulFreeBlocks
                                    ELSE gpRedMR.ulFreeBlocks + 1
         /\ gpRedMR'.ulFreeInodes = gpRedMR.ulFreeInodes
         /\ ulAlmostFreeBlocks' = IF Allocated(cmtMR, b)
                                  THEN ulAlmostFreeBlocks + 1
                                  ELSE ulAlmostFreeBlocks
         /\ fBranched' = TRUE
         /\ UNCHANGED <<cmtMR, fMounted, fReadOnly>>
<1>1. /\ gpRedMR' = WithBlockFreed(gpRedMR, b)
      /\ ulAlmostFreeBlocks' = AlmostFreeAfterFreeing(b)
      /\ b \in gpRedMR.abEntries
      /\ fBranched' = TRUE
      /\ UNCHANGED <<cmtMR, fMounted, fReadOnly>>
  BY DEF FreeBlock, Allocated
<1>. QED  BY <1>1, FreedFields DEF TypeOK, AlmostFreeAfterFreeing

(* RedInodeCreate sets one bit of an inode which had none, in a slot the   *)
(* committed state does not use.                                           *)
LEMMA InodeCreateStep ==
  ASSUME TypeOK, InodeCreate, ~CriticalError
  PROVE  \E ino \in Inodes, w \in Slots :
           /\ ~InodeExists(gpRedMR, ino)
           /\ ~Allocated(cmtMR, InodeBlock(ino, w))
           /\ gpRedMR' \in MetaRoot
           /\ gpRedMR'.abEntries = gpRedMR.abEntries \cup {InodeBlock(ino, w)}
           /\ gpRedMR'.ulFreeBlocks = gpRedMR.ulFreeBlocks
           /\ gpRedMR'.ulFreeInodes = gpRedMR.ulFreeInodes - 1
           /\ fBranched' = TRUE
           /\ UNCHANGED <<cmtMR, ulAlmostFreeBlocks, fMounted, fReadOnly>>
<1>1. PICK ino \in Inodes, w \in Slots :
        /\ ~InodeExists(gpRedMR, ino)
        /\ IsWriteableSlot(ino, w)
        /\ gpRedMR' = [WithBlockAllocated(gpRedMR, InodeBlock(ino, w))
                         EXCEPT !.ulFreeInodes = @ - 1]
  BY DEF InodeCreate
<1> DEFINE mr == WithBlockAllocated(gpRedMR, InodeBlock(ino, w))
<1>2. /\ mr \in MetaRoot
      /\ mr.abEntries = gpRedMR.abEntries \cup {InodeBlock(ino, w)}
      /\ mr.ulFreeBlocks = gpRedMR.ulFreeBlocks
      /\ mr.ulFreeInodes = gpRedMR.ulFreeInodes
  BY SlotLayout, AllocatedFields DEF TypeOK
<1>3. gpRedMR.ulFreeInodes - 1 \in Nat
  BY DEF InodeCreate, TypeOK, MetaRoot
<1>4. gpRedMR' = [mr EXCEPT !.ulFreeInodes = gpRedMR.ulFreeInodes - 1]
  BY <1>1, <1>2
<1>5. /\ gpRedMR' \in MetaRoot
      /\ gpRedMR'.abEntries = mr.abEntries
      /\ gpRedMR'.ulFreeBlocks = mr.ulFreeBlocks
      /\ gpRedMR'.ulFreeInodes = gpRedMR.ulFreeInodes - 1
  <2> HIDE DEF mr
  <2>. QED  BY <1>2, <1>3, <1>4 DEF MetaRoot
<1>6. ~Allocated(cmtMR, InodeBlock(ino, w))
  BY <1>1 DEF IsWriteableSlot, Slots
<1>. QED  BY <1>1, <1>2, <1>5, <1>6 DEF InodeCreate

(* RedInodeBranch moves an inode to its other slot, or leaves an inode     *)
(* alone which is branched.                                                *)
LEMMA InodeBranchStep ==
  ASSUME TypeOK, NEW ino \in Inodes, InodeBranch(ino), ~CriticalError
  PROVE  \E w \in Slots :
           /\ ~Allocated(cmtMR, InodeBlock(ino, w))
           /\ gpRedMR' \in MetaRoot
           /\ gpRedMR'.abEntries =
                (gpRedMR.abEntries \ {InodeBlock(ino, 1 - w)})
                  \cup {InodeBlock(ino, w)}
           /\ gpRedMR'.ulFreeBlocks = gpRedMR.ulFreeBlocks
           /\ gpRedMR'.ulFreeInodes = gpRedMR.ulFreeInodes
           /\ fBranched' = TRUE
           /\ UNCHANGED <<cmtMR, ulAlmostFreeBlocks, fMounted, fReadOnly>>
<1>1. PICK w \in Slots :
        /\ IsWriteableSlot(ino, w)
        /\ gpRedMR' = WithBlockAllocated(
             WithBlockFreed(gpRedMR, InodeBlock(ino, 1 - w)),
             InodeBlock(ino, w))
  BY DEF InodeBranch
<1> DEFINE mr == WithBlockFreed(gpRedMR, InodeBlock(ino, 1 - w))
<1>2. /\ mr \in MetaRoot
      /\ mr.abEntries = gpRedMR.abEntries \ {InodeBlock(ino, 1 - w)}
      /\ mr.ulFreeBlocks = gpRedMR.ulFreeBlocks
      /\ mr.ulFreeInodes = gpRedMR.ulFreeInodes
  BY SlotLayout, FreedFields DEF TypeOK
<1>3. /\ gpRedMR' \in MetaRoot
      /\ gpRedMR'.abEntries = mr.abEntries \cup {InodeBlock(ino, w)}
      /\ gpRedMR'.ulFreeBlocks = mr.ulFreeBlocks
      /\ gpRedMR'.ulFreeInodes = mr.ulFreeInodes
  BY <1>1, <1>2, SlotLayout, AllocatedFields
<1>4. ~Allocated(cmtMR, InodeBlock(ino, w))
  BY <1>1 DEF IsWriteableSlot, Slots
<1>. QED  BY <1>1, <1>2, <1>3, <1>4 DEF InodeBranch

(* RedInodeFree clears the bit of the inode and counts it as free.         *)
LEMMA InodeFreeStep ==
  ASSUME TypeOK, NEW ino \in Inodes, InodeFree(ino), ~CriticalError
  PROVE  \E w \in Slots :
           /\ Allocated(gpRedMR, InodeBlock(ino, w))
           /\ ~Allocated(gpRedMR, InodeBlock(ino, 1 - w))
           /\ gpRedMR' \in MetaRoot
           /\ gpRedMR'.abEntries = gpRedMR.abEntries \ {InodeBlock(ino, w)}
           /\ gpRedMR'.ulFreeBlocks = gpRedMR.ulFreeBlocks
           /\ gpRedMR'.ulFreeInodes = gpRedMR.ulFreeInodes + 1
           /\ fBranched' = TRUE
           /\ UNCHANGED <<cmtMR, ulAlmostFreeBlocks, fMounted, fReadOnly>>
<1>1. PICK w \in Slots :
        /\ Allocated(gpRedMR, InodeBlock(ino, w))
        /\ gpRedMR' = [WithBlockFreed(gpRedMR, InodeBlock(ino, w))
                         EXCEPT !.ulFreeInodes = @ + 1]
  BY DEF InodeFree
<1> DEFINE mr == WithBlockFreed(gpRedMR, InodeBlock(ino, w))
<1>2. /\ mr \in MetaRoot
      /\ mr.abEntries = gpRedMR.abEntries \ {InodeBlock(ino, w)}
      /\ mr.ulFreeBlocks = gpRedMR.ulFreeBlocks
      /\ mr.ulFreeInodes = gpRedMR.ulFreeInodes
  BY SlotLayout, FreedFields DEF TypeOK
<1>3. gpRedMR.ulFreeInodes + 1 \in Nat
  BY DEF TypeOK, MetaRoot
<1>4. gpRedMR' = [mr EXCEPT !.ulFreeInodes = gpRedMR.ulFreeInodes + 1]
  BY <1>1, <1>2
<1>5. /\ gpRedMR' \in MetaRoot
      /\ gpRedMR'.abEntries = mr.abEntries
      /\ gpRedMR'.ulFreeBlocks = mr.ulFreeBlocks
      /\ gpRedMR'.ulFreeInodes = gpRedMR.ulFreeInodes + 1
  <2> HIDE DEF mr
  <2>. QED  BY <1>2, <1>3, <1>4 DEF MetaRoot
<1>6. ~Allocated(gpRedMR, InodeBlock(ino, 1 - w))
  BY <1>1 DEF InodeFree
<1>. QED  BY <1>1, <1>2, <1>5, <1>6 DEF InodeFree

-----------------------------------------------------------------------------
(* Type correctness: the working metaroot keeps its shape, in particular   *)
(* no counter is ever decremented below zero and the allocation pointer    *)
(* never leaves the allocable area.                                        *)
LEMMA TypeInductive == TypeOK /\ [Next]_vars => TypeOK'
<1> SUFFICES ASSUME TypeOK, [Next]_vars PROVE TypeOK'
  OBVIOUS
<1>1. CASE CriticalError
  BY <1>1 DEF CriticalError, TypeOK
<1>2. CASE AllocBlock /\ ~CriticalError
  BY <1>2, AllocBlockStep DEF TypeOK
<1>3. ASSUME NEW block \in AllocableBlocks, FreeBlock(block), ~CriticalError
      PROVE  TypeOK'
  <2>1. ulAlmostFreeBlocks' \in Nat
    <3>1. ulAlmostFreeBlocks' = IF Allocated(cmtMR, block)
                                THEN ulAlmostFreeBlocks + 1
                                ELSE ulAlmostFreeBlocks
      BY <1>3, FreeBlockStep, Zenon
    <3>. QED  BY <3>1 DEF TypeOK
  <2>. QED  BY <1>3, <2>1, FreeBlockStep, Zenon DEF TypeOK
<1>4. CASE InodeCreate /\ ~CriticalError
  BY <1>4, InodeCreateStep DEF TypeOK
<1>5. ASSUME NEW ino \in Inodes, InodeBranch(ino), ~CriticalError
      PROVE  TypeOK'
  BY <1>5, InodeBranchStep DEF TypeOK
<1>6. ASSUME NEW ino \in FreeableInodes, InodeFree(ino), ~CriticalError
      PROVE  TypeOK'
  BY <1>6, InodeFreeStep DEF TypeOK, FreeableInodes
<1>7. CASE Transact
  BY <1>7, TransactedFields DEF Transact, CommitWorking, TypeOK
<1>8. CASE Rollback
  BY <1>8 DEF Rollback, MountMetaroot, TypeOK
<1>9. CASE Mount
  BY <1>9 DEF Mount, MountMetaroot, TypeOK
<1>10. CASE Unmount
  <2>1. CASE fTransactUmount /\ ~fReadOnly
    <3>1. ulAlmostFreeBlocks' \in Nat
      BY <1>10, <2>1 DEF Unmount, CommitWorking, TypeOK
    <3>. QED
      BY <1>10, <2>1, <3>1, TransactedFields, Zenon
         DEF Unmount, CommitWorking, TypeOK
  <2>2. CASE ~(fTransactUmount /\ ~fReadOnly)
    BY <1>10, <2>2 DEF Unmount, TypeOK
  <2>. QED  BY <2>1, <2>2
<1>11. CASE Format
  <2>1. ulBlocksAllocable + ulAlmostFreeBlocks \in Nat /\ 0 \in Nat
    BY Regions DEF TypeOK
  <2>. QED  BY <1>11, <2>1, RootFields, Zenon DEF Format, TypeOK
<1>12. CASE UNCHANGED vars
  BY <1>12 DEF vars, TypeOK
<1>. QED
  BY <1>1, <1>2, <1>3, <1>4, <1>5, <1>6, <1>7, <1>8, <1>9, <1>10, <1>11, <1>12
     DEF Next

(* A formatted volume, not yet mounted, is well typed.                     *)
LEMMA TypeInit == Init => TypeOK
<1>1. ulBlocksAllocable \in Nat /\ 0 \in Nat
  BY Regions
<1>. QED  BY <1>1, RootFields, Zenon DEF Init, TypeOK

(* The bits, counters and flags always have the values their fields in     *)
(* METAROOT and COREVOLUME are for.                                        *)
THEOREM TypeCorrect == Spec => []TypeOK
BY TypeInit, TypeInductive, PTL DEF Spec

(* Copy-on-write, for every layout: an allocation takes only blocks the    *)
(* committed metaroot does not hold, so nothing the committed state refers *)
(* to is overwritten before the next transaction point.                    *)
THEOREM CopyOnWrite == Spec => CommittedBlocksNotReused
<1> DEFINE A == \/ Rollback \/ Mount \/ Format
                \/ (gpRedMR'.abEntries \ gpRedMR.abEntries)
                     \cap cmtMR.abEntries = {}
<1>1. TypeOK /\ [Next]_vars => [A]_vars
  <2> SUFFICES ASSUME TypeOK, Next PROVE A
    OBVIOUS
  <2>1. CASE CriticalError
    BY <2>1 DEF CriticalError
  <2>2. CASE AllocBlock /\ ~CriticalError
    BY <2>2, AllocBlockStep DEF FreeBlocks, Allocated
  <2>3. ASSUME NEW block \in AllocableBlocks, FreeBlock(block), ~CriticalError
        PROVE  A
    BY <2>3, FreeBlockStep
  <2>4. CASE InodeCreate /\ ~CriticalError
    BY <2>4, InodeCreateStep DEF Allocated
  <2>5. ASSUME NEW ino \in Inodes, InodeBranch(ino), ~CriticalError
        PROVE  A
    BY <2>5, InodeBranchStep DEF Allocated
  <2>6. ASSUME NEW ino \in FreeableInodes, InodeFree(ino), ~CriticalError
        PROVE  A
    BY <2>6, InodeFreeStep DEF FreeableInodes
  <2>7. CASE Transact
    BY <2>7, TransactedFields DEF Transact, CommitWorking
  <2>8. CASE Unmount
    BY <2>8, TransactedFields DEF Unmount, CommitWorking
  <2>. QED
    BY <2>1, <2>2, <2>3, <2>4, <2>5, <2>6, <2>7, <2>8 DEF Next
<1>. QED
  BY <1>1, TypeCorrect, PTL DEF Spec, CommittedBlocksNotReused

-----------------------------------------------------------------------------
(* The inductive invariant.  Beside the properties themselves it needs the *)
(* counters whether the volume is mounted or not, the inode counters of    *)
(* both metaroots, at most one slot per inode in each, and that nothing is *)
(* left over from the mount before when the volume is not mounted.         *)

CommittedFree == {b \in AllocableBlocks : ~Allocated(cmtMR, b)}
Absent(mr)    == {i \in Inodes : ~InodeExists(mr, i)}

OneSlot(mr) ==
  \A i \in Inodes :
    ~(Allocated(mr, InodeBlock(i, 0)) /\ Allocated(mr, InodeBlock(i, 1)))

BlockCounts ==
  /\ gpRedMR.ulFreeBlocks = Cardinality(FreeBlocks)
  /\ ulAlmostFreeBlocks = Cardinality(AlmostFree)
  /\ cmtMR.ulFreeBlocks = Cardinality(CommittedFree)

InodeCounts ==
  /\ gpRedMR.ulFreeInodes = Cardinality(Absent(gpRedMR))
  /\ cmtMR.ulFreeInodes = Cardinality(Absent(cmtMR))

SlotsInv ==
  /\ OneSlot(gpRedMR) /\ InodeExists(gpRedMR, INODE_ROOTDIR)
  /\ OneSlot(cmtMR) /\ InodeExists(cmtMR, INODE_ROOTDIR)

CommitInv ==
  /\ ~fBranched => gpRedMR = cmtMR
  /\ ~fMounted => ~fBranched

IInv ==
  /\ TypeOK
  /\ fReadOnly = FALSE
  /\ BlockCounts
  /\ InodeCounts
  /\ SlotsInv
  /\ CommitInv

(* The sets the counters count are finite.                                 *)
LEMMA Finite ==
  /\ IsFiniteSet(FreeBlocks) /\ Cardinality(FreeBlocks) \in Nat
  /\ IsFiniteSet(AlmostFree) /\ Cardinality(AlmostFree) \in Nat
  /\ IsFiniteSet(CommittedFree) /\ Cardinality(CommittedFree) \in Nat
  /\ \A mr : IsFiniteSet(Absent(mr)) /\ Cardinality(Absent(mr)) \in Nat
<1>1. /\ FreeBlocks \subseteq AllocableBlocks
      /\ AlmostFree \subseteq AllocableBlocks
      /\ CommittedFree \subseteq AllocableBlocks
      /\ \A mr : Absent(mr) \subseteq Inodes
  BY DEF FreeBlocks, AlmostFree, CommittedFree, Absent
<1>2. /\ IsFiniteSet(FreeBlocks)
      /\ IsFiniteSet(AlmostFree)
      /\ IsFiniteSet(CommittedFree)
      /\ \A mr : IsFiniteSet(Absent(mr))
  BY <1>1, AreaSizes, FS_Subset
<1>. QED  BY <1>2, FS_CardinalityType

(* A change of bits in the allocable area leaves the inodes alone.         *)
LEMMA InodesUnaffected ==
  ASSUME NEW mr, NEW nr,
         \A b \in InodeBlocks : Allocated(nr, b) <=> Allocated(mr, b)
  PROVE  /\ Absent(nr) = Absent(mr)
         /\ OneSlot(nr) <=> OneSlot(mr)
         /\ \A i \in Inodes : InodeExists(nr, i) <=> InodeExists(mr, i)
<1>1. \A i \in Inodes, w \in Slots :
        Allocated(nr, InodeBlock(i, w)) <=> Allocated(mr, InodeBlock(i, w))
  BY SlotLayout
<1>2. \A i \in Inodes : InodeExists(nr, i) <=> InodeExists(mr, i)
  BY <1>1 DEF InodeExists
<1>3. 0 \in Slots /\ 1 \in Slots
  BY DEF Slots
<1>4. OneSlot(nr) <=> OneSlot(mr)
  BY <1>1, <1>3 DEF OneSlot
<1>. QED  BY <1>2, <1>4 DEF Absent

(* A change of inode slots leaves the block counts alone.                  *)
LEMMA BlocksUnaffected ==
  ASSUME cmtMR' = cmtMR,
         \A b \in AllocableBlocks :
           Allocated(gpRedMR', b) <=> Allocated(gpRedMR, b)
  PROVE  /\ FreeBlocks' = FreeBlocks
         /\ AlmostFree' = AlmostFree
         /\ CommittedFree' = CommittedFree
BY DEF FreeBlocks, AlmostFree, CommittedFree

-----------------------------------------------------------------------------
(* None of the consistency checks fires.                                   *)

(* RedImapAllocBlock finds a block to set whenever the free count is not   *)
(* zero, so RedImapBlockSet raises no critical error.                      *)
LEMMA AllocBlockNotCritical ==
  ASSUME IInv, AllocBlock
  PROVE  ~CriticalError
<1>1. FreeBlocks # {}
  BY FS_EmptySet DEF IInv, BlockCounts, AllocBlock
<1>2. fReadOnly' = fReadOnly
  BY <1>1 DEF AllocBlock
<1>. QED  BY <1>2 DEF IInv, CriticalError

(* Freeing a block cannot overflow the count of free blocks (the check in  *)
(* RedImapBlockSet).                                                       *)
LEMMA FreeBlockNotCritical ==
  ASSUME IInv, NEW b \in AllocableBlocks, FreeBlock(b)
  PROVE  ~CriticalError
<1>1. b \in gpRedMR.abEntries
  BY DEF FreeBlock, Allocated
<1>2. FreeBlocks \subseteq AllocableBlocks \ {b}
  BY <1>1 DEF FreeBlocks, Allocated
<1>3. /\ IsFiniteSet(AllocableBlocks \ {b})
      /\ Cardinality(AllocableBlocks \ {b}) = ulBlocksAllocable - 1
  BY AreaSizes, FS_RemoveElement
<1>4. Cardinality(FreeBlocks) <= ulBlocksAllocable - 1
  BY <1>2, <1>3, FS_Subset
<1>5. ~(gpRedMR.ulFreeBlocks >= ulBlocksAllocable)
  BY <1>4, Finite, Regions DEF IInv, BlockCounts
<1>6. ~SetIsCritical(gpRedMR, b, FALSE)
  BY <1>1, <1>5 DEF SetIsCritical, Allocated
<1>7. fReadOnly' = fReadOnly
  BY <1>6 DEF FreeBlock
<1>. QED  BY <1>7 DEF IInv, CriticalError

(* The lowest free inode number exists, and one of its two slots is not    *)
(* used by the committed state.                                            *)
LEMMA InodeCreateNotCritical ==
  ASSUME IInv, InodeCreate
  PROVE  ~CriticalError
<1> DEFINE free == {i \in Inodes : i >= INODE_FIRST_FREE
                                  /\ ~InodeExists(gpRedMR, i)}
<1>1. Absent(gpRedMR) # {}
  BY FS_EmptySet DEF IInv, InodeCounts, InodeCreate
<1>2. Absent(gpRedMR) \subseteq free
  <2>1. \A i \in Inodes : i # INODE_ROOTDIR => i >= INODE_FIRST_FREE
    BY DEF Inodes, INODE_ROOTDIR, INODE_FIRST_FREE, INODE_FIRST_VALID
  <2>. QED  BY <2>1 DEF IInv, SlotsInv, Absent
<1>3. free # {} /\ free \subseteq Nat
  BY <1>1, <1>2 DEF Inodes, INODE_FIRST_VALID
<1>4. PICK ino \in free : \A i \in free : ino <= i
  <2>1. PICK ino \in free : \A i \in free : ~(<<i, ino>> \in OpToRel(<, Nat))
    BY ONLY <1>3, NatLessThanWellFounded, WFMin
  <2>2. \A i, j \in Nat : i < j => <<i, j>> \in OpToRel(<, Nat)
    BY DEF OpToRel
  <2>3. \A i \in free : ino <= i
    <3>1. \A i \in free : ~(i < ino)
      BY <1>3, <2>1, <2>2
    <3>. QED  BY <1>3, <3>1
  <2>. QED  BY <2>3
<1>5. \E w \in Slots : IsWriteableSlot(ino, w)
  BY DEF IInv, SlotsInv, OneSlot, IsWriteableSlot, Slots
<1>6. fReadOnly' = fReadOnly
  BY <1>4, <1>5 DEF InodeCreate
<1>. QED  BY <1>6 DEF IInv, CriticalError

(* An inode that exists and is not branched occupies the slot the          *)
(* committed state uses, so the other one is writeable.                    *)
LEMMA InodeBranchNotCritical ==
  ASSUME IInv, NEW ino \in Inodes, InodeBranch(ino)
  PROVE  ~CriticalError
<1>1. PICK v \in Slots : Allocated(gpRedMR, InodeBlock(ino, v))
  BY DEF InodeBranch, InodeExists
<1>2. Allocated(cmtMR, InodeBlock(ino, v))
  BY <1>1 DEF InodeBranch, InodeIsBranched, BlockState
<1>3. 1 - v \in Slots /\ 1 - (1 - v) = v
  BY DEF Slots
<1>4. IsWriteableSlot(ino, 1 - v)
  BY <1>2 DEF IInv, SlotsInv, OneSlot, IsWriteableSlot, Slots
<1>5. \E w \in Slots : /\ IsWriteableSlot(ino, w)
                       /\ Allocated(gpRedMR, InodeBlock(ino, 1 - w))
  BY <1>1, <1>3, <1>4
<1>6. fReadOnly' = fReadOnly
  BY <1>5 DEF InodeBranch
<1>. QED  BY <1>6 DEF IInv, CriticalError

(* Freeing an inode cannot overflow the count of free inodes (the check in *)
(* RedInodeFree).                                                          *)
LEMMA InodeFreeNotCritical ==
  ASSUME IInv, NEW ino \in Inodes, InodeFree(ino)
  PROVE  ~CriticalError
<1>1. \A w \in Slots : Allocated(gpRedMR, InodeBlock(ino, w))
                        # Allocated(gpRedMR, InodeBlock(ino, 1 - w))
  <2>1. InodeExists(gpRedMR, ino)
    BY DEF InodeFree
  <2>2. OneSlot(gpRedMR)
    BY DEF IInv, SlotsInv
  <2>3. /\ Allocated(gpRedMR, InodeBlock(ino, 0))
           # Allocated(gpRedMR, InodeBlock(ino, 1))
    BY <2>1, <2>2 DEF InodeExists, OneSlot, Slots, Allocated
  <2>4. \A w \in Slots : (w = 0 /\ 1 - w = 1) \/ (w = 1 /\ 1 - w = 0)
    BY DEF Slots
  <2>. QED  BY <2>3, <2>4 DEF Allocated
<1>2. Absent(gpRedMR) \subseteq Inodes \ {ino}
  BY DEF InodeFree, Absent
<1>3. /\ IsFiniteSet(Inodes \ {ino})
      /\ Cardinality(Inodes \ {ino}) = ulInodeCount - 1
  BY AreaSizes, FS_RemoveElement
<1>4. Cardinality(Absent(gpRedMR)) <= ulInodeCount - 1
  BY <1>2, <1>3, FS_Subset
<1>5. gpRedMR.ulFreeInodes < ulInodeCount
  BY <1>4, Finite DEF IInv, InodeCounts
<1>6. fReadOnly' = fReadOnly
  BY <1>1, <1>5 DEF InodeFree
<1>. QED  BY <1>6 DEF IInv, CriticalError

-----------------------------------------------------------------------------
(* Each operation preserves the counters and the slots.                    *)

(* RedImapAllocBlock keeps the inductive invariant.                        *)
LEMMA AllocBlockPreserves ==
  ASSUME IInv, AllocBlock
  PROVE  IInv'
<1>. TypeOK
  BY DEF IInv
<1>1. ~CriticalError
  BY AllocBlockNotCritical
<1>2. PICK b \in FreeBlocks :
        /\ gpRedMR' \in MetaRoot
        /\ gpRedMR'.abEntries = gpRedMR.abEntries \cup {b}
        /\ gpRedMR'.ulFreeBlocks = gpRedMR.ulFreeBlocks - 1
        /\ gpRedMR'.ulFreeInodes = gpRedMR.ulFreeInodes
        /\ fBranched' = TRUE
        /\ UNCHANGED <<cmtMR, ulAlmostFreeBlocks, fMounted, fReadOnly>>
  BY <1>1, AllocBlockStep
<1>3. b \in AllocableBlocks /\ ~Allocated(cmtMR, b)
  BY DEF FreeBlocks
<1>4. BlockCounts'
  <2>1. /\ FreeBlocks' = FreeBlocks \ {b}
        /\ AlmostFree' = AlmostFree
        /\ CommittedFree' = CommittedFree
    BY <1>2, <1>3 DEF FreeBlocks, AlmostFree, CommittedFree, Allocated
  <2>2. Cardinality(FreeBlocks \ {b}) = Cardinality(FreeBlocks) - 1
    BY Finite, FS_RemoveElement
  <2>. QED  BY <1>2, <2>1, <2>2 DEF IInv, BlockCounts
<1>5. \A c \in InodeBlocks : Allocated(gpRedMR', c) <=> Allocated(gpRedMR, c)
  BY <1>2, <1>3 DEF Allocated, InodeBlocks, AllocableBlocks, ulFirstAllocableBN
<1>6. InodeCounts' /\ SlotsInv'
  BY <1>2, <1>5, InodesUnaffected, Regions DEF IInv, InodeCounts, SlotsInv
<1>7. TypeOK'
  BY TypeInductive DEF Next
<1>8. CommitInv'
  BY <1>2 DEF IInv, CommitInv, AllocBlock, Writeable
<1>. QED  BY <1>2, <1>4, <1>6, <1>7, <1>8 DEF IInv

(* Freeing a data block keeps the inductive invariant.                     *)
LEMMA FreeBlockPreserves ==
  ASSUME IInv, NEW b \in AllocableBlocks, FreeBlock(b)
  PROVE  IInv'
<1>. TypeOK
  BY DEF IInv
<1>1. ~CriticalError
  BY FreeBlockNotCritical
<1>2. /\ b \in gpRedMR.abEntries
      /\ gpRedMR' \in MetaRoot
      /\ gpRedMR'.abEntries = gpRedMR.abEntries \ {b}
      /\ gpRedMR'.ulFreeBlocks = IF Allocated(cmtMR, b)
                                 THEN gpRedMR.ulFreeBlocks
                                 ELSE gpRedMR.ulFreeBlocks + 1
      /\ gpRedMR'.ulFreeInodes = gpRedMR.ulFreeInodes
      /\ ulAlmostFreeBlocks' = IF Allocated(cmtMR, b)
                               THEN ulAlmostFreeBlocks + 1
                               ELSE ulAlmostFreeBlocks
      /\ fBranched' = TRUE
      /\ UNCHANGED <<cmtMR, fMounted, fReadOnly>>
  BY <1>1, FreeBlockStep
<1>3. b \notin FreeBlocks /\ b \notin AlmostFree
  BY <1>2 DEF FreeBlocks, AlmostFree, Allocated
<1>4. BlockCounts'
  <2>0. CommittedFree' = CommittedFree
    BY <1>2 DEF CommittedFree, Allocated
  <2>1. CASE Allocated(cmtMR, b)
    <3>1. FreeBlocks' = FreeBlocks /\ AlmostFree' = AlmostFree \cup {b}
      BY <1>2, <2>1 DEF FreeBlocks, AlmostFree, Allocated
    <3>2. Cardinality(AlmostFree \cup {b}) = Cardinality(AlmostFree) + 1
      BY <1>3, Finite, FS_AddElement
    <3>. QED  BY <1>2, <2>0, <2>1, <3>1, <3>2 DEF IInv, BlockCounts
  <2>2. CASE ~Allocated(cmtMR, b)
    <3>1. FreeBlocks' = FreeBlocks \cup {b} /\ AlmostFree' = AlmostFree
      BY <1>2, <2>2 DEF FreeBlocks, AlmostFree, Allocated
    <3>2. Cardinality(FreeBlocks \cup {b}) = Cardinality(FreeBlocks) + 1
      BY <1>3, Finite, FS_AddElement
    <3>. QED  BY <1>2, <2>0, <2>2, <3>1, <3>2 DEF IInv, BlockCounts
  <2>. QED  BY <2>1, <2>2
<1>5. \A c \in InodeBlocks : Allocated(gpRedMR', c) <=> Allocated(gpRedMR, c)
  BY <1>2 DEF Allocated, InodeBlocks, AllocableBlocks, ulFirstAllocableBN
<1>6. InodeCounts' /\ SlotsInv'
  BY <1>2, <1>5, InodesUnaffected, Regions DEF IInv, InodeCounts, SlotsInv
<1>7. TypeOK'
  BY TypeInductive DEF Next
<1>8. CommitInv'
  BY <1>2 DEF IInv, CommitInv, FreeBlock, Writeable
<1>. QED  BY <1>2, <1>4, <1>6, <1>7, <1>8 DEF IInv

(* RedInodeCreate keeps the inductive invariant.                           *)
LEMMA InodeCreatePreserves ==
  ASSUME IInv, InodeCreate
  PROVE  IInv'
<1>. TypeOK
  BY DEF IInv
<1>1. ~CriticalError
  BY InodeCreateNotCritical
<1>2. PICK ino \in Inodes, w \in Slots :
        /\ ~InodeExists(gpRedMR, ino)
        /\ ~Allocated(cmtMR, InodeBlock(ino, w))
        /\ gpRedMR' \in MetaRoot
        /\ gpRedMR'.abEntries = gpRedMR.abEntries \cup {InodeBlock(ino, w)}
        /\ gpRedMR'.ulFreeBlocks = gpRedMR.ulFreeBlocks
        /\ gpRedMR'.ulFreeInodes = gpRedMR.ulFreeInodes - 1
        /\ fBranched' = TRUE
        /\ UNCHANGED <<cmtMR, ulAlmostFreeBlocks, fMounted, fReadOnly>>
  BY <1>1, InodeCreateStep
<1>3. BlockCounts'
  <2>1. \A b \in AllocableBlocks :
          Allocated(gpRedMR', b) <=> Allocated(gpRedMR, b)
    BY <1>2, SlotLayout DEF Allocated
  <2>. QED  BY <1>2, <2>1, BlocksUnaffected DEF IInv, BlockCounts
<1>4. \A i \in Inodes, v \in Slots :
        Allocated(gpRedMR', InodeBlock(i, v))
          <=> \/ Allocated(gpRedMR, InodeBlock(i, v))
              \/ i = ino /\ v = w
  BY <1>2, SlotLayout DEF Allocated
<1>5. \A i \in Inodes :
        InodeExists(gpRedMR', i) <=> InodeExists(gpRedMR, i) \/ i = ino
  BY <1>4 DEF InodeExists
<1>6. InodeCounts'
  <2>1. Absent(gpRedMR') = Absent(gpRedMR) \ {ino} /\ ino \in Absent(gpRedMR)
    BY <1>2, <1>5 DEF Absent
  <2>2. Cardinality(Absent(gpRedMR) \ {ino}) = Cardinality(Absent(gpRedMR)) - 1
    BY <2>1, Finite, FS_RemoveElement
  <2>. QED  BY <1>2, <2>1, <2>2 DEF IInv, InodeCounts
<1>7. SlotsInv'
  <2>1. OneSlot(gpRedMR')
    BY <1>2, <1>4 DEF IInv, SlotsInv, OneSlot, InodeExists, Slots
  <2>. QED  BY <1>2, <1>5, <2>1, Regions DEF IInv, SlotsInv
<1>8. TypeOK'
  BY TypeInductive DEF Next
<1>9. CommitInv'
  BY <1>2 DEF IInv, CommitInv, InodeCreate, Writeable
<1>. QED  BY <1>2, <1>3, <1>6, <1>7, <1>8, <1>9 DEF IInv

(* RedInodeBranch keeps the inductive invariant.                           *)
LEMMA InodeBranchPreserves ==
  ASSUME IInv, NEW ino \in Inodes, InodeBranch(ino)
  PROVE  IInv'
<1>. TypeOK
  BY DEF IInv
<1>1. ~CriticalError
  BY InodeBranchNotCritical
<1>2. PICK w \in Slots :
        /\ gpRedMR'.abEntries =
             (gpRedMR.abEntries \ {InodeBlock(ino, 1 - w)})
               \cup {InodeBlock(ino, w)}
        /\ gpRedMR'.ulFreeBlocks = gpRedMR.ulFreeBlocks
        /\ gpRedMR'.ulFreeInodes = gpRedMR.ulFreeInodes
        /\ fBranched' = TRUE
        /\ UNCHANGED <<cmtMR, ulAlmostFreeBlocks, fMounted, fReadOnly>>
  BY <1>1, InodeBranchStep
<1>3. BlockCounts'
  <2>1. \A b \in AllocableBlocks :
          Allocated(gpRedMR', b) <=> Allocated(gpRedMR, b)
    BY <1>2, SlotLayout DEF Allocated
  <2>. QED  BY <1>2, <2>1, BlocksUnaffected DEF IInv, BlockCounts
<1>4. \A i \in Inodes, v \in Slots :
        Allocated(gpRedMR', InodeBlock(i, v))
          <=> IF i = ino THEN v = w ELSE Allocated(gpRedMR, InodeBlock(i, v))
  <2>1. \A v \in Slots : v = w \/ v = 1 - w
    BY DEF Slots
  <2>. QED  BY <1>2, <2>1, SlotLayout DEF Allocated
<1>5. \A i \in Inodes :
        InodeExists(gpRedMR', i) <=> InodeExists(gpRedMR, i)
  BY <1>4 DEF InodeExists, InodeBranch
<1>6. InodeCounts'
  BY <1>2, <1>5 DEF IInv, InodeCounts, Absent
<1>7. SlotsInv'
  <2>1. OneSlot(gpRedMR')
    BY <1>4 DEF IInv, SlotsInv, OneSlot, Slots
  <2>. QED  BY <1>2, <1>5, <2>1, Regions DEF IInv, SlotsInv
<1>8. TypeOK'
  BY TypeInductive DEF Next
<1>9. CommitInv'
  BY <1>2 DEF IInv, CommitInv, InodeBranch, Writeable
<1>. QED  BY <1>2, <1>3, <1>6, <1>7, <1>8, <1>9 DEF IInv

(* RedInodeFree keeps the inductive invariant.                             *)
LEMMA InodeFreePreserves ==
  ASSUME IInv, NEW ino \in FreeableInodes, InodeFree(ino)
  PROVE  IInv'
<1>. TypeOK /\ ino \in Inodes /\ ino # INODE_ROOTDIR
  BY DEF IInv, FreeableInodes
<1>1. ~CriticalError
  BY InodeFreeNotCritical
<1>2. PICK w \in Slots :
        /\ ~Allocated(gpRedMR, InodeBlock(ino, 1 - w))
        /\ gpRedMR'.abEntries = gpRedMR.abEntries \ {InodeBlock(ino, w)}
        /\ gpRedMR'.ulFreeBlocks = gpRedMR.ulFreeBlocks
        /\ gpRedMR'.ulFreeInodes = gpRedMR.ulFreeInodes + 1
        /\ fBranched' = TRUE
        /\ UNCHANGED <<cmtMR, ulAlmostFreeBlocks, fMounted, fReadOnly>>
  BY <1>1, InodeFreeStep
<1>3. BlockCounts'
  <2>1. \A b \in AllocableBlocks :
          Allocated(gpRedMR', b) <=> Allocated(gpRedMR, b)
    BY <1>2, SlotLayout DEF Allocated
  <2>. QED  BY <1>2, <2>1, BlocksUnaffected DEF IInv, BlockCounts
<1>4. \A i \in Inodes, v \in Slots :
        Allocated(gpRedMR', InodeBlock(i, v))
          <=> i # ino /\ Allocated(gpRedMR, InodeBlock(i, v))
  <2>1. \A v \in Slots : v = w \/ v = 1 - w
    BY DEF Slots
  <2>. QED  BY <1>2, <2>1, SlotLayout DEF Allocated
<1>5. \A i \in Inodes :
        InodeExists(gpRedMR', i) <=> InodeExists(gpRedMR, i) /\ i # ino
  BY <1>4 DEF InodeExists
<1>6. InodeCounts'
  <2>1. Absent(gpRedMR') = Absent(gpRedMR) \cup {ino}
        /\ ino \notin Absent(gpRedMR)
    BY <1>5 DEF Absent, InodeFree
  <2>2. Cardinality(Absent(gpRedMR) \cup {ino})
          = Cardinality(Absent(gpRedMR)) + 1
    BY <2>1, Finite, FS_AddElement
  <2>. QED  BY <1>2, <2>1, <2>2 DEF IInv, InodeCounts
<1>7. SlotsInv'
  <2>1. OneSlot(gpRedMR')
    BY <1>4 DEF IInv, SlotsInv, OneSlot, Slots
  <2>. QED  BY <1>2, <1>5, <2>1, Regions DEF IInv, SlotsInv
<1>8. TypeOK'
  BY TypeInductive DEF Next
<1>9. CommitInv'
  BY <1>2 DEF IInv, CommitInv, InodeFree, Writeable
<1>. QED  BY <1>2, <1>3, <1>6, <1>7, <1>8, <1>9 DEF IInv

-----------------------------------------------------------------------------
(* The steps of the volume preserve the invariant.                         *)

(* A transaction point makes the almost free blocks free, and the working  *)
(* metaroot the committed one.                                             *)
LEMMA CommitPreserves ==
  ASSUME IInv, CommitWorking, TypeOK', fReadOnly' = fReadOnly
  PROVE  IInv'
<1>1. CASE fBranched
  <2>1. gpRedMR' = Transacted /\ cmtMR' = Transacted
        /\ ulAlmostFreeBlocks' = 0 /\ fBranched' = FALSE
    BY <1>1 DEF CommitWorking
  <2>2. TypeOK
    BY DEF IInv
  <2>3. /\ Transacted.abEntries = gpRedMR.abEntries
        /\ Transacted.ulFreeBlocks = gpRedMR.ulFreeBlocks + ulAlmostFreeBlocks
        /\ Transacted.ulFreeInodes = gpRedMR.ulFreeInodes
    BY <2>2, TransactedFields
  <2>4. BlockCounts'
    <3>1. /\ FreeBlocks' = FreeBlocks \cup AlmostFree
          /\ CommittedFree' = FreeBlocks \cup AlmostFree
          /\ AlmostFree' = {}
          /\ FreeBlocks \cap AlmostFree = {}
      BY <2>1, <2>3 DEF FreeBlocks, AlmostFree, CommittedFree, Allocated
    <3>2. Cardinality(FreeBlocks \cup AlmostFree)
            = Cardinality(FreeBlocks) + Cardinality(AlmostFree)
      <4>1. Cardinality(FreeBlocks \cup AlmostFree)
              = Cardinality(FreeBlocks) + Cardinality(AlmostFree)
                  - Cardinality(FreeBlocks \cap AlmostFree)
        BY Finite, FS_Union
      <4>2. Cardinality(FreeBlocks \cap AlmostFree) = 0
        BY <3>1, FS_EmptySet
      <4>. QED  BY <4>1, <4>2, Finite
    <3>3. Cardinality({}) = 0
      BY FS_EmptySet
    <3>. QED  BY <2>1, <2>3, <3>1, <3>2, <3>3 DEF IInv, BlockCounts
  <2>5. InodeCounts' /\ SlotsInv'
    <3>1. \A b \in InodeBlocks :
            Allocated(Transacted, b) <=> Allocated(gpRedMR, b)
      BY <2>3 DEF Allocated
    <3>2. /\ Absent(Transacted) = Absent(gpRedMR)
          /\ OneSlot(Transacted) <=> OneSlot(gpRedMR)
          /\ InodeExists(Transacted, INODE_ROOTDIR)
                <=> InodeExists(gpRedMR, INODE_ROOTDIR)
      BY <3>1, InodesUnaffected, Regions
    <3>. QED  BY <2>1, <2>3, <3>2 DEF IInv, InodeCounts, SlotsInv
  <2>. QED  BY <2>1, <2>4, <2>5 DEF IInv, CommitInv
<1>2. CASE ~fBranched
  <2>1. /\ UNCHANGED <<gpRedMR, cmtMR, ulAlmostFreeBlocks>>
        /\ fBranched' = FALSE
        /\ gpRedMR = cmtMR
    BY <1>2 DEF CommitWorking, IInv, CommitInv
  <2>. QED
    BY <2>1 DEF IInv, CommitInv, BlockCounts, InodeCounts, SlotsInv,
                FreeBlocks, AlmostFree, CommittedFree
<1>. QED  BY <1>1, <1>2

(* Reading the committed metaroot back makes both metaroots equal to it.   *)
LEMMA MountMetarootPreserves ==
  ASSUME IInv, MountMetaroot, TypeOK', fReadOnly' = FALSE
  PROVE  IInv'
<1>1. gpRedMR' = cmtMR /\ cmtMR' = cmtMR /\ ulAlmostFreeBlocks' = 0
      /\ fMounted' = TRUE
  BY DEF MountMetaroot
<1>2. BlockCounts'
  <2>1. /\ FreeBlocks' = CommittedFree
        /\ CommittedFree' = CommittedFree
        /\ AlmostFree' = {}
    BY <1>1 DEF FreeBlocks, AlmostFree, CommittedFree, Allocated
  <2>2. Cardinality({}) = 0
    BY FS_EmptySet
  <2>. QED  BY <1>1, <2>1, <2>2 DEF IInv, BlockCounts
<1>3. InodeCounts' /\ SlotsInv'
  BY <1>1 DEF IInv, InodeCounts, SlotsInv
<1>4. CommitInv'
  BY <1>1 DEF CommitInv
<1>. QED  BY <1>2, <1>3, <1>4 DEF IInv

(* The metaroot a format writes when no almost free block is pending.      *)
Formatted ==
  /\ TypeOK
  /\ fReadOnly = FALSE
  /\ fBranched = FALSE
  /\ gpRedMR = RootMetaRoot(ulBlocksAllocable)
  /\ cmtMR = gpRedMR
  /\ ulAlmostFreeBlocks = 0

(* The state RedVolFormat leaves satisfies the inductive invariant.        *)
LEMMA FormattedState == Formatted => IInv
<1>. SUFFICES ASSUME Formatted PROVE IInv
  OBVIOUS
<1>. USE DEF Formatted
<1>1. /\ gpRedMR.abEntries = {InodeBlock(INODE_ROOTDIR, 0)}
      /\ gpRedMR.ulFreeBlocks = ulBlocksAllocable
      /\ gpRedMR.ulFreeInodes = ulInodeCount - 1
  BY RootFields, Regions
<1>2. \A i \in Inodes, w \in Slots :
        Allocated(gpRedMR, InodeBlock(i, w)) <=> i = INODE_ROOTDIR /\ w = 0
  BY <1>1, SlotLayout, Regions DEF Allocated, Slots
<1>3. BlockCounts
  <2>1. \A b \in AllocableBlocks : ~Allocated(gpRedMR, b)
    BY <1>1, SlotLayout, Regions DEF Allocated, Slots
  <2>2. /\ FreeBlocks = AllocableBlocks
        /\ CommittedFree = AllocableBlocks
        /\ AlmostFree = {}
    BY <2>1 DEF FreeBlocks, CommittedFree, AlmostFree
  <2>3. Cardinality({}) = 0
    BY FS_EmptySet
  <2>. QED  BY <1>1, <2>2, <2>3, AreaSizes DEF BlockCounts
<1>4. InodeCounts
  <2>1. Absent(gpRedMR) = Inodes \ {INODE_ROOTDIR}
    BY <1>2 DEF Absent, InodeExists, Slots
  <2>2. Cardinality(Inodes \ {INODE_ROOTDIR}) = ulInodeCount - 1
    BY AreaSizes, Regions, FS_RemoveElement
  <2>. QED  BY <1>1, <2>1, <2>2 DEF InodeCounts
<1>5. SlotsInv
  BY <1>2, Regions DEF SlotsInv, OneSlot, InodeExists, Slots
<1>6. CommitInv
  BY DEF CommitInv
<1>. QED  BY <1>3, <1>4, <1>5, <1>6 DEF IInv

(* The inductive invariant holds initially.                                *)
LEMMA InvInit == Init => IInv
BY TypeInit, FormattedState DEF Init, Formatted

(* Formatting again keeps the inductive invariant when the last unmount    *)
(* left no almost free blocks behind.                                      *)
LEMMA FormatPreserves ==
  ASSUME IInv, Format
  PROVE  IInv'
<1>1. ulAlmostFreeBlocks = 0
  <2>1. gpRedMR = cmtMR
    BY DEF IInv, CommitInv, Format
  <2>2. AlmostFree = {}
    BY <2>1 DEF AlmostFree
  <2>. QED  BY <2>2, FS_EmptySet DEF IInv, BlockCounts
<1>2. ulBlocksAllocable + ulAlmostFreeBlocks = ulBlocksAllocable
  BY <1>1, Regions
<1>3. TypeOK'
  BY TypeInductive DEF IInv, Next
<1>4. Formatted'
  BY <1>2, <1>3 DEF Format, Formatted
<1>5. (Formatted => IInv)'
  BY FormattedState, PTL
<1>. QED  BY <1>4, <1>5

(* Every step keeps the inductive invariant when an unmount is a           *)
(* transaction point.                                                      *)
LEMMA InvInductive ==
  fTransactUmount = TRUE => (IInv /\ [Next]_vars => IInv')
<1> SUFFICES ASSUME fTransactUmount = TRUE, IInv, [Next]_vars PROVE IInv'
  OBVIOUS
<1>0. TypeOK' /\ fReadOnly = FALSE
  BY TypeInductive DEF IInv
<1>1. CASE AllocBlock
  BY <1>1, AllocBlockPreserves
<1>2. ASSUME NEW block \in AllocableBlocks, FreeBlock(block) PROVE IInv'
  BY <1>2, FreeBlockPreserves
<1>3. CASE InodeCreate
  BY <1>3, InodeCreatePreserves
<1>4. ASSUME NEW ino \in Inodes, InodeBranch(ino) PROVE IInv'
  BY <1>4, InodeBranchPreserves
<1>5. ASSUME NEW ino \in FreeableInodes, InodeFree(ino) PROVE IInv'
  BY <1>5, InodeFreePreserves
<1>6. CASE Transact
  BY <1>0, <1>6, CommitPreserves DEF Transact
<1>7. CASE Rollback
  BY <1>0, <1>7, MountMetarootPreserves DEF Rollback
<1>8. CASE Mount
  BY <1>0, <1>8, MountMetarootPreserves DEF Mount
<1>9. CASE Unmount
  BY <1>0, <1>9, CommitPreserves DEF Unmount
<1>10. CASE Format
  BY <1>10, FormatPreserves
<1>11. CASE UNCHANGED vars
  BY <1>11 DEF vars, IInv, TypeOK, BlockCounts, InodeCounts, SlotsInv,
     CommitInv, FreeBlocks, AlmostFree, CommittedFree
<1>. QED
  BY <1>1, <1>2, <1>3, <1>4, <1>5, <1>6, <1>7, <1>8, <1>9, <1>10, <1>11
     DEF Next

(* The inductive invariant holds in every reachable state when an unmount  *)
(* is a transaction point.                                                 *)
LEMMA Invariance == fTransactUmount = TRUE => (Spec => []IInv)
<1> SUFFICES ASSUME fTransactUmount = TRUE PROVE Spec => []IInv
  OBVIOUS
<1>1. IInv /\ [Next]_vars => IInv'
  BY InvInductive
<1>. QED  BY <1>1, InvInit, PTL DEF Spec

(* The free block and almost free counts agree with the bitmaps, for every *)
(* layout, when an unmount is a transaction point.                         *)
THEOREM CountersExact ==
  ASSUME fTransactUmount = TRUE
  PROVE  Spec => [](FreeCountsExact /\ CommittedCountsExact)
<1>1. IInv => FreeCountsExact /\ CommittedCountsExact
  BY DEF IInv, BlockCounts, InodeCounts, FreeCountsExact,
         CommittedCountsExact, CommittedFree, Absent
<1>. QED  BY <1>1, Invariance, PTL

(* The consistency checks of imap.c and inode.c never turn the volume      *)
(* read-only, whatever sequence of operations it is put through.           *)
THEOREM NeverCritical ==
  ASSUME fTransactUmount = TRUE
  PROVE  Spec => []NoCriticalError
<1>1. IInv => NoCriticalError
  BY DEF IInv, NoCriticalError
<1>. QED  BY <1>1, Invariance, PTL

(* Every inode keeps one of the slot shapes RedInodeBranch relies on: its  *)
(* committed slot is never its writeable one.                              *)
THEOREM InodeSlotsCorrect ==
  ASSUME fTransactUmount = TRUE
  PROVE  Spec => []SlotsWellFormed
<1>1. IInv => SlotsWellFormed
  <2> SUFFICES ASSUME IInv, NEW ino \in Inodes
               PROVE  \E w \in Slots :
                 LET this  == BlockState(InodeBlock(ino, w))
                     other == BlockState(InodeBlock(ino, 1 - w))
                 IN  \/ this = "NEW"   /\ other \in {"FREE", "AFREE"}
                     \/ this = "USED"  /\ other = "FREE"
                     \/ this = "AFREE" /\ other = "FREE"
                     \/ this = "FREE"  /\ other = "FREE"
    BY DEF SlotsWellFormed
  <2>1. 0 \in Slots /\ 1 \in Slots /\ 1 - 0 = 1 /\ 1 - 1 = 0
    BY DEF Slots
  <2>. QED  BY <2>1 DEF IInv, SlotsInv, OneSlot, BlockState
<1>. QED  BY <1>1, Invariance, PTL

(* The working metaroot can differ from the committed one only when        *)
(* fBranched is set, so a transaction point is never skipped wrongly.      *)
THEOREM BranchedFlagCorrect ==
  ASSUME fTransactUmount = TRUE
  PROVE  Spec => []UnbranchedMeansCommitted
<1>1. IInv => UnbranchedMeansCommitted
  BY DEF IInv, CommitInv, UnbranchedMeansCommitted
<1>. QED  BY <1>1, Invariance, PTL

(* When blocks wait for a transaction point to become free, fBranched is   *)
(* set: the transaction point CoreFull asks for is not skipped, and it     *)
(* frees them.                                                             *)
THEOREM FullVolumeReclaims ==
  ASSUME fTransactUmount = TRUE
  PROVE  Spec => []FullVolumeCanReclaim
<1>1. IInv => FullVolumeCanReclaim
  <2> SUFFICES ASSUME IInv, ulAlmostFreeBlocks > 0 PROVE fBranched
    BY DEF FullVolumeCanReclaim
  <2>1. Cardinality(AlmostFree) # 0
    BY DEF IInv, BlockCounts, TypeOK
  <2>2. AlmostFree # {}
    BY <2>1, FS_EmptySet
  <2>. QED  BY <2>2 DEF AlmostFree, IInv, CommitInv
<1>. QED  BY <1>1, Invariance, PTL
=============================================================================
