------------------------------- MODULE Layout -------------------------------
(***************************************************************************)
(* The block layout of a mounted volume, as RedVolInitBlockLayout          *)
(* computes it once the master block has been read: the inode table (two   *)
(* blocks per inode) follows the fixed metadata, and every block after it  *)
(* is allocable.  The block numbers of the inode table and of the          *)
(* allocable area are the ones the imap holds a bit for.                   *)
(***************************************************************************)
EXTENDS Integers, FiniteSets

CONSTANTS
  ulInodeTableStartBN,   \* first block of the inode table
  ulInodeCount,          \* inodes on disk, the root directory included
  ulBlockCount           \* blocks of the volume

\* Inodes 0 and 1 do not exist on disk; inode 2 is the root directory.
INODE_INVALID     == 0
INODE_FIRST_VALID == 2
INODE_ROOTDIR     == INODE_FIRST_VALID
INODE_FIRST_FREE  == INODE_FIRST_VALID + 1

ulFirstAllocableBN == ulInodeTableStartBN + 2 * ulInodeCount
ulBlocksAllocable  == ulBlockCount - ulFirstAllocableBN

\* The master block and the two metaroots are blocks 0, 1 and 2; a volume has
\* at least one inode and, to be of any use, at least one allocable block.
ASSUME LayoutAssumption ==
  /\ ulInodeTableStartBN \in Nat /\ ulInodeTableStartBN >= 3
  /\ ulInodeCount \in Nat /\ ulInodeCount >= 1
  /\ ulBlockCount \in Nat /\ ulBlockCount > ulFirstAllocableBN

Inodes          == INODE_FIRST_VALID .. (INODE_FIRST_VALID + ulInodeCount - 1)
FreeableInodes  == Inodes \ {INODE_ROOTDIR}
InodeBlocks     == ulInodeTableStartBN .. (ulFirstAllocableBN - 1)
AllocableBlocks == ulFirstAllocableBN .. (ulBlockCount - 1)
ImapBlocks      == ulInodeTableStartBN .. (ulBlockCount - 1)

\* Every inode has two blocks ("slots"), 0 and 1, side by side in the table.
Slots == 0 .. 1
InodeBlock(ino, which) ==
  ulInodeTableStartBN + (ino - INODE_FIRST_VALID) * 2 + which
=============================================================================
