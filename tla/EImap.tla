--------------------------------- MODULE EImap ---------------------------------
(***************************************************************************)
(* The external imap (imapextern.c) and the allocation of blocks from it   *)
(* (imap.c), as operators on the state v of one volume.                    *)
(*                                                                         *)
(* The bits of a volume that is too large for the metaroot are in imap     *)
(* nodes.  Every node has two blocks, side by side, and a metaroot has one *)
(* bit for every node, which says in which of the two its copy is.  A node *)
(* is branched when the working metaroot v.mr and the committed one v.cmr  *)
(* name different copies; v.imap is what a buffer of an imap block would   *)
(* show, as the set of blocks whose entries are set.                       *)
(*                                                                         *)
(* The counters of the metaroots are those of Imap: as it shows, the free  *)
(* count is the number of blocks that are free in both.                    *)
(***************************************************************************)
EXTENDS Layout, FiniteSetsExt

CONSTANTS
  IMAPNODE_ENTRIES,
  BYTE                   \* the entries that the search can skip at once, 8

\* RedVolInitBlockLayout: the imap has no bits for itself.
ulImapNodeCount == ((ulBlockCount - 3) + (IMAPNODE_ENTRIES + 2) - 1) \div (IMAPNODE_ENTRIES + 2)
ImapNodes       == 0 .. ulImapNodeCount - 1

ASSUME EImapAssumption ==
  /\ BYTE \in Nat \ {0} /\ IMAPNODE_ENTRIES \in Nat \ {0} /\ IMAPNODE_ENTRIES % BYTE = 0
  /\ ulInodeTableStartBN = 3 + 2 * ulImapNodeCount

Done(v)        == [ret |-> "OK", v |-> v]
Failed(err, v) == [ret |-> err, v |-> v]

Then(r, step(_)) == IF r.ret = "OK" THEN step(r.v) ELSE r

\* A critical error makes the volume read-only.
Critical(v) == Failed("EFUBAR", [v EXCEPT !.fReadOnly = TRUE])

Asserted(v, holds) == IF holds THEN v ELSE [v EXCEPT !.fAssertFailed = TRUE]

ImapNode(b)  == (b - ulInodeTableStartBN) \div IMAPNODE_ENTRIES
ImapEntry(b) == (b - ulInodeTableStartBN) % IMAPNODE_ENTRIES

\* Relative to ulImapStartBN.
RedImapNodeBlock(mr, n) == 2 * n + mr.abEntries[n]

ImapNodeIsBranched(v, n) == v.mr.abEntries[n] # v.cmr.abEntries[n]

Entries(v, mr, n) == v.imap[RedImapNodeBlock(mr, n)]

\* Of the working metaroot if fCurrent, else of the committed one, whose nodes
\* are those of the working one where it has not branched them.
RedImapEBlockGet(v, fCurrent, b) ==
  b \in Entries(v, IF fCurrent \/ ~ImapNodeIsBranched(v, ImapNode(b)) THEN v.mr ELSE v.cmr,
                ImapNode(b))

\* The copy that the committed metaroot does not name becomes the working one.
ImapNodeBranch(v, n) ==
  LET w == [v EXCEPT !.mr.abEntries[n] = 1 - @]
  IN  IF ImapNodeIsBranched(v, n) THEN v
      ELSE [w EXCEPT !.imap[RedImapNodeBlock(w.mr, n)] = Entries(v, v.cmr, n)]

\* To set a bit that is set, or clear one that is clear, is a critical error.
RedImapEBlockSet(v, b, fAllocated) ==
  LET w == ImapNodeBranch(v, ImapNode(b))
      at == RedImapNodeBlock(w.mr, ImapNode(b))
  IN  IF RedImapEBlockGet(w, TRUE, b) = fAllocated THEN Critical(w)
      ELSE Done([w EXCEPT !.imap[at] = IF fAllocated THEN @ \cup {b} ELSE @ \ {b}])

-----------------------------------------------------------------------------

\* The bits of a metaroot.
Bits(v, mr)         == UNION {Entries(v, mr, n) : n \in ImapNodes}
Allocated(v)        == Bits(v, v.mr) \cap AllocableBlocks
FreeBlocks(v)       == AllocableBlocks \ (Bits(v, v.mr) \cup Bits(v, v.cmr))
ulFreeBlocks(v)     == Cardinality(FreeBlocks(v))
AlmostFreeBlocks(v) == (Bits(v, v.cmr) \ Bits(v, v.mr)) \cap AllocableBlocks

\* RedImapBlockState is ALLOCSTATE_NEW.
IsNew(v, b) ==
  b \in AllocableBlocks /\ RedImapEBlockGet(v, TRUE, b) /\ ~RedImapEBlockGet(v, FALSE, b)

\* The counts of free blocks are checked before a bit is changed.
RedImapBlockSet(v, b, fAllocated) ==
  IF /\ b \in AllocableBlocks
     /\ IF fAllocated THEN ulFreeBlocks(v) = 0 ELSE ulFreeBlocks(v) >= ulBlocksAllocable
  THEN Critical(v)
  ELSE RedImapEBlockSet(v, b, fAllocated)

\* From ulBlock on and around, until it is met again.  A byte without a clear
\* bit is skipped as a whole, ulBlock included: the search would not end if it
\* found nothing.  That it is at an end after two rounds is asserted.
RedImapEBlockFindFree(v, ulBlock) ==
  LET free     == FreeBlocks(v)
      byte(b)  == b .. b + BYTE - 1
      fSkip(b) == ImapEntry(b) % BYTE = 0 /\ byte(b) \subseteq Entries(v, v.mr, ImapNode(b))
      step(b)  == IF fSkip(b) THEN b + Min({BYTE, ulBlockCount - b}) ELSE b + 1
      wrap(b)  == IF b = ulBlockCount THEN ulFirstAllocableBN ELSE b
      found[b \in AllocableBlocks, n \in 0 .. 2 * ulBlocksAllocable] ==
        IF b \in free THEN [ret |-> "OK", b |-> b, v |-> v]
        ELSE IF n > 0 /\ b = ulBlock THEN [ret |-> "ENOSPC", b |-> b, v |-> v]
        ELSE IF n = 2 * ulBlocksAllocable THEN [ret |-> "ENOSPC", b |-> b, v |-> Asserted(v, FALSE)]
        ELSE found[wrap(step(b)), n + 1]
  IN  found[ulBlock, 0]

\* Where the next search begins.
AllocNext(b) == IF b + 1 = ulBlockCount THEN ulFirstAllocableBN ELSE b + 1

\* The block is b.  None is found although the count says that there is one:
\* that is critical.
RedImapAllocBlock(v) ==
  LET with(r, b) == [ret |-> r.ret, v |-> r.v, b |-> b]
      set(b)  == with(RedImapBlockSet([v EXCEPT !.mr.ulAllocNextBlock = AllocNext(b)], b, TRUE), b)
      take(r) == IF r.ret = "OK" THEN set(r.b) ELSE with(Failed("EIO", Critical(r.v).v), r.b)
  IN  IF ulFreeBlocks(v) = 0 THEN with(Failed("ENOSPC", v), 0)
      ELSE take(RedImapEBlockFindFree(v, v.mr.ulAllocNextBlock))

EmptyMetaRoot ==
  [abEntries |-> [n \in ImapNodes |-> 0], ulAllocNextBlock |-> ulFirstAllocableBN]

\* RedVolFormat: the nodes are empty, then every inode of the table gets its
\* first slot.
Formatted(v) ==
  LET empty == [v EXCEPT !.mr = EmptyMetaRoot, !.cmr = EmptyMetaRoot,
                         !.imap = [i \in 0 .. 2 * ulImapNodeCount - 1 |-> {}]]
      full == FoldSet(LAMBDA ino, w : RedImapBlockSet(w, InodeBlock(ino, 0), TRUE).v, empty, Inodes)
  IN  [full EXCEPT !.cmr = full.mr]
=============================================================================
