-------------------------------- MODULE MdIter --------------------------------
(***************************************************************************)
(* The iterator over the committed metadata of a volume that is not        *)
(* mounted (mditer.c), over the volumes of FileData with an external imap. *)
(* An iteration is a sequence of steps: <<"READ", b>>, or <<type, b>> when *)
(* the callback is given block b.  A block that cannot be read, or is not  *)
(* the node that it should be, ends it there; the metaroots are both valid *)
(* here.                                                                   *)
(***************************************************************************)
EXTENDS FileData, SequencesExt

ulImapStartBN == 3

\* The steps for the blocks that entries lo to hi name, by what does them.
Each(entry, lo, hi, what(_)) ==
  FlattenSeq([i \in 1 .. hi - lo + 1 |-> IF entry[lo + i - 1] = BLOCK_SPARSE THEN <<>>
                                         ELSE what(entry[lo + i - 1])])

MDIterMB == <<<<"READ", 0>>, <<"MASTER", 0>>>>

\* Both metaroots are valid; v.cmr has the entries of the newer one.
MDIterMR == <<<<"READ", 1>>, <<"METAROOT", 1>>, <<"READ", 2>>, <<"METAROOT", 2>>>>

\* Bug: the first copy of every node.
FirstCopy(v, n) == ulImapStartBN + 2 * n

\* ImapBlock.
MDImapBlock(v, n) == ulImapStartBN + 2 * n + v.cmr.abEntries[n]

MDIterImaps(v) ==
  FlattenSeq([i \in 1 .. ulImapNodeCount |-> <<<<"READ", MDImapBlock(v, i - 1)>>, <<"IMAP", MDImapBlock(v, i - 1)>>>>])

\* The nodes that have the bits of the inode table are kept.
ulInodeImapNodes == (2 * ulInodeCount + IMAPNODE_ENTRIES - 1) \div IMAPNODE_ENTRIES

\* InodeBlock: the slot of the inode that is allocated, the first one if both
\* are, or none.
MDInodeBlock(v, ino) ==
  LET offset == 2 * (ino - INODE_FIRST_VALID)
      n      == offset \div IMAPNODE_ENTRIES
      fBit(k) == InodeBlock(ino, k) \in v.imap[MDImapBlock(v, n) - ulImapStartBN]
  IN  IF n >= ulInodeImapNodes THEN BLOCK_SPARSE
      ELSE IF fBit(0) THEN InodeBlock(ino, 0) ELSE IF fBit(1) THEN InodeBlock(ino, 1) ELSE BLOCK_SPARSE

MDIterDirectoryBlock(b) == <<<<"READ", b>>, <<"DIRECTORY", b>>>>

\* A node comes after what it names; the data of a file is no metadata.
MDIterIndir(v, b, fIsDirectory) ==
  <<<<"READ", b>>>>
    \o (IF fIsDirectory THEN Each(v.blk[b], 0, INDIR_ENTRIES - 1, MDIterDirectoryBlock) ELSE <<>>)
    \o <<<<"INDIR", b>>>>

MDIterDindir(v, b, fIsDirectory) ==
  <<<<"READ", b>>>>
    \o Each(v.blk[b], 0, INDIR_ENTRIES - 1, LAMBDA i : MDIterIndir(v, i, fIsDirectory))
    \o <<<<"DINDIR", b>>>>

\* The inodes of dirs are directories.
MDIterInode(v, ino, dirs) ==
  LET entry == v.cino[ino].aulEntries
      fIsDirectory == ino \in dirs
      indir == DIRECT_POINTERS + INDIRECT_POINTERS
  IN  <<<<"READ", MDInodeBlock(v, ino)>>>>
        \o (IF fIsDirectory THEN Each(entry, 0, DIRECT_POINTERS - 1, MDIterDirectoryBlock) ELSE <<>>)
        \o Each(entry, DIRECT_POINTERS, indir - 1, LAMBDA b : MDIterIndir(v, b, fIsDirectory))
        \o Each(entry, indir, INODE_ENTRIES - 1, LAMBDA b : MDIterDindir(v, b, fIsDirectory))
        \o <<<<"INODE", MDInodeBlock(v, ino)>>>>

MDIterInodes(v, dirs) ==
  FlattenSeq([i \in 1 .. ulInodeCount |->
    IF MDInodeBlock(v, INODE_FIRST_VALID + i - 1) = BLOCK_SPARSE THEN <<>>
    ELSE MDIterInode(v, INODE_FIRST_VALID + i - 1, dirs)])

MDIter(v, dirs) == MDIterMB \o MDIterMR \o MDIterImaps(v) \o MDIterInodes(v, dirs)

\* The steps of the iteration: up to and with the read of a bad block.
RedMetadataIterate(v, dirs, bad) ==
  LET upTo(steps) == IF \E i \in DOMAIN steps : steps[i][1] = "READ" /\ steps[i][2] \in bad
                     THEN [ret |-> "EIO", steps |-> SubSeq(steps, 1,
                             Min({i \in DOMAIN steps : steps[i][1] = "READ" /\ steps[i][2] \in bad}))]
                     ELSE [ret |-> "OK", steps |-> steps]
  IN  IF v.fMounted THEN [ret |-> "EBUSY", steps |-> <<>>] ELSE upTo(MDIter(v, dirs))
=============================================================================
