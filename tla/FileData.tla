------------------------------- MODULE FileData -------------------------------
(***************************************************************************)
(* File contents (inodedata.c) and the entry points of the core that read, *)
(* write, truncate and reserve (core.c), as operators on the state v of    *)
(* one volume.  An operator for a function returns [ret, v], the status    *)
(* and the volume after it, and more fields where it has results.          *)
(*                                                                         *)
(* A block holds BLOCK_SIZE units: bytes of a file in a data block, block  *)
(* numbers in an indirect or double indirect node.  v.blk is what a buffer *)
(* of the block would show.  Blocks come from the imap of EImap.           *)
(***************************************************************************)
EXTENDS EImap, Sequences

CONSTANTS
  Files,                 \* their inode numbers
  BLOCK_SIZE, INDIR_ENTRIES,
  DIRECT_POINTERS, INDIRECT_POINTERS, DINDIR_POINTERS,
  UINT32_MAX,            \* the most data blocks of a file
  RESERVED_BLOCKS        \* kept for truncate and delete

BLOCK_SPARSE        == 0
COORD_ENTRY_INVALID == -1

ASSUME FileDataAssumption ==
  /\ IsFiniteSet(Files) /\ Files # {}
  /\ INDIR_ENTRIES \in Nat \ {0} /\ BLOCK_SIZE \in Nat /\ BLOCK_SIZE >= INDIR_ENTRIES
  /\ {DIRECT_POINTERS, INDIRECT_POINTERS, DINDIR_POINTERS, RESERVED_BLOCKS} \subseteq Nat
  /\ UINT32_MAX \in Nat /\ UINT32_MAX > DIRECT_POINTERS + INDIRECT_POINTERS * INDIR_ENTRIES

INODE_ENTRIES      == DIRECT_POINTERS + INDIRECT_POINTERS + DINDIR_POINTERS
INODE_INDIR_BLOCKS == INDIRECT_POINTERS * INDIR_ENTRIES
DINDIR_DATA_BLOCKS == INDIR_ENTRIES * INDIR_ENTRIES
INODE_DATA_BLOCKS  ==
  Min({DIRECT_POINTERS + INODE_INDIR_BLOCKS + DINDIR_POINTERS * DINDIR_DATA_BLOCKS, UINT32_MAX})
INODE_SIZE_MAX     == BLOCK_SIZE * INODE_DATA_BLOCKS
INODE_MAX_DEPTH    == IF DINDIR_POINTERS > 0 THEN 3 ELSE IF INDIRECT_POINTERS > 0 THEN 2 ELSE 1

Zeroes == [i \in 0 .. BLOCK_SIZE - 1 |-> 0]

EmptyFile == [ullSize |-> 0, ulBlocks |-> 0,
              aulEntries |-> [e \in 0 .. INODE_ENTRIES - 1 |-> BLOCK_SPARSE]]

\* The inode that a function works on, and the coordinates of its last seek.
NoCoord == [ulInode |-> 0, ulLogicalBlock |-> -1, uInodeEntry |-> -1,
            uDindirEntry |-> COORD_ENTRY_INVALID, uIndirEntry |-> COORD_ENTRY_INVALID,
            ulDindirBlock |-> BLOCK_SPARSE, ulIndirBlock |-> BLOCK_SPARSE,
            ulDataBlock |-> BLOCK_SPARSE]

\* RedVolFormat: of an application's files with the FSE API, else of none.
EmptyVolume ==
 Formatted(
  [ mr |-> EmptyMetaRoot, cmr |-> EmptyMetaRoot, imap |-> <<>>,
    blk |-> [b \in AllocableBlocks |-> Zeroes],
    ino |-> [f \in Files |-> EmptyFile], cino |-> [f \in Files |-> EmptyFile],
    pIno |-> NoCoord, mask |-> {}, fMounted |-> TRUE, fReadOnly |-> FALSE,
    ulReservedInodes |-> 0, ulReservedInodeBlocks |-> 0,
    fUseReservedBlocks |-> FALSE, fUseReservedInodeBlocks |-> FALSE, fAssertFailed |-> FALSE ])

\* step(r, i) for every i from one to another, until one of them fails.
InOrder(r0, from, to, step(_, _)) ==
  LET next(r, i) == IF r.ret = "OK" THEN step(r, i) ELSE r
      upTo[i \in from - 1 .. to] == IF i = from - 1 THEN r0 ELSE next(upTo[i - 1], i)
  IN  IF to < from THEN r0 ELSE upTo[to]

Inode(v)         == v.ino[v.pIno.ulInode]
WithSize(v, size) == [v EXCEPT !.ino[v.pIno.ulInode].ullSize = size]
BlocksOf(size)   == (size + BLOCK_SIZE - 1) \div BLOCK_SIZE

-----------------------------------------------------------------------------
(* Blocks.                                                                 *)

LessAtLeastZero(n, m) == IF n >= m THEN n - m ELSE 0

\* What the call that is running may use of the free blocks.
RedVolFreeBlockCount(v) ==
  LET fixed == LessAtLeastZero(ulFreeBlocks(v), IF v.fUseReservedBlocks THEN 0 ELSE RESERVED_BLOCKS)
      kept  == v.ulReservedInodeBlocks + v.ulReservedInodes * INODE_MAX_DEPTH
  IN  IF v.fUseReservedInodeBlocks THEN fixed ELSE LessAtLeastZero(fixed, kept)

\* RedImapBlockSet of a block that is given back.
FreeBlock(v, b) == RedImapBlockSet(v, b, FALSE)

-----------------------------------------------------------------------------
(* Seeking.                                                                *)

Coord(b) ==
  LET i == b - DIRECT_POINTERS
      d == i - INODE_INDIR_BLOCKS
      at(e, de, ie) == [uInodeEntry |-> e, uDindirEntry |-> de, uIndirEntry |-> ie]
  IN  IF b < DIRECT_POINTERS THEN at(b, COORD_ENTRY_INVALID, COORD_ENTRY_INVALID)
      ELSE IF i < INODE_INDIR_BLOCKS
      THEN at(DIRECT_POINTERS + i \div INDIR_ENTRIES, COORD_ENTRY_INVALID, i % INDIR_ENTRIES)
      ELSE at(DIRECT_POINTERS + INDIRECT_POINTERS + d \div DINDIR_DATA_BLOCKS,
              (d % DINDIR_DATA_BLOCKS) \div INDIR_ENTRIES, d % INDIR_ENTRIES)

\* The nodes above a block are those of the last seek while the coordinates
\* are the same, and those that its parent names where they differ.
SeekCoord(v, b) ==
  LET p == Coord(b)
      c == v.pIno
      fSame == c.uInodeEntry = p.uInodeEntry
      fDindir == p.uDindirEntry # COORD_ENTRY_INVALID
      fIndir  == p.uIndirEntry # COORD_ENTRY_INVALID
      entry == Inode(v).aulEntries[p.uInodeEntry]
  IN  IF c.ulLogicalBlock = b THEN v
      ELSE [v EXCEPT !.pIno =
        [ulInode |-> c.ulInode, ulLogicalBlock |-> b, uInodeEntry |-> p.uInodeEntry,
         uDindirEntry |-> p.uDindirEntry, uIndirEntry |-> p.uIndirEntry,
         ulDindirBlock |-> IF fDindir /\ ~fSame THEN entry ELSE c.ulDindirBlock,
         ulIndirBlock |-> IF fIndir /\ ~fDindir /\ ~fSame THEN entry ELSE c.ulIndirBlock,
         ulDataBlock |-> IF fIndir THEN c.ulDataBlock ELSE entry]]

Pointer(v, node, e) == IF node = BLOCK_SPARSE THEN BLOCK_SPARSE ELSE v.blk[node][e]

SeekInode(v, b) ==
  LET indir(w) == IF w.pIno.uDindirEntry = COORD_ENTRY_INVALID THEN w
                  ELSE [w EXCEPT !.pIno.ulIndirBlock =
                          Pointer(w, w.pIno.ulDindirBlock, w.pIno.uDindirEntry)]
      data(w)  == IF w.pIno.uIndirEntry = COORD_ENTRY_INVALID THEN w
                  ELSE [w EXCEPT !.pIno.ulDataBlock =
                          Pointer(w, w.pIno.ulIndirBlock, w.pIno.uIndirEntry)]
      found(w) == Failed(IF w.pIno.ulDataBlock = BLOCK_SPARSE THEN "ENODATA" ELSE "OK", w)
  IN  IF b >= INODE_DATA_BLOCKS THEN Failed("EINVAL", v)
      ELSE found(data(indir(SeekCoord(v, b))))

\* A seek to a block that may be sparse.
SeekAny(v, b) ==
  LET any(r) == IF r.ret = "ENODATA" THEN Done(r.v) ELSE r IN any(SeekInode(v, b))

-----------------------------------------------------------------------------
(* Branching: a block that the committed state has is written to a copy.   *)

At(c, level) == CASE level = "DINDIR" -> c.ulDindirBlock
                  [] level = "INDIR"  -> c.ulIndirBlock
                  [] level = "DATA"   -> c.ulDataBlock

\* The levels of the current coordinates that a branch of that depth writes.
Levels(c, depth) ==
  SelectSeq(<<"DINDIR", "INDIR", "DATA">>,
    LAMBDA l : CASE l = "DINDIR" -> c.uDindirEntry # COORD_ENTRY_INVALID
                 [] l = "INDIR"  -> c.uIndirEntry # COORD_ENTRY_INVALID /\ depth \in {"INDIR", "DATA"}
                 [] l = "DATA"   -> depth = "DATA")

BranchBlockCost(v, depth) ==
  Len(SelectSeq(Levels(v.pIno, depth), LAMBDA l : ~IsNew(v, At(v.pIno, l))))

BranchOneBlock(v, prev) ==
  LET with(r, b) == [ret |-> r.ret, v |-> r.v, b |-> b]
      copied(w, b) == [w EXCEPT !.blk[b] = IF prev = BLOCK_SPARSE THEN Zeroes ELSE w.blk[prev]]
      reserved(w) == IF ~w.fUseReservedInodeBlocks THEN Done(w)
                     ELSE IF w.ulReservedInodeBlocks = 0 THEN Critical(w)
                     ELSE Done([w EXCEPT !.ulReservedInodeBlocks = @ - 1])
      next(w) == IF prev = BLOCK_SPARSE THEN reserved(w) ELSE FreeBlock(w, prev)
      take(r) == IF r.ret = "OK" THEN with(next(copied(r.v, r.b)), r.b) ELSE with(r, prev)
  IN  IF IsNew(v, prev) THEN with(Done(v), prev) ELSE take(RedImapAllocBlock(v))

\* The parent of a level gets the number of its block.
SetPointer(v, level, b) ==
  LET c == v.pIno
      fInDindir == level = "INDIR" /\ c.uDindirEntry # COORD_ENTRY_INVALID
      fInIndir  == level = "DATA" /\ c.uIndirEntry # COORD_ENTRY_INVALID
      node == IF fInDindir THEN c.ulDindirBlock ELSE c.ulIndirBlock
      e    == IF fInDindir THEN c.uDindirEntry ELSE c.uIndirEntry
  IN  IF fInDindir \/ fInIndir THEN [v EXCEPT !.blk[node][e] = b]
      ELSE [v EXCEPT !.ino[c.ulInode].aulEntries[c.uInodeEntry] = b]

SetCoord(v, level, b) ==
  CASE level = "DINDIR" -> [v EXCEPT !.pIno.ulDindirBlock = b]
    [] level = "INDIR"  -> [v EXCEPT !.pIno.ulIndirBlock = b]
    [] level = "DATA"   -> [v EXCEPT !.pIno.ulDataBlock = b]

CountData(v, fNew) ==
  IF ~fNew THEN Done(v)
  ELSE IF Inode(v).ulBlocks < INODE_DATA_BLOCKS
  THEN Done([v EXCEPT !.ino[v.pIno.ulInode].ulBlocks = @ + 1])
  ELSE Critical(v)

BranchBlock(v, depth) ==
  LET levels == Levels(v.pIno, depth)
      linked(r, l, fNew) ==
        IF r.ret # "OK" THEN Failed(r.ret, r.v)
        ELSE CountData(SetCoord(SetPointer(r.v, l, r.b), l, r.b), fNew)
      branch(w, l) ==
        linked(BranchOneBlock(w, At(w.pIno, l)), l, l = "DATA" /\ At(w.pIno, l) = BLOCK_SPARSE)
      checked(r) == IF r.ret = "OK" THEN r ELSE Failed(r.ret, Critical(r.v).v)
  IN  IF BranchBlockCost(v, depth) > RedVolFreeBlockCount(v) THEN Failed("ENOSPC", v)
      ELSE checked(InOrder(Done(v), 1, Len(levels), LAMBDA r, i : branch(r.v, levels[i])))

-----------------------------------------------------------------------------
(* Reading and writing.                                                    *)

\* The data of a block of a file; zeros for a sparse one (ENODATA).
RedInodeDataSeekAndRead(v, b) ==
  LET found(r) == IF r.ret = "OK" THEN v.blk[r.v.pIno.ulDataBlock] ELSE Zeroes IN found(SeekInode(v, b))

\* Within one block.
ReadUnaligned(v, start, len) ==
  [k \in 1 .. len |-> RedInodeDataSeekAndRead(v, start \div BLOCK_SIZE)[(start % BLOCK_SIZE) + k - 1]]

\* Whole blocks.  Those that are side by side on the volume are read at once.
ReadAligned(v, first, count) ==
  [k \in 1 .. count * BLOCK_SIZE |->
     RedInodeDataSeekAndRead(v, first + (k - 1) \div BLOCK_SIZE)[(k - 1) % BLOCK_SIZE]]

\* As many units as there are before the end of the file.
ReadLength(v, start, len) ==
  IF start >= Inode(v).ullSize THEN 0 ELSE Min({len, Inode(v).ullSize - start})

\* The units that are read: to the end of the first block, whole blocks, and
\* what is left of the last.
RedInodeDataRead(v, start, len) ==
  LET parts(n, head, count) ==
        ReadUnaligned(v, start, head) \o ReadAligned(v, (start + head) \div BLOCK_SIZE, count)
          \o ReadUnaligned(v, start + head + count * BLOCK_SIZE, n - head - count * BLOCK_SIZE)
      after(n, head) == parts(n, head, (n - head) \div BLOCK_SIZE)
      units(n) == after(n, IF start % BLOCK_SIZE = 0 THEN 0 ELSE Min({n, BLOCK_SIZE - (start % BLOCK_SIZE)}))
  IN  units(ReadLength(v, start, len))

\* The unit that the write with this tag has for an offset.
UnitAt(tag, off) == 16 * tag + off

SetUnits(v, from, to, unit(_)) ==
  [v EXCEPT !.blk[v.pIno.ulDataBlock] =
     [i \in 0 .. BLOCK_SIZE - 1 |-> IF i \in from .. to - 1 THEN unit(i) ELSE @[i]]]

\* What a file had after its end must not show when it grows.
ExpandPrepare(v) ==
  LET size  == Inode(v).ullSize
      clear(w) == Done(SetUnits(w, size % BLOCK_SIZE, BLOCK_SIZE, LAMBDA i : 0))
      found(r) == IF r.ret = "ENODATA" THEN Done(r.v)
                  ELSE Then(Then(r, LAMBDA w : BranchBlock(w, "DATA")), clear)
  IN  IF size % BLOCK_SIZE = 0 THEN Done(v) ELSE found(SeekInode(v, size \div BLOCK_SIZE))

\* Within one block.
WriteUnaligned(v, start, len, tag) ==
  LET i == start % BLOCK_SIZE
      copy(w) == Done(SetUnits(w, i, i + len, LAMBDA k : UnitAt(tag, start - i + k)))
  IN  Then(Then(SeekAny(v, start \div BLOCK_SIZE), LAMBDA w : BranchBlock(w, "DATA")), copy)

\* Whole blocks: n of count are written, fewer if the space ends.
WriteAligned(v, first, count, tag) ==
  LET add(w, n)   == [ret |-> w.ret, v |-> w.v, n |-> IF w.ret = "OK" THEN n + 1 ELSE n]
      one(r, k)   == add(WriteUnaligned(r.v, (first + k - 1) * BLOCK_SIZE, BLOCK_SIZE, tag), r.n)
      ended(all)  == IF all.ret = "ENOSPC" /\ all.n > 0 THEN [all EXCEPT !.ret = "OK"] ELSE all
  IN  ended(InOrder([ret |-> "OK", v |-> v, n |-> 0], 1, count, one))

\* Bug: the size is that of a complete write.
GrownToEnd(v, start, len, n) ==
  WithSize(v, IF start + len > Inode(v).ullSize THEN start + len ELSE Inode(v).ullSize)

\* The size after n of len units were written.
Grown(v, start, len, n) ==
  WithSize(v, IF start + n > Inode(v).ullSize THEN start + n ELSE Inode(v).ullSize)

\* n units are written, at least one if it succeeds: the rest finds no space.
RedInodeDataWrite(v, start, ulLen, tag) ==
  LET len     == Min({ulLen, INODE_SIZE_MAX - start})
      head    == Min({len, BLOCK_SIZE - (start % BLOCK_SIZE)})
      fHead   == start % BLOCK_SIZE # 0 \/ len < BLOCK_SIZE
      ended(r, n) == [ret |-> r.ret, n |-> n,
                      v |-> IF r.ret = "OK" THEN Grown(r.v, start, len, n) ELSE r.v]
      tailed(w, n) == IF w.ret = "ENOSPC" THEN ended(Done(w.v), n) ELSE ended(w, len)
      tail(r, n) == IF n = len THEN ended(r, n)
                    ELSE tailed(WriteUnaligned(r.v, start + n, len - n, tag), n)
      blocked(w, n, count) ==
        IF w.ret = "ENOSPC" /\ n > 0 THEN ended(Done(w.v), n)
        ELSE IF w.ret # "OK" \/ w.n < count THEN ended(w, n + w.n * BLOCK_SIZE)
        ELSE tail(w, n + w.n * BLOCK_SIZE)
      middle(r, n) ==
        LET count == (len - n) \div BLOCK_SIZE
        IN  IF r.ret # "OK" THEN ended(r, n)
            ELSE blocked(WriteAligned(r.v, (start + n) \div BLOCK_SIZE, count, tag), n, count)
      begin(r) ==
        IF r.ret # "OK" THEN ended(r, 0)
        ELSE middle(IF fHead THEN WriteUnaligned(r.v, start, head, tag) ELSE r, IF fHead THEN head ELSE 0)
  IN  IF start > INODE_SIZE_MAX \/ (start = INODE_SIZE_MAX /\ ulLen > 0)
      THEN [ret |-> "EFBIG", v |-> v, n |-> 0]
      ELSE IF ulLen = 0 THEN [ret |-> "OK", v |-> v, n |-> 0]
      ELSE begin(IF start > Inode(v).ullSize THEN ExpandPrepare(v) ELSE Done(v))

-----------------------------------------------------------------------------
(* Truncating.                                                             *)

\* A data block, or none, is given back.
TruncDataBlock(v, b) ==
  LET count(w) == IF Inode(w).ulBlocks = 0 THEN Critical(w)
                  ELSE Done([w EXCEPT !.ino[w.pIno.ulInode].ulBlocks = @ - 1])
  IN  IF b = BLOCK_SPARSE THEN Done(v) ELSE Then(FreeBlock(v, b), count)

\* Does a node name a block before that entry?
NamesBefore(v, node, to) == \E e \in 0 .. to - 1 : v.blk[node][e] # BLOCK_SPARSE

\* From the current block to the end of its indirect node, and the node
\* itself if nothing of it is left.
TruncIndir(v) ==
  LET c == v.pIno
      fBranch == NamesBefore(v, c.ulIndirBlock, c.uIndirEntry)
      last == Min({INDIR_ENTRIES, INODE_DATA_BLOCKS - (c.ulLogicalBlock - c.uIndirEntry)}) - 1
      sparse(w, e) == IF fBranch THEN [w EXCEPT !.blk[w.pIno.ulIndirBlock][e] = BLOCK_SPARSE] ELSE w
      one(r, e) == Then(TruncDataBlock(r.v, r.v.blk[r.v.pIno.ulIndirBlock][e]),
                        LAMBDA w : Done(sparse(w, e)))
      freed(r) == [ret |-> r.ret, v |-> r.v, fFreed |-> ~fBranch]
      node(r) == freed(Then(r, LAMBDA w : IF fBranch THEN Done(w) ELSE FreeBlock(w, w.pIno.ulIndirBlock)))
  IN  IF c.ulIndirBlock = BLOCK_SPARSE THEN [ret |-> "OK", v |-> v, fFreed |-> FALSE]
      ELSE node(Then(IF fBranch THEN BranchBlock(v, "INDIR") ELSE Done(v),
                     LAMBDA w : InOrder(Done(w), c.uIndirEntry, last, one)))

\* The same for a double indirect node and the indirect nodes it names.
TruncDindir(v) ==
  LET c       == v.pIno
      fBranch == \/ NamesBefore(v, c.ulDindirBlock, c.uDindirEntry)
                 \/ /\ c.ulIndirBlock # BLOCK_SPARSE
                    /\ NamesBefore(v, c.ulIndirBlock, c.uIndirEntry)
      first   == c.ulLogicalBlock - (c.uIndirEntry + c.uDindirEntry * INDIR_ENTRIES)
      ulBlocksTillMax == INODE_DATA_BLOCKS - first
      last    == Min({INDIR_ENTRIES, (ulBlocksTillMax + INDIR_ENTRIES - 1) \div INDIR_ENTRIES}) - 1
      block(e) == IF e = c.uDindirEntry THEN c.ulLogicalBlock ELSE first + e * INDIR_ENTRIES
      sparse(w, e) == [w EXCEPT !.blk[w.pIno.ulDindirBlock][e] = BLOCK_SPARSE]
      entry(r, e) ==
        IF r.ret # "OK" THEN r
        ELSE Done(Asserted(IF fBranch /\ r.fFreed THEN sparse(r.v, e) ELSE r.v,
                           (e = c.uDindirEntry \/ r.fFreed) /\ (r.fFreed \/ fBranch)))
      one(r, e) ==
        Then(SeekAny(r.v, block(e)),
             LAMBDA w : IF w.pIno.ulIndirBlock = BLOCK_SPARSE THEN Done(w) ELSE entry(TruncIndir(w), e))
      freed(r) == [ret |-> r.ret, v |-> r.v, fFreed |-> ~fBranch]
      node(r) == freed(Then(r, LAMBDA w : IF fBranch THEN Done(w) ELSE FreeBlock(w, w.pIno.ulDindirBlock)))
  IN  IF c.ulDindirBlock = BLOCK_SPARSE THEN [ret |-> "OK", v |-> v, fFreed |-> FALSE]
      ELSE node(Then(IF fBranch THEN BranchBlock(v, "DINDIR") ELSE Done(v),
                     LAMBDA w : InOrder(Done(w), c.uDindirEntry, last, one)))

\* The blocks after the new end: those the inode names, then those of its
\* indirect nodes and of its double indirect nodes.
Shrink(v, size) ==
  LET trunc  == BlocksOf(size)
      indir0 == DIRECT_POINTERS
      dindir0 == indir0 + INODE_INDIR_BLOCKS
      sparse(w, e) == [w EXCEPT !.ino[w.pIno.ulInode].aulEntries[e] = BLOCK_SPARSE]
      direct(r, b) == Then(TruncDataBlock(r.v, Inode(r.v).aulEntries[b]), LAMBDA w : Done(sparse(w, b)))
      entry(r, e) == IF r.ret = "OK" /\ r.fFreed THEN Done(sparse(r.v, e)) ELSE Failed(r.ret, r.v)
      indir(r, b) ==
        IF b # trunc /\ (b - indir0) % INDIR_ENTRIES # 0 THEN r
        ELSE Then(SeekAny(r.v, b), LAMBDA w : entry(TruncIndir(w), w.pIno.uInodeEntry))
      dindir(r, b) ==
        IF b # trunc /\ (b - dindir0) % DINDIR_DATA_BLOCKS # 0 THEN r
        ELSE Then(SeekAny(r.v, b), LAMBDA w : entry(TruncDindir(w), w.pIno.uInodeEntry))
      from(b) == IF trunc > b THEN trunc ELSE b
  IN  InOrder(InOrder(InOrder(Done(v), trunc, indir0 - 1, direct),
                      from(indir0), dindir0 - 1, indir),
              from(dindir0), INODE_DATA_BLOCKS - 1, dindir)

RedInodeDataTruncate(v, size) ==
  LET old == Inode(v).ullSize
  IN  IF size > INODE_SIZE_MAX THEN Failed("EFBIG", v)
      ELSE Then(IF size > old THEN ExpandPrepare(v) ELSE IF size < old THEN Shrink(v, size) ELSE Done(v),
                LAMBDA w : Done(WithSize(w, size)))

-----------------------------------------------------------------------------
(* Reserving (REDCONF_API_POSIX_FRESERVE).                                 *)

\* Bug: the nodes above the blocks are not counted.
CountSparseData(v, offset, len) ==
  LET add(w, n) == [ret |-> w.ret, v |-> w.v, n |-> n + 1]
  IN  InOrder([ret |-> "OK", v |-> v, n |-> 0], offset \div BLOCK_SIZE,
              BlocksOf(offset + len) - 1, LAMBDA r, b : add(SeekAny(r.v, b), r.n))

\* The blocks to allocate so that a region can be written, in which at most
\* the first data block is not sparse: a node counts where it is first met.
CountSparseBlocks(v, offset, len) ==
  LET first == offset \div BLOCK_SIZE
      \* Where the nodes of the first block exist they are met already.
      met(w) ==
        LET c == w.pIno
            entry(has, e) == IF has THEN e ELSE COORD_ENTRY_INVALID
        IN  [ e |-> entry(Inode(w).aulEntries[c.uInodeEntry] # BLOCK_SPARSE, c.uInodeEntry),
              d |-> entry(c.uDindirEntry # COORD_ENTRY_INVALID /\ c.ulIndirBlock # BLOCK_SPARSE, c.uDindirEntry),
              i |-> entry(c.uIndirEntry # COORD_ENTRY_INVALID /\ c.ulDataBlock # BLOCK_SPARSE, c.uIndirEntry) ]
      begin(r) == IF r.ret = "OK" THEN [ret |-> "OK", v |-> r.v, n |-> 0, prev |-> met(r.v)]
                  ELSE [ret |-> r.ret, v |-> r.v, n |-> 0]
      valid(x) == x # COORD_ENTRY_INVALID
      new(c, prev) ==
        (IF prev.e # c.uInodeEntry THEN 1 ELSE 0)
          + (IF valid(c.uDindirEntry) /\ prev.d # c.uDindirEntry THEN 1 ELSE 0)
          + (IF valid(c.uIndirEntry) /\ prev.i # c.uIndirEntry THEN 1 ELSE 0)
      keep(x, old) == IF valid(x) THEN x ELSE old
      count(r, c) ==
        [r EXCEPT !.n = @ + new(c, r.prev),
                  !.prev = [e |-> c.uInodeEntry, d |-> keep(c.uDindirEntry, @.d), i |-> keep(c.uIndirEntry, @.i)]]
      sought(r, w, b) ==
        IF w.ret = "OK" /\ b > first THEN [r EXCEPT !.ret = "EFUBAR", !.v = Critical(w.v).v]
        ELSE IF w.ret \notin {"OK", "ENODATA"} THEN [r EXCEPT !.ret = w.ret]
        ELSE count([r EXCEPT !.v = w.v], w.v.pIno)
      one(r, b) == sought(r, SeekInode(r.v, b), b)
  IN  InOrder(begin(SeekAny(v, first)), first, BlocksOf(offset + len) - 1, one)

RedInodeDataReserve(v, offset, len) ==
  LET reserve(r) ==
        IF r.ret # "OK" THEN Failed(r.ret, r.v)
        ELSE IF r.n + INODE_MAX_DEPTH > RedVolFreeBlockCount(r.v) THEN Failed("ENOSPC", r.v)
        ELSE Done(WithSize([r.v EXCEPT !.ulReservedInodes = @ + 1, !.ulReservedInodeBlocks = @ + r.n],
                           offset + len))
  IN  IF offset # Inode(v).ullSize \/ len = 0 THEN Failed("EINVAL", v)
      ELSE IF offset > INODE_SIZE_MAX \/ INODE_SIZE_MAX - offset < len THEN Failed("EFBIG", v)
      ELSE Then(ExpandPrepare(v), LAMBDA w : reserve(CountSparseBlocks(w, offset, len)))

RedInodeDataUnreserve(v, offset) ==
  LET size == Inode(v).ullSize
      unreserve(r) ==
        IF r.ret # "OK" THEN Failed(r.ret, r.v)
        ELSE IF r.v.ulReservedInodeBlocks < r.n THEN Critical(r.v)
        ELSE Done([r.v EXCEPT !.ulReservedInodes = @ - 1, !.ulReservedInodeBlocks = @ - r.n])
  IN  IF offset > size THEN Failed("EINVAL", v)
      ELSE IF v.ulReservedInodes = 0 THEN Critical(v)
      ELSE unreserve(CountSparseBlocks(v, offset, size - offset))

-----------------------------------------------------------------------------
(* The core.  A call works on an inode that it has mounted.                *)

Mounted(v, f) == [v EXCEPT !.pIno = [NoCoord EXCEPT !.ulInode = f]]
Put(r)        == [r EXCEPT !.v.pIno = NoCoord]

RedVolTransact(v) == [v EXCEPT !.cmr = v.mr, !.cino = v.ino]

\* Freed blocks become free with a transaction point, if full volumes get one.
CoreFull(v) ==
  LET w == IF AlmostFreeBlocks(v) # {} THEN RedVolTransact(v) ELSE v
  IN  IF "VOLFULL" \notin v.mask THEN Failed("ENOSPC", v)
      ELSE Failed(IF ulFreeBlocks(w) <= ulFreeBlocks(v) THEN "ENOSPC" ELSE "OK", w)

CoreAutoTransact(v, event) == Done(IF event \in v.mask THEN RedVolTransact(v) ELSE v)

\* What every call that changes a file begins with.
Writeable(v, f, go) ==
  IF ~v.fMounted THEN Failed("EINVAL", v)
  ELSE IF v.fReadOnly THEN Failed("EROFS", v)
  ELSE IF f \notin Files THEN Failed("EBADF", v) ELSE go

\* A call that found the volume full runs a second time after CoreFull.
Retried(v, call(_)) ==
  LET again(full, r) == IF full.ret = "OK" THEN call(full.v) ELSE [r EXCEPT !.ret = full.ret, !.v = full.v]
      first(r) == IF r.ret = "ENOSPC" THEN again(CoreFull(r.v), r) ELSE r
  IN  first(call(v))

CoreFileWrite(v, f, start, len, tag) == Put(RedInodeDataWrite(Mounted(v, f), start, len, tag))

\* n is the number of units written.
RedCoreFileWrite(v, f, start, len, tag) ==
  LET end(r) == IF r.ret # "OK" THEN [r EXCEPT !.n = 0]
                ELSE [r EXCEPT !.v = CoreAutoTransact(@, "WRITE").v]
      no(err) == [ret |-> err, v |-> v, n |-> 0]
  IN  IF ~v.fMounted THEN no("EINVAL") ELSE IF v.fReadOnly THEN no("EROFS")
      ELSE IF f \notin Files THEN no("EBADF")
      ELSE end(Retried(v, LAMBDA w : CoreFileWrite(w, f, start, len, tag)))

\* Bug: the flag stays set, for the calls that come after.
WriteReservedKeepingFlag(v, f, start, len, tag) ==
  RedCoreFileWrite([v EXCEPT !.fUseReservedInodeBlocks = TRUE], f, start, len, tag)

RedCoreFileWriteReserved(v, f, start, len, tag) ==
  LET end(r) == [r EXCEPT !.v = [Asserted(@, r.ret # "ENOSPC") EXCEPT !.fUseReservedInodeBlocks = FALSE]]
  IN  end(RedCoreFileWrite([v EXCEPT !.fUseReservedInodeBlocks = TRUE], f, start, len, tag))

CoreFileTruncate(v, f, size) ==
  LET end(r) == Put([r EXCEPT !.v.fUseReservedBlocks = FALSE])
  IN  end(RedInodeDataTruncate(
            [Mounted(v, f) EXCEPT !.fUseReservedBlocks = size < v.ino[f].ullSize], size))

RedCoreFileTruncate(v, f, size) ==
  Writeable(v, f, Then(Retried(v, LAMBDA w : CoreFileTruncate(w, f, size)),
                       LAMBDA w : CoreAutoTransact(w, "TRUNCATE")))

CoreFileReserve(v, f, offset, len) == Put(RedInodeDataReserve(Mounted(v, f), offset, len))

RedCoreFileReserve(v, f, offset, len) ==
  Writeable(v, f, Retried(v, LAMBDA w : CoreFileReserve(w, f, offset, len)))

RedCoreFileUnreserve(v, f, offset) ==
  Writeable(v, f, Put(RedInodeDataUnreserve(Mounted(v, f), offset)))

\* How many units are read; RedInodeDataRead says which.
RedCoreFileRead(v, f, start, len) ==
  IF ~v.fMounted THEN [ret |-> "EINVAL", n |-> 0]
  ELSE IF f \notin Files THEN [ret |-> "EBADF", n |-> 0]
  ELSE [ret |-> "OK", n |-> ReadLength(Mounted(v, f), start, len)]

RedCoreFileSizeGet(v, f) ==
  IF ~v.fMounted THEN [ret |-> "EINVAL", size |-> 0]
  ELSE IF f \notin Files THEN [ret |-> "EBADF", size |-> 0]
  ELSE [ret |-> "OK", size |-> v.ino[f].ullSize]

=============================================================================
