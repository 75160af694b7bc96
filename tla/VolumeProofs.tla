---------------------------- MODULE VolumeProofs ----------------------------
(***************************************************************************)
(* Proofs about Volume, for every layout, every number of files and        *)
(* offsets and every set of contents: types and copy-on-write whatever     *)
(* fails, what a loss of power leaves, and that the volume implements the  *)
(* transactional store, as long as it is not mounted again from a          *)
(* metaroot which was not flushed.                                         *)
(***************************************************************************)
EXTENDS Volume, FiniteSetTheorems, TLAPS

USE LayoutAssumption, VolumeAssumption

-----------------------------------------------------------------------------
(* The layout.                                                             *)

(* The metaroots, the slots of the files and the allocable blocks are      *)
(* different blocks, and no two files share a slot.                        *)
LEMMA Regions ==
  /\ \A f \in Files, w \in Slots :
       /\ InodeBlock(f, w) \in FileSlots /\ InodeBlock(f, w) \in BufferedBlocks
       /\ InodeBlock(f, w) \in Blocks /\ InodeBlock(f, w) \in ImapBlocks
       /\ InodeBlock(f, w) \notin AllocableBlocks /\ 1 - w \in Slots /\ w # 1 - w
       /\ InodeBlock(f, w) # BLOCK_SPARSE
       /\ \A v \in Slots : v = w \/ v = 1 - w
  /\ \A f, g \in Files, w, v \in Slots :
       InodeBlock(f, w) = InodeBlock(g, v) => f = g /\ w = v
  /\ \A b \in AllocableBlocks :
       /\ b \in BufferedBlocks /\ b \in Blocks /\ b \in ImapBlocks
       /\ b \notin FileSlots /\ b # BLOCK_SPARSE
       /\ Bits!Following(b) \in AllocableBlocks
  /\ \A b \in BufferedBlocks : b \in Blocks /\ b \notin MetarootBlocks
  /\ \A k \in 0 .. 1 : /\ MetarootBlock(k) \in MetarootBlocks /\ MetarootBlock(k) \in Blocks
                       /\ MetarootBlock(k) \notin BufferedBlocks
                       /\ 1 - k \in 0 .. 1 /\ 1 - (1 - k) = k
                       /\ MetarootBlock(k) # MetarootBlock(1 - k)
  /\ \A b \in MetarootBlocks : \E k \in 0 .. 1 : b = MetarootBlock(k)
  /\ \A b \in Blocks : b \in MetarootBlocks \/ b \in FileSlots \/ b \in AllocableBlocks
BY DEF Files, FreeableInodes, Inodes, Slots, InodeBlock, FileSlots, BufferedBlocks, Blocks,
       ImapBlocks, AllocableBlocks, MetarootBlocks, MetarootBlock, BLOCK_NUM_FIRST_METAROOT,
       ulFirstAllocableBN, INODE_FIRST_VALID, INODE_ROOTDIR, BLOCK_SPARSE,
       Bits!Following, Bits!ulFirstAllocableBN

(* The operators of Imap speak of the same blocks.                         *)
LEMMA BitsLayout ==
  /\ Bits!Slots = Slots /\ Bits!ImapBlocks = ImapBlocks
  /\ Bits!AllocableBlocks = AllocableBlocks
  /\ \A f, w : Bits!InodeBlock(f, w) = InodeBlock(f, w)
BY DEF Bits!Slots, Slots, Bits!ImapBlocks, ImapBlocks, Bits!AllocableBlocks, AllocableBlocks,
       Bits!InodeBlock, InodeBlock, Bits!ulFirstAllocableBN, ulFirstAllocableBN,
       Bits!INODE_FIRST_VALID, INODE_FIRST_VALID

(* There are finitely many allocable blocks, so that they can be counted.  *)
LEMMA AllocableFinite == IsFiniteSet(AllocableBlocks)
<1>1. ulFirstAllocableBN \in Int /\ ulBlockCount - 1 \in Int
  BY DEF ulFirstAllocableBN
<1>. QED  BY <1>1, FS_Interval DEF AllocableBlocks

-----------------------------------------------------------------------------
(* The invariants.                                                         *)

(* An inode has at most one slot in a metaroot.                            *)
OneSlot(mr) ==
  \A f \in Files : ~ \A w \in Slots : Bits!Allocated(mr, InodeBlock(f, w))

Metaroots(k) == maybe[MetarootBlock(k)] \cap DiskMetaroots

(* What the types and copy-on-write rest on, whatever fails.               *)
CowInv ==
  /\ TypeOK
  /\ fMounted => /\ gpRedMR \in Bits!MetaRoot /\ OneSlot(gpRedMR)
                 /\ cmtMR \in Bits!MetaRoot /\ OneSlot(cmtMR)
  /\ ~fMounted => buffers = NoBuffers
  /\ \A k \in 0 .. 1 : \A m \in Metaroots(k) : OneSlot(m.body)
  /\ \A b \in DirtyBlocks : ~Bits!Allocated(cmtMR, b)
  /\ step # "idle" => fMounted /\ ~fReadOnly /\ DirtyBlocks = {}
  /\ step \in {"flush", "metaroot"} => ullSequence < SeqMax

Cache == [b \in BufferedBlocks |-> Cached(b)]

(* The allocated slots hold inodes, whose blocks are allocated and their   *)
(* own.                                                                    *)
Sound(mr, data) ==
  LET slots == {b \in FileSlots : Bits!Allocated(mr, b)}
  IN  /\ \A b \in slots : data[b] \in InodeNodes
      /\ \A b \in slots, o \in Offsets :
           data[b][o] # BLOCK_SPARSE => Bits!Allocated(mr, data[b][o])
      /\ \A b, c \in slots, o, p \in Offsets :
           data[b][o] = data[c][p] /\ data[b][o] # BLOCK_SPARSE => b = c /\ o = p

Filled(mr, data) ==
  \A b \in AllocableBlocks : Bits!Allocated(mr, b) => data[b] \in Values

Intact(mr) ==
  /\ Sound(mr, media) /\ Filled(mr, media)
  /\ \A b \in BufferedBlocks : Bits!Allocated(mr, b) => maybe[b] = {media[b]}

(* The metaroots newer than c that metaroot block 1 - k may hold.          *)
Newer(k, c) ==
  {m \in maybe[MetarootBlock(1 - k)] \cap DiskMetaroots : m.ullSequence > c.ullSequence}

(* Metaroot block k holds c, and no loss of power can take that back.  The *)
(* other block may hold a newer state, which is then no less intact.       *)
CommittedIs(k, c) ==
  LET other == MetarootBlock(1 - k)
  IN  /\ c \in DiskMetaroots
      /\ media[MetarootBlock(k)] = c /\ maybe[MetarootBlock(k)] = {c} /\ Intact(c.body)
      /\ Junk \in maybe[other] => ~fAtomicSectorWrite
      /\ \A m \in maybe[other] \cap DiskMetaroots : m.ullSequence # c.ullSequence
      /\ \A m \in Newer(k, c) : m = media[other] /\ Intact(m.body) /\ maybe[other] # {m}

CommittedAt(k) == CommittedIs(k, media[MetarootBlock(k)])

(* The volume is mounted from state c of metaroot block k.                 *)
MountedFrom(k, c) ==
  /\ bCurMR = 1 - k
  /\ CommittedIs(k, c) /\ c.body = cmtMR
  /\ ~fReadOnly => c.ullSequence = IF step = "sync" THEN ullSequence - 2 ELSE ullSequence - 1
  /\ Newer(k, c) # {} => DirtyBlocks = {} /\ (step = "sync" \/ fReadOnly)
  /\ step = "sync" => media[MetarootBlock(1 - k)] =
                        [ullSequence |-> ullSequence - 1, body |-> gpRedMR]
  /\ step \in {"metaroot", "sync"} => Intact(gpRedMR)

MountedInv == \E k \in 0 .. 1 : MountedFrom(k, media[MetarootBlock(k)])

WorkingInv ==
  /\ NoStaleBuffers
  /\ fMounted => Sound(gpRedMR, Cache)
  /\ fMounted /\ ~fReadOnly => Filled(gpRedMR, Cache)
  /\ fMounted => \A b \in BufferedBlocks :
       buffers[b] # Nil /\ ~IsDirty(b) =>
         buffers[b].data = media[b] \/ (fReadOnly /\ b \in AllocableBlocks)

CrashInv ==
  /\ fMounted => MountedInv
  /\ ~fMounted => \E k \in 0 .. 1 : CommittedAt(k)

IInv == CowInv /\ CrashInv /\ WorkingInv

-----------------------------------------------------------------------------
(* Bits and metaroots.                                                     *)

(* A metaroot as a record of the bitmap and the counters, the bitmap as    *)
(* the set of allocated blocks.                                            *)
LEMMA MetaRootFields ==
  /\ Bits!MetaRoot = [ abEntries : SUBSET ImapBlocks, ulFreeBlocks : Nat,
                       ulFreeInodes : Nat, ulAllocNextBlock : AllocableBlocks ]
  /\ \A mr, b : Bits!Allocated(mr, b) <=> b \in mr.abEntries
BY BitsLayout DEF Bits!MetaRoot, Bits!Allocated

(* RedImapBlockSet sets the bit of one block; the free count of a volume   *)
(* that has a free block stays a number.                                   *)
LEMMA AllocatedFields ==
  ASSUME NEW mr \in Bits!MetaRoot, NEW b \in ImapBlocks,
         b \in AllocableBlocks => mr.ulFreeBlocks # 0
  PROVE  /\ Bits!WithBlockAllocated(mr, b) \in Bits!MetaRoot
         /\ Bits!WithBlockAllocated(mr, b).abEntries = mr.abEntries \cup {b}
<1> DEFINE n == IF b \in AllocableBlocks THEN mr.ulFreeBlocks - 1 ELSE mr.ulFreeBlocks
<1>1. Bits!WithBlockAllocated(mr, b) =
        [mr EXCEPT !.abEntries = mr.abEntries \cup {b}, !.ulFreeBlocks = n]
  BY BitsLayout, MetaRootFields DEF Bits!WithBlockAllocated
<1>2. n \in Nat /\ mr.abEntries \cup {b} \in SUBSET ImapBlocks
  BY MetaRootFields
<1> HIDE DEF n
<1>. QED  BY <1>1, <1>2, MetaRootFields

(* RedImapBlockSet clears the bit of one block and the free count does not *)
(* drop.                                                                   *)
LEMMA FreedFields ==
  ASSUME NEW mr \in Bits!MetaRoot, NEW b
  PROVE  /\ Bits!WithBlockFreed(mr, b) \in Bits!MetaRoot
         /\ Bits!WithBlockFreed(mr, b).abEntries = mr.abEntries \ {b}
         /\ Bits!WithBlockFreed(mr, b).ulFreeBlocks >= mr.ulFreeBlocks
<1> DEFINE n == IF b \in AllocableBlocks /\ ~Bits!Allocated(cmtMR, b)
                THEN mr.ulFreeBlocks + 1 ELSE mr.ulFreeBlocks
<1>1. Bits!WithBlockFreed(mr, b) =
        [mr EXCEPT !.abEntries = mr.abEntries \ {b}, !.ulFreeBlocks = n]
  BY BitsLayout, MetaRootFields DEF Bits!WithBlockFreed
<1>2. n \in Nat /\ n >= mr.ulFreeBlocks /\ mr.abEntries \ {b} \in SUBSET ImapBlocks
  BY MetaRootFields
<1> HIDE DEF n
<1>. QED  BY <1>1, <1>2, MetaRootFields

(* Truncation and deletion free a set of blocks.                           *)
LEMMA FreedManyFields ==
  ASSUME NEW mr \in Bits!MetaRoot, NEW freed
  PROVE  /\ FreedMR(mr, freed) \in Bits!MetaRoot
         /\ FreedMR(mr, freed).abEntries = mr.abEntries \ freed
         /\ FreedMR(mr, freed).ulFreeInodes = mr.ulFreeInodes
         /\ Cardinality(AlmostFreed(freed)) \in Nat
<1> DEFINE new == {b \in freed : b \in AllocableBlocks /\ ~Bits!Allocated(cmtMR, b)}
<1>1. /\ Cardinality(new) \in Nat
      /\ Cardinality(AlmostFreed(freed)) \in Nat
  <2>1. new \subseteq AllocableBlocks /\ AlmostFreed(freed) \subseteq AllocableBlocks
    BY DEF AlmostFreed
  <2>. QED  BY <2>1, AllocableFinite, FS_Subset, FS_CardinalityType
<1>2. FreedMR(mr, freed) = [mr EXCEPT !.abEntries = mr.abEntries \ freed,
                                      !.ulFreeBlocks = mr.ulFreeBlocks + Cardinality(new)]
  BY MetaRootFields DEF FreedMR
<1> HIDE DEF new
<1>3. mr.ulFreeBlocks + Cardinality(new) \in Nat
  BY <1>1, MetaRootFields
<1>. QED  BY <1>1, <1>2, <1>3, MetaRootFields

(* The slot an existing inode has.                                         *)
LEMMA CurrentSlotIs ==
  ASSUME NEW mr, OneSlot(mr), NEW f \in Files, Bits!InodeExists(mr, f)
  PROVE  /\ CurrentSlot(mr, f) \in Slots
         /\ InodeBlock(f, CurrentSlot(mr, f)) \in mr.abEntries
         /\ InodeBlock(f, 1 - CurrentSlot(mr, f)) \notin mr.abEntries
         /\ \A w \in Slots : InodeBlock(f, w) \in mr.abEntries => w = CurrentSlot(mr, f)
<1>1. \E w \in Slots : Bits!Allocated(mr, InodeBlock(f, w))
  BY BitsLayout DEF Bits!InodeExists
<1>2. /\ CurrentSlot(mr, f) \in Slots
      /\ InodeBlock(f, CurrentSlot(mr, f)) \in mr.abEntries
  BY <1>1, MetaRootFields DEF CurrentSlot
<1>. QED  BY <1>2, Regions, MetaRootFields DEF OneSlot

(* An inode of which the committed metaroot has at most one slot has one   *)
(* that may be written.                                                    *)
LEMMA WriteableSlot ==
  ASSUME OneSlot(cmtMR), NEW f \in Files, NEW w, w = CHOOSE v \in Slots : Bits!IsWriteableSlot(f, v)
  PROVE  w \in Slots /\ InodeBlock(f, w) \notin cmtMR.abEntries
<1>1. 0 \in Slots /\ 1 \in Slots /\ \A v \in Slots : v = 0 \/ v = 1
  BY DEF Slots
<1>2. \E v \in Slots : Bits!IsWriteableSlot(f, v)
  BY <1>1, BitsLayout DEF OneSlot, Bits!IsWriteableSlot
<1>3. w \in Slots /\ Bits!IsWriteableSlot(f, w)
  BY <1>2
<1>. QED  BY <1>1, <1>3, BitsLayout, MetaRootFields DEF Bits!IsWriteableSlot

(* RedInodeBranch leaves the inode in a slot that is not committed.        *)
LEMMA Branched ==
  ASSUME gpRedMR \in Bits!MetaRoot, OneSlot(gpRedMR), OneSlot(cmtMR),
         NEW f \in Files, FileExists(f), NEW w, w = BranchedSlot(f)
  PROVE  /\ w \in Slots
         /\ InodeBlock(f, w) \notin cmtMR.abEntries
         /\ InodeBranchedMR(f) \in Bits!MetaRoot
         /\ InodeBranchedMR(f).abEntries =
              (gpRedMR.abEntries \ {InodeBlock(f, 1 - w)}) \cup {InodeBlock(f, w)}
         /\ InodeBranchedMR(f).ulFreeBlocks >= gpRedMR.ulFreeBlocks
<1>1. /\ CurrentSlot(gpRedMR, f) \in Slots
      /\ InodeBlock(f, CurrentSlot(gpRedMR, f)) \in gpRedMR.abEntries
      /\ InodeBlock(f, 1 - CurrentSlot(gpRedMR, f)) \notin gpRedMR.abEntries
      /\ \A v \in Slots : InodeBlock(f, v) \in gpRedMR.abEntries => v = CurrentSlot(gpRedMR, f)
  BY CurrentSlotIs DEF FileExists
<1>2. CASE Bits!InodeIsBranched(f)
  <2>1. w = CurrentSlot(gpRedMR, f) /\ InodeBranchedMR(f) = gpRedMR
    BY <1>2 DEF BranchedSlot, InodeBranchedMR
  <2>2. PICK v \in Slots : Bits!BlockState(InodeBlock(f, v)) = "NEW"
    BY <1>2, BitsLayout DEF Bits!InodeIsBranched
  <2>3. InodeBlock(f, v) \in gpRedMR.abEntries /\ InodeBlock(f, v) \notin cmtMR.abEntries
    BY <2>2, MetaRootFields DEF Bits!BlockState
  <2>. QED  BY <1>1, <2>1, <2>3, MetaRootFields
<1>3. CASE ~Bits!InodeIsBranched(f)
  <2>1. w \in Slots /\ InodeBlock(f, w) \notin cmtMR.abEntries
    BY <1>3, WriteableSlot DEF BranchedSlot
  <2>2. InodeBranchedMR(f) = Bits!WithBlockAllocated(
          Bits!WithBlockFreed(gpRedMR, InodeBlock(f, 1 - w)), InodeBlock(f, w))
    BY <1>3 DEF InodeBranchedMR
  <2> DEFINE m == Bits!WithBlockFreed(gpRedMR, InodeBlock(f, 1 - w))
  <2>3. /\ m \in Bits!MetaRoot /\ m.abEntries = gpRedMR.abEntries \ {InodeBlock(f, 1 - w)}
        /\ m.ulFreeBlocks >= gpRedMR.ulFreeBlocks
    BY FreedFields
  <2>4. InodeBlock(f, w) \in ImapBlocks /\ InodeBlock(f, w) \notin AllocableBlocks
    BY <2>1, Regions
  <2> HIDE DEF m
  <2>5. Bits!WithBlockAllocated(m, InodeBlock(f, w)).ulFreeBlocks = m.ulFreeBlocks
    BY <2>3, <2>4, BitsLayout, MetaRootFields DEF Bits!WithBlockAllocated
  <2>. QED  BY <2>1, <2>2, <2>3, <2>4, <2>5, AllocatedFields DEF m
<1>. QED  BY <1>2, <1>3

-----------------------------------------------------------------------------
(* The device and the buffers.                                             *)

DeviceOK ==
  /\ DOMAIN media = Blocks /\ DOMAIN maybe = Blocks
  /\ \A b \in Blocks : maybe[b] \subseteq Contents(b) /\ media[b] \in maybe[b]

BuffersOK ==
  /\ DOMAIN buffers = BufferedBlocks
  /\ \A b \in BufferedBlocks :
       buffers[b] = Nil \/ buffers[b] \in [fDirty : BOOLEAN, data : Contents(b)]

(* What the blocks of each kind hold.                                      *)
LEMMA ContentsOf ==
  /\ \A k \in 0 .. 1 : Contents(MetarootBlock(k)) = DiskMetaroots \cup {Torn, Junk}
  /\ \A b \in FileSlots : Contents(b) = InodeNodes \cup {Torn, Junk}
  /\ \A b \in AllocableBlocks : Contents(b) = Values \cup {Torn, Junk}
  /\ \A b \in Blocks : {Torn, Junk} \subseteq Contents(b)
  /\ \A b \in BufferedBlocks : Contents(b) \subseteq InodeNodes \cup Values \cup {Torn, Junk}
<1>1. \A k \in 0 .. 1 : Contents(MetarootBlock(k)) = DiskMetaroots \cup {Torn, Junk}
  <2>1. \A b \in MetarootBlocks : Contents(b) = DiskMetaroots \cup {Torn, Junk}
    BY Regions DEF Contents, BufferedBlocks
  <2>. QED  BY <2>1, Regions
<1>2. \A b \in FileSlots : Contents(b) = InodeNodes \cup {Torn, Junk}
  BY Regions DEF Contents, BufferedBlocks
<1>3. \A b \in AllocableBlocks : Contents(b) = Values \cup {Torn, Junk}
  BY Regions DEF Contents
<1>. QED  BY <1>1, <1>2, <1>3, Regions DEF BufferedBlocks

(* No buffer is Nil.                                                       *)
LEMMA BufferIsNotNil ==
  /\ \A fDirty \in BOOLEAN, b \in BufferedBlocks : \A data \in Contents(b) :
       Buffer(fDirty, data) # Nil /\ Buffer(fDirty, data) \in [fDirty : BOOLEAN, data : Contents(b)]
  /\ \A fDirty, data : Buffer(fDirty, data).fDirty = fDirty /\ Buffer(fDirty, data).data = data
BY ContentsOf, SentinelAssumption DEF Buffer

(* RedIoWrite of the blocks S.                                             *)
LEMMA WrittenBlocks ==
  ASSUME DeviceOK, NEW S \in SUBSET Blocks, NEW written, DOMAIN written = S,
         \A b \in S : written[b] \in Contents(b), Written(written)
  PROVE  /\ DeviceOK'
         /\ \A b \in S : media'[b] = written[b] /\ maybe'[b] = Unfinished(b) \cup {written[b]}
         /\ \A b \in Blocks \ S : media'[b] = media[b] /\ maybe'[b] = maybe[b]
<1>1. /\ \A b \in S : media'[b] = written[b] /\ maybe'[b] = Unfinished(b) \cup {written[b]}
      /\ \A b \in Blocks \ S : media'[b] = media[b] /\ maybe'[b] = maybe[b]
      /\ DOMAIN media' = Blocks /\ DOMAIN maybe' = Blocks
  BY DEF Written, MediaWith, MaybeWith, @@, DeviceOK
<1>2. \A b \in S : Unfinished(b) \subseteq Contents(b)
  BY ContentsOf DEF Unfinished, DeviceOK
<1>. QED  BY <1>1, <1>2, ContentsOf DEF DeviceOK

(* RedIoWrite of the blocks S succeeded and the write of b fails: what b   *)
(* holds is left open.                                                     *)
LEMMA WriteFailedBlocks ==
  ASSUME DeviceOK, NEW S \in SUBSET Blocks, NEW written, DOMAIN written = S,
         \A c \in S : written[c] \in Contents(c), NEW b \in Blocks \ S, WriteFailed(written, b)
  PROVE  /\ DeviceOK'
         /\ media'[b] \in Unfinished(b) /\ maybe'[b] = Unfinished(b)
         /\ \A c \in S : media'[c] = written[c] /\ maybe'[c] = Unfinished(c) \cup {written[c]}
         /\ \A c \in Blocks \ (S \cup {b}) : media'[c] = media[c] /\ maybe'[c] = maybe[c]
<1>1. PICK left \in Unfinished(b) :
        /\ media' = b :> left @@ MediaWith(written)
        /\ maybe' = b :> Unfinished(b) @@ MaybeWith(written)
  BY DEF WriteFailed
<1>2. /\ media'[b] = left /\ maybe'[b] = Unfinished(b)
      /\ \A c \in S : media'[c] = written[c] /\ maybe'[c] = Unfinished(c) \cup {written[c]}
      /\ \A c \in Blocks \ (S \cup {b}) : media'[c] = media[c] /\ maybe'[c] = maybe[c]
      /\ DOMAIN media' = Blocks /\ DOMAIN maybe' = Blocks
  BY <1>1 DEF MediaWith, MaybeWith, @@, :>, DeviceOK
<1>3. \A c \in S \cup {b} : Unfinished(c) \subseteq Contents(c)
  BY ContentsOf DEF Unfinished, DeviceOK
<1>. QED  BY <1>1, <1>2, <1>3, ContentsOf DEF DeviceOK

(* A single block that cannot be written.                                  *)
LEMMA OneWriteFailed ==
  ASSUME DeviceOK, NEW b \in Blocks, WriteFailed(<<>>, b)
  PROVE  /\ DeviceOK'
         /\ media'[b] \in Unfinished(b) /\ maybe'[b] = Unfinished(b)
         /\ \A c \in Blocks \ {b} : media'[c] = media[c] /\ maybe'[c] = maybe[c]
<1> DEFINE none == <<>>
<1>1. DOMAIN none = {}
  OBVIOUS
<1>2. PICK left \in Unfinished(b) :
        media' = b :> left @@ MediaWith(none) /\ maybe' = b :> Unfinished(b) @@ MaybeWith(none)
  BY DEF WriteFailed
<1> HIDE DEF none
<1>3. DOMAIN MediaWith(none) = Blocks /\ \A c \in Blocks : MediaWith(none)[c] = media[c]
  BY <1>1 DEF MediaWith, @@, DeviceOK
<1>4. DOMAIN MaybeWith(none) = Blocks /\ \A c \in Blocks : MaybeWith(none)[c] = maybe[c]
  BY <1>1 DEF MaybeWith, @@, DeviceOK
<1>5. /\ DOMAIN media' = Blocks /\ DOMAIN maybe' = Blocks
      /\ media'[b] = left /\ maybe'[b] = Unfinished(b)
      /\ \A c \in Blocks \ {b} : media'[c] = media[c] /\ maybe'[c] = maybe[c]
  BY <1>2, <1>3, <1>4 DEF @@, :>
<1>6. Unfinished(b) \subseteq Contents(b)
  BY ContentsOf DEF Unfinished, DeviceOK
<1>. QED  BY <1>5, <1>6 DEF DeviceOK

(* RedIoFlush leaves one possible content of every block, the one that is  *)
(* read.                                                                   *)
LEMMA FlushedBlocks ==
  ASSUME DeviceOK, Flushed
  PROVE  /\ DeviceOK' /\ media' = media
         /\ \A b \in Blocks : maybe'[b] = {media[b]}
BY DEF DeviceOK, Flushed

(* A step without I/O leaves the device as it is.                          *)
LEMMA NoIoBlocks ==
  ASSUME DeviceOK, NoIo
  PROVE  DeviceOK' /\ media' = media /\ maybe' = maybe
BY DEF DeviceOK, NoIo, devVars

(* A loss of power leaves one of the contents a block may have.            *)
LEMMA RemainingBlocks ==
  ASSUME DeviceOK, NEW m \in Remains, media' = m, maybe' = [b \in Blocks |-> {m[b]}]
  PROVE  /\ DeviceOK'
         /\ \A b \in Blocks : media'[b] \in maybe[b] /\ maybe'[b] = {media'[b]}
<1>1. PICK m0 \in maybe[MetarootBlock(0)], m1 \in maybe[MetarootBlock(1)],
           lost \in SUBSET {b \in BufferedBlocks : Junk \in maybe[b]} :
        m = [b \in Blocks |-> CASE b = MetarootBlock(0) -> m0
                                [] b = MetarootBlock(1) -> m1
                                [] b \in lost           -> Junk
                                [] OTHER                -> media[b]]
  BY DEF Remains
<1>2. \A b \in Blocks : m[b] \in maybe[b]
  <2> SUFFICES ASSUME NEW b \in Blocks PROVE m[b] \in maybe[b]
    OBVIOUS
  <2>1. CASE b = MetarootBlock(0)
    BY <1>1, <2>1
  <2>2. CASE b = MetarootBlock(1)
    BY <1>1, <2>2, Regions
  <2>3. CASE b # MetarootBlock(0) /\ b # MetarootBlock(1)
    BY <1>1, <2>3 DEF DeviceOK
  <2>. QED  BY <2>1, <2>2, <2>3
<1>3. DOMAIN m = Blocks
  BY <1>1
<1>. QED  BY <1>2, <1>3 DEF DeviceOK

-----------------------------------------------------------------------------
(* What the operations on files do to bits and buffers.                    *)

(* TypeOK, with device and buffers apart.                                  *)
LEMMA TypeParts ==
  TypeOK <=> /\ DeviceOK /\ BuffersOK
             /\ gpRedMR \in MetaRoots /\ cmtMR \in MetaRoots
             /\ bCurMR \in 0 .. 1 /\ ullSequence \in 0 .. SeqMax
             /\ ulAlmostFreeBlocks \in Nat
             /\ fBranched \in BOOLEAN /\ fMounted \in BOOLEAN /\ fReadOnly \in BOOLEAN
             /\ step \in {"idle", "flush", "metaroot", "sync"}
BY DEF TypeOK, DeviceOK, BuffersOK

(* The inode of a file that is mounted.                                    *)
LEMMA NodeOfFile ==
  ASSUME BuffersOK, DeviceOK, OneSlot(gpRedMR), NEW f \in Files, InodeMounted(f)
  PROVE  InodeNode(f) \in InodeNodes
<1>1. InodeBlock(f, CurrentSlot(gpRedMR, f)) \in FileSlots
  BY CurrentSlotIs, Regions DEF InodeMounted, FileExists
<1>2. Cached(InodeBlock(f, CurrentSlot(gpRedMR, f))) \in InodeNodes \cup {Torn, Junk}
  BY <1>1, ContentsOf, Regions DEF Cached, BuffersOK, DeviceOK, BufferedBlocks
<1>. QED  BY <1>2 DEF InodeMounted, IsValidNode, InodeNode

(* The buffers once an inode was branched and changed and the blocks D     *)
(* dropped, a new buffer of block b put before them or not.                *)
BuffersAfter(f, node, D, front, b, v) ==
  IF front = 1 THEN b :> Buffer(TRUE, v) @@ InodeBuffers(f, node) @@ DroppedBuffers(D) @@ buffers
           ELSE InodeBuffers(f, node) @@ DroppedBuffers(D) @@ buffers

BuffersAre(bs, s, t, node, D, front, b, v) ==
  /\ DOMAIN bs = BufferedBlocks
  /\ bs[s] = Buffer(TRUE, node)
  /\ bs[t] = Nil
  /\ \A c \in D : (front = 1 /\ c = b) \/ bs[c] = Nil
  /\ front = 1 => bs[b] = Buffer(TRUE, v)
  /\ \A c \in BufferedBlocks \ (D \cup {s, t}) : (front = 1 /\ c = b) \/ bs[c] = buffers[c]
  /\ \A c \in BufferedBlocks :
       bs[c] = Nil \/ bs[c] \in [fDirty : BOOLEAN, data : Contents(c)]

(* The buffers after an operation on a file: new buffer for its data, new  *)
(* buffer for its inode, the freed blocks dropped.                         *)
LEMMA ChangedBuffers ==
  ASSUME BuffersOK, NEW f \in Files, BranchedSlot(f) \in Slots, NEW node \in InodeNodes,
         NEW D \in SUBSET AllocableBlocks, NEW front \in 0 .. 1,
         NEW b \in AllocableBlocks, NEW v \in Values
  PROVE  BuffersAre(BuffersAfter(f, node, D, front, b, v), InodeBlock(f, BranchedSlot(f)),
                    InodeBlock(f, 1 - BranchedSlot(f)), node, D, front, b, v)
<1> DEFINE bs == BuffersAfter(f, node, D, front, b, v)
           w == BranchedSlot(f)
           s == InodeBlock(f, w)
           t == InodeBlock(f, 1 - w)
<1>1. s \in FileSlots /\ t \in FileSlots /\ s # t /\ s \notin AllocableBlocks /\ t \notin AllocableBlocks
      /\ s \in BufferedBlocks /\ t \in BufferedBlocks
  BY Regions
<1>2. AllocableBlocks \subseteq BufferedBlocks
  BY Regions
<1>3. InodeBuffers(f, node) = [c \in {s, t} |-> IF c = s THEN Buffer(TRUE, node) ELSE Nil]
  BY <1>1 DEF InodeBuffers, @@, :>
<1> HIDE DEF s, t, w, bs
<1>4. /\ DOMAIN bs = BufferedBlocks
      /\ bs[s] = Buffer(TRUE, node) /\ bs[t] = Nil
      /\ \A c \in D : (front = 1 /\ c = b) \/ bs[c] = Nil
      /\ front = 1 => bs[b] = Buffer(TRUE, v)
      /\ \A c \in BufferedBlocks \ (D \cup {s, t}) : (front = 1 /\ c = b) \/ bs[c] = buffers[c]
  <2> DEFINE i == InodeBuffers(f, node)
             d == DroppedBuffers(D)
             a == b :> Buffer(TRUE, v)
  <2>1. /\ DOMAIN i = {s, t} /\ i[s] = Buffer(TRUE, node) /\ i[t] = Nil
        /\ DOMAIN d = D /\ \A c \in D : d[c] = Nil
        /\ DOMAIN a = {b} /\ a[b] = Buffer(TRUE, v)
    BY <1>1, <1>3 DEF DroppedBuffers, :>
  <2> HIDE DEF i, d, a
  <2>2. CASE front = 1
    <3>1. bs = a @@ i @@ d @@ buffers
      BY <2>2 DEF a, i, d, bs, BuffersAfter
    <3>2. DOMAIN (a @@ i) = {b, s, t} /\ DOMAIN (a @@ i @@ d) = {b, s, t} \cup D
      BY <2>1 DEF @@
    <3>3. /\ (a @@ i)[b] = Buffer(TRUE, v) /\ (a @@ i)[s] = i[s] /\ (a @@ i)[t] = i[t]
      BY <1>1, <2>1 DEF @@
    <3>4. /\ (a @@ i @@ d)[b] = Buffer(TRUE, v) /\ (a @@ i @@ d)[s] = i[s]
          /\ (a @@ i @@ d)[t] = i[t] /\ \A c \in D : c = b \/ (a @@ i @@ d)[c] = Nil
      BY <1>1, <2>1, <3>2, <3>3, ZenonT(60) DEF @@
    <3> DEFINE x == a @@ i @@ d
    <3>5. bs = x @@ buffers /\ DOMAIN x = {b, s, t} \cup D
      BY <3>1, <3>2
    <3> HIDE DEF x
    <3>6. /\ DOMAIN bs = BufferedBlocks
          /\ \A c \in BufferedBlocks : bs[c] = IF c \in {b, s, t} \cup D THEN x[c] ELSE buffers[c]
      <4>1. {b, s, t} \cup D \cup BufferedBlocks = BufferedBlocks
        BY <1>1, <1>2
      <4>2. DOMAIN bs = {b, s, t} \cup D \cup BufferedBlocks
        BY <3>5 DEF @@, BuffersOK
      <4>. QED  BY <3>5, <4>1, <4>2 DEF @@, BuffersOK
    <3>. QED  BY <1>1, <1>2, <2>1, <2>2, <3>4, <3>6 DEF x
  <2>3. CASE front = 0
    <3>1. bs = i @@ d @@ buffers
      BY <2>3 DEF i, d, bs, BuffersAfter
    <3>2. DOMAIN (i @@ d) = {s, t} \cup D
      BY <2>1 DEF @@
    <3>3. (i @@ d)[s] = i[s] /\ (i @@ d)[t] = i[t] /\ \A c \in D : (i @@ d)[c] = Nil
      BY <1>1, <2>1, <3>2 DEF @@
    <3>4. /\ DOMAIN bs = BufferedBlocks
          /\ \A c \in BufferedBlocks : bs[c] = IF c \in {s, t} \cup D THEN (i @@ d)[c] ELSE buffers[c]
      BY <1>1, <1>2, <3>1, <3>2 DEF @@, BuffersOK
    <3>5. front # 1
      BY <2>3
    <3>. QED  BY <1>1, <1>2, <2>1, <3>3, <3>4, <3>5
  <2>4. front = 0 \/ front = 1
    OBVIOUS
  <2>. QED  BY <2>2, <2>3, <2>4
<1>5. /\ Buffer(TRUE, node) \in [fDirty : BOOLEAN, data : Contents(s)]
      /\ Buffer(TRUE, v) \in [fDirty : BOOLEAN, data : Contents(b)]
  <2>1. node \in Contents(s) /\ v \in Contents(b) /\ b \in BufferedBlocks
    BY <1>1, <1>2, ContentsOf
  <2>. QED  BY <1>1, <2>1, BufferIsNotNil
<1>6. \A c \in BufferedBlocks :
        bs[c] = Nil \/ bs[c] \in [fDirty : BOOLEAN, data : Contents(c)]
  BY <1>4, <1>5 DEF BuffersOK
<1>7. BuffersAre(bs, s, t, node, D, front, b, v)
  BY <1>4, <1>6 DEF BuffersAre
<1>. QED  BY <1>7 DEF bs, s, t, w

(* A write gives the data a block that is not committed.                   *)
LEMMA WriteBits ==
  ASSUME CowInv, Ready, NEW f \in Files, NEW o \in Offsets, NEW b \in AllocableBlocks,
         InodeMounted(f), BranchForWrite(f, o, b)
  PROVE  LET p == InodeNode(f)[o]
             w == BranchedSlot(f)
             branched == (gpRedMR.abEntries \ {InodeBlock(f, 1 - w)}) \cup {InodeBlock(f, w)}
         IN  /\ InodeNode(f) \in InodeNodes /\ p \in AllocableBlocks \cup {BLOCK_SPARSE}
             /\ [InodeNode(f) EXCEPT ![o] = b] \in InodeNodes
             /\ w \in Slots /\ InodeBlock(f, w) \notin cmtMR.abEntries
             /\ b \notin cmtMR.abEntries
             /\ (b = p /\ b \in gpRedMR.abEntries) \/ b \notin gpRedMR.abEntries
             /\ gpRedMR' \in Bits!MetaRoot
             /\ gpRedMR'.abEntries = IF b \in gpRedMR.abEntries THEN branched
                                     ELSE (branched \cup {b}) \ {p}
             /\ ulAlmostFreeBlocks' \in Nat
<1> DEFINE p == InodeNode(f)[o]
           w == BranchedSlot(f)
<1>1. /\ gpRedMR \in Bits!MetaRoot /\ OneSlot(gpRedMR) /\ OneSlot(cmtMR)
      /\ BuffersOK /\ DeviceOK /\ ulAlmostFreeBlocks \in Nat
  BY TypeParts DEF CowInv, Ready
<1>2. InodeNode(f) \in InodeNodes
  BY <1>1, NodeOfFile
<1>3. p \in AllocableBlocks \cup {BLOCK_SPARSE} /\ [InodeNode(f) EXCEPT ![o] = b] \in InodeNodes
  BY <1>2 DEF InodeNodes
<1>4. /\ w \in Slots
      /\ InodeBlock(f, w) \notin cmtMR.abEntries
      /\ InodeBranchedMR(f) \in Bits!MetaRoot
      /\ InodeBranchedMR(f).abEntries =
           (gpRedMR.abEntries \ {InodeBlock(f, 1 - w)}) \cup {InodeBlock(f, w)}
      /\ InodeBranchedMR(f).ulFreeBlocks >= gpRedMR.ulFreeBlocks
  BY <1>1, Branched DEF InodeMounted
<1>5. gpRedMR' = DataBranchedMR(InodeBranchedMR(f), p, b) /\ DataBlockFor(p, b)
  BY DEF BranchForWrite
<1>6. ulAlmostFreeBlocks' \in Nat
  BY <1>1 DEF BranchForWrite, Bits!AlmostFreeAfterFreeing
<1>7. SUFFICES /\ (b = p /\ b \in gpRedMR.abEntries) \/ b \notin gpRedMR.abEntries
               /\ b \notin cmtMR.abEntries
               /\ gpRedMR' \in Bits!MetaRoot
               /\ gpRedMR'.abEntries =
                    LET branched == (gpRedMR.abEntries \ {InodeBlock(f, 1 - w)}) \cup {InodeBlock(f, w)}
                    IN  IF b \in gpRedMR.abEntries THEN branched ELSE (branched \cup {b}) \ {p}
  BY <1>2, <1>3, <1>4, <1>6
<1> HIDE DEF p, w
<1>8. CASE IsNewBlock(p)
  BY <1>2, <1>3, <1>4, <1>5, <1>6, <1>8, MetaRootFields
     DEF IsNewBlock, DataBlockFor, DataBranchedMR, Bits!BlockState
<1>9. CASE ~IsNewBlock(p)
  <2>1. b \notin gpRedMR.abEntries /\ b \notin cmtMR.abEntries /\ gpRedMR.ulFreeBlocks # 0
    BY <1>5, <1>9, MetaRootFields DEF DataBlockFor, Bits!IsNextFree, Bits!FreeBlocks
  <2> DEFINE mr == InodeBranchedMR(f)
             m0 == [mr EXCEPT !.ulAllocNextBlock = Bits!Following(b)]
             m1 == Bits!WithBlockAllocated(m0, b)
  <2>2. m0 \in Bits!MetaRoot /\ m0.abEntries = mr.abEntries /\ m0.ulFreeBlocks # 0
    <3>1. Bits!Following(b) \in AllocableBlocks
      BY Regions
    <3>2. mr.ulFreeBlocks # 0
      BY <1>1, <1>4, <2>1, MetaRootFields
    <3>. QED  BY <1>4, <3>1, <3>2, MetaRootFields
  <2>3. m1 \in Bits!MetaRoot /\ m1.abEntries = mr.abEntries \cup {b}
    <3> HIDE DEF m0
    <3>. QED  BY <2>2, Regions, AllocatedFields
  <2>4. gpRedMR' = IF p = BLOCK_SPARSE THEN m1 ELSE Bits!WithBlockFreed(m1, p)
    BY <1>5, <1>9 DEF DataBranchedMR
  <2> HIDE DEF m1
  <2>5. gpRedMR' \in Bits!MetaRoot /\ gpRedMR'.abEntries = (mr.abEntries \cup {b}) \ {p}
    <3>1. CASE p = BLOCK_SPARSE
      <4>1. p \notin ImapBlocks
        BY <3>1 DEF BLOCK_SPARSE, ImapBlocks
      <4>2. m1.abEntries \subseteq ImapBlocks
        BY <2>3, MetaRootFields
      <4>. QED  BY <2>3, <2>4, <3>1, <4>1, <4>2
    <3>2. CASE p # BLOCK_SPARSE
      BY <2>3, <2>4, <3>2, FreedFields
    <3>. QED  BY <3>1, <3>2
  <2>. QED  BY <1>2, <1>3, <1>4, <1>6, <2>1, <2>5
<1>. QED  BY <1>8, <1>9

(* The blocks a truncation frees.                                          *)
LEMMA BlocksFreed ==
  ASSUME NEW f \in Files, NEW o, InodeNode(f) \in InodeNodes
  PROVE  /\ BlocksFrom(f, o) \in SUBSET AllocableBlocks
         /\ [p \in Offsets |-> IF p >= o THEN BLOCK_SPARSE ELSE InodeNode(f)[p]] \in InodeNodes
BY DEF BlocksFrom, InodeNodes

(* The bitmap after a truncation, which branches the inode and frees a set *)
(* of blocks.                                                              *)
LEMMA TruncateBits ==
  ASSUME CowInv, NEW f \in Files, NEW o \in Offsets, Truncate(f, o),
         NEW w, w = BranchedSlot(f), NEW freed, freed = BlocksFrom(f, o)
  PROVE  /\ InodeNode(f) \in InodeNodes /\ freed \in SUBSET AllocableBlocks
         /\ w \in Slots /\ InodeBlock(f, w) \notin cmtMR.abEntries
         /\ gpRedMR' \in Bits!MetaRoot
         /\ gpRedMR'.abEntries =
              ((gpRedMR.abEntries \ {InodeBlock(f, 1 - w)}) \cup {InodeBlock(f, w)}) \ freed
         /\ ulAlmostFreeBlocks' \in Nat
<1>1. /\ gpRedMR \in Bits!MetaRoot /\ OneSlot(gpRedMR) /\ OneSlot(cmtMR)
      /\ BuffersOK /\ DeviceOK /\ ulAlmostFreeBlocks \in Nat /\ InodeMounted(f)
  BY TypeParts DEF CowInv, Ready, Truncate
<1>2. InodeNode(f) \in InodeNodes
  BY <1>1, NodeOfFile
<1>3. freed \in SUBSET AllocableBlocks
  BY <1>2, BlocksFreed
<1>4. /\ w \in Slots
      /\ InodeBlock(f, w) \notin cmtMR.abEntries
      /\ InodeBranchedMR(f) \in Bits!MetaRoot
      /\ InodeBranchedMR(f).abEntries =
           (gpRedMR.abEntries \ {InodeBlock(f, 1 - w)}) \cup {InodeBlock(f, w)}
  BY <1>1, Branched DEF InodeMounted
<1>5. /\ gpRedMR' = FreedMR(InodeBranchedMR(f), freed)
      /\ ulAlmostFreeBlocks' = ulAlmostFreeBlocks + Cardinality(AlmostFreed(freed))
  BY DEF Truncate
<1>6. /\ gpRedMR' \in Bits!MetaRoot
      /\ gpRedMR'.abEntries = InodeBranchedMR(f).abEntries \ freed
      /\ ulAlmostFreeBlocks' \in Nat
  BY <1>1, <1>4, <1>5, FreedManyFields
<1>. QED  BY <1>2, <1>3, <1>4, <1>6

(* The bitmap after RedInodeCreate took a slot that is not committed.      *)
LEMMA CreateBits ==
  ASSUME CowInv, NEW f \in Files, Create(f)
  PROVE  \E w \in Slots :
           /\ InodeBlock(f, w) \notin cmtMR.abEntries
           /\ InodeBlock(f, w) \notin gpRedMR.abEntries
           /\ InodeBlock(f, 1 - w) \notin gpRedMR.abEntries
           /\ buffers' = [buffers EXCEPT ![InodeBlock(f, w)] = Buffer(TRUE, HoleyInode)]
           /\ gpRedMR' \in Bits!MetaRoot
           /\ gpRedMR'.abEntries = gpRedMR.abEntries \cup {InodeBlock(f, w)}
<1> DEFINE w == CHOOSE v \in Slots : Bits!IsWriteableSlot(f, v)
           mr == Bits!WithBlockAllocated(gpRedMR, InodeBlock(f, w))
<1>1. /\ gpRedMR \in Bits!MetaRoot /\ gpRedMR.ulFreeInodes # 0 /\ OneSlot(cmtMR)
  BY DEF CowInv, Ready, Create
<1>2. w \in Slots /\ InodeBlock(f, w) \notin cmtMR.abEntries
  <2> HIDE DEF w
  <2>1. w = CHOOSE v \in Slots : Bits!IsWriteableSlot(f, v)
    BY DEF w
  <2>. QED  BY <1>1, <2>1, WriteableSlot
<1>3. \A v \in Slots : InodeBlock(f, v) \notin gpRedMR.abEntries
  BY BitsLayout, MetaRootFields DEF Create, FileExists, Bits!InodeExists
<1>4. /\ gpRedMR' = [mr EXCEPT !.ulFreeInodes = @ - 1]
      /\ buffers' = [buffers EXCEPT ![InodeBlock(f, w)] = Buffer(TRUE, HoleyInode)]
  BY DEF Create
<1> HIDE DEF w
<1>5. mr \in Bits!MetaRoot /\ mr.abEntries = gpRedMR.abEntries \cup {InodeBlock(f, w)}
  BY <1>1, <1>2, Regions, AllocatedFields
<1>6. mr.ulFreeInodes = gpRedMR.ulFreeInodes
  BY <1>1, MetaRootFields DEF Bits!WithBlockAllocated
<1>7. mr.ulFreeInodes - 1 \in Nat
  BY <1>1, <1>6, MetaRootFields
<1> HIDE DEF mr
<1>8. gpRedMR' \in Bits!MetaRoot /\ gpRedMR'.abEntries = mr.abEntries
  BY <1>4, <1>5, <1>7, MetaRootFields
<1>. QED  BY <1>2, <1>3, <1>4, <1>5, <1>8, Regions

(* The bitmap after the slot and the blocks of a deleted file are freed.   *)
LEMMA DeleteBits ==
  ASSUME CowInv, NEW f \in Files, Delete(f), NEW freed, freed = BlocksFrom(f, 0),
         NEW slot, slot = InodeBlock(f, CurrentSlot(gpRedMR, f))
  PROVE  /\ InodeNode(f) \in InodeNodes /\ freed \in SUBSET AllocableBlocks
         /\ slot \in FileSlots /\ slot \in gpRedMR.abEntries
         /\ gpRedMR' \in Bits!MetaRoot
         /\ gpRedMR'.abEntries = gpRedMR.abEntries \ (freed \cup {slot})
         /\ ulAlmostFreeBlocks' \in Nat
<1>1. /\ gpRedMR \in Bits!MetaRoot /\ OneSlot(gpRedMR)
      /\ BuffersOK /\ DeviceOK /\ ulAlmostFreeBlocks \in Nat /\ InodeMounted(f)
  BY TypeParts DEF CowInv, Ready, Delete
<1>2. InodeNode(f) \in InodeNodes
  BY <1>1, NodeOfFile
<1>3. freed \in SUBSET AllocableBlocks
  BY <1>2, BlocksFreed
<1>4. slot \in FileSlots /\ slot \in gpRedMR.abEntries
  BY <1>1, CurrentSlotIs, Regions DEF InodeMounted, FileExists
<1> DEFINE mr == FreedMR(gpRedMR, freed \cup {slot})
<1>5. /\ gpRedMR' = [mr EXCEPT !.ulFreeInodes = @ + 1]
      /\ ulAlmostFreeBlocks' = ulAlmostFreeBlocks + Cardinality(AlmostFreed(freed))
  BY DEF Delete
<1>6. /\ mr \in Bits!MetaRoot /\ mr.abEntries = gpRedMR.abEntries \ (freed \cup {slot})
      /\ Cardinality(AlmostFreed(freed)) \in Nat
  BY <1>1, FreedManyFields
<1> HIDE DEF mr
<1>7. /\ gpRedMR' \in Bits!MetaRoot /\ gpRedMR'.abEntries = mr.abEntries
      /\ ulAlmostFreeBlocks' \in Nat
  BY <1>1, <1>5, <1>6, MetaRootFields
<1>. QED  BY <1>2, <1>3, <1>4, <1>6, <1>7

(* The slots stay one for each inode when one of them takes the place of   *)
(* the other.                                                              *)
LEMMA OneSlotKept ==
  ASSUME NEW mr, OneSlot(mr), NEW new, NEW f \in Files, NEW w \in Slots,
         \A b \in FileSlots : b \in new.abEntries =>
           b = InodeBlock(f, w) \/ (b \in mr.abEntries /\ b # InodeBlock(f, 1 - w))
  PROVE  OneSlot(new)
<1> SUFFICES ASSUME NEW g \in Files, \A v \in Slots : InodeBlock(g, v) \in new.abEntries
             PROVE  FALSE
  BY MetaRootFields DEF OneSlot
<1>1. 0 \in Slots /\ 1 \in Slots /\ w \in {0, 1}
  BY DEF Slots
<1>2. CASE g = f
  <2>1. InodeBlock(f, 1 - w) \in new.abEntries /\ InodeBlock(f, 1 - w) # InodeBlock(f, w)
    BY <1>2, Regions
  <2>. QED  BY <2>1, Regions
<1>3. CASE g # f
  <2>1. \A v \in Slots : InodeBlock(g, v) \in mr.abEntries
    BY <1>3, Regions
  <2>. QED  BY <2>1, MetaRootFields DEF OneSlot
<1>. QED  BY <1>2, <1>3

(* The transaction point adds the almost free blocks, and frees none.      *)
LEMMA TransactedFields ==
  ASSUME gpRedMR \in Bits!MetaRoot, ulAlmostFreeBlocks \in Nat
  PROVE  Bits!Transacted \in Bits!MetaRoot /\ Bits!Transacted.abEntries = gpRedMR.abEntries
<1>1. gpRedMR.ulFreeBlocks + ulAlmostFreeBlocks \in Nat
  BY MetaRootFields
<1>. QED  BY <1>1, MetaRootFields DEF Bits!Transacted

(* A mount takes one of the metaroots on the media.                        *)
LEMMA ChosenOnMedia ==
  ASSUME NEW m, MetarootChosen(m) # Nil
  PROVE  \E k \in 0 .. 1 : MetarootChosen(m) = m[k] /\ m[k] \notin {Torn, Junk}
<1>1. CASE \E k \in 0 .. 1 : fAtomicSectorWrite /\ m[k] = Junk
  BY <1>1 DEF MetarootChosen
<1>2. CASE ~ \E k \in 0 .. 1 : fAtomicSectorWrite /\ m[k] = Junk
  BY <1>2 DEF MetarootChosen
<1>. QED  BY <1>1, <1>2

(* RedVolMountMetaroot takes up a metaroot that one of the two blocks      *)
(* holds, and the next one goes to the other block.                        *)
LEMMA MountedMetaroot ==
  ASSUME DeviceOK, MountMetaroot
  PROVE  \E k \in 0 .. 1 : LET disk == media[MetarootBlock(k)] IN
           /\ disk = MetarootChosen(MediaMetaroots)
           /\ disk \in DiskMetaroots
           /\ gpRedMR' = disk.body /\ cmtMR' = disk.body /\ gpRedMR' \in Bits!MetaRoot
           /\ bCurMR' = 1 - k /\ bCurMR' \in 0 .. 1
           /\ ullSequence' = disk.ullSequence + 1 /\ ullSequence' \in 0 .. SeqMax
           /\ ulAlmostFreeBlocks' = 0 /\ fMounted' = TRUE
<1> DEFINE disk == MetarootChosen(MediaMetaroots)
<1>1. /\ disk # Nil
      /\ disk.ullSequence < SeqMax
      /\ gpRedMR' = disk.body
      /\ cmtMR' = disk.body
      /\ ullSequence' = disk.ullSequence + 1
      /\ ulAlmostFreeBlocks' = 0
      /\ fMounted' = TRUE
  BY DEF MountMetaroot
<1>2. PICK k \in 0 .. 1 : media[MetarootBlock(k)] = disk /\ bCurMR' = 1 - k
  BY DEF MountMetaroot
<1>3. disk \notin {Torn, Junk}
  BY <1>1, ChosenOnMedia
<1>4. media[MetarootBlock(k)] \in DiskMetaroots \cup {Torn, Junk}
  BY Regions, ContentsOf DEF DeviceOK
<1>5. disk \in DiskMetaroots
  BY <1>2, <1>3, <1>4
<1>6. disk.body \in Bits!MetaRoot /\ disk.ullSequence \in 0 .. SeqMax
  BY <1>5 DEF DiskMetaroots
<1> HIDE DEF disk
<1>7. disk.ullSequence + 1 \in 0 .. SeqMax
  BY <1>1, <1>6
<1>. QED  BY <1>1, <1>2, <1>5, <1>6, <1>7, Regions DEF disk

-----------------------------------------------------------------------------
(* What the operations on files have in common.                            *)

(* The operation gives out the blocks "new", none of which is committed,   *)
(* takes back the blocks "gone" and leaves all others alone.               *)
FileStep(new, gone) ==
  /\ fMounted /\ ~fReadOnly /\ step = "idle"
  /\ new \subseteq BufferedBlocks /\ gone \subseteq BufferedBlocks
  /\ new \cap gone = {} /\ new \cap cmtMR.abEntries = {}
  /\ gpRedMR' \in Bits!MetaRoot /\ OneSlot(gpRedMR')
  /\ DeviceOK' /\ BuffersOK'
  /\ \A c \in Blocks \ new : media'[c] = media[c] /\ maybe'[c] = maybe[c]
  /\ \A c \in gone : buffers'[c] = Nil
                       \/ (c \notin gpRedMR.abEntries /\ buffers'[c] = buffers[c])
  /\ \A c \in BufferedBlocks \ (new \cup gone) : buffers'[c] = buffers[c]
  /\ ulAlmostFreeBlocks' \in Nat /\ fBranched' = TRUE /\ fReadOnly' \in BOOLEAN
  /\ UNCHANGED <<cmtMR, bCurMR, ullSequence, fMounted, step>>

(* A file is created empty, truncated from an offset on, or written at one *)
(* offset, where the rest keeps its blocks.                                *)
NodeChanged(f, node, new) ==
  \/ ~FileExists(f) /\ \A q \in Offsets : node[q] = BLOCK_SPARSE
  \/ /\ FileExists(f) /\ new \subseteq FileSlots
     /\ \E o \in Offsets : \A q \in Offsets :
          node[q] = IF q >= o THEN BLOCK_SPARSE ELSE InodeNode(f)[q]
  \/ /\ FileExists(f)
     /\ \E o \in Offsets, v \in Values :
          /\ node[o] # BLOCK_SPARSE /\ (fReadOnly' \/ Cache[node[o]]' = v)
          /\ \A q \in Offsets \ {o} : node[q] = InodeNode(f)[q] /\ node[q] \notin new

(* Where the inodes are sound, file f now has inode node in slot w: of its *)
(* block pointers one may be new, and the others are not gone.             *)
InodeWritten(f, w, node, new, gone) ==
  LET old(c) == FileExists(f) /\ \E o \in Offsets : c = InodeNode(f)[o]
  IN  /\ w \in Slots /\ node \in InodeNodes
      /\ gpRedMR'.abEntries = (gpRedMR.abEntries \cup new) \ gone
      /\ new \cap FileSlots = {InodeBlock(f, w)}
      /\ gone \cap FileSlots = {InodeBlock(f, 1 - w)}
      /\ buffers'[InodeBlock(f, w)] = Buffer(TRUE, node)
      /\ \A o \in Offsets : node[o] # BLOCK_SPARSE =>
           \/ node[o] \in new
           \/ FileExists(f) /\ node[o] = InodeNode(f)[o] /\ node[o] \notin gone
      /\ \A o, q \in Offsets : node[o] = node[q] /\ node[o] # BLOCK_SPARSE => o = q
      /\ \A c \in gone \ FileSlots : old(c)
      /\ \A c \in new \ FileSlots :
           /\ c \notin gpRedMR.abEntries \/ old(c)
           /\ ~fReadOnly' => Cache[c]' \in Values
           /\ buffers'[c] = Nil \/ buffers'[c].fDirty \/ fReadOnly'
      /\ NodeChanged(f, node, new)

(* Or file f is gone.                                                      *)
InodeDeleted(f, new, gone) ==
  LET old(c) == FileExists(f) /\ \E o \in Offsets : c = InodeNode(f)[o]
  IN  /\ new = {} /\ gpRedMR'.abEntries = gpRedMR.abEntries \ gone
      /\ FileExists(f)
      /\ gone \cap FileSlots = {InodeBlock(f, CurrentSlot(gpRedMR, f))}
      /\ \A c \in gone \ FileSlots : old(c)

(* The block pointers of a sound inode are allocated, and different.       *)
LEMMA SoundNode ==
  ASSUME gpRedMR \in Bits!MetaRoot, OneSlot(gpRedMR), Sound(gpRedMR, Cache),
         NEW f \in Files, FileExists(f)
  PROVE  LET s == InodeBlock(f, CurrentSlot(gpRedMR, f))
         IN  /\ s \in FileSlots /\ s \in gpRedMR.abEntries /\ InodeNode(f) = Cache[s]
             /\ \A o \in Offsets : InodeNode(f)[o] # BLOCK_SPARSE =>
                  InodeNode(f)[o] \in gpRedMR.abEntries
             /\ \A o, q \in Offsets : InodeNode(f)[o] = InodeNode(f)[q]
                  /\ InodeNode(f)[o] # BLOCK_SPARSE => o = q
<1> DEFINE s == InodeBlock(f, CurrentSlot(gpRedMR, f))
<1>1. s \in FileSlots /\ s \in BufferedBlocks /\ s \in gpRedMR.abEntries
  BY CurrentSlotIs, Regions DEF FileExists
<1>2. InodeNode(f) = Cache[s]
  BY <1>1 DEF InodeNode, Cache
<1> HIDE DEF s
<1>. QED  BY <1>1, <1>2, MetaRootFields DEF Sound, s

(* A write, in its three forms: to a buffer, to the device, failed.        *)
WriteMade(f, o, v, b, D, front) ==
  /\ Ready /\ InodeMounted(f) /\ BranchForWrite(f, o, b)
  /\ D \subseteq AllocableBlocks /\ front \in 0 .. 1
  /\ {InodeNode(f)[o]} \ {BLOCK_SPARSE, b} \subseteq D /\ D \subseteq {InodeNode(f)[o], b}
  /\ buffers' = BuffersAfter(f, [InodeNode(f) EXCEPT ![o] = b], D, front, b, v)
  /\ DeviceOK' /\ fReadOnly' \in BOOLEAN
  /\ \A c \in Blocks \ {b} : media'[c] = media[c] /\ maybe'[c] = maybe[c]
  /\ front = 1 \/ fReadOnly' = TRUE \/ (b \in D /\ media'[b] = v)

(* What the three kinds of write have in common: the inode is branched,    *)
(* its pointer leads to block b, and only block b may be written on the    *)
(* device.                                                                 *)
LEMMA WriteStep ==
  ASSUME CowInv, NEW f \in Files, NEW o \in Offsets, NEW v \in Values, NEW b \in AllocableBlocks,
         NEW D, NEW front, WriteMade(f, o, v, b, D, front)
  PROVE  \E w, node, new, gone :
           /\ FileStep(new, gone)
           /\ Sound(gpRedMR, Cache) => InodeWritten(f, w, node, new, gone)
<1> USE DEF WriteMade
<1>0. PICK w, node, p, s, t, new, gone :
        /\ w = BranchedSlot(f) /\ node = [InodeNode(f) EXCEPT ![o] = b] /\ p = InodeNode(f)[o]
        /\ s = InodeBlock(f, w) /\ t = InodeBlock(f, 1 - w)
        /\ new = {s, b} /\ gone = {t} \cup ({p} \ {BLOCK_SPARSE, b})
  OBVIOUS
<1> DEFINE bs == BuffersAfter(f, node, D, front, b, v)
<1>1. /\ InodeNode(f) \in InodeNodes /\ p \in AllocableBlocks \cup {BLOCK_SPARSE}
      /\ node \in InodeNodes
      /\ w \in Slots /\ s \notin cmtMR.abEntries
      /\ b \notin cmtMR.abEntries
      /\ (b = p /\ b \in gpRedMR.abEntries) \/ b \notin gpRedMR.abEntries
      /\ gpRedMR' \in Bits!MetaRoot
      /\ gpRedMR'.abEntries =
           LET branched == (gpRedMR.abEntries \ {t}) \cup {s}
           IN  IF b \in gpRedMR.abEntries THEN branched ELSE (branched \cup {b}) \ {p}
      /\ ulAlmostFreeBlocks' \in Nat
  BY <1>0, WriteBits
<1>2. /\ BuffersOK /\ fMounted /\ ~fReadOnly /\ step = "idle" /\ OneSlot(gpRedMR)
      /\ gpRedMR \in Bits!MetaRoot
  BY TypeParts DEF CowInv, Ready
<1>3. fBranched' = TRUE /\ UNCHANGED <<cmtMR, bCurMR, ullSequence, fMounted, step>>
  BY DEF BranchForWrite
<1>4. /\ DOMAIN bs = BufferedBlocks
      /\ bs[s] = Buffer(TRUE, node)
      /\ bs[t] = Nil
      /\ \A c \in D : (front = 1 /\ c = b) \/ bs[c] = Nil
      /\ front = 1 => bs[b] = Buffer(TRUE, v)
      /\ \A c \in BufferedBlocks \ (D \cup {s, t}) : (front = 1 /\ c = b) \/ bs[c] = buffers[c]
      /\ \A c \in BufferedBlocks :
           bs[c] = Nil \/ bs[c] \in [fDirty : BOOLEAN, data : Contents(c)]
  <2>1. BranchedSlot(f) \in Slots /\ node \in InodeNodes /\ BuffersOK
    BY <1>0, <1>1, <1>2
  <2>2. s = InodeBlock(f, BranchedSlot(f)) /\ t = InodeBlock(f, 1 - BranchedSlot(f))
    BY <1>0
  <2>3. BuffersAre(bs, s, t, node, D, front, b, v)
    BY <2>1, <2>2, ChangedBuffers
  <2>. QED  BY <2>3 DEF BuffersAre
<1>5. buffers' = bs
  BY <1>0
<1>6. /\ s \in FileSlots /\ t \in FileSlots /\ s # t
      /\ s \in BufferedBlocks /\ t \in BufferedBlocks /\ b \in BufferedBlocks /\ b \notin FileSlots
      /\ s # b /\ t # b /\ s \in Blocks /\ b \in Blocks /\ b # BLOCK_SPARSE
      /\ p # BLOCK_SPARSE => p \in BufferedBlocks /\ p \notin FileSlots /\ p # s /\ p # t
  BY <1>0, <1>1, Regions
<1>7. \A q \in Offsets : node[q] = IF q = o THEN b ELSE InodeNode(f)[q]
  BY <1>0, <1>1 DEF InodeNodes
<1>8. {p} \ {BLOCK_SPARSE, b} \subseteq D /\ D \subseteq {p, b}
  BY <1>0
<1>9. FileExists(f)
  BY DEF InodeMounted
<1>10. \A q \in Offsets : InodeNode(f)[q] \in AllocableBlocks \cup {BLOCK_SPARSE}
  BY <1>1 DEF InodeNodes
<1> HIDE DEF bs
<1>11. FileStep(new, gone)
  <2>1. BuffersOK'
    BY <1>0, <1>4, <1>5 DEF BuffersOK
  <2>2. OneSlot(gpRedMR')
    <3>1. \A c \in FileSlots : c \in gpRedMR'.abEntries =>
            c = InodeBlock(f, w) \/ (c \in gpRedMR.abEntries /\ c # InodeBlock(f, 1 - w))
      BY <1>0, <1>1, <1>6
    <3>. QED  BY <1>0, <1>1, <1>2, <3>1, OneSlotKept
  <2>3. /\ new \subseteq BufferedBlocks /\ gone \subseteq BufferedBlocks
        /\ new \cap gone = {} /\ new \cap cmtMR.abEntries = {}
    BY <1>0, <1>1, <1>6
  <2>4. \A c \in gone : buffers'[c] = Nil
    BY <1>0, <1>4, <1>5, <1>8
  <2>5. \A c \in BufferedBlocks \ (new \cup gone) : buffers'[c] = buffers[c]
    <3>1. BLOCK_SPARSE \notin BufferedBlocks
      BY Regions DEF BufferedBlocks, FileSlots
    <3>. QED  BY <1>0, <1>4, <1>5, <1>8, <3>1
  <2>. QED  BY <1>0, <1>1, <1>2, <1>3, <2>1, <2>2, <2>3, <2>4, <2>5 DEF FileStep
<1>12. ASSUME Sound(gpRedMR, Cache) PROVE InodeWritten(f, w, node, new, gone)
  <2>1. /\ \A q \in Offsets : InodeNode(f)[q] # BLOCK_SPARSE => InodeNode(f)[q] \in gpRedMR.abEntries
        /\ \A q, r \in Offsets : InodeNode(f)[q] = InodeNode(f)[r]
                /\ InodeNode(f)[q] # BLOCK_SPARSE => q = r
    BY <1>2, <1>9, <1>12, SoundNode
  <2>2. /\ p = InodeNode(f)[o]
        /\ p # BLOCK_SPARSE => p \in gpRedMR.abEntries
        /\ s \notin AllocableBlocks
    BY <1>0, <1>1, <2>1, Regions
  <2>3. gpRedMR'.abEntries = (gpRedMR.abEntries \cup new) \ gone
    <3>1. BLOCK_SPARSE \notin gpRedMR.abEntries /\ gpRedMR.abEntries \subseteq ImapBlocks
      BY <1>2, MetaRootFields DEF BLOCK_SPARSE, ImapBlocks
    <3>2. BLOCK_SPARSE # s /\ BLOCK_SPARSE # t
      BY <1>0, <1>1, Regions
    <3>3. CASE b \in gpRedMR.abEntries
      BY <1>0, <1>1, <1>6, <3>3
    <3>4. CASE b \notin gpRedMR.abEntries
      BY <1>0, <1>1, <1>6, <2>2, <3>1, <3>2, <3>4
    <3>. QED  BY <3>3, <3>4
  <2>4. /\ \A q \in Offsets : node[q] # BLOCK_SPARSE =>
             \/ node[q] \in new
             \/ FileExists(f) /\ node[q] = InodeNode(f)[q] /\ node[q] \notin gone
    <3> SUFFICES ASSUME NEW q \in Offsets, node[q] # BLOCK_SPARSE, q # o
                 PROVE  FileExists(f) /\ node[q] = InodeNode(f)[q] /\ node[q] \notin gone
      BY <1>0, <1>7
    <3>1. node[q] = InodeNode(f)[q] /\ node[q] # p /\ node[q] \in AllocableBlocks
      BY <1>0, <1>7, <1>10, <2>1, <2>2
    <3>2. node[q] # t
      BY <1>6, <3>1, Regions
    <3>. QED  BY <1>0, <1>9, <3>1, <3>2
  <2>5. \A q, r \in Offsets : node[q] = node[r] /\ node[q] # BLOCK_SPARSE => q = r
    <3>1. \A q \in Offsets : q # o => InodeNode(f)[q] # b
      BY <1>0, <1>1, <1>6, <2>1, <2>2
    <3>. QED  BY <1>0, <1>7, <2>1, <3>1
  <2>6. new \cap FileSlots = {InodeBlock(f, w)} /\ gone \cap FileSlots = {InodeBlock(f, 1 - w)}
    BY <1>0, <1>6
  <2>7. \A c \in gone \ FileSlots : FileExists(f) /\ \E q \in Offsets : c = InodeNode(f)[q]
    BY <1>0, <1>6, <1>9, <2>2
  <2>8. \A c \in new \ FileSlots :
          /\ c = b
          /\ c \notin gpRedMR.abEntries \/ (FileExists(f) /\ \E q \in Offsets : c = InodeNode(f)[q])
    BY <1>0, <1>1, <1>6, <1>9, <2>2
  <2>9. (fReadOnly' \/ Cache[b]' = v) /\ (buffers'[b] = Nil \/ buffers'[b].fDirty \/ fReadOnly')
    <3>1. CASE front = 1
      <4>1. v \in Contents(b)
        BY ContentsOf
      <4>2. /\ Buffer(TRUE, v) # Nil
            /\ Buffer(TRUE, v).data = v /\ Buffer(TRUE, v).fDirty = TRUE
        BY <1>6, <4>1, BufferIsNotNil, ZenonT(60)
      <4>3. buffers'[b] = Buffer(TRUE, v)
        BY <1>0, <1>4, <1>5, <3>1
      <4>. QED  BY <1>0, <1>6, <4>2, <4>3 DEF Cache, Cached
    <3>2. CASE b \in D /\ media'[b] = v /\ front = 0
      <4>1. buffers'[b] = Nil
        BY <1>0, <1>4, <1>5, <3>2
      <4>. QED  BY <1>0, <1>6, <3>2, <4>1 DEF Cache, Cached
    <3>. QED  BY <3>1, <3>2
  <2>10. NodeChanged(f, node, new)
    <3>1. \A q \in Offsets \ {o} : node[q] = InodeNode(f)[q] /\ node[q] \notin new
      <4> SUFFICES ASSUME NEW q \in Offsets, q # o
                   PROVE  node[q] = InodeNode(f)[q] /\ node[q] \notin new
        OBVIOUS
      <4>1. node[q] = InodeNode(f)[q] /\ node[o] = b
        BY <1>7
      <4>2. node[q] # b
        BY <1>6, <2>5, <4>1
      <4>3. node[q] # s
        BY <1>0, <1>1, <1>10, <2>2, <4>1, Regions
      <4>. QED  BY <1>0, <4>1, <4>2, <4>3
    <3>2. node[o] = b
      BY <1>7
    <3>3. node[o] # BLOCK_SPARSE /\ (fReadOnly' \/ Cache[node[o]]' = v)
      <4>1. PICK d : d = node[o]
        OBVIOUS
      <4>. QED  BY <1>6, <2>9, <3>2
    <3>. QED  BY <1>9, <3>1, <3>3 DEF NodeChanged
  <2>11. \A c \in new \ FileSlots :
           /\ c \notin gpRedMR.abEntries \/ (FileExists(f) /\ \E q \in Offsets : c = InodeNode(f)[q])
           /\ ~fReadOnly' => Cache[c]' \in Values
           /\ buffers'[c] = Nil \/ buffers'[c].fDirty \/ fReadOnly'
    BY <2>8, <2>9
  <2>12. buffers'[InodeBlock(f, w)] = Buffer(TRUE, node)
    BY <1>0, <1>4, <1>5
  <2>. QED  BY <1>1, <2>3, <2>4, <2>5, <2>6, <2>7, <2>10, <2>11, <2>12 DEF InodeWritten
<1>. QED  BY <1>11, <1>12

(* Every operation on a file is such a step.                               *)
FileChanged ==
  \E f \in Files : \E w, node, new, gone :
    /\ FileStep(new, gone)
    /\ Sound(gpRedMR, Cache) =>
         InodeWritten(f, w, node, new, gone) \/ InodeDeleted(f, new, gone)

(* Each kind of write is such a step, or leaves the volume read-only.      *)
LEMMA WriteChanges ==
  ASSUME CowInv, NEW f \in Files, NEW o \in Offsets, NEW v \in Values,
         WriteUnaligned(f, o, v) \/ WriteAligned(f, o, v) \/ WriteAlignedFails(f, o)
  PROVE  FileChanged
<1>0. SUFFICES \E w, node, new, gone :
                  /\ FileStep(new, gone)
                  /\ Sound(gpRedMR, Cache) => InodeWritten(f, w, node, new, gone)
  BY DEF FileChanged
<1>1. Ready /\ InodeMounted(f) /\ DeviceOK /\ BuffersOK /\ OneSlot(gpRedMR) /\ fReadOnly \in BOOLEAN
  BY TypeParts DEF CowInv, Ready, WriteUnaligned, WriteAligned, WriteAlignedFails
<1> DEFINE p == InodeNode(f)[o]
<1>2. p \in AllocableBlocks \cup {BLOCK_SPARSE}
  BY <1>1, NodeOfFile DEF InodeNodes
<1>3. CASE WriteUnaligned(f, o, v)
  <2>1. PICK b \in AllocableBlocks :
          /\ BranchForWrite(f, o, b)
          /\ buffers' = b :> Buffer(TRUE, v) @@ PointersWith(f, o, b)
               @@ DroppedBuffers({p} \ {BLOCK_SPARSE}) @@ buffers
    BY <1>3 DEF WriteUnaligned
  <2>2. DeviceOK' /\ media' = media /\ maybe' = maybe /\ fReadOnly' \in BOOLEAN
    BY <1>1, <1>3, NoIoBlocks DEF WriteUnaligned
  <2>3. {p} \ {BLOCK_SPARSE} \in SUBSET AllocableBlocks
    BY <1>2
  <2> HIDE DEF p
  <2>d. PICK D : D = {p} \ {BLOCK_SPARSE}
    OBVIOUS
  <2>4. buffers' = BuffersAfter(f, [InodeNode(f) EXCEPT ![o] = b], D, 1, b, v)
    BY <2>1, <2>d DEF BuffersAfter, PointersWith
  <2>5. /\ D \in SUBSET AllocableBlocks
        /\ {InodeNode(f)[o]} \ {BLOCK_SPARSE, b} \subseteq D /\ D \subseteq {InodeNode(f)[o], b}
    BY <2>3, <2>d DEF p
  <2>6. WriteMade(f, o, v, b, D, 1)
    <3>1. /\ \A c \in Blocks \ {b} : media'[c] = media[c] /\ maybe'[c] = maybe[c]
          /\ BranchForWrite(f, o, b) /\ 1 \in 0 .. 1
      BY <2>1, <2>2
    <3>. QED  BY <1>1, <2>2, <2>4, <2>5, <3>1 DEF WriteMade
  <2>. QED  BY <1>1, <2>6, WriteStep
<1>4. CASE WriteAligned(f, o, v)
  <2>1. PICK b \in AllocableBlocks :
          /\ BranchForWrite(f, o, b)
          /\ Written(b :> v)
          /\ buffers' = PointersWith(f, o, b)
               @@ DroppedBuffers({p, b} \ {BLOCK_SPARSE}) @@ buffers
    BY <1>4 DEF WriteAligned
  <2>2. /\ DeviceOK' /\ fReadOnly' \in BOOLEAN
        /\ \A c \in Blocks \ {b} : media'[c] = media[c] /\ maybe'[c] = maybe[c]
        /\ media'[b] = v
    <3>1. DOMAIN (b :> v) = {b} /\ (b :> v)[b] = v /\ v \in Contents(b) /\ {b} \in SUBSET Blocks
      BY ContentsOf, Regions DEF :>
    <3>. QED  BY <1>1, <1>4, <2>1, <3>1, WrittenBlocks DEF WriteAligned
  <2>d. PICK D : D = {p, b} \ {BLOCK_SPARSE}
    OBVIOUS
  <2>3. /\ D \in SUBSET AllocableBlocks
        /\ {InodeNode(f)[o]} \ {BLOCK_SPARSE, b} \subseteq D /\ D \subseteq {InodeNode(f)[o], b}
    BY <1>2, <2>d
  <2> HIDE DEF p
  <2>4. buffers' = BuffersAfter(f, [InodeNode(f) EXCEPT ![o] = b], D, 0, b, v)
    BY <2>1, <2>d DEF BuffersAfter, PointersWith
  <2>5. b \in D
    BY <2>d, Regions
  <2>6. WriteMade(f, o, v, b, D, 0)
    BY <1>1, <2>1, <2>2, <2>3, <2>4, <2>5 DEF WriteMade
  <2>. QED  BY <1>1, <2>6, WriteStep
<1>5. CASE WriteAlignedFails(f, o)
  <2>1. PICK b \in AllocableBlocks :
          /\ BranchForWrite(f, o, b)
          /\ WriteFailed(<<>>, b)
          /\ buffers' = PointersWith(f, o, b)
               @@ DroppedBuffers({p} \ {BLOCK_SPARSE, b}) @@ buffers
    BY <1>5 DEF WriteAlignedFails
  <2>2. /\ DeviceOK' /\ fReadOnly' = TRUE
        /\ \A c \in Blocks \ {b} : media'[c] = media[c] /\ maybe'[c] = maybe[c]
    BY <1>1, <1>5, <2>1, OneWriteFailed, Regions DEF WriteAlignedFails, CriticalError
  <2>d. PICK D : D = {p} \ {BLOCK_SPARSE, b}
    OBVIOUS
  <2>3. /\ D \in SUBSET AllocableBlocks
        /\ {InodeNode(f)[o]} \ {BLOCK_SPARSE, b} \subseteq D /\ D \subseteq {InodeNode(f)[o], b}
    BY <1>2, <2>d
  <2> HIDE DEF p
  <2>4. buffers' = BuffersAfter(f, [InodeNode(f) EXCEPT ![o] = b], D, 0, b, v)
    BY <2>1, <2>d DEF BuffersAfter, PointersWith
  <2>6. WriteMade(f, o, v, b, D, 0)
    BY <1>1, <2>1, <2>2, <2>3, <2>4 DEF WriteMade
  <2>. QED  BY <1>1, <2>6, WriteStep
<1>. QED  BY <1>3, <1>4, <1>5

(* Truncation leaves the inode in its own slot with fewer pointers.        *)
LEMMA TruncateChanges ==
  ASSUME CowInv, NEW f \in Files, NEW o \in Offsets, Truncate(f, o)
  PROVE  FileChanged
<1>0. PICK w, node, freed, s, t, new, gone :
        /\ w = BranchedSlot(f) /\ freed = BlocksFrom(f, o)
        /\ node = [p \in Offsets |-> IF p >= o THEN BLOCK_SPARSE ELSE InodeNode(f)[p]]
        /\ s = InodeBlock(f, w) /\ t = InodeBlock(f, 1 - w)
        /\ new = {s} /\ gone = {t} \cup freed
  OBVIOUS
<1>1. /\ InodeNode(f) \in InodeNodes /\ freed \in SUBSET AllocableBlocks
      /\ w \in Slots /\ s \notin cmtMR.abEntries
      /\ gpRedMR' \in Bits!MetaRoot
      /\ gpRedMR'.abEntries = ((gpRedMR.abEntries \ {t}) \cup {s}) \ freed
      /\ ulAlmostFreeBlocks' \in Nat
  BY <1>0, TruncateBits
<1>2. node \in InodeNodes /\ \A q \in Offsets : node[q] = IF q >= o THEN BLOCK_SPARSE ELSE InodeNode(f)[q]
  BY <1>0, <1>1, BlocksFreed
<1>3. /\ BuffersOK /\ DeviceOK /\ fMounted /\ ~fReadOnly /\ step = "idle" /\ OneSlot(gpRedMR)
      /\ fReadOnly \in BOOLEAN
      /\ gpRedMR \in Bits!MetaRoot /\ InodeMounted(f) /\ FileExists(f) /\ NoIo
      /\ fBranched' = TRUE /\ UNCHANGED <<cmtMR, bCurMR, ullSequence, fMounted, fReadOnly, step>>
  BY TypeParts DEF CowInv, Ready, Truncate, InodeMounted
<1>4. DeviceOK' /\ media' = media /\ maybe' = maybe
  BY <1>3, NoIoBlocks
<1>5. PICK b \in AllocableBlocks : TRUE
  BY DEF AllocableBlocks, ulFirstAllocableBN
<1>6. BuffersAre(buffers', s, t, node, freed, 0, b, Zero)
  <2>1. buffers' = BuffersAfter(f, node, freed, 0, b, Zero)
    BY <1>0 DEF Truncate, BuffersAfter
  <2>2. s = InodeBlock(f, BranchedSlot(f)) /\ t = InodeBlock(f, 1 - BranchedSlot(f))
        /\ BranchedSlot(f) \in Slots
    BY <1>0, <1>1
  <2>3. BuffersAre(BuffersAfter(f, node, freed, 0, b, Zero), s, t, node, freed, 0, b, Zero)
    <3>1. /\ BuffersOK /\ BranchedSlot(f) \in Slots /\ node \in InodeNodes
          /\ freed \in SUBSET AllocableBlocks /\ 0 \in 0 .. 1 /\ Zero \in Values
      BY <1>1, <1>2, <1>3, <2>2
    <3>. QED  BY <2>2, <3>1, ChangedBuffers
  <2>. QED  BY <2>1, <2>3
<1>7. /\ DOMAIN buffers' = BufferedBlocks
      /\ buffers'[s] = Buffer(TRUE, node)
      /\ \A c \in gone : buffers'[c] = Nil
      /\ \A c \in BufferedBlocks \ (new \cup gone) : buffers'[c] = buffers[c]
      /\ BuffersOK'
  BY <1>0, <1>6 DEF BuffersAre, BuffersOK
<1>8. /\ s \in FileSlots /\ t \in FileSlots /\ s # t
      /\ s \in BufferedBlocks /\ t \in BufferedBlocks
      /\ s \notin AllocableBlocks /\ t \notin AllocableBlocks
      /\ \A c \in AllocableBlocks : c \in BufferedBlocks /\ c \notin FileSlots
  BY <1>0, <1>1, Regions
<1>9. FileStep(new, gone)
  <2>1. OneSlot(gpRedMR')
    <3>1. \A c \in FileSlots : c \in gpRedMR'.abEntries =>
            c = InodeBlock(f, w) \/ (c \in gpRedMR.abEntries /\ c # InodeBlock(f, 1 - w))
      BY <1>0, <1>1
    <3>. QED  BY <1>1, <1>3, <3>1, OneSlotKept
  <2>2. /\ new \subseteq BufferedBlocks /\ gone \subseteq BufferedBlocks
        /\ new \cap gone = {} /\ new \cap cmtMR.abEntries = {}
    BY <1>0, <1>1, <1>8
  <2>. QED  BY <1>1, <1>3, <1>4, <1>7, <2>1, <2>2 DEF FileStep
<1>10. ASSUME Sound(gpRedMR, Cache) PROVE InodeWritten(f, w, node, new, gone)
  <2>1. /\ \A q \in Offsets : InodeNode(f)[q] # BLOCK_SPARSE => InodeNode(f)[q] \in gpRedMR.abEntries
        /\ \A q, r \in Offsets : InodeNode(f)[q] = InodeNode(f)[r]
                /\ InodeNode(f)[q] # BLOCK_SPARSE => q = r
    BY <1>3, <1>10, SoundNode
  <2>2. gpRedMR'.abEntries = (gpRedMR.abEntries \cup new) \ gone
    BY <1>0, <1>1, <1>8
  <2>3. \A c \in freed : \E q \in Offsets : q >= o /\ c = InodeNode(f)[q] /\ c # BLOCK_SPARSE
    BY <1>0 DEF BlocksFrom
  <2>4. \A q \in Offsets : node[q] # BLOCK_SPARSE =>
          node[q] = InodeNode(f)[q] /\ node[q] \notin gone
    <3> SUFFICES ASSUME NEW q \in Offsets, node[q] # BLOCK_SPARSE
                 PROVE  node[q] = InodeNode(f)[q] /\ node[q] \notin gone
      OBVIOUS
    <3>1. node[q] = InodeNode(f)[q] /\ ~(q >= o)
      BY <1>2
    <3>2. node[q] \notin freed
      BY <2>1, <2>3, <3>1
    <3>3. node[q] \in AllocableBlocks
      BY <1>2 DEF InodeNodes
    <3>. QED  BY <1>0, <1>8, <3>1, <3>2, <3>3
  <2>5. \A q, r \in Offsets : node[q] = node[r] /\ node[q] # BLOCK_SPARSE => q = r
    BY <2>1, <2>4
  <2>6. new \cap FileSlots = {InodeBlock(f, w)} /\ gone \cap FileSlots = {InodeBlock(f, 1 - w)}
    BY <1>0, <1>1, <1>8
  <2>7. \A c \in gone \ FileSlots : FileExists(f) /\ \E q \in Offsets : c = InodeNode(f)[q]
    BY <1>0, <1>3, <1>8, <2>3
  <2>8. new \ FileSlots = {} /\ buffers'[InodeBlock(f, w)] = Buffer(TRUE, node)
    BY <1>0, <1>7, <1>8
  <2>9. NodeChanged(f, node, new)
    BY <1>0, <1>2, <1>3, <1>8 DEF NodeChanged
  <2>. QED  BY <1>1, <1>2, <1>3, <2>2, <2>4, <2>5, <2>6, <2>7, <2>8, <2>9 DEF InodeWritten
<1>. QED  BY <1>9, <1>10 DEF FileChanged

(* Creation leaves a new inode without a block.                            *)
LEMMA CreateChanges ==
  ASSUME CowInv, NEW f \in Files, Create(f)
  PROVE  FileChanged
<1>1. PICK w \in Slots :
        /\ InodeBlock(f, w) \notin cmtMR.abEntries
        /\ InodeBlock(f, w) \notin gpRedMR.abEntries
        /\ InodeBlock(f, 1 - w) \notin gpRedMR.abEntries
        /\ buffers' = [buffers EXCEPT ![InodeBlock(f, w)] = Buffer(TRUE, HoleyInode)]
        /\ gpRedMR' \in Bits!MetaRoot
        /\ gpRedMR'.abEntries = gpRedMR.abEntries \cup {InodeBlock(f, w)}
  BY CreateBits
<1>2. PICK s, t, new, gone : /\ s = InodeBlock(f, w) /\ t = InodeBlock(f, 1 - w)
                             /\ new = {s} /\ gone = {t}
  OBVIOUS
<1>3. /\ BuffersOK /\ DeviceOK /\ fMounted /\ ~fReadOnly /\ step = "idle" /\ OneSlot(gpRedMR)
      /\ fReadOnly \in BOOLEAN
      /\ NoIo /\ ulAlmostFreeBlocks \in Nat /\ fBranched' = TRUE
      /\ UNCHANGED <<cmtMR, bCurMR, ullSequence, ulAlmostFreeBlocks, fMounted, fReadOnly, step>>
  BY TypeParts DEF CowInv, Ready, Create
<1>4. DeviceOK' /\ media' = media /\ maybe' = maybe
  BY <1>3, NoIoBlocks
<1>5. /\ s \in FileSlots /\ t \in FileSlots /\ s # t
      /\ s \in BufferedBlocks /\ t \in BufferedBlocks
  BY <1>2, Regions
<1>6. HoleyInode \in InodeNodes /\ \A o \in Offsets : HoleyInode[o] = BLOCK_SPARSE
  BY DEF HoleyInode, InodeNodes
<1>7. /\ DOMAIN buffers' = BufferedBlocks
      /\ buffers'[s] = Buffer(TRUE, HoleyInode)
      /\ \A c \in BufferedBlocks \ {s} : buffers'[c] = buffers[c]
  BY <1>1, <1>2, <1>3, <1>5 DEF BuffersOK
<1>8. BuffersOK'
  <2>1. Buffer(TRUE, HoleyInode) \in [fDirty : BOOLEAN, data : Contents(s)]
    <3>1. HoleyInode \in Contents(s)
      BY <1>5, <1>6, ContentsOf
    <3>. QED  BY <1>5, <3>1, BufferIsNotNil
  <2>. QED  BY <1>3, <1>7, <2>1 DEF BuffersOK
<1>9. FileStep(new, gone)
  <2>1. OneSlot(gpRedMR')
    <3>1. \A c \in FileSlots : c \in gpRedMR'.abEntries =>
            c = InodeBlock(f, w) \/ (c \in gpRedMR.abEntries /\ c # InodeBlock(f, 1 - w))
      BY <1>1
    <3>. QED  BY <1>1, <1>3, <3>1, OneSlotKept
  <2>2. /\ new \subseteq BufferedBlocks /\ gone \subseteq BufferedBlocks
        /\ new \cap gone = {} /\ new \cap cmtMR.abEntries = {}
    BY <1>1, <1>2, <1>5
  <2>3. /\ \A c \in gone : c \notin gpRedMR.abEntries /\ buffers'[c] = buffers[c]
        /\ \A c \in BufferedBlocks \ (new \cup gone) : buffers'[c] = buffers[c]
    BY <1>1, <1>2, <1>5, <1>7
  <2>. QED  BY <1>1, <1>3, <1>4, <1>8, <2>1, <2>2, <2>3 DEF FileStep
<1>10. InodeWritten(f, w, HoleyInode, new, gone)
  <2>1. gpRedMR'.abEntries = (gpRedMR.abEntries \cup new) \ gone
    BY <1>1, <1>2, <1>5
  <2>2. /\ new \cap FileSlots = {InodeBlock(f, w)} /\ gone \cap FileSlots = {InodeBlock(f, 1 - w)}
        /\ new \ FileSlots = {} /\ gone \ FileSlots = {}
        /\ buffers'[InodeBlock(f, w)] = Buffer(TRUE, HoleyInode)
    BY <1>2, <1>5, <1>7
  <2>3. NodeChanged(f, HoleyInode, new)
    <3>1. ~FileExists(f)
      BY DEF Create
    <3>. QED  BY <1>6, <3>1 DEF NodeChanged
  <2>. QED  BY <1>6, <2>1, <2>2, <2>3 DEF InodeWritten
<1>. QED  BY <1>9, <1>10 DEF FileChanged

(* Deletion leaves no slot and none of the blocks.                         *)
LEMMA DeleteChanges ==
  ASSUME CowInv, NEW f \in Files, Delete(f)
  PROVE  FileChanged
<1>1. PICK freed, slot, gone : /\ freed = BlocksFrom(f, 0) /\ gone = freed \cup {slot}
                               /\ slot = InodeBlock(f, CurrentSlot(gpRedMR, f))
  OBVIOUS
<1>2. /\ InodeNode(f) \in InodeNodes /\ freed \in SUBSET AllocableBlocks
      /\ slot \in FileSlots /\ slot \in gpRedMR.abEntries
      /\ gpRedMR' \in Bits!MetaRoot
      /\ gpRedMR'.abEntries = gpRedMR.abEntries \ gone
      /\ ulAlmostFreeBlocks' \in Nat
  BY <1>1, DeleteBits
<1>3. /\ BuffersOK /\ DeviceOK /\ fMounted /\ ~fReadOnly /\ step = "idle" /\ OneSlot(gpRedMR)
      /\ fReadOnly \in BOOLEAN
      /\ FileExists(f) /\ NoIo /\ fBranched' = TRUE
      /\ UNCHANGED <<cmtMR, bCurMR, ullSequence, fMounted, fReadOnly, step>>
  BY TypeParts DEF CowInv, Ready, Delete, InodeMounted
<1>4. DeviceOK' /\ media' = media /\ maybe' = maybe
  BY <1>3, NoIoBlocks
<1>5. gone \subseteq BufferedBlocks /\ \A c \in freed : c \notin FileSlots
  BY <1>1, <1>2, Regions DEF BufferedBlocks
<1>6. /\ DOMAIN buffers' = BufferedBlocks
      /\ \A c \in gone : buffers'[c] = Nil
      /\ \A c \in BufferedBlocks \ gone : buffers'[c] = buffers[c]
  <2>1. buffers' = DroppedBuffers(gone) @@ buffers
    BY <1>1 DEF Delete
  <2>. QED  BY <1>3, <1>5, <2>1 DEF DroppedBuffers, @@, BuffersOK
<1>7. BuffersOK'
  BY <1>3, <1>6 DEF BuffersOK
<1>8. FileStep({}, gone)
  <2>1. OneSlot(gpRedMR')
    BY <1>2, <1>3, MetaRootFields DEF OneSlot
  <2>. QED  BY <1>2, <1>3, <1>4, <1>5, <1>6, <1>7, <2>1 DEF FileStep
<1>9. InodeDeleted(f, {}, gone)
  <2>1. \A c \in freed : \E q \in Offsets : c = InodeNode(f)[q]
    BY <1>1 DEF BlocksFrom
  <2>. QED  BY <1>1, <1>2, <1>3, <1>5, <2>1 DEF InodeDeleted
<1>. QED  BY <1>8, <1>9 DEF FileChanged

(* Every operation on a file is of one of these forms.                     *)
LEMMA FileOperations ==
  ASSUME CowInv,
         \/ \E f \in Files : Create(f) \/ Delete(f)
         \/ \E f \in Files, o \in Offsets, v \in Values \ {Zero} :
              WriteUnaligned(f, o, v) \/ WriteAligned(f, o, v)
         \/ \E f \in Files, o \in Offsets : WriteAlignedFails(f, o) \/ Truncate(f, o)
  PROVE  FileChanged
BY CreateChanges, DeleteChanges, WriteChanges, TruncateChanges

-----------------------------------------------------------------------------
(* CowInv is invariant.                                                    *)

CowParts ==
  /\ DeviceOK /\ BuffersOK
  /\ gpRedMR \in MetaRoots /\ cmtMR \in MetaRoots
  /\ bCurMR \in 0 .. 1 /\ ullSequence \in 0 .. SeqMax
  /\ ulAlmostFreeBlocks \in Nat
  /\ fBranched \in BOOLEAN /\ fMounted \in BOOLEAN /\ fReadOnly \in BOOLEAN
  /\ step \in {"idle", "flush", "metaroot", "sync"}
  /\ fMounted => /\ gpRedMR \in Bits!MetaRoot /\ OneSlot(gpRedMR)
                 /\ cmtMR \in Bits!MetaRoot /\ OneSlot(cmtMR)
  /\ ~fMounted => buffers = NoBuffers
  /\ \A k \in 0 .. 1 : \A m \in DiskMetaroots : m \in maybe[MetarootBlock(k)] => OneSlot(m.body)
  /\ \A b \in BufferedBlocks : IsDirty(b) => b \notin cmtMR.abEntries
  /\ step # "idle" => fMounted /\ ~fReadOnly /\ \A b \in BufferedBlocks : ~IsDirty(b)
  /\ step \in {"flush", "metaroot"} => ullSequence < SeqMax

(* CowInv, with the bitmaps as sets and without DirtyBlocks.               *)
LEMMA CowInvParts == CowInv <=> CowParts
BY TypeParts, MetaRootFields DEF CowInv, CowParts, Metaroots, DirtyBlocks

(* The same of the next state.                                             *)
LEMMA CowInvPartsNext == CowParts' => CowInv'
BY CowInvParts, PTL

(* Operations leave the metaroots on the device alone.                     *)
LEMMA NoMetarootWritten ==
  ASSUME NEW S \in SUBSET BufferedBlocks,
         \A b \in Blocks \ S : media'[b] = media[b] /\ maybe'[b] = maybe[b]
  PROVE  \A k \in 0 .. 1 : /\ media'[MetarootBlock(k)] = media[MetarootBlock(k)]
                           /\ maybe'[MetarootBlock(k)] = maybe[MetarootBlock(k)]
BY Regions

(* While the volume stays mounted and no transaction point is under way it *)
(* suffices that no dirty buffer is of a committed block.                  *)
LEMMA CowFrame ==
  ASSUME CowInv, fMounted, step = "idle",
         DeviceOK', BuffersOK',
         gpRedMR' \in Bits!MetaRoot, OneSlot(gpRedMR'), ulAlmostFreeBlocks' \in Nat,
         fBranched' \in BOOLEAN, fReadOnly' \in BOOLEAN,
         UNCHANGED <<cmtMR, bCurMR, ullSequence, fMounted, step>>,
         \A k \in 0 .. 1 : maybe'[MetarootBlock(k)] = maybe[MetarootBlock(k)],
         \A b \in BufferedBlocks : buffers'[b] # Nil /\ buffers'[b].fDirty => b \notin cmtMR.abEntries
  PROVE  CowInv'
<1>1. CowParts
  BY CowInvParts
<1>2. CowParts'
  BY <1>1 DEF CowParts, IsDirty, OneSlot, MetaRoots
<1>. QED  BY <1>2, CowInvPartsNext

(* Operations on files keep CowInv: what they dirty is not committed.      *)
LEMMA CowFileStep ==
  ASSUME CowInv, NEW new, NEW gone, FileStep(new, gone)
  PROVE  CowInv'
<1>1. CowParts
  BY CowInvParts
<1>2. \A b \in BufferedBlocks : buffers'[b] # Nil /\ buffers'[b].fDirty => b \notin cmtMR.abEntries
  BY <1>1 DEF FileStep, CowParts, IsDirty
<1>3. \A k \in 0 .. 1 : maybe'[MetarootBlock(k)] = maybe[MetarootBlock(k)]
  BY NoMetarootWritten DEF FileStep
<1>4. /\ fMounted /\ step = "idle" /\ DeviceOK' /\ BuffersOK'
      /\ gpRedMR' \in Bits!MetaRoot /\ OneSlot(gpRedMR') /\ ulAlmostFreeBlocks' \in Nat
      /\ fBranched' \in BOOLEAN /\ fReadOnly' \in BOOLEAN
      /\ UNCHANGED <<cmtMR, bCurMR, ullSequence, fMounted, step>>
  BY DEF FileStep
<1>. QED  BY <1>2, <1>3, <1>4, CowFrame

(* What a buffer's way to and from the device changes: the block b.        *)
BufferStep(b) ==
  /\ fMounted /\ step = "idle" /\ b \in BufferedBlocks
  /\ DeviceOK' /\ BuffersOK'
  /\ \A c \in Blocks \ {b} : media'[c] = media[c] /\ maybe'[c] = maybe[c]
  /\ \A c \in BufferedBlocks \ {b} : buffers'[c] = buffers[c]
  /\ fReadOnly' \in BOOLEAN /\ (fReadOnly => fReadOnly')
  /\ UNCHANGED <<mrVars, fMounted, step>>

(* Either it is read into a clean buffer,                                  *)
BlockRead(b) ==
  /\ buffers'[b] = Buffer(FALSE, media[b])
  /\ media' = media /\ maybe' = maybe
  /\ b \in ReferredBlocks /\ buffers[b] = Nil

(* or a clean buffer is dropped,                                           *)
BufferDropped(b) ==
  buffers'[b] = Nil /\ media' = media /\ maybe' = maybe /\ ~IsDirty(b) /\ buffers[b] # Nil

(* or a dirty one is written and then dropped or clean,                    *)
BufferWritten(b) ==
  /\ IsDirty(b) /\ media'[b] = buffers[b].data
  /\ buffers'[b] \in {Nil, Buffer(FALSE, buffers[b].data)}

(* or its write fails.                                                     *)
WriteOfBufferFailed(b) ==
  IsDirty(b) /\ buffers'[b] = buffers[b] /\ fReadOnly' = TRUE /\ maybe'[b] = {Junk}

(* RedBufferFlushRange clears the dirty flag and leaves the contents.      *)
LEMMA CleanedBuffer ==
  ASSUME NEW S, NEW r \in [fDirty : BOOLEAN, data : S]
  PROVE  [r EXCEPT !.fDirty = FALSE] = Buffer(FALSE, r.data)
<1> DEFINE q == [r EXCEPT !.fDirty = FALSE]
<1>1. q \in [fDirty : BOOLEAN, data : S] /\ q.data = r.data
  OBVIOUS
<1>2. q.fDirty = FALSE
  OBVIOUS
<1> HIDE DEF q
<1>3. q = [fDirty |-> q.fDirty, data |-> q.data]
  BY <1>1
<1>4. q = Buffer(FALSE, r.data)
  BY <1>1, <1>2, <1>3, Zenon DEF Buffer
<1>. QED  BY <1>4 DEF q

(* A step that gives one buffer a proper value leaves proper buffers.      *)
LEMMA OneBufferChanged ==
  ASSUME BuffersOK, NEW b \in BufferedBlocks, NEW new, buffers' = [buffers EXCEPT ![b] = new],
         new = Nil \/ new \in [fDirty : BOOLEAN, data : Contents(b)]
  PROVE  BuffersOK' /\ buffers'[b] = new /\ \A c \in BufferedBlocks \ {b} : buffers'[c] = buffers[c]
BY DEF BuffersOK

(* The write of a single dirty buffer.                                     *)
LEMMA OneBufferWritten ==
  ASSUME BuffersOK, DeviceOK, NEW b \in BufferedBlocks, IsDirty(b), Written(b :> buffers[b].data)
  PROVE  /\ DeviceOK' /\ media'[b] = buffers[b].data /\ maybe'[b] = {Junk, buffers[b].data}
         /\ \A c \in Blocks \ {b} : media'[c] = media[c] /\ maybe'[c] = maybe[c]
<1> DEFINE written == b :> buffers[b].data
<1>1. DOMAIN written = {b} /\ written[b] = buffers[b].data /\ {b} \in SUBSET Blocks
  BY Regions DEF :>
<1>2. buffers[b].data \in Contents(b)
  BY DEF BuffersOK, IsDirty
<1>3. Unfinished(b) = {Junk}
  BY Regions DEF Unfinished
<1>4. Written(written)
  OBVIOUS
<1> HIDE DEF written
<1>. QED  BY <1>1, <1>2, <1>3, <1>4, WrittenBlocks

(* Every operation on a buffer is of one of these forms.                   *)
LEMMA BufferOperations ==
  ASSUME CowInv, NEW b \in BufferedBlocks,
         BufferGet(b) \/ Evict(b) \/ ReadRange(b) \/ BufferWriteFails(b)
  PROVE  /\ BufferStep(b)
         /\ BlockRead(b) \/ BufferDropped(b) \/ BufferWritten(b) \/ WriteOfBufferFailed(b)
<1>1. /\ DeviceOK /\ BuffersOK /\ fMounted /\ step = "idle" /\ b \in Blocks
      /\ fReadOnly \in BOOLEAN /\ UNCHANGED <<mrVars, fMounted, step>>
  BY TypeParts, Regions DEF CowInv, BufferGet, Evict, ReadRange, BufferWriteFails
<1>2. CASE BufferGet(b)
  <2>1. media[b] \in Contents(b)
    BY <1>1 DEF DeviceOK
  <2>2. Buffer(FALSE, media[b]) \in [fDirty : BOOLEAN, data : Contents(b)]
    BY <2>1, BufferIsNotNil
  <2>3. DeviceOK' /\ media' = media /\ maybe' = maybe /\ fReadOnly' = fReadOnly
        /\ b \in ReferredBlocks /\ buffers[b] = Nil
        /\ buffers' = [buffers EXCEPT ![b] = Buffer(FALSE, media[b])]
    BY <1>1, <1>2, NoIoBlocks DEF BufferGet
  <2>. QED  BY <1>1, <2>2, <2>3, OneBufferChanged DEF BufferStep, BlockRead
<1>3. CASE Evict(b)
  <2>1. buffers' = [buffers EXCEPT ![b] = Nil] /\ fReadOnly' = fReadOnly /\ buffers[b] # Nil
    BY <1>3 DEF Evict
  <2>2. BuffersOK' /\ buffers'[b] = Nil /\ \A c \in BufferedBlocks \ {b} : buffers'[c] = buffers[c]
    BY <1>1, <2>1, OneBufferChanged
  <2>3. CASE IsDirty(b)
    <3>1. Written(b :> buffers[b].data)
      BY <1>3, <2>3 DEF Evict
    <3>. QED  BY <1>1, <2>1, <2>2, <2>3, <3>1, OneBufferWritten DEF BufferStep, BufferWritten
  <2>4. CASE ~IsDirty(b)
    <3>1. NoIo
      BY <1>3, <2>4 DEF Evict
    <3>2. DeviceOK' /\ media' = media /\ maybe' = maybe
      BY <1>1, <3>1, NoIoBlocks
    <3>. QED  BY <1>1, <2>1, <2>2, <2>4, <3>2 DEF BufferStep, BufferDropped
  <2>. QED  BY <2>3, <2>4
<1>4. CASE ReadRange(b)
  <2>1. /\ IsDirty(b) /\ Written(b :> buffers[b].data) /\ fReadOnly' = fReadOnly
        /\ buffers' = [buffers EXCEPT ![b].fDirty = FALSE]
    BY <1>4 DEF ReadRange
  <2>2. buffers[b].data \in Contents(b) /\ buffers[b] \in [fDirty : BOOLEAN, data : Contents(b)]
    BY <1>1, <2>1 DEF BuffersOK, IsDirty
  <2>3. buffers' = [buffers EXCEPT ![b] = Buffer(FALSE, buffers[b].data)]
    <3>1. [buffers[b] EXCEPT !.fDirty = FALSE] = Buffer(FALSE, buffers[b].data)
      BY <2>2, CleanedBuffer
    <3>2. buffers' = [buffers EXCEPT ![b] = [buffers[b] EXCEPT !.fDirty = FALSE]]
      BY <2>1
    <3>. QED  BY <3>1, <3>2
  <2>4. Buffer(FALSE, buffers[b].data) \in [fDirty : BOOLEAN, data : Contents(b)]
    BY <2>2, BufferIsNotNil
  <2>5. /\ BuffersOK' /\ buffers'[b] = Buffer(FALSE, buffers[b].data)
        /\ \A c \in BufferedBlocks \ {b} : buffers'[c] = buffers[c]
    BY <1>1, <2>3, <2>4, OneBufferChanged
  <2>6. /\ DeviceOK' /\ media'[b] = buffers[b].data
        /\ \A c \in Blocks \ {b} : media'[c] = media[c] /\ maybe'[c] = maybe[c]
    BY <1>1, <2>1, OneBufferWritten
  <2>. QED  BY <1>1, <2>1, <2>5, <2>6 DEF BufferStep, BufferWritten
<1>5. CASE BufferWriteFails(b)
  <2>1. WriteFailed(<<>>, b) /\ buffers' = buffers /\ fReadOnly' = TRUE /\ IsDirty(b)
    BY <1>5 DEF BufferWriteFails, CriticalError
  <2>2. Unfinished(b) = {Junk}
    BY Regions DEF Unfinished
  <2>3. /\ DeviceOK' /\ maybe'[b] = {Junk}
        /\ \A c \in Blocks \ {b} : media'[c] = media[c] /\ maybe'[c] = maybe[c]
    BY <1>1, <2>1, <2>2, OneWriteFailed
  <2>4. BuffersOK'
    BY <1>1, <2>1 DEF BuffersOK
  <2>. QED  BY <1>1, <2>1, <2>3, <2>4 DEF BufferStep, WriteOfBufferFailed
<1>. QED  BY <1>2, <1>3, <1>4, <1>5

(* They keep CowInv: a dirty buffer is of a block which is not committed.  *)
LEMMA CowBufferStep ==
  ASSUME CowInv, NEW b \in BufferedBlocks, BufferStep(b),
         BlockRead(b) \/ BufferDropped(b) \/ BufferWritten(b) \/ WriteOfBufferFailed(b)
  PROVE  CowInv'
<1>1. CowParts
  BY CowInvParts
<1>2. /\ fMounted /\ step = "idle" /\ DeviceOK' /\ BuffersOK' /\ fReadOnly' \in BOOLEAN
      /\ gpRedMR' = gpRedMR /\ ulAlmostFreeBlocks' = ulAlmostFreeBlocks /\ fBranched' = fBranched
      /\ UNCHANGED <<cmtMR, bCurMR, ullSequence, fMounted, step>>
      /\ gpRedMR \in Bits!MetaRoot /\ OneSlot(gpRedMR) /\ ulAlmostFreeBlocks \in Nat
      /\ fBranched \in BOOLEAN
  BY <1>1 DEF BufferStep, mrVars, CowParts
<1>3. \A k \in 0 .. 1 : maybe'[MetarootBlock(k)] = maybe[MetarootBlock(k)]
  BY NoMetarootWritten DEF BufferStep
<1>4. buffers'[b] # Nil /\ buffers'[b].fDirty => IsDirty(b)
  BY BufferIsNotNil DEF BlockRead, BufferDropped, BufferWritten, WriteOfBufferFailed
<1>5. \A c \in BufferedBlocks : buffers'[c] # Nil /\ buffers'[c].fDirty => c \notin cmtMR.abEntries
  BY <1>1, <1>4 DEF BufferStep, CowParts, IsDirty
<1>6. OneSlot(gpRedMR')
  BY <1>2
<1>. QED  BY <1>2, <1>3, <1>5, <1>6, CowFrame

(* The buffers of S are written and clean.                                 *)
LEMMA CleanedBuffers ==
  ASSUME BuffersOK, NEW S \in SUBSET DirtyBlocks, buffers' = Cleaned(S)
  PROVE  /\ BuffersOK' /\ S \subseteq Blocks
         /\ DOMAIN DirtyData(S) = S
         /\ \A b \in S : /\ DirtyData(S)[b] = buffers[b].data
                         /\ DirtyData(S)[b] \in Contents(b)
                         /\ buffers'[b] = Buffer(FALSE, buffers[b].data)
                         /\ buffers'[b] # Nil /\ buffers'[b].fDirty = FALSE
                         /\ buffers'[b].data = buffers[b].data
         /\ \A b \in BufferedBlocks \ S : buffers'[b] = buffers[b]
<1>1. \A b \in S : b \in BufferedBlocks /\ buffers[b].data \in Contents(b)
  BY DEF BuffersOK, DirtyBlocks, IsDirty
<1>2. \A b \in S : /\ Buffer(FALSE, buffers[b].data) # Nil
                   /\ Buffer(FALSE, buffers[b].data) \in [fDirty : BOOLEAN, data : Contents(b)]
                   /\ Buffer(FALSE, buffers[b].data).fDirty = FALSE
                   /\ Buffer(FALSE, buffers[b].data).data = buffers[b].data
  <2> SUFFICES ASSUME NEW b \in S
               PROVE  /\ Buffer(FALSE, buffers[b].data) # Nil
                      /\ Buffer(FALSE, buffers[b].data) \in [fDirty : BOOLEAN, data : Contents(b)]
                      /\ Buffer(FALSE, buffers[b].data).fDirty = FALSE
                      /\ Buffer(FALSE, buffers[b].data).data = buffers[b].data
    OBVIOUS
  <2>1. PICK d : d = buffers[b].data
    OBVIOUS
  <2>2. b \in BufferedBlocks /\ d \in Contents(b)
    BY <1>1, <2>1
  <2>3. /\ Buffer(FALSE, d) # Nil
        /\ Buffer(FALSE, d) \in [fDirty : BOOLEAN, data : Contents(b)]
        /\ Buffer(FALSE, d).fDirty = FALSE /\ Buffer(FALSE, d).data = d
    BY <2>2, BufferIsNotNil
  <2>. QED  BY <2>1, <2>3
<1>3. /\ DOMAIN DirtyData(S) = S /\ \A b \in S : DirtyData(S)[b] = buffers[b].data
  BY DEF DirtyData
<1>4. /\ DOMAIN buffers' = BufferedBlocks
      /\ \A b \in S : buffers'[b] = Buffer(FALSE, buffers[b].data)
      /\ \A b \in BufferedBlocks \ S : buffers'[b] = buffers[b]
  BY <1>1 DEF Cleaned
<1>5. BuffersOK'
  BY <1>2, <1>4 DEF BuffersOK
<1>6. S \subseteq Blocks
  BY <1>1, Regions
<1>. QED  BY <1>1, <1>2, <1>3, <1>4, <1>5, <1>6

(* RedBufferDiscardRange of the whole volume leaves no buffer.             *)
LEMMA BuffersEmptied ==
  ASSUME buffers' = NoBuffers
  PROVE  BuffersOK' /\ (\A b \in BufferedBlocks : buffers'[b] = Nil) /\ (\A b \in BufferedBlocks : ~IsDirty(b)')
BY DEF NoBuffers, BuffersOK, IsDirty

(* All buffers are written at the first step of the transaction point.     *)
AllBuffersWritten ==
  /\ gpRedMR' \in Bits!MetaRoot /\ gpRedMR'.abEntries = gpRedMR.abEntries
  /\ ulAlmostFreeBlocks' = 0
  /\ DeviceOK' /\ BuffersOK'
  /\ \A b \in DirtyBlocks : media'[b] = buffers[b].data
  /\ \A b \in Blocks \ DirtyBlocks : media'[b] = media[b] /\ maybe'[b] = maybe[b]
  /\ \A b \in DirtyBlocks : buffers'[b] # Nil /\ ~buffers'[b].fDirty /\ buffers'[b].data = buffers[b].data
  /\ \A b \in BufferedBlocks \ DirtyBlocks : buffers'[b] = buffers[b]

(* If every write succeeds, every dirty buffer is on the media and clean.  *)
LEMMA BuffersWritten ==
  ASSUME CowInv, Ready, FoldAlmostFree, Written(DirtyData(DirtyBlocks)),
         buffers' = Cleaned(DirtyBlocks)
  PROVE  AllBuffersWritten
<1>1. DeviceOK /\ BuffersOK /\ gpRedMR \in Bits!MetaRoot /\ ulAlmostFreeBlocks \in Nat
  BY CowInvParts DEF CowParts, Ready
<1>2. PICK S : S = DirtyBlocks
  OBVIOUS
<1>3. S \in SUBSET DirtyBlocks /\ buffers' = Cleaned(S) /\ Written(DirtyData(S))
  BY <1>2
<1>4. /\ BuffersOK' /\ S \subseteq Blocks
      /\ DOMAIN DirtyData(S) = S
      /\ \A b \in S : /\ DirtyData(S)[b] = buffers[b].data
                      /\ DirtyData(S)[b] \in Contents(b)
                      /\ buffers'[b] # Nil /\ buffers'[b].fDirty = FALSE
                      /\ buffers'[b].data = buffers[b].data
      /\ \A b \in BufferedBlocks \ S : buffers'[b] = buffers[b]
  BY <1>1, <1>3, CleanedBuffers
<1>5. /\ DeviceOK'
      /\ \A b \in S : media'[b] = DirtyData(S)[b]
      /\ \A b \in Blocks \ S : media'[b] = media[b] /\ maybe'[b] = maybe[b]
  <2>1. PICK written : written = DirtyData(S)
    OBVIOUS
  <2>2. /\ DeviceOK /\ S \in SUBSET Blocks /\ DOMAIN written = S /\ Written(written)
        /\ \A b \in S : written[b] \in Contents(b)
    BY <1>1, <1>3, <1>4, <2>1
  <2>3. /\ DeviceOK' /\ \A b \in S : media'[b] = written[b]
        /\ \A b \in Blocks \ S : media'[b] = media[b] /\ maybe'[b] = maybe[b]
    BY <2>2, WrittenBlocks
  <2>. QED  BY <2>1, <2>3
<1>6. /\ gpRedMR' \in Bits!MetaRoot /\ gpRedMR'.abEntries = gpRedMR.abEntries
      /\ ulAlmostFreeBlocks' = 0
  BY <1>1, TransactedFields DEF FoldAlmostFree
<1>. QED  BY <1>2, <1>4, <1>5, <1>6 DEF AllBuffersWritten

(* The first step of RedVolTransact writes no committed block.             *)
LEMMA CowTransactBuffers ==
  ASSUME CowInv, TransactBuffers
  PROVE  AllBuffersWritten /\ CowInv'
<1>1. AllBuffersWritten
  BY BuffersWritten DEF TransactBuffers
<1>2. CowParts
  BY CowInvParts
<1>3. /\ Ready /\ ullSequence < SeqMax /\ step' = "flush"
      /\ UNCHANGED <<ullSequence, fReadOnly, cmtMR, bCurMR, fBranched, fMounted>>
  BY DEF TransactBuffers, FoldAlmostFree
<1>4. DirtyBlocks \in SUBSET BufferedBlocks /\ \A b \in BufferedBlocks : IsDirty(b) <=> b \in DirtyBlocks
  BY DEF DirtyBlocks
<1>5. \A b \in BufferedBlocks : ~IsDirty(b)'
  BY <1>1, <1>4 DEF AllBuffersWritten, IsDirty
<1>6. \A k \in 0 .. 1 : maybe'[MetarootBlock(k)] = maybe[MetarootBlock(k)]
  BY <1>1, <1>4, NoMetarootWritten DEF AllBuffersWritten
<1>7. OneSlot(gpRedMR') /\ OneSlot(cmtMR')
  BY <1>1, <1>2, <1>3, MetaRootFields DEF AllBuffersWritten, OneSlot, CowParts, Ready
<1>8. CowParts'
  BY <1>1, <1>2, <1>3, <1>5, <1>6, <1>7 DEF AllBuffersWritten, CowParts, Ready, MetaRoots
<1>. QED  BY <1>1, <1>8, CowInvPartsNext

(* Every buffer reads as before, and one that was written agrees with the  *)
(* media.                                                                  *)
BuffersSame ==
  \A b \in BufferedBlocks :
    \/ buffers'[b] = buffers[b] /\ (media'[b] = media[b] \/ IsDirty(b))
    \/ /\ buffers[b] # Nil /\ buffers'[b] # Nil
       /\ buffers'[b].data = buffers[b].data /\ media'[b] = buffers[b].data

(* Writing them all changes no contents of a buffer.                       *)
LEMMA AllBuffersSame ==
  ASSUME AllBuffersWritten
  PROVE  BuffersSame
BY Regions DEF AllBuffersWritten, BuffersSame, DirtyBlocks, IsDirty

(* Some of the buffers are, if that step fails.                            *)
LEMMA BuffersWrittenOrNot ==
  ASSUME CowInv, TransactBuffersFail
  PROVE  /\ DeviceOK' /\ BuffersOK' /\ BuffersSame
         /\ gpRedMR'.abEntries = gpRedMR.abEntries
         /\ \A b \in Blocks \ DirtyBlocks : media'[b] = media[b] /\ maybe'[b] = maybe[b]
         /\ \A b \in BufferedBlocks : buffers'[b] # Nil /\ buffers'[b].fDirty => IsDirty(b)
<1>2. CowParts
  BY CowInvParts
<1>3. /\ Ready /\ fReadOnly' = TRUE /\ fBranched' \in BOOLEAN
      /\ UNCHANGED <<ullSequence, cmtMR, bCurMR, fBranched, fMounted, step>>
      /\ fMounted /\ step = "idle" /\ ulAlmostFreeBlocks' = 0
      /\ gpRedMR' \in Bits!MetaRoot /\ gpRedMR'.abEntries = gpRedMR.abEntries
  BY <1>2, TransactedFields DEF TransactBuffersFail, FoldAlmostFree, CriticalError, CowParts, Ready
<1>4. DirtyBlocks \in SUBSET BufferedBlocks /\ \A b \in BufferedBlocks : IsDirty(b) <=> b \in DirtyBlocks
  BY DEF DirtyBlocks
<1>5. CASE Written(DirtyData(DirtyBlocks)) /\ buffers' = Cleaned(DirtyBlocks)
  <2>1. AllBuffersWritten
    BY <1>3, <1>5, BuffersWritten DEF TransactBuffersFail
  <2>. QED  BY <1>3, <1>4, <2>1, AllBuffersSame DEF AllBuffersWritten, IsDirty
<1>6. CASE \E b \in DirtyBlocks : \E before \in SUBSET (DirtyBlocks \ {b}) :
             WriteFailed(DirtyData(before), b) /\ buffers' = Cleaned(before)
  <2>0. PICK b \in DirtyBlocks : \E before \in SUBSET (DirtyBlocks \ {b}) :
          WriteFailed(DirtyData(before), b) /\ buffers' = Cleaned(before)
    BY <1>6
  <2>1. PICK before \in SUBSET (DirtyBlocks \ {b}) :
          WriteFailed(DirtyData(before), b) /\ buffers' = Cleaned(before)
    BY <2>0
  <2>2. before \in SUBSET DirtyBlocks /\ BuffersOK /\ DeviceOK
    BY <1>2, <2>1 DEF CowParts
  <2>3. /\ BuffersOK' /\ before \subseteq Blocks
        /\ DOMAIN DirtyData(before) = before
        /\ \A c \in before : /\ DirtyData(before)[c] \in Contents(c)
                             /\ DirtyData(before)[c] = buffers[c].data
                             /\ buffers'[c].fDirty = FALSE /\ buffers'[c] # Nil
                             /\ buffers'[c].data = buffers[c].data
        /\ \A c \in BufferedBlocks \ before : buffers'[c] = buffers[c]
    BY <2>1, <2>2, CleanedBuffers
  <2>4. b \in Blocks \ before
    BY <1>4, Regions
  <2>5. /\ DeviceOK'
        /\ \A c \in before : media'[c] = DirtyData(before)[c]
        /\ \A c \in Blocks \ (before \cup {b}) : media'[c] = media[c] /\ maybe'[c] = maybe[c]
    <3>1. PICK written : written = DirtyData(before)
      OBVIOUS
    <3>2. /\ DeviceOK /\ before \in SUBSET Blocks /\ DOMAIN written = before
          /\ \A c \in before : written[c] \in Contents(c)
          /\ b \in Blocks \ before /\ WriteFailed(written, b)
      BY <2>1, <2>2, <2>3, <2>4, <3>1
    <3>3. /\ DeviceOK' /\ \A c \in before : media'[c] = written[c]
          /\ \A c \in Blocks \ (before \cup {b}) : media'[c] = media[c] /\ maybe'[c] = maybe[c]
      BY <3>2, WriteFailedBlocks
    <3>. QED  BY <3>1, <3>3
  <2>6. \A c \in Blocks \ DirtyBlocks : media'[c] = media[c] /\ maybe'[c] = maybe[c]
    BY <2>2, <2>5
  <2>7. \A c \in BufferedBlocks : buffers'[c] # Nil /\ buffers'[c].fDirty => IsDirty(c)
    BY <2>3 DEF IsDirty
  <2>8. BuffersSame
    <3> SUFFICES ASSUME NEW c \in BufferedBlocks
                 PROVE  \/ buffers'[c] = buffers[c] /\ (media'[c] = media[c] \/ IsDirty(c))
                        \/ /\ buffers[c] # Nil /\ buffers'[c] # Nil
                           /\ buffers'[c].data = buffers[c].data /\ media'[c] = buffers[c].data
      BY DEF BuffersSame
    <3>1. CASE c \in before
      BY <1>4, <2>2, <2>3, <2>5, <3>1 DEF IsDirty
    <3>2. CASE c = b
      BY <1>4, <2>3, <2>4, <3>2
    <3>3. CASE c \notin before /\ c # b
      BY <2>3, <2>5, <3>3, Regions
    <3>. QED  BY <3>1, <3>2, <3>3
  <2>. QED  BY <1>3, <2>3, <2>5, <2>6, <2>7, <2>8
<1>. QED  BY <1>5, <1>6 DEF TransactBuffersFail

(* The first step of RedVolTransact keeps CowInv if it fails half way,     *)
(* too.                                                                    *)
LEMMA CowTransactBuffersFail ==
  ASSUME CowInv, TransactBuffersFail
  PROVE  CowInv'
<1>2. CowParts
  BY CowInvParts
<1>3. /\ Ready /\ fReadOnly' = TRUE /\ fBranched' \in BOOLEAN
      /\ UNCHANGED <<ullSequence, cmtMR, bCurMR, fBranched, fMounted, step>>
      /\ fMounted /\ step = "idle" /\ ulAlmostFreeBlocks' = 0
      /\ gpRedMR' \in Bits!MetaRoot /\ gpRedMR'.abEntries = gpRedMR.abEntries
  BY <1>2, TransactedFields DEF TransactBuffersFail, FoldAlmostFree, CriticalError, CowParts, Ready
<1>4. DirtyBlocks \in SUBSET BufferedBlocks /\ \A b \in BufferedBlocks : IsDirty(b) <=> b \in DirtyBlocks
  BY DEF DirtyBlocks
<1>5. /\ DeviceOK' /\ BuffersOK'
      /\ \A b \in Blocks \ DirtyBlocks : media'[b] = media[b] /\ maybe'[b] = maybe[b]
      /\ \A b \in BufferedBlocks : buffers'[b] # Nil /\ buffers'[b].fDirty => IsDirty(b)
  BY BuffersWrittenOrNot
<1>6. \A k \in 0 .. 1 : maybe'[MetarootBlock(k)] = maybe[MetarootBlock(k)]
  BY <1>4, <1>5, NoMetarootWritten
<1>7. OneSlot(gpRedMR')
  BY <1>2, <1>3, MetaRootFields DEF OneSlot, CowParts
<1>8. \A b \in BufferedBlocks : buffers'[b] # Nil /\ buffers'[b].fDirty => b \notin cmtMR.abEntries
  BY <1>2, <1>5 DEF CowParts
<1>. QED  BY <1>3, <1>5, <1>6, <1>7, <1>8, CowFrame

(* The first flush keeps CowInv.                                           *)
LEMMA CowTransactFlush ==
  ASSUME CowInv, TransactFlush
  PROVE  CowInv'
<1>1. CowParts
  BY CowInvParts
<1>2. /\ step = "flush" /\ step' = "metaroot" /\ Flushed
      /\ UNCHANGED <<gpRedMR, cmtMR, bCurMR, ullSequence, ulAlmostFreeBlocks, fBranched,
                     buffers, fMounted, fReadOnly>>
  BY DEF TransactFlush, mrVars
<1>3. DeviceOK' /\ media' = media /\ \A b \in Blocks : maybe'[b] = {media[b]}
  BY <1>1, <1>2, FlushedBlocks DEF CowParts
<1>4. \A k \in 0 .. 1 : maybe'[MetarootBlock(k)] \subseteq maybe[MetarootBlock(k)]
  BY <1>1, <1>3, Regions DEF CowParts, DeviceOK
<1>5. CowParts'
  BY <1>1, <1>2, <1>3, <1>4 DEF CowParts, BuffersOK, IsDirty
<1>. QED  BY <1>5, CowInvPartsNext

(* The metaroot is written.                                                *)
MetarootWritten ==
  LET b == MetarootBlock(bCurMR)
      m == [ullSequence |-> ullSequence, body |-> gpRedMR]
  IN  /\ DeviceOK'
      /\ m \in DiskMetaroots
      /\ media'[b] = m
      /\ maybe'[b] = maybe[b] \cup {IF fAtomicSectorWrite THEN Torn ELSE Junk} \cup {m}
      /\ \A c \in Blocks \ {b} : media'[c] = media[c] /\ maybe'[c] = maybe[c]

(* TransactMetaroot writes one metaroot block and no other.                *)
LEMMA WrittenMetaroot ==
  ASSUME CowInv, TransactMetaroot
  PROVE  MetarootWritten
<1>1. PICK b, m, written :
        /\ b = MetarootBlock(bCurMR) /\ m = [ullSequence |-> ullSequence, body |-> gpRedMR]
        /\ written = b :> m
  OBVIOUS
<1>2. CowParts /\ Written(written) /\ step = "metaroot"
  BY <1>1, CowInvParts DEF TransactMetaroot
<1>3. b \in MetarootBlocks /\ b \in Blocks
  BY <1>1, <1>2, Regions DEF CowParts
<1>4. m \in DiskMetaroots
  BY <1>1, <1>2 DEF CowParts, DiskMetaroots
<1>5. DOMAIN written = {b} /\ written[b] = m /\ m \in Contents(b)
  BY <1>1, <1>2, <1>4, ContentsOf DEF :>, CowParts
<1>6. /\ DeviceOK'
      /\ media'[b] = m /\ maybe'[b] = Unfinished(b) \cup {m}
      /\ \A c \in Blocks \ {b} : media'[c] = media[c] /\ maybe'[c] = maybe[c]
  BY <1>2, <1>3, <1>5, WrittenBlocks DEF CowParts
<1>7. Unfinished(b) = maybe[b] \cup {IF fAtomicSectorWrite THEN Torn ELSE Junk}
  BY <1>3 DEF Unfinished
<1>. QED  BY <1>1, <1>4, <1>6, <1>7 DEF MetarootWritten

(* That keeps CowInv,                                                      *)
LEMMA CowTransactMetaroot ==
  ASSUME CowInv, TransactMetaroot
  PROVE  CowInv'
<1>1. CowParts /\ MetarootWritten
  BY CowInvParts, WrittenMetaroot
<1>2. /\ step = "metaroot" /\ step' = "sync" /\ ullSequence' = ullSequence + 1
      /\ UNCHANGED <<gpRedMR, cmtMR, bCurMR, ulAlmostFreeBlocks, fBranched,
                     buffers, fMounted, fReadOnly>>
  BY DEF TransactMetaroot
<1>3. ullSequence' \in 0 .. SeqMax
  BY <1>1, <1>2 DEF CowParts
<1>4. ASSUME NEW k \in 0 .. 1, NEW m \in DiskMetaroots, m \in maybe'[MetarootBlock(k)]
      PROVE  OneSlot(m.body)
  <2>1. CASE MetarootBlock(k) = MetarootBlock(bCurMR)
    <3>1. m \in maybe[MetarootBlock(k)] \/ m = [ullSequence |-> ullSequence, body |-> gpRedMR]
      BY <1>1, <1>4, <2>1, SentinelAssumption DEF MetarootWritten
    <3>2. CASE m = [ullSequence |-> ullSequence, body |-> gpRedMR]
      <4>1. m.body = gpRedMR
        BY <3>2
      <4>. QED  BY <1>1, <1>2, <4>1 DEF CowParts
    <3>. QED  BY <1>1, <3>1, <3>2 DEF CowParts
  <2>2. CASE MetarootBlock(k) # MetarootBlock(bCurMR)
    <3>1. maybe'[MetarootBlock(k)] = maybe[MetarootBlock(k)]
      BY <1>1, <2>2, Regions DEF MetarootWritten
    <3>. QED  BY <1>1, <1>4, <3>1 DEF CowParts
  <2>. QED  BY <2>1, <2>2
<1>5. DeviceOK'
  BY <1>1 DEF MetarootWritten
<1>6. CowParts'
  BY <1>1, <1>2, <1>3, <1>4, <1>5 DEF CowParts, BuffersOK, IsDirty, OneSlot
<1>. QED  BY <1>6, CowInvPartsNext

(* and so does making the new metaroot the committed one: there is no      *)
(* dirty buffer then,                                                      *)
LEMMA CowTransactComplete ==
  ASSUME CowInv, TransactComplete
  PROVE  CowInv'
<1>1. CowParts
  BY CowInvParts
<1>2. /\ step = "sync" /\ step' = "idle" /\ Flushed /\ cmtMR' = gpRedMR /\ bCurMR' = 1 - bCurMR
      /\ fBranched' = FALSE
      /\ UNCHANGED <<gpRedMR, ullSequence, ulAlmostFreeBlocks, buffers, fMounted, fReadOnly>>
  BY DEF TransactComplete
<1>3. DeviceOK' /\ media' = media /\ \A b \in Blocks : maybe'[b] = {media[b]}
  BY <1>1, <1>2, FlushedBlocks DEF CowParts
<1>4. \A k \in 0 .. 1 : maybe'[MetarootBlock(k)] \subseteq maybe[MetarootBlock(k)]
  BY <1>1, <1>3, Regions DEF CowParts, DeviceOK
<1>5. bCurMR' \in 0 .. 1
  BY <1>1, <1>2, Regions DEF CowParts
<1>6. OneSlot(cmtMR') /\ OneSlot(gpRedMR') /\ cmtMR' \in Bits!MetaRoot
  BY <1>1, <1>2 DEF CowParts, OneSlot
<1>7. CowParts'
  BY <1>1, <1>2, <1>3, <1>4, <1>5, <1>6 DEF CowParts, BuffersOK, IsDirty
<1>. QED  BY <1>7, CowInvPartsNext

(* and giving up on a write or a flush that failed.                        *)
LEMMA CowTransactFails ==
  ASSUME CowInv, TransactFails
  PROVE  CowInv'
<1>1. CowParts
  BY CowInvParts
<1>2. /\ step # "idle" /\ step' = "idle" /\ fReadOnly' = TRUE
      /\ UNCHANGED <<gpRedMR, cmtMR, bCurMR, ullSequence, ulAlmostFreeBlocks, fBranched,
                     buffers, fMounted>>
  BY DEF TransactFails, CriticalError, mrVars
<1>3. DeviceOK' /\ \A k \in 0 .. 1 : maybe'[MetarootBlock(k)] \cap DiskMetaroots
                                       \subseteq maybe[MetarootBlock(k)]
  <2>1. CASE NoIo
    BY <1>1, <2>1, NoIoBlocks DEF CowParts
  <2>2. CASE WriteFailed(<<>>, MetarootBlock(bCurMR))
    <3>1. PICK b : b = MetarootBlock(bCurMR)
      OBVIOUS
    <3>2. b \in Blocks /\ b \in MetarootBlocks /\ DeviceOK
      BY <1>1, <3>1, Regions DEF CowParts
    <3>3. /\ DeviceOK' /\ maybe'[b] = Unfinished(b)
          /\ \A c \in Blocks \ {b} : maybe'[c] = maybe[c]
      BY <2>2, <3>1, <3>2, OneWriteFailed
    <3>4. Unfinished(b) \cap DiskMetaroots \subseteq maybe[b]
      BY <3>2, SentinelAssumption DEF Unfinished
    <3>. QED  BY <3>3, <3>4, Regions
  <2>. QED  BY <2>1, <2>2 DEF TransactFails
<1>4. CowParts'
  BY <1>1, <1>2, <1>3 DEF CowParts, BuffersOK, IsDirty, OneSlot
<1>. QED  BY <1>4, CowInvPartsNext

(* A mount, of a volume which has no buffers.                              *)
LEMMA CowMounted ==
  ASSUME CowInv, MountMetaroot, step = "idle", NoIo, BuffersOK',
         \A b \in BufferedBlocks : ~IsDirty(b)',
         fBranched' \in BOOLEAN, fReadOnly' \in BOOLEAN, step' = step
  PROVE  CowInv'
<1>1. CowParts
  BY CowInvParts
<1>2. DeviceOK /\ DeviceOK' /\ media' = media /\ maybe' = maybe
  BY <1>1, NoIoBlocks DEF CowParts
<1>3. PICK k \in 0 .. 1 : LET disk == media[MetarootBlock(k)] IN
         /\ disk \in DiskMetaroots
         /\ gpRedMR' = disk.body /\ cmtMR' = disk.body /\ gpRedMR' \in Bits!MetaRoot
         /\ bCurMR' \in 0 .. 1 /\ ullSequence' \in 0 .. SeqMax
         /\ ulAlmostFreeBlocks' = 0 /\ fMounted' = TRUE
  BY <1>2, MountedMetaroot
<1>4. OneSlot(media[MetarootBlock(k)].body)
  BY <1>1, <1>2, <1>3, Regions DEF CowParts, DeviceOK
<1>5. OneSlot(gpRedMR') /\ OneSlot(cmtMR')
  BY <1>3, <1>4
<1>6. CowParts'
  BY <1>1, <1>2, <1>3, <1>5 DEF CowParts, MetaRoots, OneSlot
<1>. QED  BY <1>6, CowInvPartsNext

(* A mount keeps CowInv: there are no buffers then.                        *)
LEMMA CowMount ==
  ASSUME CowInv, Mount
  PROVE  CowInv'
<1>1. CowParts
  BY CowInvParts
<1>2. /\ ~fMounted /\ MountMetaroot /\ NoIo /\ fReadOnly' = FALSE
      /\ UNCHANGED <<buffers, fBranched, step>>
  BY DEF Mount
<1>3. step = "idle" /\ BuffersOK' /\ buffers' = NoBuffers /\ fBranched' \in BOOLEAN
  BY <1>1, <1>2 DEF CowParts, BuffersOK
<1>. QED  BY <1>2, <1>3, BuffersEmptied, CowMounted

(* A rollback keeps CowInv: it has discarded every buffer.                 *)
LEMMA CowRollback ==
  ASSUME CowInv, Rollback
  PROVE  CowInv'
<1>1. CowParts
  BY CowInvParts
<1>2. /\ step = "idle" /\ MountMetaroot /\ NoIo /\ buffers' = NoBuffers /\ fBranched' = FALSE
      /\ fReadOnly' = fReadOnly /\ step' = step
  BY DEF Rollback, Ready
<1>3. fReadOnly' \in BOOLEAN
  BY <1>1, <1>2 DEF CowParts
<1>. QED  BY <1>2, <1>3, BuffersEmptied, CowMounted

(* The memory is forgotten.                                                *)
LEMMA CowForgotten ==
  ASSUME CowInv, ForgetMetaroots, buffers' = NoBuffers, fMounted' = FALSE, DeviceOK',
         \A k \in 0 .. 1 : maybe'[MetarootBlock(k)] \subseteq maybe[MetarootBlock(k)],
         fBranched' \in BOOLEAN, fReadOnly' \in BOOLEAN, step' = "idle"
  PROVE  CowInv'
<1>1. CowParts
  BY CowInvParts
<1>2. BuffersOK' /\ \A b \in BufferedBlocks : ~IsDirty(b)'
  BY BuffersEmptied
<1>3. /\ gpRedMR' \in MetaRoots /\ cmtMR' \in MetaRoots /\ bCurMR' \in 0 .. 1
      /\ ullSequence' \in 0 .. SeqMax /\ ulAlmostFreeBlocks' \in Nat
  BY DEF ForgetMetaroots, MetaRoots
<1>4. \A k \in 0 .. 1 : \A m \in DiskMetaroots : m \in maybe'[MetarootBlock(k)] => OneSlot(m.body)
  BY <1>1 DEF CowParts
<1>5. buffers' = NoBuffers'
  BY DEF NoBuffers
<1>6. CowParts'
  BY <1>2, <1>3, <1>4, <1>5 DEF CowParts, OneSlot
<1>. QED  BY <1>6, CowInvPartsNext

(* So does an unmount,                                                     *)
LEMMA CowUnmount ==
  ASSUME CowInv, Unmount
  PROVE  CowInv'
<1>1. CowParts
  BY CowInvParts
<1>2. /\ step = "idle" /\ ForgetMetaroots /\ NoIo /\ buffers' = NoBuffers /\ fMounted' = FALSE
      /\ UNCHANGED <<fBranched, fReadOnly, step>>
  BY DEF Unmount
<1>3. DeviceOK' /\ maybe' = maybe
  BY <1>1, <1>2, NoIoBlocks DEF CowParts
<1>4. fBranched' \in BOOLEAN /\ fReadOnly' \in BOOLEAN
  BY <1>1, <1>2 DEF CowParts
<1>. QED  BY <1>2, <1>3, <1>4, CowForgotten

(* and a loss of power.                                                    *)
LEMMA CowPowerLoss ==
  ASSUME CowInv, PowerLoss
  PROVE  CowInv'
<1>1. CowParts
  BY CowInvParts
<1>2. PICK m \in Remains : media' = m /\ maybe' = [b \in Blocks |-> {m[b]}]
  BY DEF PowerLoss
<1>3. DeviceOK' /\ \A b \in Blocks : media'[b] \in maybe[b] /\ maybe'[b] = {media'[b]}
  BY <1>1, <1>2, RemainingBlocks DEF CowParts
<1>4. \A k \in 0 .. 1 : maybe'[MetarootBlock(k)] \subseteq maybe[MetarootBlock(k)]
  BY <1>3, Regions
<1>5. /\ ForgetMetaroots /\ buffers' = NoBuffers /\ fMounted' = FALSE
      /\ fBranched' = FALSE /\ fReadOnly' = FALSE /\ step' = "idle"
  BY DEF PowerLoss
<1>. QED  BY <1>3, <1>4, <1>5, CowForgotten

(* The volume just formatted: nothing of a file is allocated.              *)
LEMMA InitialMedia ==
  ASSUME Init
  PROVE  \E m0, m1 \in DiskMetaroots :
           /\ media[MetarootBlock(0)] = m0 /\ media[MetarootBlock(1)] = m1
           /\ m0.ullSequence = 0 /\ m1.ullSequence = 1
           /\ m0.body \in Bits!MetaRoot /\ m1.body \in Bits!MetaRoot
           /\ \A b \in BufferedBlocks : b \notin m0.body.abEntries /\ b \notin m1.body.abEntries
           /\ \A b \in Blocks : maybe[b] = {media[b]}
           /\ DeviceOK
<1>3. ulBlocksAllocable \in Nat /\ ulInodeCount - 1 \in Nat /\ ulInodeCount \in Nat
  BY DEF ulBlocksAllocable, ulFirstAllocableBN
<1> DEFINE root  == Bits!RootMetaRoot(ulBlocksAllocable)
           empty == [root EXCEPT !.abEntries = {}, !.ulFreeInodes = ulInodeCount]
<1>4. /\ root \in Bits!MetaRoot
      /\ root.abEntries = {InodeBlock(INODE_ROOTDIR, 0)}
  <2>1. root = [ abEntries |-> {InodeBlock(INODE_ROOTDIR, 0)}, ulFreeBlocks |-> ulBlocksAllocable,
                 ulFreeInodes |-> ulInodeCount - 1, ulAllocNextBlock |-> ulFirstAllocableBN ]
    BY BitsLayout DEF Bits!RootMetaRoot, Bits!INODE_ROOTDIR, INODE_ROOTDIR, INODE_FIRST_VALID,
                      Bits!INODE_FIRST_VALID, Bits!ulFirstAllocableBN, ulFirstAllocableBN
  <2>2. InodeBlock(INODE_ROOTDIR, 0) \in ImapBlocks /\ ulFirstAllocableBN \in AllocableBlocks
    BY DEF INODE_ROOTDIR, INODE_FIRST_VALID, InodeBlock, ImapBlocks, AllocableBlocks, ulFirstAllocableBN
  <2> HIDE DEF root
  <2>. QED  BY <1>3, <2>1, <2>2, MetaRootFields
<1>5. empty \in Bits!MetaRoot /\ empty.abEntries = {}
  BY <1>3, <1>4, MetaRootFields
<1>6. InodeBlock(INODE_ROOTDIR, 0) \notin BufferedBlocks
  BY DEF BufferedBlocks, FileSlots, AllocableBlocks, ulFirstAllocableBN, Files, FreeableInodes,
         Inodes, InodeBlock, INODE_ROOTDIR, INODE_FIRST_VALID, Slots
<1> DEFINE m0 == [ullSequence |-> 0, body |-> empty]
           m1 == [ullSequence |-> 1, body |-> root]
<1>7. media = [b \in Blocks |-> CASE b = MetarootBlock(0) -> m0 [] b = MetarootBlock(1) -> m1
                                  [] OTHER -> Junk]
  BY DEF Init
<1> HIDE DEF root, empty
<1>8. m0 \in DiskMetaroots /\ m1 \in DiskMetaroots /\ m0.body = empty /\ m1.body = root
      /\ m0.ullSequence = 0 /\ m1.ullSequence = 1
  BY <1>4, <1>5 DEF DiskMetaroots
<1> HIDE DEF m0, m1
<1>9. /\ DOMAIN media = Blocks /\ media[MetarootBlock(0)] = m0 /\ media[MetarootBlock(1)] = m1
      /\ \A b \in BufferedBlocks : media[b] = Junk
  BY <1>7, Regions
<1>10. DOMAIN maybe = Blocks /\ \A b \in Blocks : maybe[b] = {media[b]}
  BY DEF Init
<1>11. DeviceOK
  <2>1. \A b \in Blocks : media[b] \in Contents(b)
    <3>1. \A k \in 0 .. 1 : media[MetarootBlock(k)] \in Contents(MetarootBlock(k))
      <4>1. \A k \in 0 .. 1 : k = 0 \/ k = 1
        OBVIOUS
      <4>. QED  BY <1>8, <1>9, <4>1, ContentsOf
    <3>. QED  BY <1>9, <3>1, ContentsOf, Regions DEF BufferedBlocks
  <2>. QED  BY <1>9, <1>10, <2>1 DEF DeviceOK
<1>12. \A b \in BufferedBlocks : b \notin m0.body.abEntries /\ b \notin m1.body.abEntries
  BY <1>4, <1>5, <1>6, <1>8
<1>. QED  BY <1>4, <1>5, <1>8, <1>9, <1>10, <1>11, <1>12

(* A formatted volume satisfies CowInv.                                    *)
LEMMA CowInit ==
  ASSUME Init
  PROVE  CowInv
<1>1. /\ buffers = NoBuffers /\ gpRedMR = ZeroedMetaroot /\ cmtMR = ZeroedMetaroot
      /\ bCurMR = 0 /\ ullSequence = 0 /\ ulAlmostFreeBlocks = 0
      /\ fBranched = FALSE /\ fMounted = FALSE /\ fReadOnly = FALSE
      /\ step = "idle"
  BY DEF Init
<1>2. BuffersOK /\ \A b \in BufferedBlocks : ~IsDirty(b)
  BY <1>1 DEF BuffersOK, NoBuffers, IsDirty
<1>3. PICK m0, m1 \in DiskMetaroots :
           /\ media[MetarootBlock(0)] = m0 /\ media[MetarootBlock(1)] = m1
           /\ m0.body \in Bits!MetaRoot /\ m1.body \in Bits!MetaRoot
           /\ \A b \in BufferedBlocks : b \notin m0.body.abEntries /\ b \notin m1.body.abEntries
           /\ \A b \in Blocks : maybe[b] = {media[b]}
           /\ DeviceOK
  BY InitialMedia
<1>6. OneSlot(m0.body) /\ OneSlot(m1.body)
  <2>1. 0 \in Slots
    BY DEF Slots
  <2>2. \A f \in Files : /\ ~Bits!Allocated(m0.body, InodeBlock(f, 0))
                         /\ ~Bits!Allocated(m1.body, InodeBlock(f, 0))
    BY <1>3, <2>1, Regions, MetaRootFields
  <2>. QED  BY <2>1, <2>2 DEF OneSlot
<1>12. \A k \in 0 .. 1 : \A m \in DiskMetaroots : m \in maybe[MetarootBlock(k)] => OneSlot(m.body)
  <2>1. \A k \in 0 .. 1 : maybe[MetarootBlock(k)] = {media[MetarootBlock(k)]} /\ (k = 0 \/ k = 1)
    BY <1>3, Regions
  <2>. QED  BY <1>3, <1>6, <2>1
<1>13. 0 \in 0 .. 1 /\ 0 \in 0 .. SeqMax
  OBVIOUS
<1>14. CowParts
  BY <1>1, <1>2, <1>3, <1>12, <1>13 DEF CowParts, MetaRoots
<1>. QED  BY <1>14, CowInvParts

(* CowInv depends on nothing but the variables.                            *)
LEMMA CowStutter ==
  ASSUME CowInv, UNCHANGED vars
  PROVE  CowInv'
<1>1. CowParts
  BY CowInvParts
<1>2. CowParts'
  BY <1>1 DEF vars, devVars, mrVars, CowParts, DeviceOK, BuffersOK, IsDirty, OneSlot
<1>. QED  BY <1>2, CowInvPartsNext

(* Whatever happens.                                                       *)
LEMMA CowNext ==
  ASSUME CowInv, [Next]_vars
  PROVE  CowInv'
<1>1. CASE \/ \E f \in Files : Create(f) \/ Delete(f)
           \/ \E f \in Files, o \in Offsets, v \in Values \ {Zero} :
                WriteUnaligned(f, o, v) \/ WriteAligned(f, o, v)
           \/ \E f \in Files, o \in Offsets : WriteAlignedFails(f, o) \/ Truncate(f, o)
  BY <1>1, FileOperations, CowFileStep DEF FileChanged
<1>2. CASE \E b \in BufferedBlocks :
             BufferGet(b) \/ Evict(b) \/ ReadRange(b) \/ BufferWriteFails(b)
  BY <1>2, BufferOperations, CowBufferStep
<1>3. CASE TransactBuffers
  BY <1>3, CowTransactBuffers
<1>4. CASE TransactBuffersFail
  BY <1>4, CowTransactBuffersFail
<1>5. CASE TransactFlush
  BY <1>5, CowTransactFlush
<1>6. CASE TransactMetaroot
  BY <1>6, CowTransactMetaroot
<1>7. CASE TransactComplete
  BY <1>7, CowTransactComplete
<1>8. CASE TransactFails
  BY <1>8, CowTransactFails
<1>9. CASE Mount
  BY <1>9, CowMount
<1>10. CASE Rollback
  BY <1>10, CowRollback
<1>11. CASE Unmount
  BY <1>11, CowUnmount
<1>12. CASE PowerLoss
  BY <1>12, CowPowerLoss
<1>13. CASE UNCHANGED vars
  BY <1>13, CowStutter
<1>. QED  BY <1>1, <1>2, <1>3, <1>4, <1>5, <1>6, <1>7, <1>8, <1>9, <1>10, <1>11, <1>12, <1>13
         DEF Next

(* CowInv holds in every state, whatever fails and whenever it is mounted. *)
LEMMA CowInvariant == Spec => []CowInv
<1>1. Init => CowInv
  BY CowInit
<1>2. CowInv /\ [Next]_vars => CowInv'
  BY CowNext
<1>. QED  BY <1>1, <1>2, PTL DEF Spec

(* Memory, buffers and device hold what they may hold, whatever fails and  *)
(* wherever a power loss or a failed write cuts the operations short.      *)
THEOREM TypeCorrect == Spec => []TypeOK
<1>1. CowInv => TypeOK
  BY DEF CowInv
<1>. QED  BY <1>1, CowInvariant, PTL

(* No step of a mounted volume writes a block the committed metaroot has   *)
(* allocated: neither an operation, nor a buffer that leaves the pool, nor *)
(* a transaction point.                                                    *)
THEOREM CopyOnWrite == Spec => CommittedNotWritten
<1> DEFINE Kept == fMounted /\ fMounted' =>
              \A b \in BufferedBlocks : Bits!Allocated(cmtMR, b)
                => media'[b] = media[b] /\ maybe'[b] \subseteq maybe[b]
<1>1. CowInv /\ [Next]_vars => [Kept]_vars
  <2> SUFFICES ASSUME CowInv, [Next]_vars, fMounted, fMounted',
                      NEW b \in BufferedBlocks, b \in cmtMR.abEntries
               PROVE  media'[b] = media[b] /\ maybe'[b] \subseteq maybe[b]
    BY MetaRootFields
  <2>0. CowParts /\ b \in Blocks
    BY CowInvParts, Regions
  <2>1. CASE \/ \E f \in Files : Create(f) \/ Delete(f)
             \/ \E f \in Files, o \in Offsets, v \in Values \ {Zero} :
                  WriteUnaligned(f, o, v) \/ WriteAligned(f, o, v)
             \/ \E f \in Files, o \in Offsets : WriteAlignedFails(f, o) \/ Truncate(f, o)
    <3>1. PICK new, gone : FileStep(new, gone)
      BY <2>1, FileOperations DEF FileChanged
    <3>. QED  BY <2>0, <3>1 DEF FileStep
  <2>2. CASE \E c \in BufferedBlocks :
               BufferGet(c) \/ Evict(c) \/ ReadRange(c) \/ BufferWriteFails(c)
    <3>1. PICK c \in BufferedBlocks :
            /\ BufferStep(c)
            /\ BlockRead(c) \/ BufferDropped(c) \/ BufferWritten(c) \/ WriteOfBufferFailed(c)
      BY <2>2, BufferOperations
    <3>2. BlockRead(c) \/ BufferDropped(c) => media' = media /\ maybe' = maybe
      BY DEF BlockRead, BufferDropped
    <3>3. BufferWritten(c) \/ WriteOfBufferFailed(c) => b # c
      BY <2>0 DEF BufferWritten, WriteOfBufferFailed, CowParts
    <3>. QED  BY <2>0, <3>1, <3>2, <3>3 DEF BufferStep
  <2>3. CASE TransactBuffers
    BY <2>0, <2>3, CowTransactBuffers DEF AllBuffersWritten, CowParts, DirtyBlocks
  <2>4. CASE TransactBuffersFail
    <3>1. \A c \in Blocks \ DirtyBlocks : media'[c] = media[c] /\ maybe'[c] = maybe[c]
      BY <2>4, BuffersWrittenOrNot
    <3>. QED  BY <2>0, <3>1 DEF CowParts, DirtyBlocks
  <2>5. CASE TransactFlush \/ TransactComplete
    <3>1. Flushed
      BY <2>5 DEF TransactFlush, TransactComplete
    <3>. QED  BY <2>0, <3>1, FlushedBlocks DEF CowParts, DeviceOK
  <2>6. CASE TransactMetaroot
    BY <2>0, <2>6, WrittenMetaroot, Regions DEF MetarootWritten, CowParts
  <2>7. CASE TransactFails
    <3>1. CASE NoIo
      BY <2>0, <3>1, NoIoBlocks DEF CowParts
    <3>2. CASE WriteFailed(<<>>, MetarootBlock(bCurMR))
      <4>1. PICK c : c = MetarootBlock(bCurMR)
        OBVIOUS
      <4>2. c \in Blocks /\ c # b /\ DeviceOK
        BY <2>0, <4>1, Regions DEF CowParts
      <4>3. WriteFailed(<<>>, c)
        BY <3>2, <4>1
      <4>4. media'[b] = media[b] /\ maybe'[b] = maybe[b]
        BY <2>0, <4>2, <4>3, OneWriteFailed
      <4>. QED  BY <4>4
    <3>. QED  BY <2>7, <3>1, <3>2 DEF TransactFails
  <2>8. CASE Mount \/ Rollback \/ Unmount
    <3>1. NoIo
      BY <2>8 DEF Mount, Rollback, Unmount
    <3>. QED  BY <2>0, <3>1, NoIoBlocks DEF CowParts
  <2>9. CASE PowerLoss
    BY <2>9 DEF PowerLoss
  <2>10. CASE UNCHANGED vars
    BY <2>10 DEF vars, devVars
  <2>. QED  BY <2>1, <2>2, <2>3, <2>4, <2>5, <2>6, <2>7, <2>8, <2>9, <2>10 DEF Next
<1>2. Spec => [][Kept]_vars
  BY <1>1, CowInvariant, PTL DEF Spec
<1>. QED  BY <1>2 DEF CommittedNotWritten

-----------------------------------------------------------------------------
(* CrashInv and WorkingInv are invariant too, unless the volume is mounted *)
(* again from a metaroot that was not flushed.                             *)

(* Only what the allocated slots hold matters for Sound.                   *)
LEMMA SoundOfSame ==
  ASSUME NEW mr, NEW data, NEW data2, Sound(mr, data),
         \A b \in FileSlots : b \in mr.abEntries => data2[b] = data[b]
  PROVE  Sound(mr, data2)
<1>1. \A b \in {b \in FileSlots : Bits!Allocated(mr, b)} : data2[b] = data[b]
  BY MetaRootFields
<1>. QED  BY <1>1 DEF Sound

(* A state stays intact if none of its blocks is written.                  *)
Unwritten(mr) ==
  \A b \in BufferedBlocks : b \in mr.abEntries => media'[b] = media[b] /\ maybe'[b] \subseteq maybe[b]

(* Such a state is as intact after the step.                               *)
LEMMA IntactKept ==
  ASSUME NEW mr, Intact(mr), DeviceOK', Unwritten(mr)
  PROVE  Intact(mr)'
<1>1. \A b \in BufferedBlocks : b \in mr.abEntries => media'[b] = media[b] /\ maybe'[b] = {media'[b]}
  BY Regions, MetaRootFields DEF Unwritten, Intact, DeviceOK
<1>2. Sound(mr, media)'
  <2>1. \A b \in FileSlots : b \in mr.abEntries => media'[b] = media[b]
    BY <1>1 DEF BufferedBlocks
  <2>. QED  BY <2>1, SoundOfSame DEF Intact
<1>3. Filled(mr, media)'
  BY <1>1, Regions, MetaRootFields DEF Intact, Filled
<1>. QED  BY <1>1, <1>2, <1>3, MetaRootFields DEF Intact

(* And so does what is committed, if no metaroot is written either.        *)
LEMMA CommittedKept ==
  ASSUME NEW k \in 0 .. 1, NEW c, CommittedIs(k, c), DeviceOK', Unwritten(c.body),
         \A j \in 0 .. 1 : /\ media'[MetarootBlock(j)] = media[MetarootBlock(j)]
                           /\ maybe'[MetarootBlock(j)] = maybe[MetarootBlock(j)],
         \A m \in Newer(k, c) : Unwritten(m.body)
  PROVE  CommittedIs(k, c)' /\ Newer(k, c)' = Newer(k, c)
<1>1. 1 - k \in 0 .. 1
  BY Regions
<1>2. Newer(k, c)' = Newer(k, c)
  BY <1>1 DEF Newer
<1>3. Intact(c.body)'
  BY IntactKept DEF CommittedIs
<1>4. \A m \in Newer(k, c) : Intact(m.body)'
  BY IntactKept DEF CommittedIs
<1>. QED  BY <1>1, <1>2, <1>3, <1>4 DEF CommittedIs

(* What a mount chooses.                                                   *)
LEMMA ChosenIs ==
  ASSUME NEW k \in 0 .. 1, NEW c, CommittedIs(k, c), DeviceOK,
         NEW m, m[k] = c, m[1 - k] \in maybe[MetarootBlock(1 - k)]
  PROVE  /\ m[1 - k] \in Newer(k, c) => MetarootChosen(m) = m[1 - k]
         /\ m[1 - k] \notin Newer(k, c) => MetarootChosen(m) = c
<1> DEFINE x == m[1 - k]
<1>1. /\ c \in DiskMetaroots /\ c \notin {Torn, Junk} /\ c # Nil
      /\ x = Junk => ~fAtomicSectorWrite
      /\ x \in DiskMetaroots => x.ullSequence # c.ullSequence
  BY SentinelAssumption DEF CommittedIs
<1>2. x \in DiskMetaroots \cup {Torn, Junk}
  BY Regions, ContentsOf DEF DeviceOK
<1>3. x \in Newer(k, c) <=> x \in DiskMetaroots /\ x.ullSequence > c.ullSequence
  BY DEF Newer
<1>4. c.ullSequence \in Nat /\ (x \in DiskMetaroots => x.ullSequence \in Nat)
  BY <1>1 DEF DiskMetaroots
<1>5. k = 0 \/ k = 1
  OBVIOUS
<1>6. ~ \E j \in 0 .. 1 : fAtomicSectorWrite /\ m[j] = Junk
  BY <1>1, <1>5
<1>7. CASE x \in {Torn, Junk}
  <2>1. x \notin DiskMetaroots
    BY <1>7, SentinelAssumption
  <2>2. MetarootChosen(m) = c
    BY <1>1, <1>5, <1>6, <1>7 DEF MetarootChosen
  <2>. QED  BY <1>3, <2>1, <2>2
<1>8. CASE x \in DiskMetaroots
  <2>1. x \notin {Torn, Junk}
    BY <1>8, SentinelAssumption
  <2>2. MetarootChosen(m) = IF m[1].ullSequence > m[0].ullSequence THEN m[1] ELSE m[0]
    BY <1>1, <1>5, <1>6, <2>1 DEF MetarootChosen
  <2>. QED  BY <1>1, <1>3, <1>4, <1>5, <1>8, <2>2
<1>. QED  BY <1>2, <1>7, <1>8

(* The metaroot a volume is mounted from is the one that its block holds.  *)
LEMMA MountedFromSome ==
  MountedInv <=> \E k \in 0 .. 1 : \E c \in DiskMetaroots : MountedFrom(k, c)
BY DEF MountedInv, MountedFrom, CommittedIs

(* The same of the next state.                                             *)
LEMMA MountedFromSomeNext ==
  (\E k \in 0 .. 1 : \E c \in DiskMetaroots : MountedFrom(k, c)') => MountedInv'
<1>1. (\E k \in 0 .. 1 : \E c \in DiskMetaroots : MountedFrom(k, c)) => MountedInv
  BY MountedFromSome
<1>2. (\E k \in 0 .. 1 : \E c \in DiskMetaroots : MountedFrom(k, c))' => MountedInv'
  BY <1>1, PTL
<1>3. DiskMetaroots' = DiskMetaroots
  OBVIOUS
<1>. QED  BY <1>2, <1>3

(* What is committed, and what is newer, stays as it is.                   *)
CommittedStays ==
  \E k \in 0 .. 1 : \E c \in DiskMetaroots :
    /\ CommittedIs(k, c) /\ CommittedIs(k, c)' /\ Newer(k, c)' = Newer(k, c)
    /\ \A m \in {c} \cup Newer(k, c) : Unwritten(m.body)

(* Outside the transaction point nothing but blocks that are not committed *)
(* is written, and nothing at all where a metaroot may be newer.           *)
LEMMA CrashFrame ==
  ASSUME CowInv, fMounted, MountedInv, step = "idle", DeviceOK', Unwritten(cmtMR),
         \A j \in 0 .. 1 : /\ media'[MetarootBlock(j)] = media[MetarootBlock(j)]
                           /\ maybe'[MetarootBlock(j)] = maybe[MetarootBlock(j)],
         UNCHANGED <<cmtMR, bCurMR, ullSequence>>, step' \in {"idle", "flush"},
         fReadOnly /\ DirtyBlocks = {} => media' = media /\ maybe' = maybe /\ DirtyBlocks' = {},
         fReadOnly => fReadOnly'
  PROVE  MountedInv' /\ CommittedStays
<1>1. PICK k \in 0 .. 1, c \in DiskMetaroots : MountedFrom(k, c)
  BY MountedFromSome
<1>2. /\ CommittedIs(k, c) /\ c.body = cmtMR /\ bCurMR = 1 - k
      /\ Newer(k, c) # {} => DirtyBlocks = {} /\ fReadOnly
      /\ ~fReadOnly => c.ullSequence = ullSequence - 1
  BY <1>1 DEF MountedFrom
<1>3. \A m \in Newer(k, c) : Unwritten(m.body)
  BY <1>2 DEF Unwritten
<1>4. CommittedIs(k, c)' /\ Newer(k, c)' = Newer(k, c)
  BY <1>2, <1>3, CommittedKept
<1>5. MountedFrom(k, c)'
  BY <1>2, <1>4 DEF MountedFrom
<1>6. \A m \in {c} \cup Newer(k, c) : Unwritten(m.body)
  BY <1>2, <1>3
<1>7. CommittedStays
  BY <1>2, <1>4, <1>6 DEF CommittedStays
<1>. QED  BY <1>5, <1>7, MountedFromSomeNext

(* Operations on files are such steps,                                     *)
LEMMA CrashFileStep ==
  ASSUME CowInv, MountedInv, NEW new, NEW gone, FileStep(new, gone)
  PROVE  MountedInv' /\ CommittedStays
<1>1. Unwritten(cmtMR)
  BY Regions DEF FileStep, Unwritten
<1>2. \A k \in 0 .. 1 : /\ media'[MetarootBlock(k)] = media[MetarootBlock(k)]
                        /\ maybe'[MetarootBlock(k)] = maybe[MetarootBlock(k)]
  BY NoMetarootWritten DEF FileStep
<1>3. /\ fMounted /\ ~fReadOnly /\ step = "idle" /\ DeviceOK'
      /\ UNCHANGED <<cmtMR, bCurMR, ullSequence>> /\ step' = "idle"
  BY DEF FileStep
<1>. QED  BY <1>1, <1>2, <1>3, CrashFrame

(* so are those on buffers, which write dirty buffers only,                *)
LEMMA CrashBufferStep ==
  ASSUME CowInv, MountedInv, NEW b \in BufferedBlocks, BufferStep(b),
         BlockRead(b) \/ BufferDropped(b) \/ BufferWritten(b) \/ WriteOfBufferFailed(b)
  PROVE  MountedInv' /\ CommittedStays
<1>1. CowParts
  BY CowInvParts
<1>2. BlockRead(b) \/ BufferDropped(b) \/ IsDirty(b)
  BY DEF BufferWritten, WriteOfBufferFailed
<1>3. /\ fMounted /\ step = "idle" /\ step' = "idle" /\ DeviceOK'
      /\ UNCHANGED <<cmtMR, bCurMR, ullSequence>> /\ (fReadOnly => fReadOnly')
      /\ \A c \in Blocks \ {b} : media'[c] = media[c] /\ maybe'[c] = maybe[c]
      /\ \A c \in BufferedBlocks \ {b} : buffers'[c] = buffers[c]
  BY DEF BufferStep, mrVars
<1>4. Unwritten(cmtMR)
  <2>1. \A c \in BufferedBlocks : c \in cmtMR.abEntries =>
          c \in Blocks /\ (BlockRead(b) \/ BufferDropped(b) \/ c # b)
    BY <1>1, <1>2, Regions DEF CowParts
  <2>2. BlockRead(b) \/ BufferDropped(b) => media' = media /\ maybe' = maybe
    BY DEF BlockRead, BufferDropped
  <2>. QED  BY <1>3, <2>1, <2>2 DEF Unwritten
<1>5. \A k \in 0 .. 1 : /\ media'[MetarootBlock(k)] = media[MetarootBlock(k)]
                        /\ maybe'[MetarootBlock(k)] = maybe[MetarootBlock(k)]
  BY <1>3, NoMetarootWritten
<1>6. ASSUME DirtyBlocks = {} PROVE media' = media /\ maybe' = maybe /\ DirtyBlocks' = {}
  <2>1. BlockRead(b) \/ BufferDropped(b)
    BY <1>2, <1>6 DEF DirtyBlocks
  <2>2. buffers'[b] = Nil \/ buffers'[b].fDirty = FALSE
    BY <2>1, BufferIsNotNil DEF BlockRead, BufferDropped
  <2>. QED  BY <1>3, <1>6, <2>1, <2>2 DEF BlockRead, BufferDropped, DirtyBlocks, IsDirty
<1>. QED  BY <1>3, <1>4, <1>5, <1>6, CrashFrame

(* and the first step of RedVolTransact, complete or not.                  *)
LEMMA CrashTransactBuffers ==
  ASSUME CowInv, MountedInv, TransactBuffers \/ TransactBuffersFail
  PROVE  MountedInv' /\ CommittedStays
<1>1. CowParts
  BY CowInvParts
<1>2. /\ DeviceOK' /\ DirtyBlocks \subseteq BufferedBlocks
      /\ \A b \in Blocks \ DirtyBlocks : media'[b] = media[b] /\ maybe'[b] = maybe[b]
  BY CowTransactBuffers, BuffersWrittenOrNot DEF AllBuffersWritten, DirtyBlocks
<1>3. /\ fMounted /\ ~fReadOnly /\ step = "idle" /\ step' \in {"idle", "flush"}
      /\ UNCHANGED <<cmtMR, bCurMR, ullSequence>>
  BY DEF TransactBuffers, TransactBuffersFail, FoldAlmostFree, Ready
<1>4. Unwritten(cmtMR)
  <2>1. \A b \in BufferedBlocks : b \in cmtMR.abEntries => b \in Blocks \ DirtyBlocks
    BY <1>1, Regions DEF CowParts, DirtyBlocks
  <2>. QED  BY <1>2, <2>1 DEF Unwritten
<1>5. \A k \in 0 .. 1 : /\ media'[MetarootBlock(k)] = media[MetarootBlock(k)]
                        /\ maybe'[MetarootBlock(k)] = maybe[MetarootBlock(k)]
  BY <1>2, NoMetarootWritten
<1>. QED  BY <1>2, <1>3, <1>4, <1>5, CrashFrame

(* What a flush leaves on the media is there for good.                     *)
LEMMA IntactFlushed ==
  ASSUME NEW mr, Sound(mr, media), Filled(mr, media), DeviceOK, Flushed
  PROVE  Intact(mr)'
<1>1. media' = media /\ \A b \in Blocks : maybe'[b] = {media[b]}
  BY FlushedBlocks
<1>2. Sound(mr, media)' /\ Filled(mr, media)'
  BY <1>1 DEF Sound, Filled
<1>. QED  BY <1>1, <1>2, Regions DEF Intact

(* After the first flush everything the new metaroot refers to is stable.  *)
LEMMA CrashTransactFlush ==
  ASSUME CowInv, WorkingInv, MountedInv, TransactFlush
  PROVE  MountedInv'
<1>1. CowParts
  BY CowInvParts
<1>2. /\ step = "flush" /\ step' = "metaroot" /\ Flushed /\ fMounted /\ ~fReadOnly
      /\ UNCHANGED <<gpRedMR, cmtMR, bCurMR, ullSequence, buffers, fReadOnly>>
      /\ DeviceOK /\ \A b \in BufferedBlocks : ~IsDirty(b)
  BY <1>1 DEF TransactFlush, mrVars, CowParts
<1>3. DeviceOK' /\ media' = media /\ \A b \in Blocks : maybe'[b] = {media[b]}
  BY <1>2, FlushedBlocks
<1>4. PICK k \in 0 .. 1, c \in DiskMetaroots : MountedFrom(k, c)
  BY MountedFromSome
<1>5. /\ CommittedIs(k, c) /\ c.body = cmtMR /\ bCurMR = 1 - k
      /\ Newer(k, c) = {} /\ c.ullSequence = ullSequence - 1
  BY <1>2, <1>4 DEF MountedFrom
<1>6. 1 - k \in 0 .. 1 /\ MetarootBlock(k) \in Blocks /\ MetarootBlock(1 - k) \in Blocks
  BY Regions
<1>7. maybe'[MetarootBlock(1 - k)] \subseteq maybe[MetarootBlock(1 - k)]
  BY <1>2, <1>3, <1>6 DEF DeviceOK
<1>8. Newer(k, c)' = {}
  BY <1>5, <1>7 DEF Newer
<1>9. Intact(c.body)'
  <2>1. Unwritten(c.body)
    BY <1>2, <1>3, Regions DEF Unwritten, DeviceOK
  <2>. QED  BY <1>3, <1>5, <2>1, IntactKept DEF CommittedIs
<1>10. CommittedIs(k, c)'
  BY <1>3, <1>5, <1>6, <1>7, <1>8, <1>9 DEF CommittedIs
<1>11. Intact(gpRedMR)'
  <2>1. PICK mr : mr = gpRedMR
    OBVIOUS
  <2>2. \A b \in BufferedBlocks : Cache[b] = media[b]
    BY <1>2 DEF WorkingInv, Cache, Cached
  <2>3. Sound(mr, Cache) /\ Filled(mr, Cache)
    BY <1>2, <2>1 DEF WorkingInv
  <2>4. Sound(mr, media) /\ Filled(mr, media)
    <3>1. Sound(mr, media)
      BY <2>2, <2>3, SoundOfSame DEF BufferedBlocks
    <3>2. Filled(mr, media)
      BY <2>2, <2>3 DEF Filled, BufferedBlocks
    <3>. QED  BY <3>1, <3>2
  <2>5. Intact(mr)'
    BY <1>2, <2>4, IntactFlushed
  <2>. QED  BY <1>2, <2>1, <2>5 DEF Intact, Sound, Filled
<1>12. MountedFrom(k, c)'
  BY <1>2, <1>5, <1>8, <1>10, <1>11 DEF MountedFrom
<1>. QED  BY <1>12, MountedFromSomeNext

(* Once the metaroot is written, it and the committed one may both be      *)
(* found, and both are intact.                                             *)
LEMMA CrashTransactMetaroot ==
  ASSUME CowInv, MountedInv, TransactMetaroot
  PROVE  MountedInv'
<1>1. CowParts /\ MetarootWritten
  BY CowInvParts, WrittenMetaroot
<1>2. /\ step = "metaroot" /\ step' = "sync" /\ fMounted /\ ~fReadOnly
      /\ \A b \in BufferedBlocks : ~IsDirty(b)
      /\ ullSequence' = ullSequence + 1
      /\ UNCHANGED <<gpRedMR, cmtMR, bCurMR, buffers, fReadOnly>>
  BY <1>1 DEF TransactMetaroot, CowParts
<1>3. PICK k \in 0 .. 1, c \in DiskMetaroots : MountedFrom(k, c)
  BY MountedFromSome
<1>4. /\ CommittedIs(k, c) /\ c.body = cmtMR /\ bCurMR = 1 - k
      /\ Newer(k, c) = {} /\ c.ullSequence = ullSequence - 1 /\ Intact(gpRedMR)
  BY <1>2, <1>3 DEF MountedFrom
<1>5. PICK own, other, mr, m :
        /\ own = MetarootBlock(k) /\ other = MetarootBlock(1 - k) /\ mr = gpRedMR
        /\ m = [ullSequence |-> ullSequence, body |-> mr]
  OBVIOUS
<1>6. /\ own \in Blocks /\ other \in Blocks /\ own # other
      /\ \A b \in BufferedBlocks : b # other /\ b \in Blocks
  BY <1>5, Regions
<1>7. /\ DeviceOK' /\ m \in DiskMetaroots /\ m.ullSequence = ullSequence /\ m.body = mr
      /\ media'[other] = m
      /\ maybe'[other] = maybe[other] \cup {IF fAtomicSectorWrite THEN Torn ELSE Junk} \cup {m}
      /\ \A b \in Blocks \ {other} : media'[b] = media[b] /\ maybe'[b] = maybe[b]
  BY <1>1, <1>4, <1>5 DEF MetarootWritten
<1>8. c.ullSequence \in Nat /\ ullSequence \in Nat /\ m.ullSequence > c.ullSequence
  BY <1>1, <1>4, <1>7 DEF DiskMetaroots, CowParts
<1>9. Intact(c.body)' /\ Intact(mr)'
  <2>1. Unwritten(c.body) /\ Unwritten(mr)
    BY <1>6, <1>7 DEF Unwritten
  <2>2. Intact(c.body) /\ Intact(mr)
    BY <1>4, <1>5 DEF CommittedIs
  <2>. QED  BY <1>7, <2>1, <2>2, IntactKept
<1>10. maybe'[other] \cap DiskMetaroots = (maybe[other] \cap DiskMetaroots) \cup {m}
  BY <1>7, SentinelAssumption
<1>11. Newer(k, c)' = {m}
  <2>1. \A n \in maybe[other] \cap DiskMetaroots : ~(n.ullSequence > c.ullSequence)
    BY <1>4, <1>5 DEF Newer
  <2>. QED  BY <1>5, <1>8, <1>10, <2>1 DEF Newer
<1>12. CommittedIs(k, c)'
  <2>1. media'[own] = c /\ maybe'[own] = {c}
    BY <1>4, <1>5, <1>6, <1>7 DEF CommittedIs
  <2>2. Junk \in maybe'[other] => ~fAtomicSectorWrite
    BY <1>4, <1>5, <1>7, SentinelAssumption DEF CommittedIs
  <2>3. \A n \in maybe'[other] \cap DiskMetaroots : n.ullSequence # c.ullSequence
    BY <1>4, <1>5, <1>8, <1>10 DEF CommittedIs
  <2>4. \A n \in Newer(k, c)' : n = media'[other] /\ Intact(n.body)' /\ maybe'[other] # {n}
    <3>1. maybe'[other] # {m}
      BY <1>7, SentinelAssumption
    <3>. QED  BY <1>7, <1>9, <1>11, <3>1
  <2>. QED  BY <1>5, <1>9, <2>1, <2>2, <2>3, <2>4 DEF CommittedIs
<1>13. Intact(gpRedMR)'
  BY <1>2, <1>5, <1>9 DEF Intact, Sound, Filled
<1>14. DirtyBlocks' = {}
  BY <1>2 DEF DirtyBlocks, IsDirty
<1>15. /\ bCurMR' = 1 - k /\ c.body = cmtMR' /\ step' = "sync"
       /\ c.ullSequence = ullSequence' - 2
       /\ media'[MetarootBlock(1 - k)] = [ullSequence |-> ullSequence' - 1, body |-> gpRedMR']
  BY <1>2, <1>4, <1>5, <1>7, <1>8
<1>16. MountedFrom(k, c)'
  BY <1>12, <1>13, <1>14, <1>15 DEF MountedFrom
<1>. QED  BY <1>16, MountedFromSomeNext

(* After the second flush the new metaroot cannot be taken back, and is    *)
(* the only one that a mount chooses.                                      *)
LEMMA CrashTransactComplete ==
  ASSUME CowInv, MountedInv, TransactComplete
  PROVE  MountedInv'
<1>1. CowParts
  BY CowInvParts
<1>2. /\ step = "sync" /\ step' = "idle" /\ Flushed /\ fMounted /\ ~fReadOnly
      /\ cmtMR' = gpRedMR /\ bCurMR' = 1 - bCurMR
      /\ UNCHANGED <<gpRedMR, ullSequence, buffers, fReadOnly>>
      /\ DeviceOK
  BY <1>1 DEF TransactComplete, CowParts
<1>3. DeviceOK' /\ media' = media /\ \A b \in Blocks : maybe'[b] = {media[b]}
  BY <1>2, FlushedBlocks
<1>4. PICK k \in 0 .. 1, c \in DiskMetaroots : MountedFrom(k, c)
  BY MountedFromSome
<1>5. /\ CommittedIs(k, c) /\ bCurMR = 1 - k
      /\ c.ullSequence = ullSequence - 2 /\ Intact(gpRedMR)
      /\ media[MetarootBlock(1 - k)] = [ullSequence |-> ullSequence - 1, body |-> gpRedMR]
  BY <1>2, <1>4 DEF MountedFrom
<1>6a. PICK j \in 0 .. 1 : j = 1 - k
  BY Regions
<1>6. PICK own, other, mr, m :
        /\ j = 1 - k /\ own = MetarootBlock(j) /\ other = MetarootBlock(k) /\ mr = gpRedMR
        /\ m = [ullSequence |-> ullSequence - 1, body |-> mr]
  BY <1>6a
<1>7. own \in Blocks /\ other \in Blocks /\ other = MetarootBlock(1 - j) /\ k = 1 - j
  BY <1>6, Regions
<1>8. c.ullSequence \in Nat /\ ullSequence \in 0 .. SeqMax /\ mr \in Bits!MetaRoot
  BY <1>1, <1>2, <1>5, <1>6 DEF DiskMetaroots, CowParts
<1>9. m \in DiskMetaroots /\ m.ullSequence = ullSequence - 1 /\ m.body = mr
  BY <1>5, <1>6, <1>8 DEF DiskMetaroots
<1>10. media'[own] = m /\ maybe'[own] = {m} /\ maybe'[other] = {c}
  BY <1>3, <1>5, <1>6, <1>7 DEF CommittedIs
<1>11. Intact(mr)'
  <2>1. Unwritten(mr)
    BY <1>2, <1>3, Regions DEF Unwritten, DeviceOK
  <2>. QED  BY <1>3, <1>5, <1>6, <2>1, IntactKept
<1>12. Newer(j, m)' = {}
  BY <1>5, <1>7, <1>8, <1>9, <1>10 DEF Newer
<1>13. CommittedIs(j, m)'
  <2>1. Junk \notin maybe'[other]
    BY <1>10, SentinelAssumption
  <2>2. c.ullSequence # m.ullSequence
    BY <1>5, <1>8, <1>9
  <2>. QED  BY <1>6, <1>7, <1>9, <1>10, <1>11, <1>12, <2>1, <2>2 DEF CommittedIs
<1>14. /\ bCurMR' = 1 - j /\ m.body = cmtMR' /\ step' = "idle"
       /\ m.ullSequence = ullSequence' - 1
  BY <1>2, <1>5, <1>6, <1>7, <1>9
<1>15. MountedFrom(j, m)'
  BY <1>12, <1>13, <1>14 DEF MountedFrom
<1>. QED  BY <1>9, <1>15, MountedFromSomeNext

(* A write of the metaroot that fails leaves no valid new one; a flush     *)
(* that fails leaves the volume as it was, but read-only.                  *)
LEMMA CrashTransactFails ==
  ASSUME CowInv, MountedInv, TransactFails
  PROVE  MountedInv' /\ (NoIo \/ CommittedStays)
<1>1. CowParts
  BY CowInvParts
<1>2. /\ step # "idle" /\ step' = "idle" /\ fReadOnly' = TRUE /\ fMounted
      /\ UNCHANGED <<gpRedMR, cmtMR, bCurMR, ullSequence, buffers, fMounted>>
      /\ \A b \in BufferedBlocks : ~IsDirty(b)
      /\ DeviceOK /\ ~fReadOnly
  BY <1>1 DEF TransactFails, CriticalError, mrVars, CowParts
<1>3. PICK k \in 0 .. 1, c \in DiskMetaroots : MountedFrom(k, c)
  BY MountedFromSome
<1>4. /\ CommittedIs(k, c) /\ c.body = cmtMR /\ bCurMR = 1 - k
  BY <1>3 DEF MountedFrom
<1>5. DirtyBlocks' = {}
  BY <1>2 DEF DirtyBlocks, IsDirty
<1>6. SUFFICES CommittedIs(k, c)' /\ (NoIo \/ CommittedStays)
  <2>1. MountedFrom(k, c)'
    BY <1>2, <1>4, <1>5, <1>6 DEF MountedFrom
  <2>. QED  BY <2>1, MountedFromSomeNext
<1>7. CASE NoIo
  <2>1. media' = media /\ maybe' = maybe /\ DeviceOK'
    BY <1>2, <1>7, NoIoBlocks
  <2>2. CommittedIs(k, c)'
    BY <1>4, <2>1 DEF CommittedIs, Newer, Intact, Sound, Filled
  <2>. QED  BY <1>7, <2>2
<1>8. CASE step = "metaroot" /\ WriteFailed(<<>>, MetarootBlock(bCurMR))
  <2>1. PICK own, other : own = MetarootBlock(k) /\ other = MetarootBlock(1 - k)
    OBVIOUS
  <2>2. /\ own \in Blocks /\ other \in Blocks /\ own # other /\ other \in MetarootBlocks
        /\ \A b \in BufferedBlocks : b # other /\ b \in Blocks
    BY <2>1, Regions
  <2>3. WriteFailed(<<>>, other)
    BY <1>4, <1>8, <2>1
  <2>4. /\ DeviceOK' /\ maybe'[other] = Unfinished(other)
        /\ \A b \in Blocks \ {other} : media'[b] = media[b] /\ maybe'[b] = maybe[b]
    BY <1>2, <2>2, <2>3, OneWriteFailed
  <2>5. Unfinished(other) = maybe[other] \cup {IF fAtomicSectorWrite THEN Torn ELSE Junk}
    BY <2>2 DEF Unfinished
  <2>6. maybe'[other] \cap DiskMetaroots = maybe[other] \cap DiskMetaroots
    BY <2>4, <2>5, SentinelAssumption
  <2>7. Newer(k, c) = {}
    BY <1>2, <1>3, <1>8 DEF MountedFrom
  <2>8. Newer(k, c)' = {}
    BY <2>1, <2>6, <2>7 DEF Newer
  <2>0. Unwritten(c.body)
    BY <2>2, <2>4 DEF Unwritten
  <2>9. Intact(c.body)'
    BY <1>4, <2>4, <2>0, IntactKept DEF CommittedIs
  <2>10. media'[own] = c /\ maybe'[own] = {c}
    BY <1>4, <2>1, <2>2, <2>4 DEF CommittedIs
  <2>11. Junk \in maybe'[other] => ~fAtomicSectorWrite
    BY <1>4, <2>1, <2>4, <2>5, SentinelAssumption DEF CommittedIs
  <2>12. \A m \in maybe'[other] \cap DiskMetaroots : m.ullSequence # c.ullSequence
    BY <1>4, <2>1, <2>6 DEF CommittedIs
  <2>13. CommittedIs(k, c)'
    BY <2>1, <2>8, <2>9, <2>10, <2>11, <2>12 DEF CommittedIs
  <2>14. CommittedStays
    BY <1>4, <2>0, <2>7, <2>8, <2>13 DEF CommittedStays
  <2>. QED  BY <2>13, <2>14
<1>. QED  BY <1>7, <1>8 DEF TransactFails

(* A mount that is chosen a metaroot nothing newer competes with.          *)
LEMMA CrashMounted ==
  ASSUME CowInv, NEW k \in 0 .. 1, NEW c, CommittedIs(k, c), Newer(k, c) = {},
         MountMetaroot, NoIo, UNCHANGED step, step = "idle", DirtyBlocks' = {}
  PROVE  MountedInv'
<1>1. CowParts
  BY CowInvParts
<1>2. DeviceOK /\ DeviceOK' /\ media' = media /\ maybe' = maybe
  BY <1>1, NoIoBlocks DEF CowParts
<1>3. PICK j \in 0 .. 1 : LET disk == media[MetarootBlock(j)] IN
         /\ disk = MetarootChosen(MediaMetaroots)
         /\ cmtMR' = disk.body /\ bCurMR' = 1 - j
         /\ ullSequence' = disk.ullSequence + 1
  BY <1>2, MountedMetaroot
<1>4. PICK m : m = MediaMetaroots
  OBVIOUS
<1>5. 1 - k \in 0 .. 1 /\ MetarootBlock(1 - k) \in Blocks /\ (j = k \/ j = 1 - k)
  BY Regions
<1>6. m[k] = c /\ m[1 - k] = media[MetarootBlock(1 - k)] /\ c \in DiskMetaroots
      /\ media[MetarootBlock(1 - k)] \in maybe[MetarootBlock(1 - k)]
  BY <1>2, <1>4, <1>5 DEF MediaMetaroots, CommittedIs, DeviceOK
<1>7. MetarootChosen(m) = c
  BY <1>2, <1>6, ChosenIs
<1>8. j = k
  BY <1>3, <1>4, <1>5, <1>6, <1>7 DEF CommittedIs
<1>9. CommittedIs(k, c)' /\ Newer(k, c)' = {}
  BY <1>2 DEF CommittedIs, Newer, Intact, Sound, Filled
<1>10. /\ bCurMR' = 1 - k /\ c.body = cmtMR' /\ step' = "idle"
       /\ c.ullSequence = ullSequence' - 1
  <2>1. c.ullSequence \in Nat
    BY <1>6 DEF DiskMetaroots
  <2>. QED  BY <1>3, <1>4, <1>7, <1>8, <2>1
<1>11. MountedFrom(k, c)'
  BY <1>9, <1>10 DEF MountedFrom
<1>. QED  BY <1>6, <1>11, MountedFromSomeNext

(* A mount from a metaroot that is stable finds no newer one.              *)
LEMMA CrashMount ==
  ASSUME CowInv, CrashInv, fRemountUnstable = FALSE, Mount
  PROVE  MountedInv'
<1>1. CowParts
  BY CowInvParts
<1>2. /\ ~fMounted /\ ChosenIsStable /\ MountMetaroot /\ NoIo
      /\ UNCHANGED <<buffers, step>> /\ DeviceOK /\ step = "idle"
  BY <1>1 DEF Mount, CowParts
<1>3. PICK k \in 0 .. 1 : CommittedAt(k)
  BY <1>2 DEF CrashInv
<1>4. PICK c : c = media[MetarootBlock(k)]
  OBVIOUS
<1>5. CommittedIs(k, c)
  BY <1>3, <1>4 DEF CommittedAt
<1>6. PICK own, other, m :
        own = MetarootBlock(k) /\ other = MetarootBlock(1 - k) /\ m = MediaMetaroots
  OBVIOUS
<1>7. 1 - k \in 0 .. 1 /\ other \in Blocks /\ m[k] = c /\ m[1 - k] = media[other]
      /\ media[other] \in maybe[other] /\ \A b \in MetarootBlocks : b = own \/ b = other
  <2>1. \A j \in 0 .. 1 : j = k \/ j = 1 - k
    OBVIOUS
  <2>. QED  BY <1>2, <1>4, <1>6, <2>1, Regions DEF MediaMetaroots, DeviceOK
<1>8. ASSUME NEW n \in Newer(k, c) PROVE FALSE
  <2>1. n = media[other] /\ maybe[other] # {n} /\ n \in DiskMetaroots /\ n.ullSequence # c.ullSequence
    BY <1>5, <1>6 DEF CommittedIs, Newer
  <2>2. MetarootChosen(m) = n
    BY <1>2, <1>5, <1>6, <1>7, <2>1, ChosenIs
  <2>3. PICK b \in MetarootBlocks : media[b] = n /\ maybe[b] = {n}
    BY <1>2, <1>6, <2>2 DEF ChosenIsStable
  <2>. QED  BY <1>4, <1>6, <1>7, <2>1, <2>3
<1>9. DirtyBlocks' = {}
  BY <1>1, <1>2 DEF DirtyBlocks, IsDirty, CowParts, NoBuffers
<1>. QED  BY <1>2, <1>5, <1>8, <1>9, CrashMounted

(* A rollback finds the committed metaroot, as no other one was written.   *)
LEMMA CrashRollback ==
  ASSUME CowInv, MountedInv, Rollback
  PROVE  MountedInv'
<1>1. /\ fMounted /\ ~fReadOnly /\ step = "idle" /\ buffers' = NoBuffers /\ MountMetaroot /\ NoIo
      /\ UNCHANGED step
  BY DEF Rollback, Ready
<1>2. PICK k \in 0 .. 1, c \in DiskMetaroots : MountedFrom(k, c)
  BY MountedFromSome
<1>3. CommittedIs(k, c) /\ Newer(k, c) = {}
  BY <1>1, <1>2 DEF MountedFrom
<1>4. DirtyBlocks' = {}
  BY <1>1, BuffersEmptied DEF DirtyBlocks
<1>. QED  BY <1>1, <1>3, <1>4, CrashMounted

(* The committed metaroot of an unmounted volume is the one that its block *)
(* holds.                                                                  *)
LEMMA CommittedAtSome ==
  (\E k \in 0 .. 1 : CommittedAt(k)) <=> \E k \in 0 .. 1 : \E c \in DiskMetaroots : CommittedIs(k, c)
BY DEF CommittedAt, CommittedIs

(* The same of the next state.                                             *)
LEMMA CommittedAtSomeNext ==
  (\E k \in 0 .. 1 : \E c \in DiskMetaroots : CommittedIs(k, c)') => \E k \in 0 .. 1 : CommittedAt(k)'
<1>1. (\E k \in 0 .. 1 : \E c \in DiskMetaroots : CommittedIs(k, c)) => \E k \in 0 .. 1 : CommittedAt(k)
  BY CommittedAtSome
<1>2. (\E k \in 0 .. 1 : \E c \in DiskMetaroots : CommittedIs(k, c))'
        => (\E k \in 0 .. 1 : CommittedAt(k))'
  BY <1>1, PTL
<1>. QED  BY <1>2

(* An unmount writes nothing.                                              *)
LEMMA CrashUnmount ==
  ASSUME CowInv, MountedInv, Unmount
  PROVE  CrashInv'
<1>1. fMounted' = FALSE /\ NoIo
  BY DEF Unmount
<1>2. media' = media /\ maybe' = maybe
  BY <1>1 DEF NoIo, devVars
<1>3. PICK k \in 0 .. 1, c \in DiskMetaroots : MountedFrom(k, c)
  BY MountedFromSome
<1>4. CommittedIs(k, c)'
  BY <1>2, <1>3 DEF MountedFrom, CommittedIs, Newer, Intact, Sound, Filled
<1>. QED  BY <1>1, <1>4, CommittedAtSomeNext DEF CrashInv

(* Of the two metaroots the newer one that survived is committed.          *)
PowerLost ==
  \E k, j \in 0 .. 1 : \E c, x \in DiskMetaroots :
    /\ CommittedIs(k, c) /\ x \in {c} \cup Newer(k, c)
    /\ CommittedIs(j, x)' /\ Newer(j, x)' = {} /\ Unwritten(x.body)

(* A loss of power leaves the committed metaroot or the newer one, with    *)
(* all its blocks.                                                         *)
LEMMA CrashPowerLoss ==
  ASSUME CowInv, CrashInv, PowerLoss
  PROVE  CrashInv' /\ PowerLost
<1>1. CowParts
  BY CowInvParts
<1>2. PICK r \in Remains : media' = r /\ maybe' = [b \in Blocks |-> {r[b]}]
  BY DEF PowerLoss
<1>3. DeviceOK /\ DeviceOK' /\ \A b \in Blocks : media'[b] \in maybe[b] /\ maybe'[b] = {media'[b]}
  BY <1>1, <1>2, RemainingBlocks DEF CowParts
<1>4. PICK k \in 0 .. 1, c \in DiskMetaroots : CommittedIs(k, c)
  <2>1. CASE fMounted
    BY <2>1, MountedFromSome DEF CrashInv, MountedFrom
  <2>2. CASE ~fMounted
    BY <2>2, CommittedAtSome DEF CrashInv
  <2>. QED  BY <2>1, <2>2
<1>5. PICK j \in 0 .. 1 : j = 1 - k
  BY Regions
<1>6. PICK own, other : own = MetarootBlock(k) /\ other = MetarootBlock(j)
  OBVIOUS
<1>7. own \in Blocks /\ other \in Blocks /\ k = 1 - j
  BY <1>5, <1>6, Regions
<1>8. PICK x : x = media'[other]
  OBVIOUS
<1>9. /\ x \in maybe[other] /\ maybe'[other] = {x} /\ media'[own] = c /\ maybe'[own] = {c}
      /\ Intact(c.body) /\ \A m \in Newer(k, c) : Intact(m.body)
      /\ Junk \in maybe[other] => ~fAtomicSectorWrite
      /\ \A m \in maybe[other] \cap DiskMetaroots : m.ullSequence # c.ullSequence
  BY <1>3, <1>4, <1>5, <1>6, <1>7, <1>8 DEF CommittedIs
<1>10. ASSUME NEW mr, Intact(mr) PROVE Intact(mr)' /\ Unwritten(mr)
  <2>1. Unwritten(mr)
    BY <1>3, <1>10, Regions, MetaRootFields DEF Unwritten, Intact
  <2>2. Intact(mr)'
    BY <1>3, <1>10, <2>1, IntactKept
  <2>. QED  BY <2>1, <2>2
<1>11. c.ullSequence \in Nat /\ \A m \in DiskMetaroots : m.ullSequence \in Nat
  BY DEF DiskMetaroots
<1>12. fMounted' = FALSE
  BY DEF PowerLoss
<1>13. CASE x \in Newer(k, c)
  <2>1. x \in DiskMetaroots /\ x.ullSequence > c.ullSequence
    BY <1>13 DEF Newer
  <2>2. Newer(j, x)' = {}
    BY <1>6, <1>7, <1>9, <1>11, <2>1 DEF Newer
  <2>3. Intact(x.body)' /\ Unwritten(x.body)
    BY <1>9, <1>10, <1>13
  <2>4. CommittedIs(j, x)'
    BY <1>6, <1>7, <1>8, <1>9, <1>11, <2>1, <2>2, <2>3, SentinelAssumption DEF CommittedIs
  <2>5. PowerLost
    BY <1>4, <1>13, <2>1, <2>2, <2>3, <2>4 DEF PowerLost
  <2>. QED  BY <1>12, <2>1, <2>4, <2>5, CommittedAtSomeNext DEF CrashInv
<1>14. CASE x \notin Newer(k, c)
  <2>1. Newer(k, c)' = {}
    BY <1>5, <1>6, <1>9, <1>14 DEF Newer
  <2>2. Intact(c.body)' /\ Unwritten(c.body)
    BY <1>9, <1>10
  <2>3. CommittedIs(k, c)'
    BY <1>5, <1>6, <1>8, <1>9, <2>1, <2>2 DEF CommittedIs
  <2>4. PowerLost
    BY <1>4, <2>1, <2>2, <2>3 DEF PowerLost
  <2>. QED  BY <1>12, <2>3, <2>4, CommittedAtSomeNext DEF CrashInv
<1>. QED  BY <1>13, <1>14

(* A formatted volume has the metaroot with the root directory committed.  *)
LEMMA CrashInit ==
  ASSUME Init
  PROVE  CrashInv
<1>1. PICK m0, m1 \in DiskMetaroots :
           /\ media[MetarootBlock(0)] = m0 /\ media[MetarootBlock(1)] = m1
           /\ m0.ullSequence = 0 /\ m1.ullSequence = 1
           /\ m1.body \in Bits!MetaRoot
           /\ \A b \in BufferedBlocks : b \notin m0.body.abEntries /\ b \notin m1.body.abEntries
           /\ \A b \in Blocks : maybe[b] = {media[b]}
  BY InitialMedia
<1>2. 1 \in 0 .. 1 /\ 0 \in 0 .. 1 /\ 1 - 1 = 0
  OBVIOUS
<1>3. maybe[MetarootBlock(1)] = {m1} /\ maybe[MetarootBlock(0)] = {m0}
  BY <1>1, <1>2, Regions
<1>4. \A b \in BufferedBlocks : ~Bits!Allocated(m1.body, b)
  BY <1>1, MetaRootFields
<1>5. Intact(m1.body)
  BY <1>4, Regions DEF Intact, Sound, Filled, BufferedBlocks
<1>6. Newer(1, m1) = {}
  BY <1>1, <1>2, <1>3 DEF Newer
<1>7. CommittedIs(1, m1)
  BY <1>1, <1>2, <1>3, <1>5, <1>6, SentinelAssumption DEF CommittedIs
<1>8. fMounted = FALSE
  BY DEF Init
<1>. QED  BY <1>2, <1>7, <1>8, CommittedAtSome DEF CrashInv

-----------------------------------------------------------------------------
(* The working state: its blocks are where it says they are.               *)

(* Sound, with the bits as a set.                                          *)
SoundIn(A, data) ==
  /\ \A b \in FileSlots : b \in A => data[b] \in InodeNodes
  /\ \A b \in FileSlots, o \in Offsets :
       b \in A /\ data[b][o] # BLOCK_SPARSE => data[b][o] \in A
  /\ \A b, c \in FileSlots, o, p \in Offsets :
       b \in A /\ c \in A /\ data[b][o] = data[c][p] /\ data[b][o] # BLOCK_SPARSE => b = c /\ o = p

(* Sound depends on nothing of a metaroot but its bitmap,                  *)
LEMMA SoundIs == \A mr, data : Sound(mr, data) <=> SoundIn(mr.abEntries, data)
BY MetaRootFields DEF Sound, SoundIn

(* and nothing of the blocks but the allocated slots.                      *)
LEMMA SoundInSame ==
  ASSUME NEW A, NEW data, NEW data2, SoundIn(A, data),
         \A b \in FileSlots : b \in A => data2[b] = data[b]
  PROVE  SoundIn(A, data2)
BY DEF SoundIn

(* WorkingInv, with the bits as a set.                                     *)
WorkingParts ==
  /\ \A b \in BufferedBlocks : buffers[b] # Nil => b \in gpRedMR.abEntries
  /\ fMounted => SoundIn(gpRedMR.abEntries, Cache)
  /\ fMounted /\ ~fReadOnly => \A b \in AllocableBlocks : b \in gpRedMR.abEntries => Cache[b] \in Values
  /\ fMounted => \A b \in BufferedBlocks :
       buffers[b] # Nil /\ ~buffers[b].fDirty =>
         buffers[b].data = media[b] \/ (fReadOnly /\ b \in AllocableBlocks)

(* The two agree,                                                          *)
LEMMA WorkingInvParts == WorkingInv <=> WorkingParts
BY SoundIs, MetaRootFields DEF WorkingInv, WorkingParts, NoStaleBuffers, Filled, IsDirty

(* in the next state too.                                                  *)
LEMMA WorkingInvPartsNext == WorkingInv' <=> WorkingParts'
BY WorkingInvParts, PTL

(* The blocks an operation leaves alone read as before.                    *)
LEMMA CacheKept ==
  ASSUME NEW new, NEW gone, FileStep(new, gone)
  PROVE  \A b \in BufferedBlocks \ (new \cup gone) :
           Cache'[b] = Cache[b] /\ media'[b] = media[b] /\ buffers'[b] = buffers[b]
BY Regions DEF FileStep, Cache, Cached

(* No buffer is stale after it, and no clean one differs from the media.   *)
LEMMA BuffersKept ==
  ASSUME CowInv, WorkingParts, NEW new, NEW gone, FileStep(new, gone),
         gpRedMR'.abEntries = (gpRedMR.abEntries \cup new) \ gone,
         \A c \in new : buffers'[c] = Nil \/ buffers'[c].fDirty \/ (fReadOnly' /\ c \in AllocableBlocks)
  PROVE  /\ \A b \in BufferedBlocks : buffers'[b] # Nil => b \in gpRedMR'.abEntries
         /\ \A b \in BufferedBlocks :
              buffers'[b] # Nil /\ ~buffers'[b].fDirty =>
                buffers'[b].data = media'[b] \/ (fReadOnly' /\ b \in AllocableBlocks)
<1>1. \A b \in gone : buffers'[b] = Nil
  BY DEF FileStep, WorkingParts
<1>2. /\ new \cap gone = {} /\ fMounted /\ ~fReadOnly
  BY DEF FileStep
<1>3. \A b \in BufferedBlocks \ (new \cup gone) : media'[b] = media[b] /\ buffers'[b] = buffers[b]
  BY CacheKept
<1>. QED  BY <1>1, <1>2, <1>3 DEF WorkingParts

(* A block pointer that was file f's is of no other file.                  *)
LEMMA OwnPointers ==
  ASSUME CowInv, WorkingParts, fMounted, NEW f \in Files, FileExists(f), NEW w \in Slots
  PROVE  \A b \in FileSlots, o, q \in Offsets :
           (b \in gpRedMR.abEntries /\ Cache[b][o] = InodeNode(f)[q] /\ Cache[b][o] # BLOCK_SPARSE)
             => (b = InodeBlock(f, w) \/ b = InodeBlock(f, 1 - w))
<1>1. gpRedMR \in Bits!MetaRoot /\ OneSlot(gpRedMR) /\ Sound(gpRedMR, Cache)
  BY SoundIs, CowInvParts DEF CowParts, WorkingParts
<1>2. PICK s : s = InodeBlock(f, CurrentSlot(gpRedMR, f))
  OBVIOUS
<1>3. s \in FileSlots /\ s \in gpRedMR.abEntries /\ InodeNode(f) = Cache[s]
  BY <1>1, <1>2, SoundNode
<1>4. s = InodeBlock(f, w) \/ s = InodeBlock(f, 1 - w)
  <2>1. CurrentSlot(gpRedMR, f) \in Slots
    BY <1>1, CurrentSlotIs DEF FileExists
  <2>. QED  BY <1>2, <2>1, Regions
<1>5. SoundIn(gpRedMR.abEntries, Cache)
  BY DEF WorkingParts
<1> SUFFICES ASSUME NEW b \in FileSlots, NEW o \in Offsets, NEW q \in Offsets,
                    b \in gpRedMR.abEntries, Cache[b][o] = InodeNode(f)[q], Cache[b][o] # BLOCK_SPARSE
             PROVE  b = s
  BY <1>4
<1>. QED  BY <1>3, <1>5 DEF SoundIn

(* An operation that writes an inode leaves a sound working state: the new *)
(* pointer leads to a block of no other file.                              *)
LEMMA WorkingInodeWritten ==
  ASSUME CowInv, WorkingInv, NEW f \in Files, NEW w, NEW node, NEW new, NEW gone,
         FileStep(new, gone), InodeWritten(f, w, node, new, gone)
  PROVE  WorkingInv'
<1>1. WorkingParts /\ CowParts
  BY WorkingInvParts, CowInvParts
<1>2. PICK s, t, A, B : /\ s = InodeBlock(f, w) /\ t = InodeBlock(f, 1 - w)
                        /\ A = gpRedMR.abEntries /\ B = gpRedMR'.abEntries
  OBVIOUS
<1>3. /\ w \in Slots /\ node \in InodeNodes /\ B = (A \cup new) \ gone
      /\ new \cap FileSlots = {s} /\ gone \cap FileSlots = {t}
      /\ buffers'[s] = Buffer(TRUE, node)
      /\ \A o, q \in Offsets : node[o] = node[q] /\ node[o] # BLOCK_SPARSE => o = q
      /\ \A o \in Offsets : node[o] # BLOCK_SPARSE =>
           \/ node[o] \in new
           \/ FileExists(f) /\ node[o] = InodeNode(f)[o] /\ node[o] \notin gone
      /\ \A c \in gone \ FileSlots : FileExists(f) /\ \E o \in Offsets : c = InodeNode(f)[o]
      /\ \A c \in new \ FileSlots :
           /\ c \notin A \/ (FileExists(f) /\ \E o \in Offsets : c = InodeNode(f)[o])
           /\ ~fReadOnly' => Cache'[c] \in Values
           /\ buffers'[c] = Nil \/ buffers'[c].fDirty \/ fReadOnly'
  BY <1>2 DEF InodeWritten
<1>4. /\ fMounted /\ ~fReadOnly /\ new \cap gone = {} /\ new \subseteq BufferedBlocks
      /\ gone \subseteq BufferedBlocks /\ fMounted'
  BY DEF FileStep
<1>5. /\ s \in FileSlots /\ s \in BufferedBlocks /\ \A c \in AllocableBlocks : c \in BufferedBlocks /\ c \notin FileSlots
      /\ \A c \in FileSlots : c \in BufferedBlocks
      /\ \A c \in BufferedBlocks : c \in FileSlots \/ c \in AllocableBlocks
  BY <1>2, <1>3, Regions DEF BufferedBlocks
<1>6. Cache'[s] = node /\ buffers'[s].fDirty
  <2>1. node \in Contents(s)
    BY <1>3, <1>5, ContentsOf
  <2>2. buffers'[s] # Nil /\ buffers'[s].data = node /\ buffers'[s].fDirty = TRUE
    <3>1. Buffer(TRUE, node) # Nil /\ Buffer(TRUE, node).data = node /\ Buffer(TRUE, node).fDirty = TRUE
      BY <1>5, <2>1, BufferIsNotNil
    <3>. QED  BY <1>3, <3>1
  <2>. QED  BY <1>5, <2>2 DEF Cache, Cached
<1>7. \A c \in BufferedBlocks \ (new \cup gone) : Cache'[c] = Cache[c]
  BY CacheKept
<1>8. SoundIn(A, Cache)
  BY <1>1, <1>2, <1>4 DEF WorkingParts
<1>9. \A c \in FileSlots : c \in B => c = s \/ (c \in A /\ c # s /\ c # t /\ Cache'[c] = Cache[c])
  BY <1>3, <1>5, <1>7
<1>10. \A c \in FileSlots, o, q \in Offsets :
          c \in A /\ c # s /\ c # t /\ Cache[c][o] # BLOCK_SPARSE
            => ~(FileExists(f) /\ Cache[c][o] = InodeNode(f)[q])
  BY <1>1, <1>2, <1>3, <1>4, OwnPointers
<1>11. \A c \in FileSlots, o \in Offsets :
          c \in A /\ c # s /\ c # t /\ Cache[c][o] # BLOCK_SPARSE
            => Cache[c][o] \in A /\ Cache[c][o] \in AllocableBlocks /\ Cache[c][o] \notin gone
  <2> SUFFICES ASSUME NEW c \in FileSlots, NEW o \in Offsets,
                      c \in A, c # s, c # t, Cache[c][o] # BLOCK_SPARSE
               PROVE  Cache[c][o] \in A /\ Cache[c][o] \in AllocableBlocks /\ Cache[c][o] \notin gone
    OBVIOUS
  <2>1. Cache[c][o] \in A /\ Cache[c] \in InodeNodes
    BY <1>8 DEF SoundIn
  <2>2. Cache[c][o] \in AllocableBlocks
    BY <2>1 DEF InodeNodes
  <2>. QED  BY <1>3, <1>5, <1>10, <2>1, <2>2
<1>12. \A o \in Offsets : node[o] # BLOCK_SPARSE => node[o] \in B /\ node[o] \in AllocableBlocks
  <2> SUFFICES ASSUME NEW o \in Offsets, node[o] # BLOCK_SPARSE
               PROVE  node[o] \in B /\ node[o] \in AllocableBlocks
    OBVIOUS
  <2>1. node[o] \in AllocableBlocks
    BY <1>3 DEF InodeNodes
  <2>2. CASE node[o] \in new
    BY <1>3, <1>4, <2>1, <2>2
  <2>3. CASE FileExists(f) /\ node[o] = InodeNode(f)[o] /\ node[o] \notin gone
    <3>1. gpRedMR \in Bits!MetaRoot /\ OneSlot(gpRedMR) /\ Sound(gpRedMR, Cache)
      BY <1>1, <1>4, SoundIs DEF CowParts, WorkingParts
    <3>2. node[o] \in A
      BY <1>2, <2>3, <3>1, SoundNode
    <3>. QED  BY <1>3, <2>1, <2>3, <3>2
  <2>. QED  BY <1>3, <2>2, <2>3
<1>13. \A c \in FileSlots, o, q \in Offsets :
          c \in A /\ c # s /\ c # t /\ Cache[c][o] # BLOCK_SPARSE => Cache[c][o] # node[q]
  <2> SUFFICES ASSUME NEW c \in FileSlots, NEW o \in Offsets, NEW q \in Offsets,
                      c \in A, c # s, c # t, Cache[c][o] # BLOCK_SPARSE, Cache[c][o] = node[q]
               PROVE  FALSE
    OBVIOUS
  <2>1. node[q] \in A /\ node[q] \in AllocableBlocks
    BY <1>11
  <2>2. CASE node[q] \in new
    BY <1>3, <1>5, <1>10, <2>1, <2>2
  <2>3. CASE FileExists(f) /\ node[q] = InodeNode(f)[q]
    BY <1>10, <2>3
  <2>. QED  BY <1>3, <2>2, <2>3
<1>14. SoundIn(B, Cache')
  <2>1. \A c \in FileSlots : c \in B => Cache'[c] \in InodeNodes
    BY <1>3, <1>6, <1>8, <1>9 DEF SoundIn
  <2>2. \A c \in FileSlots, o \in Offsets : c \in B /\ Cache'[c][o] # BLOCK_SPARSE => Cache'[c][o] \in B
    <3> SUFFICES ASSUME NEW c \in FileSlots, NEW o \in Offsets, c \in B, Cache'[c][o] # BLOCK_SPARSE
                 PROVE  Cache'[c][o] \in B
      OBVIOUS
    <3>1. CASE c = s
      BY <1>6, <1>12, <3>1
    <3>2. CASE c # s
      BY <1>3, <1>9, <1>11, <3>2
    <3>. QED  BY <3>1, <3>2
  <2>3. \A b, c \in FileSlots, o, p \in Offsets :
          b \in B /\ c \in B /\ Cache'[b][o] = Cache'[c][p] /\ Cache'[b][o] # BLOCK_SPARSE
            => b = c /\ o = p
    <3> SUFFICES ASSUME NEW b \in FileSlots, NEW c \in FileSlots, NEW o \in Offsets, NEW p \in Offsets,
                        b \in B, c \in B, Cache'[b][o] = Cache'[c][p], Cache'[b][o] # BLOCK_SPARSE
                 PROVE  b = c /\ o = p
      OBVIOUS
    <3>1. CASE b = s /\ c = s
      BY <1>3, <1>6, <3>1
    <3>2. CASE b = s /\ c # s
      <4>1. node[o] = Cache[c][p] /\ Cache[c][p] # BLOCK_SPARSE /\ c \in A /\ c # t
        BY <1>6, <1>9, <3>2
      <4>. QED  BY <1>13, <3>2, <4>1
    <3>3. CASE b # s /\ c = s
      <4>1. node[p] = Cache[b][o] /\ Cache[b][o] # BLOCK_SPARSE /\ b \in A /\ b # t
        BY <1>6, <1>9, <3>3
      <4>. QED  BY <1>13, <3>3, <4>1
    <3>4. CASE b # s /\ c # s
      BY <1>8, <1>9, <3>4 DEF SoundIn
    <3>. QED  BY <3>1, <3>2, <3>3, <3>4
  <2>. QED  BY <2>1, <2>2, <2>3 DEF SoundIn
<1>15. ~fReadOnly' => \A b \in AllocableBlocks : b \in B => Cache'[b] \in Values
  BY <1>1, <1>2, <1>3, <1>4, <1>5, <1>7 DEF WorkingParts
<1>16. \A c \in new : buffers'[c] = Nil \/ buffers'[c].fDirty \/ (fReadOnly' /\ c \in AllocableBlocks)
  BY <1>3, <1>4, <1>5, <1>6
<1>17. /\ \A b \in BufferedBlocks : buffers'[b] # Nil => b \in gpRedMR'.abEntries
       /\ \A b \in BufferedBlocks :
            buffers'[b] # Nil /\ ~buffers'[b].fDirty =>
              buffers'[b].data = media'[b] \/ (fReadOnly' /\ b \in AllocableBlocks)
  BY <1>1, <1>2, <1>3, <1>16, BuffersKept
<1>18. WorkingParts'
  <2>1. SoundIn(gpRedMR.abEntries, Cache)'
    BY <1>2, <1>14 DEF SoundIn
  <2>. QED  BY <1>2, <1>15, <1>17, <2>1 DEF WorkingParts
<1>. QED  BY <1>18, WorkingInvPartsNext

(* So does a deletion: no other file has a block of the deleted one.       *)
LEMMA WorkingInodeDeleted ==
  ASSUME CowInv, WorkingInv, NEW f \in Files, NEW new, NEW gone,
         FileStep(new, gone), InodeDeleted(f, new, gone)
  PROVE  WorkingInv'
<1>1. WorkingParts /\ CowParts
  BY WorkingInvParts, CowInvParts
<1>2. PICK w, t, A, B : /\ w = CurrentSlot(gpRedMR, f) /\ t = InodeBlock(f, w)
                        /\ A = gpRedMR.abEntries /\ B = gpRedMR'.abEntries
  OBVIOUS
<1>3. /\ B = A \ gone /\ new = {} /\ gone \cap FileSlots = {t} /\ FileExists(f)
      /\ \A c \in gone \ FileSlots : \E o \in Offsets : c = InodeNode(f)[o]
  BY <1>2 DEF InodeDeleted
<1>4. /\ fMounted /\ ~fReadOnly /\ gone \subseteq BufferedBlocks /\ fMounted'
  BY DEF FileStep
<1>5. /\ w \in Slots /\ InodeBlock(f, 1 - w) \notin A
  BY <1>1, <1>2, <1>3, <1>4, CurrentSlotIs DEF CowParts, FileExists
<1>6. /\ \A c \in AllocableBlocks : c \in BufferedBlocks /\ c \notin FileSlots
      /\ \A c \in FileSlots : c \in BufferedBlocks
  BY Regions DEF BufferedBlocks
<1>7. \A c \in BufferedBlocks \ gone : Cache'[c] = Cache[c]
  BY <1>3, CacheKept
<1>8. SoundIn(A, Cache)
  BY <1>1, <1>2, <1>4 DEF WorkingParts
<1>9. \A c \in FileSlots : c \in B => c \in A /\ c # t /\ Cache'[c] = Cache[c]
  BY <1>3, <1>6, <1>7
<1>10. \A c \in FileSlots, o \in Offsets :
          c \in B /\ Cache[c][o] # BLOCK_SPARSE => Cache[c][o] \in B
  <2> SUFFICES ASSUME NEW c \in FileSlots, NEW o \in Offsets, c \in B, Cache[c][o] # BLOCK_SPARSE
               PROVE  Cache[c][o] \in B
    OBVIOUS
  <2>1. c \in A /\ c # t /\ Cache[c][o] \in A /\ Cache[c] \in InodeNodes
    BY <1>8, <1>9 DEF SoundIn
  <2>2. Cache[c][o] \in AllocableBlocks
    BY <2>1 DEF InodeNodes
  <2>3. ASSUME NEW q \in Offsets, Cache[c][o] = InodeNode(f)[q] PROVE FALSE
    <3>1. c = t \/ c = InodeBlock(f, 1 - w)
      BY <1>1, <1>2, <1>3, <1>4, <1>5, <2>1, <2>3, OwnPointers
    <3>. QED  BY <1>5, <2>1, <3>1
  <2>. QED  BY <1>3, <1>6, <2>1, <2>2, <2>3
<1>11. SoundIn(B, Cache')
  BY <1>8, <1>9, <1>10 DEF SoundIn
<1>12. ~fReadOnly' => \A b \in AllocableBlocks : b \in B => Cache'[b] \in Values
  BY <1>1, <1>2, <1>3, <1>4, <1>6, <1>7 DEF WorkingParts
<1>13. /\ \A b \in BufferedBlocks : buffers'[b] # Nil => b \in gpRedMR'.abEntries
       /\ \A b \in BufferedBlocks :
            buffers'[b] # Nil /\ ~buffers'[b].fDirty =>
              buffers'[b].data = media'[b] \/ (fReadOnly' /\ b \in AllocableBlocks)
  <2>1. gpRedMR'.abEntries = (gpRedMR.abEntries \cup new) \ gone /\ \A c \in new : FALSE
    BY <1>2, <1>3
  <2>. QED  BY <1>1, <2>1, BuffersKept
<1>14. WorkingParts'
  <2>1. SoundIn(gpRedMR.abEntries, Cache)'
    BY <1>2, <1>11 DEF SoundIn
  <2>. QED  BY <1>2, <1>12, <1>13, <2>1 DEF WorkingParts
<1>. QED  BY <1>14, WorkingInvPartsNext

(* Operations on files keep WorkingInv.                                    *)
LEMMA WorkingFileStep ==
  ASSUME CowInv, WorkingInv, FileChanged
  PROVE  WorkingInv'
<1>1. PICK f \in Files : \E w, node, new, gone :
    /\ FileStep(new, gone)
    /\ Sound(gpRedMR, Cache) =>
         InodeWritten(f, w, node, new, gone) \/ InodeDeleted(f, new, gone)
  BY DEF FileChanged
<1>2. PICK w, node, new, gone :
    /\ FileStep(new, gone)
    /\ Sound(gpRedMR, Cache) =>
         InodeWritten(f, w, node, new, gone) \/ InodeDeleted(f, new, gone)
  BY <1>1
<1>3. Sound(gpRedMR, Cache)
  BY <1>2 DEF WorkingInv, FileStep
<1>. QED  BY <1>2, <1>3, WorkingInodeWritten, WorkingInodeDeleted

(* A step of the mounted volume after which the blocks read as before.     *)
LEMMA WorkingFrame ==
  ASSUME WorkingInv, fMounted, gpRedMR'.abEntries = gpRedMR.abEntries, fReadOnly => fReadOnly',
         \A b \in BufferedBlocks :
           /\ buffers'[b] # Nil => b \in gpRedMR.abEntries
           /\ Cache'[b] = Cache[b] \/ (fReadOnly' /\ b \in AllocableBlocks)
           /\ buffers'[b] # Nil /\ ~buffers'[b].fDirty =>
                buffers'[b].data = media'[b] \/ (fReadOnly' /\ b \in AllocableBlocks)
  PROVE  WorkingInv'
<1>1. WorkingParts
  BY WorkingInvParts
<1>2. \A b \in FileSlots : Cache'[b] = Cache[b]
  BY Regions DEF BufferedBlocks
<1>3. SoundIn(gpRedMR.abEntries, Cache)'
  <2>1. PICK A : A = gpRedMR'.abEntries
    OBVIOUS
  <2>2. A = gpRedMR.abEntries
    BY <2>1
  <2>3. SoundIn(A, Cache)
    BY <1>1, <2>2 DEF WorkingParts
  <2>4. SoundIn(A, Cache')
    BY <1>2, <2>3, SoundInSame
  <2>. QED  BY <2>1, <2>4 DEF SoundIn
<1>4. ~fReadOnly' => \A b \in AllocableBlocks : b \in gpRedMR'.abEntries => Cache'[b] \in Values
  BY <1>1, Regions DEF WorkingParts
<1>5. WorkingParts'
  BY <1>1, <1>3, <1>4 DEF WorkingParts
<1>. QED  BY <1>5, WorkingInvPartsNext

(* The blocks that are read are allocated.                                 *)
LEMMA ReferredAllocated ==
  ASSUME CowInv, WorkingInv, fMounted, NEW b \in ReferredBlocks
  PROVE  b \in gpRedMR.abEntries
<1>1. gpRedMR \in Bits!MetaRoot /\ OneSlot(gpRedMR) /\ Sound(gpRedMR, Cache)
  BY CowInvParts DEF CowParts, WorkingInv
<1>2. CASE \E f \in Files : FileExists(f) /\ b = InodeBlock(f, CurrentSlot(gpRedMR, f))
  BY <1>1, <1>2, SoundNode
<1>3. CASE \E f \in Files : FileExists(f) /\ \E o \in Offsets : b = InodeNode(f)[o] /\ b # BLOCK_SPARSE
  BY <1>1, <1>3, SoundNode
<1>. QED  BY <1>2, <1>3 DEF ReferredBlocks

(* Reading, dropping or writing a buffer changes nothing but the data      *)
(* block whose write failed.                                               *)
LEMMA BufferStepReads ==
  ASSUME CowInv, WorkingInv, NEW b \in BufferedBlocks, BufferStep(b),
         BlockRead(b) \/ BufferDropped(b) \/ BufferWritten(b) \/ WriteOfBufferFailed(b)
  PROVE  \A c \in BufferedBlocks :
           /\ buffers'[c] # Nil => c \in gpRedMR.abEntries
           /\ Cache'[c] = Cache[c] \/ (fReadOnly' /\ c \in AllocableBlocks)
           /\ buffers'[c] # Nil /\ ~buffers'[c].fDirty =>
                buffers'[c].data = media'[c] \/ (fReadOnly' /\ c \in AllocableBlocks)
<1>1. WorkingParts
  BY WorkingInvParts
<1>2. /\ fMounted /\ gpRedMR' = gpRedMR /\ (fReadOnly => fReadOnly') /\ b \in Blocks
      /\ \A c \in BufferedBlocks \ {b} :
           buffers'[c] = buffers[c] /\ media'[c] = media[c]
  BY Regions DEF BufferStep, mrVars
<1>3. \A c \in BufferedBlocks \ {b} : Cache'[c] = Cache[c]
  BY <1>2 DEF Cache, Cached
<1>4. /\ buffers'[b] # Nil => b \in gpRedMR.abEntries
      /\ Cache'[b] = Cache[b] \/ (fReadOnly' /\ b \in AllocableBlocks)
      /\ buffers'[b] # Nil /\ ~buffers'[b].fDirty =>
           buffers'[b].data = media'[b] \/ (fReadOnly' /\ b \in AllocableBlocks)
  <2>1. CASE BlockRead(b)
    <3>1. buffers'[b].data = media'[b] /\ Cache[b] = media[b] /\ media' = media
      <4>1. PICK d : d = media[b]
        OBVIOUS
      <4>2. Buffer(FALSE, d).data = d
        BY BufferIsNotNil
      <4>. QED  BY <2>1, <4>1, <4>2 DEF BlockRead, Cache, Cached
    <3>2. Cache'[b] = media[b]
      BY <3>1 DEF Cache, Cached
    <3>3. b \in gpRedMR.abEntries
      BY <1>2, <2>1, ReferredAllocated DEF BlockRead
    <3>. QED  BY <3>1, <3>2, <3>3
  <2>2. CASE BufferDropped(b)
    BY <1>1, <1>2, <2>2 DEF BufferDropped, WorkingParts, Cache, Cached, IsDirty
  <2>3. CASE BufferWritten(b)
    <3>1. Cache[b] = buffers[b].data /\ b \in gpRedMR.abEntries
      BY <1>1, <2>3 DEF BufferWritten, IsDirty, Cache, Cached, WorkingParts
    <3>2. CASE buffers'[b] = Nil
      BY <2>3, <3>1, <3>2 DEF BufferWritten, Cache, Cached
    <3>3. CASE buffers'[b] # Nil
      <4>1. buffers'[b].data = buffers[b].data
        <5>1. PICK d : d = buffers[b].data
          OBVIOUS
        <5>2. Buffer(FALSE, d).data = d
          BY BufferIsNotNil
        <5>. QED  BY <2>3, <3>3, <5>1, <5>2 DEF BufferWritten
      <4>. QED  BY <2>3, <3>1, <3>3, <4>1 DEF BufferWritten, Cache, Cached
    <3>. QED  BY <3>2, <3>3
  <2>4. CASE WriteOfBufferFailed(b)
    BY <1>1, <2>4 DEF WriteOfBufferFailed, IsDirty, Cache, Cached, WorkingParts
  <2>. QED  BY <2>1, <2>2, <2>3, <2>4
<1>5. \A c \in BufferedBlocks \ {b} :
        /\ buffers'[c] # Nil => c \in gpRedMR.abEntries
        /\ buffers'[c] # Nil /\ ~buffers'[c].fDirty =>
             buffers'[c].data = media'[c] \/ (fReadOnly' /\ c \in AllocableBlocks)
  BY <1>1, <1>2 DEF WorkingParts
<1>. QED  BY <1>3, <1>4, <1>5

(* Operations on buffers keep WorkingInv.                                  *)
LEMMA WorkingBufferStep ==
  ASSUME CowInv, WorkingInv, NEW b \in BufferedBlocks, BufferStep(b),
         BlockRead(b) \/ BufferDropped(b) \/ BufferWritten(b) \/ WriteOfBufferFailed(b)
  PROVE  WorkingInv'
BY BufferStepReads, WorkingFrame DEF BufferStep, mrVars

(* After buffers are written every block reads as before.                  *)
LEMMA CacheSame ==
  ASSUME BuffersSame
  PROVE  \A b \in BufferedBlocks : Cache'[b] = Cache[b]
BY DEF BuffersSame, Cache, Cached, IsDirty

(* Writing buffers keeps WorkingInv.                                       *)
LEMMA WorkingBuffersSame ==
  ASSUME WorkingInv, fMounted, BuffersSame, gpRedMR'.abEntries = gpRedMR.abEntries,
         fReadOnly => fReadOnly'
  PROVE  WorkingInv'
<1>1. WorkingParts
  BY WorkingInvParts
<1>2. \A b \in BufferedBlocks :
           /\ buffers'[b] # Nil => b \in gpRedMR.abEntries
           /\ Cache'[b] = Cache[b]
           /\ buffers'[b] # Nil /\ ~buffers'[b].fDirty =>
                buffers'[b].data = media'[b] \/ (fReadOnly' /\ b \in AllocableBlocks)
  BY <1>1 DEF WorkingParts, BuffersSame, Cache, Cached, IsDirty
<1>. QED  BY <1>2, WorkingFrame

(* The steps of a transaction point.                                       *)
LEMMA WorkingTransact ==
  ASSUME CowInv, WorkingInv,
         \/ TransactBuffers \/ TransactBuffersFail \/ TransactFlush
         \/ TransactMetaroot \/ TransactComplete \/ TransactFails
  PROVE  WorkingInv'
<1>1. CowParts
  BY CowInvParts
<1>2. CASE TransactBuffers \/ TransactBuffersFail
  <2>1. BuffersSame /\ gpRedMR'.abEntries = gpRedMR.abEntries
    BY <1>2, CowTransactBuffers, AllBuffersSame, BuffersWrittenOrNot DEF AllBuffersWritten
  <2>2. fMounted /\ ~fReadOnly
    BY <1>2 DEF TransactBuffers, TransactBuffersFail, Ready
  <2>. QED  BY <2>1, <2>2, WorkingBuffersSame
<1>3. CASE TransactFlush \/ TransactMetaroot \/ TransactComplete \/ TransactFails
  <2>1. /\ fMounted /\ ~fReadOnly /\ gpRedMR' = gpRedMR /\ buffers' = buffers
        /\ \A b \in BufferedBlocks : b \in Blocks /\ b # MetarootBlock(bCurMR)
    BY <1>1, <1>3, Regions DEF TransactFlush, TransactMetaroot, TransactComplete, TransactFails,
                               mrVars, CowParts
  <2>2. \A b \in BufferedBlocks : media'[b] = media[b]
    <3>1. CASE TransactFlush \/ TransactComplete
      BY <1>1, <3>1, FlushedBlocks DEF TransactFlush, TransactComplete, CowParts
    <3>2. CASE TransactMetaroot
      BY <1>1, <2>1, <3>2, WrittenMetaroot DEF MetarootWritten
    <3>3. CASE TransactFails
      <4>1. CASE NoIo
        BY <1>1, <4>1, NoIoBlocks DEF CowParts
      <4>2. CASE WriteFailed(<<>>, MetarootBlock(bCurMR))
        <5>1. PICK c : c = MetarootBlock(bCurMR)
          OBVIOUS
        <5>2. c \in Blocks /\ DeviceOK /\ WriteFailed(<<>>, c)
          BY <1>1, <4>2, <5>1, Regions DEF CowParts
        <5>3. \A b \in Blocks \ {c} : media'[b] = media[b]
          BY <5>2, OneWriteFailed
        <5>. QED  BY <2>1, <5>1, <5>3
      <4>. QED  BY <3>3, <4>1, <4>2 DEF TransactFails
    <3>. QED  BY <1>3, <3>1, <3>2, <3>3
  <2>3. BuffersSame
    BY <2>1, <2>2 DEF BuffersSame
  <2>. QED  BY <2>1, <2>3, WorkingBuffersSame
<1>. QED  BY <1>2, <1>3

(* A mount takes up a state that is intact.                                *)
LEMMA WorkingMounted ==
  ASSUME CowInv, MountedInv', fMounted', buffers' = NoBuffers, gpRedMR' = cmtMR'
  PROVE  WorkingInv'
<1>1. \A b \in BufferedBlocks : buffers'[b] = Nil
  BY BuffersEmptied
<1>2. \A b \in BufferedBlocks : Cache'[b] = media'[b]
  BY <1>1 DEF Cache, Cached
<1>3. PICK k \in 0 .. 1 : MountedFrom(k, media[MetarootBlock(k)])'
  BY DEF MountedInv
<1>4. Intact(cmtMR)'
  BY <1>3 DEF MountedFrom, CommittedIs
<1>5. PICK mr : mr = gpRedMR'
  OBVIOUS
<1>6. SoundIn(mr.abEntries, media') /\ \A b \in AllocableBlocks : b \in mr.abEntries => media'[b] \in Values
  <2>1. Sound(mr, media') /\ Filled(mr, media')
    BY <1>4, <1>5 DEF Intact, Sound, Filled
  <2>. QED  BY <2>1, SoundIs, MetaRootFields DEF Filled
<1>7. SoundIn(mr.abEntries, Cache')
  <2>1. \A b \in FileSlots : Cache'[b] = media'[b]
    BY <1>2 DEF BufferedBlocks
  <2>. QED  BY <1>6, <2>1 DEF SoundIn
<1>8. \A b \in AllocableBlocks : b \in mr.abEntries => Cache'[b] \in Values
  BY <1>2, <1>6, Regions
<1>9. WorkingParts'
  <2>1. SoundIn(gpRedMR.abEntries, Cache)'
    BY <1>5, <1>7 DEF SoundIn
  <2>. QED  BY <1>1, <1>5, <1>8, <2>1 DEF WorkingParts
<1>. QED  BY <1>9, WorkingInvPartsNext

(* Of an unmounted volume WorkingInv says only that it has no buffers.     *)
LEMMA WorkingForgotten ==
  ASSUME buffers' = NoBuffers, fMounted' = FALSE
  PROVE  WorkingInv'
<1>1. WorkingParts'
  BY BuffersEmptied DEF WorkingParts
<1>. QED  BY <1>1, WorkingInvPartsNext

-----------------------------------------------------------------------------
(* The inductive invariant.                                                *)

(* A formatted volume satisfies the invariant,                             *)
LEMMA IInvInit ==
  ASSUME Init
  PROVE  IInv
<1>1. WorkingInv
  BY DEF Init, WorkingInv, NoStaleBuffers, NoBuffers
<1>. QED  BY <1>1, CowInit, CrashInit DEF IInv

(* every step keeps it, if a mount finds a stable metaroot,                *)
LEMMA IInvNext ==
  ASSUME fRemountUnstable = FALSE, IInv, [Next]_vars
  PROVE  IInv'
<1>1. CowInv /\ CrashInv /\ WorkingInv /\ CowParts
  BY CowInvParts DEF IInv
<1>2. CowInv'
  BY <1>1, CowNext
<1>3. ASSUME MountedInv', fMounted', WorkingInv' PROVE IInv'
  BY <1>2, <1>3 DEF IInv, CrashInv
<1>4. CASE \/ \E f \in Files : Create(f) \/ Delete(f)
           \/ \E f \in Files, o \in Offsets, v \in Values \ {Zero} :
                WriteUnaligned(f, o, v) \/ WriteAligned(f, o, v)
           \/ \E f \in Files, o \in Offsets : WriteAlignedFails(f, o) \/ Truncate(f, o)
  <2>1. FileChanged
    BY <1>1, <1>4, FileOperations
  <2>2. PICK new, gone : FileStep(new, gone)
    BY <2>1 DEF FileChanged
  <2>3. fMounted /\ fMounted' /\ MountedInv
    BY <1>1, <2>2 DEF FileStep, CrashInv
  <2>4. MountedInv'
    BY <1>1, <2>2, <2>3, CrashFileStep
  <2>5. WorkingInv'
    BY <1>1, <2>1, WorkingFileStep
  <2>. QED  BY <1>3, <2>3, <2>4, <2>5
<1>5. CASE \E b \in BufferedBlocks :
             BufferGet(b) \/ Evict(b) \/ ReadRange(b) \/ BufferWriteFails(b)
  <2>1. PICK b \in BufferedBlocks :
          /\ BufferStep(b)
          /\ BlockRead(b) \/ BufferDropped(b) \/ BufferWritten(b) \/ WriteOfBufferFailed(b)
    BY <1>1, <1>5, BufferOperations
  <2>2. fMounted /\ fMounted' /\ MountedInv
    BY <1>1, <2>1 DEF BufferStep, CrashInv
  <2>3. MountedInv'
    BY <1>1, <2>1, <2>2, CrashBufferStep
  <2>4. WorkingInv'
    BY <1>1, <2>1, WorkingBufferStep
  <2>. QED  BY <1>3, <2>2, <2>3, <2>4
<1>6. CASE \/ TransactBuffers \/ TransactBuffersFail \/ TransactFlush
           \/ TransactMetaroot \/ TransactComplete \/ TransactFails
  <2>1. fMounted /\ fMounted' /\ MountedInv
    BY <1>1, <1>6 DEF TransactBuffers, TransactBuffersFail, TransactFlush, TransactMetaroot,
         TransactComplete, TransactFails, FoldAlmostFree, Ready, CowParts, CrashInv
  <2>2. MountedInv'
    BY <1>1, <1>6, <2>1, CrashTransactBuffers, CrashTransactFlush, CrashTransactMetaroot,
       CrashTransactComplete, CrashTransactFails
  <2>3. WorkingInv'
    BY <1>1, <1>6, WorkingTransact
  <2>. QED  BY <1>3, <2>1, <2>2, <2>3
<1>7. CASE Mount \/ Rollback
  <2>1. buffers' = NoBuffers /\ fMounted' /\ gpRedMR' = cmtMR'
    BY <1>1, <1>7 DEF Mount, Rollback, MountMetaroot, CowParts
  <2>2. MountedInv'
    BY <1>1, <1>7, CrashMount, CrashRollback DEF CrashInv, Rollback, Ready
  <2>. QED  BY <1>1, <1>3, <2>1, <2>2, WorkingMounted
<1>8. CASE Unmount
  BY <1>1, <1>2, <1>8, CrashUnmount, WorkingForgotten DEF IInv, CrashInv, Unmount
<1>9. CASE PowerLoss
  BY <1>1, <1>2, <1>9, CrashPowerLoss, WorkingForgotten DEF IInv, PowerLoss
<1>10. CASE UNCHANGED vars
  <2>1. CrashInv'
    <3>1. /\ media' = media /\ maybe' = maybe /\ buffers' = buffers /\ gpRedMR' = gpRedMR /\ cmtMR' = cmtMR
          /\ bCurMR' = bCurMR /\ ullSequence' = ullSequence /\ step' = step
          /\ fMounted' = fMounted /\ fReadOnly' = fReadOnly
      BY <1>10 DEF vars, devVars, mrVars
    <3>2. ASSUME NEW mr PROVE Intact(mr)' <=> Intact(mr)
      BY ONLY <3>1 DEF Intact, Sound, Filled
    <3>3. ASSUME NEW k, NEW c PROVE Newer(k, c)' = Newer(k, c)
      BY ONLY <3>1 DEF Newer
    <3>4. DirtyBlocks' = DirtyBlocks
      BY ONLY <3>1 DEF DirtyBlocks, IsDirty
    <3>5. ASSUME NEW k, NEW c PROVE CommittedIs(k, c)' <=> CommittedIs(k, c)
      BY ONLY <3>1, <3>2, <3>3 DEF CommittedIs
    <3>6. ASSUME NEW k, NEW c PROVE MountedFrom(k, c)' <=> MountedFrom(k, c)
      BY ONLY <3>1, <3>2, <3>3, <3>4, <3>5 DEF MountedFrom
    <3>7. MountedInv' <=> MountedInv
      BY ONLY <3>1, <3>6 DEF MountedInv
    <3>8. \A k : CommittedAt(k)' <=> CommittedAt(k)
      BY ONLY <3>1, <3>5 DEF CommittedAt
    <3>. QED  BY ONLY <1>1, <3>1, <3>7, <3>8 DEF CrashInv
  <2>2. WorkingInv'
    BY <1>1, <1>10 DEF vars, devVars, mrVars, WorkingInv, NoStaleBuffers, Sound, Filled,
       Cache, Cached, IsDirty
  <2>. QED  BY <1>2, <2>1, <2>2 DEF IInv
<1>. QED  BY <1>4, <1>5, <1>6, <1>7, <1>8, <1>9, <1>10 DEF Next

(* so that it holds in every state.                                        *)
LEMMA IInvariant ==
  ASSUME fRemountUnstable = FALSE
  PROVE  Spec => []IInv
<1>1. Init => IInv
  BY IInvInit
<1>2. IInv /\ [Next]_vars => IInv'
  BY IInvNext
<1>. QED  BY <1>1, <1>2, PTL DEF Spec

(* No buffer outlives its block, and what a mounted volume has discarded   *)
(* is on the media.                                                        *)
THEOREM NoBufferIsStale ==
  ASSUME fRemountUnstable = FALSE
  PROVE  Spec => []NoStaleBuffers
<1>1. IInv => NoStaleBuffers
  BY DEF IInv, WorkingInv
<1>. QED  BY <1>1, IInvariant, PTL

(* A clean buffer may be dropped: the media holds the same.                *)
THEOREM CleanBuffersAreRedundant ==
  ASSUME fRemountUnstable = FALSE
  PROVE  Spec => []CleanBuffersMatchMedia
<1>1. IInv => CleanBuffersMatchMedia
  BY DEF IInv, WorkingInv, CleanBuffersMatchMedia
<1>. QED  BY <1>1, IInvariant, PTL

-----------------------------------------------------------------------------
(* What a mount finds.                                                     *)

(* The contents of file f under metaroot mr, in the blocks "data".         *)
Pointed(data, p) == IF p = BLOCK_SPARSE THEN Zero ELSE data[p]

FileOf(mr, data, f) ==
  LET node == data[InodeBlock(f, CurrentSlot(mr, f))]
  IN  IF Bits!InodeExists(mr, f) THEN [o \in Offsets |-> Pointed(data, node[o])] ELSE Nil

ViewOf(mr, data) == [f \in Files |-> FileOf(mr, data, f)]

(* The inode of a file, and where its pointers lead.                       *)
LEMMA NodeIn ==
  ASSUME NEW mr, NEW data, OneSlot(mr), Sound(mr, data),
         NEW f \in Files, Bits!InodeExists(mr, f)
  PROVE  LET s == InodeBlock(f, CurrentSlot(mr, f))
         IN  /\ s \in FileSlots /\ s \in mr.abEntries /\ data[s] \in InodeNodes
             /\ \A o \in Offsets : data[s][o] # BLOCK_SPARSE =>
                  data[s][o] \in AllocableBlocks /\ data[s][o] \in mr.abEntries
<1>1. PICK s : s = InodeBlock(f, CurrentSlot(mr, f))
  OBVIOUS
<1>2. s \in FileSlots /\ s \in mr.abEntries
  BY <1>1, CurrentSlotIs, Regions
<1>3. SoundIn(mr.abEntries, data)
  BY SoundIs
<1>4. /\ data[s] \in InodeNodes
      /\ \A o \in Offsets : data[s][o] # BLOCK_SPARSE => data[s][o] \in mr.abEntries
  BY <1>2, <1>3 DEF SoundIn
<1>5. \A o \in Offsets : data[s][o] # BLOCK_SPARSE => data[s][o] \in AllocableBlocks
  BY <1>4 DEF InodeNodes
<1>. QED  BY <1>1, <1>2, <1>4, <1>5

(* A file of a sound state has contents in all of its blocks,              *)
LEMMA FileIsState ==
  ASSUME NEW mr, NEW data, OneSlot(mr), Sound(mr, data), Filled(mr, data), NEW f \in Files
  PROVE  FileOf(mr, data, f) \in [Offsets -> Values] \cup {Nil}
<1>1. CASE ~Bits!InodeExists(mr, f)
  BY <1>1 DEF FileOf
<1>2. CASE Bits!InodeExists(mr, f)
  <2>1. PICK s : s = InodeBlock(f, CurrentSlot(mr, f))
    OBVIOUS
  <2>2. \A o \in Offsets : data[s][o] # BLOCK_SPARSE =>
                  data[s][o] \in AllocableBlocks /\ data[s][o] \in mr.abEntries
    BY <1>2, <2>1, NodeIn
  <2>3. \A o \in Offsets : Pointed(data, data[s][o]) \in Values
    BY <2>2, MetaRootFields DEF Pointed, Filled
  <2>. QED  BY <1>2, <2>1, <2>3 DEF FileOf
<1>. QED  BY <1>1, <1>2

(* so that its files are a state of the store.                             *)
LEMMA ViewIsState ==
  ASSUME NEW mr, NEW data, OneSlot(mr), Sound(mr, data), Filled(mr, data)
  PROVE  ViewOf(mr, data) \in Store!States
BY FileIsState DEF ViewOf, Store!States, Store!FileContents

(* Of an intact state a mount finds what the media holds.                  *)
LEMMA IntactFile ==
  ASSUME NEW mr, Intact(mr), OneSlot(mr), NEW f \in Files
  PROVE  FileViews(mr, f, maybe) = {FileOf(mr, media, f)}
<1>1. CASE ~Bits!InodeExists(mr, f)
  BY <1>1 DEF FileOf, FileViews
<1>2. CASE Bits!InodeExists(mr, f)
  <2>1. PICK s, node : s = InodeBlock(f, CurrentSlot(mr, f)) /\ node = media[s]
    OBVIOUS
  <2>2. /\ s \in BufferedBlocks /\ s \in mr.abEntries /\ node \in InodeNodes
        /\ \A o \in Offsets : node[o] # BLOCK_SPARSE =>
                  node[o] \in BufferedBlocks /\ node[o] \in mr.abEntries
    BY <1>2, <2>1, NodeIn, Regions DEF Intact, BufferedBlocks
  <2>3. maybe[s] = {node} /\ node \notin {Torn, Junk}
    BY <2>1, <2>2, MetaRootFields, SentinelAssumption DEF Intact
  <2> DEFINE may1(o) == IF node[o] = BLOCK_SPARSE THEN {Zero} ELSE maybe[node[o]]
             content == [o \in Offsets |-> Pointed(media, node[o])]
             any     == {c \in [Offsets -> UNION {may1(o) : o \in Offsets}] :
                           \A o \in Offsets : c[o] \in may1(o)}
  <2>4. \A o \in Offsets : may1(o) = {content[o]}
    BY <2>2, MetaRootFields DEF Intact, Pointed
  <2>5. FileViews(mr, f, maybe) = any
    <3>1. FileViews(mr, f, maybe) = UNION { any : n \in {node} }
      BY <1>2, <2>1, <2>3 DEF FileViews
    <3>. QED  BY <3>1
  <2>6. any = {content}
    <3> HIDE DEF may1
    <3>1. \A c \in any : c = content
      <4> SUFFICES ASSUME NEW c \in any PROVE c = content
        OBVIOUS
      <4>1. c \in [Offsets -> UNION {may1(o) : o \in Offsets}] /\ \A o \in Offsets : c[o] = content[o]
        BY <2>4
      <4>. QED  BY <4>1
    <3>2. content \in any
      BY <2>4
    <3>. QED  BY <3>1, <3>2
  <2>7. FileOf(mr, media, f) = content
    BY <1>2, <2>1 DEF FileOf
  <2>. QED  BY <2>5, <2>6, <2>7
<1>. QED  BY <1>1, <1>2

(* The same for all files.                                                 *)
LEMMA IntactViews ==
  ASSUME NEW mr, Intact(mr), OneSlot(mr)
  PROVE  Views(mr, maybe) = {ViewOf(mr, media)}
<1> DEFINE view == ViewOf(mr, media)
<1>1. \A f \in Files : FileViews(mr, f, maybe) = {view[f]}
  BY IntactFile DEF ViewOf
<1>2. DOMAIN view = Files /\ view = [f \in Files |-> view[f]]
  BY DEF ViewOf
<1> HIDE DEF view
<1>3. view \in Views(mr, maybe)
  BY <1>1, <1>2 DEF Views
<1>4. \A v \in Views(mr, maybe) : v = view
  <2> SUFFICES ASSUME NEW v \in Views(mr, maybe) PROVE v = view
    OBVIOUS
  <2>1. DOMAIN v = Files /\ v = [f \in Files |-> v[f]] /\ \A f \in Files : v[f] = view[f]
    BY <1>1 DEF Views
  <2>. QED  BY <1>2, <2>1
<1>. QED  BY <1>3, <1>4 DEF view

(* So a loss of power leaves the committed state or the one that is newer. *)
RecoverableAre(k, c) ==
  /\ Recoverable = {ViewOf(c.body, media)} \cup {ViewOf(m.body, media) : m \in Newer(k, c)}
  /\ \A m \in {c} \cup Newer(k, c) :
       Intact(m.body) /\ OneSlot(m.body) /\ m \in DiskMetaroots

(* RedVolMountMetaroot chooses the newer metaroot if it survived, else the *)
(* committed one.                                                          *)
LEMMA RecoverableIs ==
  ASSUME CowInv, NEW k \in 0 .. 1, NEW c \in DiskMetaroots, CommittedIs(k, c)
  PROVE  RecoverableAre(k, c)
<1>1. CowParts
  BY CowInvParts
<1>2. PICK j \in 0 .. 1 : j = 1 - k
  BY Regions
<1>3. PICK own, other : own = MetarootBlock(k) /\ other = MetarootBlock(j)
  OBVIOUS
<1>4. /\ maybe[own] = {c} /\ media[own] = c /\ Intact(c.body)
      /\ \A m \in Newer(k, c) : /\ m \in maybe[other] /\ m \in DiskMetaroots /\ m = media[other]
                                /\ Intact(m.body) /\ maybe[other] # {m}
  BY <1>2, <1>3 DEF CommittedIs, Newer
<1>5. \A m \in {c} \cup Newer(k, c) : Intact(m.body) /\ OneSlot(m.body) /\ m \in DiskMetaroots
  <2>1. c \in maybe[own]
    BY <1>4
  <2>. QED  BY <1>1, <1>3, <1>4, <2>1 DEF CowParts
<1>6. \A m \in {c} \cup Newer(k, c) : m # Nil /\ Views(m.body, maybe) = {ViewOf(m.body, media)}
  BY <1>5, IntactViews, SentinelAssumption
<1> DEFINE Disk(m0, m1) == MetarootChosen(0 :> m0 @@ 1 :> m1)
           Found(m0, m1) == IF Disk(m0, m1) = Nil THEN {Nil} ELSE Views(Disk(m0, m1).body, maybe)
           Either(x) == IF x \in Newer(k, c) THEN x ELSE c
<1>7. ASSUME NEW m0 \in maybe[MetarootBlock(0)], NEW m1 \in maybe[MetarootBlock(1)]
      PROVE  Disk(m0, m1) = Either(IF k = 0 THEN m1 ELSE m0)
  <2>1. PICK m : m = (0 :> m0 @@ 1 :> m1)
    OBVIOUS
  <2>2. m[0] = m0 /\ m[1] = m1
    BY <2>1 DEF :>, @@
  <2>3. m[k] = c /\ m[1 - k] \in maybe[MetarootBlock(1 - k)] /\ m[1 - k] = IF k = 0 THEN m1 ELSE m0
    BY <1>3, <1>4, <2>2
  <2>. QED  BY <1>1, <2>1, <2>3, ChosenIs DEF CowParts
<1>8. Recoverable = UNION {Found(m0, m1) : m0 \in maybe[MetarootBlock(0)], m1 \in maybe[MetarootBlock(1)]}
  BY DEF Recoverable
<1>9. \A m0 \in maybe[MetarootBlock(0)], m1 \in maybe[MetarootBlock(1)] :
        Found(m0, m1) = {ViewOf(Either(IF k = 0 THEN m1 ELSE m0).body, media)}
  <2> SUFFICES ASSUME NEW m0 \in maybe[MetarootBlock(0)], NEW m1 \in maybe[MetarootBlock(1)]
               PROVE  Found(m0, m1) = {ViewOf(Either(IF k = 0 THEN m1 ELSE m0).body, media)}
    OBVIOUS
  <2>1. PICK d : d = Either(IF k = 0 THEN m1 ELSE m0)
    OBVIOUS
  <2>2. d \in {c} \cup Newer(k, c) /\ Disk(m0, m1) = d
    BY <1>7, <2>1
  <2> HIDE DEF Disk, Either
  <2>. QED  BY <1>6, <2>1, <2>2
<1> HIDE DEF Found, Disk
<1>10. Recoverable = {ViewOf(Either(x).body, media) : x \in maybe[other]}
  <2>1. CASE k = 0
    <3>1. maybe[MetarootBlock(0)] = {c} /\ other = MetarootBlock(1)
      BY <1>2, <1>3, <1>4, <2>1
    <3>. QED  BY <1>8, <1>9, <2>1, <3>1
  <2>2. CASE k = 1
    <3>1. maybe[MetarootBlock(1)] = {c} /\ other = MetarootBlock(0)
      BY <1>2, <1>3, <1>4, <2>2
    <3>. QED  BY <1>8, <1>9, <2>2, <3>1
  <2>. QED  BY <2>1, <2>2
<1>11. \E x \in maybe[other] : Either(x) = c
  <2>1. media[other] \in maybe[other]
    BY <1>1, <1>3, Regions DEF CowParts, DeviceOK
  <2>2. CASE Newer(k, c) = {}
    BY <2>1, <2>2
  <2>3. CASE Newer(k, c) # {}
    <3>1. PICK m \in Newer(k, c) : TRUE
      BY <2>3
    <3>2. PICK x \in maybe[other] : x # m
      BY <1>4, <3>1
    <3>. QED  BY <1>4, <3>1, <3>2
  <2>. QED  BY <2>2, <2>3
<1>12. \A m \in Newer(k, c) : m \in maybe[other] /\ Either(m) = m
  BY <1>4
<1>13. \A x : Either(x) \in {c} \cup Newer(k, c)
  OBVIOUS
<1> HIDE DEF Either
<1>14. Recoverable = {ViewOf(c.body, media)} \cup {ViewOf(m.body, media) : m \in Newer(k, c)}
  BY <1>10, <1>11, <1>12, <1>13
<1>. QED  BY <1>5, <1>14 DEF RecoverableAre

(* There is such a committed state whenever the invariant holds.           *)
LEMMA SomethingCommitted ==
  ASSUME IInv
  PROVE  \E k \in 0 .. 1 : \E c \in DiskMetaroots : CommittedIs(k, c) /\ RecoverableAre(k, c)
<1>1. CowInv /\ CrashInv
  BY DEF IInv
<1>2. PICK k \in 0 .. 1 : \E c \in DiskMetaroots : CommittedIs(k, c)
  BY <1>1, MountedFromSome, CommittedAtSome DEF CrashInv, MountedFrom
<1>3. PICK c \in DiskMetaroots : CommittedIs(k, c)
  BY <1>2
<1>. QED  BY <1>1, <1>3, RecoverableIs

(* Power may be lost at any moment: the volume mounts, with every file     *)
(* whole.                                                                  *)
THEOREM EveryCrashIsRecoverable ==
  ASSUME fRemountUnstable = FALSE
  PROVE  Spec => []RecoverableIsIntact
<1>1. ASSUME IInv PROVE RecoverableIsIntact
  <2>1. PICK k \in 0 .. 1 : \E c \in DiskMetaroots : RecoverableAre(k, c)
    BY <1>1, SomethingCommitted
  <2>2. PICK c \in DiskMetaroots : RecoverableAre(k, c)
    BY <2>1
  <2>3. \A m \in {c} \cup Newer(k, c) : ViewOf(m.body, media) \in Store!States
    BY <2>2, ViewIsState DEF RecoverableAre, Intact
  <2>. QED  BY <2>2, <2>3 DEF RecoverableAre, RecoverableIsIntact
<1>. QED  BY <1>1, IInvariant, PTL

-----------------------------------------------------------------------------
(* The volume implements the transactional store.                          *)

StoreStep == Store!StoreNext \/ UNCHANGED Store!storeVars

(* The steps of the store, in terms of the volume.                         *)
LEMMA StoreChanges ==
  ASSUME fMounted, ~fReadOnly, step # "sync", fMounted', ~fReadOnly', step' # "sync",
         Recoverable' = Recoverable, NEW f \in Files,
         \E c \in Store!Changed(WorkingView[f]) : WorkingView' = [WorkingView EXCEPT ![f] = c]
  PROVE  StoreStep
BY DEF StoreStep, Store!StoreNext, Store!Change, Store!Ready, Store!storeVars

(* A step of the volume that its user does not see.                        *)
LEMMA StoreStutters ==
  ASSUME Recoverable' = Recoverable, fMounted' = fMounted, fReadOnly' = fReadOnly,
         fMounted /\ ~fReadOnly => WorkingView' = WorkingView,
         step' = "sync" <=> step = "sync"
  PROVE  StoreStep
BY DEF StoreStep, Store!storeVars

(* The new metaroot is written.                                            *)
LEMMA StoreBeginsCommit ==
  ASSUME fMounted, ~fReadOnly, fMounted', ~fReadOnly', step # "sync", step' = "sync",
         WorkingView' = WorkingView, Recoverable' = Recoverable \cup {WorkingView}
  PROVE  StoreStep
BY DEF StoreStep, Store!StoreNext, Store!BeginCommit, Store!Ready, Store!storeVars

(* The transaction point is complete.                                      *)
LEMMA StoreEndsCommit ==
  ASSUME fMounted, ~fReadOnly, fMounted', ~fReadOnly', step = "sync", step' # "sync",
         WorkingView' = WorkingView, Recoverable' = {WorkingView}
  PROVE  StoreStep
BY DEF StoreStep, Store!StoreNext, Store!EndCommit, Store!storeVars

(* RedVolCriticalError.                                                    *)
LEMMA StoreFails ==
  ASSUME fMounted, ~fReadOnly, fMounted', fReadOnly', step' # "sync",
         Recoverable' = Recoverable
  PROVE  StoreStep
BY DEF StoreStep, Store!StoreNext, Store!Fail, Store!storeVars

(* A mount.                                                                *)
LEMMA StoreMounts ==
  ASSUME ~fMounted, fMounted', ~fReadOnly', step # "sync", step' # "sync",
         WorkingView' \in Recoverable, Recoverable' = Recoverable
  PROVE  StoreStep
BY DEF StoreStep, Store!StoreNext, Store!MountStore, Store!storeVars

(* A rollback.                                                             *)
LEMMA StoreRollsBack ==
  ASSUME fMounted, ~fReadOnly, fMounted', ~fReadOnly', step # "sync", step' # "sync",
         WorkingView' \in Recoverable, Recoverable' = Recoverable
  PROVE  StoreStep
BY DEF StoreStep, Store!StoreNext, Store!Rollback, Store!Ready, Store!storeVars

(* An unmount.                                                             *)
LEMMA StoreUnmounts ==
  ASSUME fMounted, ~fMounted', step # "sync", step' # "sync", Recoverable' = Recoverable
  PROVE  StoreStep
BY DEF StoreStep, Store!StoreNext, Store!UnmountStore, Store!storeVars

(* A loss of power.                                                        *)
LEMMA StoreLosesPower ==
  ASSUME ~fMounted', step' # "sync", \E s \in Recoverable : Recoverable' = {s}
  PROVE  StoreStep
BY DEF StoreStep, Store!StoreNext, Store!PowerLoss, Store!storeVars

(* A file is the same if its inode and its blocks are.                     *)
LEMMA FileSame ==
  ASSUME NEW mr, NEW mr2, NEW data, NEW data2, OneSlot(mr), OneSlot(mr2), Sound(mr, data),
         NEW f \in Files,
         \A w \in Slots : InodeBlock(f, w) \in mr2.abEntries <=> InodeBlock(f, w) \in mr.abEntries,
         \A w \in Slots : InodeBlock(f, w) \in mr.abEntries =>
           LET s == InodeBlock(f, w)
           IN  /\ data2[s] = data[s]
               /\ \A o \in Offsets : data[s][o] # BLOCK_SPARSE => data2[data[s][o]] = data[data[s][o]]
  PROVE  FileOf(mr2, data2, f) = FileOf(mr, data, f)
<1>1. Bits!InodeExists(mr2, f) <=> Bits!InodeExists(mr, f)
  BY BitsLayout, MetaRootFields DEF Bits!InodeExists
<1>2. CASE ~Bits!InodeExists(mr, f)
  BY <1>1, <1>2 DEF FileOf
<1>3. CASE Bits!InodeExists(mr, f)
  <2>1. CurrentSlot(mr2, f) = CurrentSlot(mr, f) /\ CurrentSlot(mr, f) \in Slots
        /\ InodeBlock(f, CurrentSlot(mr, f)) \in mr.abEntries
    BY <1>1, <1>3, CurrentSlotIs
  <2>2. PICK s : s = InodeBlock(f, CurrentSlot(mr, f)) /\ s = InodeBlock(f, CurrentSlot(mr2, f))
    BY <2>1
  <2>3. /\ data2[s] = data[s]
        /\ \A o \in Offsets : data[s][o] # BLOCK_SPARSE => data2[data[s][o]] = data[data[s][o]]
    BY <2>1, <2>2
  <2>4. \A o \in Offsets : Pointed(data2, data2[s][o]) = Pointed(data, data[s][o])
    BY <2>3 DEF Pointed
  <2>. QED  BY <1>1, <1>3, <2>2, <2>4 DEF FileOf
<1>. QED  BY <1>2, <1>3

(* A view is the same if the allocated blocks are.                         *)
LEMMA ViewSame ==
  ASSUME NEW mr, NEW mr2, NEW data, NEW data2, OneSlot(mr), Sound(mr, data),
         mr2.abEntries = mr.abEntries,
         \A b \in BufferedBlocks : b \in mr.abEntries => data2[b] = data[b]
  PROVE  ViewOf(mr2, data2) = ViewOf(mr, data)
<1>1. OneSlot(mr2)
  BY MetaRootFields DEF OneSlot
<1>2. SoundIn(mr.abEntries, data)
  BY SoundIs
<1>3. ASSUME NEW f \in Files, NEW w \in Slots, InodeBlock(f, w) \in mr.abEntries
      PROVE  LET s == InodeBlock(f, w)
             IN  /\ data2[s] = data[s]
                 /\ \A o \in Offsets : data[s][o] # BLOCK_SPARSE => data2[data[s][o]] = data[data[s][o]]
  <2>1. PICK s : s = InodeBlock(f, w)
    OBVIOUS
  <2>2. s \in FileSlots /\ s \in BufferedBlocks
    BY <2>1, Regions
  <2>3. data[s] \in InodeNodes /\ \A o \in Offsets : data[s][o] # BLOCK_SPARSE => data[s][o] \in mr.abEntries
    BY <1>2, <1>3, <2>1, <2>2 DEF SoundIn
  <2>4. \A o \in Offsets : data[s][o] # BLOCK_SPARSE => data[s][o] \in BufferedBlocks
    BY <2>3, Regions DEF InodeNodes
  <2>. QED  BY <1>3, <2>1, <2>2, <2>3, <2>4
<1>4. \A f \in Files : FileOf(mr2, data2, f) = FileOf(mr, data, f)
  BY <1>1, <1>3, FileSame
<1>. QED  BY <1>4 DEF ViewOf

(* A state that is intact and not written shows the same files.            *)
LEMMA ViewKept ==
  ASSUME NEW mr, OneSlot(mr), Intact(mr), Unwritten(mr)
  PROVE  ViewOf(mr, media') = ViewOf(mr, media)
BY ViewSame DEF Unwritten, Intact

(* What a mount finds in the next state: RecoverableIs for it,             *)
LEMMA RecoverableIsAlways ==
  (\A j \in 0 .. 1 : \A d \in DiskMetaroots : CowInv /\ CommittedIs(j, d) => RecoverableAre(j, d))'
<1>1. \A j \in 0 .. 1 : \A d \in DiskMetaroots :
        CowInv /\ CommittedIs(j, d) => RecoverableAre(j, d)
  BY RecoverableIs
<1>. QED  BY <1>1, PTL

(* in terms of the media after the step.                                   *)
LEMMA RecoverableIsNext ==
  ASSUME CowInv', NEW k \in 0 .. 1, NEW c \in DiskMetaroots, CommittedIs(k, c)'
  PROVE  Recoverable' = {ViewOf(c.body, media')} \cup {ViewOf(m.body, media') : m \in Newer(k, c)'}
<1>3. DiskMetaroots' = DiskMetaroots
  OBVIOUS
<1>4. RecoverableAre(k, c)'
  BY <1>3, RecoverableIsAlways
<1>. QED  BY <1>4 DEF RecoverableAre, ViewOf, FileOf, Pointed

(* What stays committed stays recoverable.                                 *)
LEMMA RecoverableKept ==
  ASSUME CowInv, CowInv', CommittedStays
  PROVE  Recoverable' = Recoverable
<1>1. PICK k \in 0 .. 1, c \in DiskMetaroots :
        /\ CommittedIs(k, c) /\ CommittedIs(k, c)' /\ Newer(k, c)' = Newer(k, c)
        /\ \A m \in {c} \cup Newer(k, c) : Unwritten(m.body)
  BY DEF CommittedStays
<1>2. RecoverableAre(k, c)
  BY <1>1, RecoverableIs
<1>3. \A m \in {c} \cup Newer(k, c) : ViewOf(m.body, media') = ViewOf(m.body, media)
  BY <1>1, <1>2, ViewKept DEF RecoverableAre
<1>4. Recoverable' = {ViewOf(c.body, media')} \cup {ViewOf(m.body, media') : m \in Newer(k, c)}
  BY <1>1, RecoverableIsNext
<1>. QED  BY <1>2, <1>3, <1>4 DEF RecoverableAre

(* A step without I/O changes nothing of what is recoverable.              *)
LEMMA RecoverableUnread ==
  ASSUME NoIo
  PROVE  Recoverable' = Recoverable
BY DEF NoIo, devVars, Recoverable, Views, FileViews

(* Outside the transaction point nothing but the committed state is.       *)
LEMMA OnlyCommitted ==
  ASSUME CowInv, CrashInv, fMounted, ~fReadOnly, step # "sync"
  PROVE  /\ Recoverable = {ViewOf(cmtMR, media)}
         /\ Intact(cmtMR) /\ OneSlot(cmtMR)
<1>1. PICK k \in 0 .. 1, c \in DiskMetaroots : MountedFrom(k, c)
  BY MountedFromSome DEF CrashInv
<1>2. CommittedIs(k, c) /\ c.body = cmtMR /\ Newer(k, c) = {}
  BY <1>1 DEF MountedFrom
<1>3. RecoverableAre(k, c)
  BY <1>2, RecoverableIs
<1>. QED  BY <1>2, <1>3 DEF RecoverableAre

(* OnlyCommitted of the next state,                                        *)
LEMMA OnlyCommittedAlways ==
  (CowInv /\ CrashInv /\ fMounted /\ ~fReadOnly /\ step # "sync"
     => Recoverable = {ViewOf(cmtMR, media)})'
<1>1. CowInv /\ CrashInv /\ fMounted /\ ~fReadOnly /\ step # "sync" => Recoverable = {ViewOf(cmtMR, media)}
  BY OnlyCommitted
<1>. QED  BY <1>1, PTL

(* in terms of the metaroot and the media after the step.                  *)
LEMMA OnlyCommittedNext ==
  ASSUME CowInv', CrashInv', fMounted', ~fReadOnly', step' # "sync"
  PROVE  Recoverable' = {ViewOf(cmtMR', media')}
BY OnlyCommittedAlways DEF ViewOf, FileOf, Pointed

(* What the mounted volume shows.                                          *)
LEMMA WorkingIs ==
  ASSUME CowInv, WorkingInv, fMounted
  PROVE  WorkingView = ViewOf(gpRedMR, Cache)
<1>1. /\ gpRedMR \in Bits!MetaRoot /\ OneSlot(gpRedMR) /\ Sound(gpRedMR, Cache)
  BY CowInvParts DEF CowParts, WorkingInv
<1> DEFINE read(p) == IF p = BLOCK_SPARSE THEN Zero ELSE Cached(p)
           contents(f) == IF InodeNode(f) \in {Torn, Junk} THEN Junk
                          ELSE [o \in Offsets |-> read(InodeNode(f)[o])]
<1>2. ASSUME NEW f \in Files, Bits!InodeExists(gpRedMR, f)
      PROVE  contents(f) = FileOf(gpRedMR, Cache, f)
  <2>1. PICK s : s = InodeBlock(f, CurrentSlot(gpRedMR, f))
    OBVIOUS
  <2>2. /\ s \in FileSlots /\ InodeNode(f) = Cache[s] /\ Cache[s] \in InodeNodes
        /\ \A o \in Offsets : Cache[s][o] # BLOCK_SPARSE => Cache[s][o] \in AllocableBlocks
    BY <1>1, <1>2, <2>1, NodeIn, SoundNode DEF FileExists
  <2>3. InodeNode(f) \notin {Torn, Junk}
    BY <2>2, SentinelAssumption
  <2>4. \A o \in Offsets : read(InodeNode(f)[o]) = Pointed(Cache, Cache[s][o])
    BY <2>2, Regions DEF Pointed, Cache
  <2> HIDE DEF read
  <2>. QED  BY <1>2, <2>1, <2>3, <2>4 DEF FileOf
<1>3. WorkingView = [f \in Files |-> IF Bits!InodeExists(gpRedMR, f) THEN contents(f) ELSE Nil]
  BY DEF WorkingView
<1> HIDE DEF contents
<1>4. \A f \in Files : (IF Bits!InodeExists(gpRedMR, f) THEN contents(f) ELSE Nil) = FileOf(gpRedMR, Cache, f)
  BY <1>2 DEF FileOf
<1>. QED  BY <1>3, <1>4 DEF ViewOf

(* WorkingIs of the next state,                                            *)
LEMMA WorkingIsAlways ==
  (CowInv /\ WorkingInv /\ fMounted => WorkingView = ViewOf(gpRedMR, Cache))'
<1>1. CowInv /\ WorkingInv /\ fMounted => WorkingView = ViewOf(gpRedMR, Cache)
  BY WorkingIs
<1>. QED  BY <1>1, PTL

(* in terms of the metaroot and the blocks after the step.                 *)
LEMMA WorkingIsNext ==
  ASSUME CowInv', WorkingInv', fMounted', NEW mr, NEW data, mr = gpRedMR', data = Cache'
  PROVE  WorkingView' = ViewOf(mr, data)
BY WorkingIsAlways DEF ViewOf, FileOf, Pointed

(* An operation on file f leaves the others as they are.                   *)
FileAlone(f, new, gone) ==
  /\ gpRedMR'.abEntries = (gpRedMR.abEntries \cup new) \ gone
  /\ \A c \in (new \cup gone) \cap FileSlots : \E w \in Slots : c = InodeBlock(f, w)
  /\ \A c \in (new \cup gone) \ FileSlots :
       c \notin gpRedMR.abEntries \/ (FileExists(f) /\ \E q \in Offsets : c = InodeNode(f)[q])

(* Each operation is one on a single file.                                 *)
LEMMA OperationIsAlone ==
  ASSUME CowInv, fMounted, NEW f \in Files, NEW w, NEW node, NEW new, NEW gone,
         InodeWritten(f, w, node, new, gone) \/ InodeDeleted(f, new, gone)
  PROVE  FileAlone(f, new, gone)
<1>1. CASE InodeWritten(f, w, node, new, gone)
  <2>1. w \in Slots /\ 1 - w \in Slots
    BY <1>1, Regions DEF InodeWritten
  <2>2. \A c \in (new \cup gone) \cap FileSlots : c = InodeBlock(f, w) \/ c = InodeBlock(f, 1 - w)
    BY <1>1 DEF InodeWritten
  <2>3. \A c \in (new \cup gone) \ FileSlots :
          c \notin gpRedMR.abEntries \/ (FileExists(f) /\ \E q \in Offsets : c = InodeNode(f)[q])
    BY <1>1 DEF InodeWritten
  <2>4. gpRedMR'.abEntries = (gpRedMR.abEntries \cup new) \ gone
    BY <1>1 DEF InodeWritten
  <2>. QED  BY <2>1, <2>2, <2>3, <2>4 DEF FileAlone
<1>2. CASE InodeDeleted(f, new, gone)
  <2>1. CurrentSlot(gpRedMR, f) \in Slots
    BY <1>2, CowInvParts, CurrentSlotIs DEF CowParts, InodeDeleted, FileExists
  <2>. QED  BY <1>2, <2>1 DEF InodeDeleted, FileAlone
<1>. QED  BY <1>1, <1>2

(* The others read as before: none of their blocks is new or gone.         *)
LEMMA OtherFilesKept ==
  ASSUME CowInv, WorkingInv, NEW f \in Files, NEW new, NEW gone,
         FileStep(new, gone), FileAlone(f, new, gone),
         NEW mr, NEW data, mr = gpRedMR', data = Cache', NEW g \in Files, g # f
  PROVE  FileOf(mr, data, g) = FileOf(gpRedMR, Cache, g)
<1>1. WorkingParts /\ fMounted /\ OneSlot(gpRedMR) /\ Sound(gpRedMR, Cache)
  BY WorkingInvParts, CowInvParts DEF FileStep, CowParts, WorkingInv
<1>2. OneSlot(mr)
  BY DEF FileStep, OneSlot
<1>3. PICK A : A = gpRedMR.abEntries
  OBVIOUS
<1>4. /\ mr.abEntries = (A \cup new) \ gone
      /\ \A c \in (new \cup gone) \cap FileSlots : \E w \in Slots : c = InodeBlock(f, w)
      /\ \A c \in (new \cup gone) \ FileSlots :
           c \notin A \/ (FileExists(f) /\ \E q \in Offsets : c = InodeNode(f)[q])
  BY <1>3 DEF FileAlone
<1>5. \A c \in BufferedBlocks \ (new \cup gone) : data[c] = Cache[c]
  BY CacheKept
<1>6. \A w \in Slots : /\ InodeBlock(g, w) \notin new \cup gone
                       /\ InodeBlock(g, w) \in FileSlots /\ InodeBlock(g, w) \in BufferedBlocks
  BY <1>4, Regions
<1>7. ASSUME NEW w \in Slots, InodeBlock(g, w) \in A
      PROVE  LET s == InodeBlock(g, w)
             IN  /\ data[s] = Cache[s]
                 /\ \A o \in Offsets : Cache[s][o] # BLOCK_SPARSE => data[Cache[s][o]] = Cache[Cache[s][o]]
  <2>1. PICK s : s = InodeBlock(g, w)
    OBVIOUS
  <2>2. s \in FileSlots /\ s \in A /\ data[s] = Cache[s]
    BY <1>5, <1>6, <1>7, <2>1
  <2>3. SoundIn(A, Cache)
    BY <1>1, <1>3 DEF WorkingParts
  <2>4. Cache[s] \in InodeNodes /\ \A o \in Offsets : Cache[s][o] # BLOCK_SPARSE => Cache[s][o] \in A
    BY <2>2, <2>3 DEF SoundIn
  <2>5. ASSUME NEW o \in Offsets, Cache[s][o] # BLOCK_SPARSE PROVE data[Cache[s][o]] = Cache[Cache[s][o]]
    <3>1. PICK p : p = Cache[s][o]
      OBVIOUS
    <3>2. p \in A /\ p \in BufferedBlocks /\ p \notin FileSlots
      BY <2>4, <2>5, <3>1, Regions DEF InodeNodes
    <3>3. ASSUME p \in new \cup gone PROVE FALSE
      <4>1. FileExists(f)
        BY <1>4, <3>2, <3>3
      <4>2. PICK q \in Offsets : p = InodeNode(f)[q]
        BY <1>4, <3>2, <3>3
      <4>3. 0 \in Slots
        BY DEF Slots
      <4>4. s = InodeBlock(f, 0) \/ s = InodeBlock(f, 1 - 0)
        <5>1. \A b \in FileSlots, i, j \in Offsets :
                (b \in gpRedMR.abEntries /\ Cache[b][i] = InodeNode(f)[j] /\ Cache[b][i] # BLOCK_SPARSE)
                  => (b = InodeBlock(f, 0) \/ b = InodeBlock(f, 1 - 0))
          BY <1>1, <4>1, <4>3, OwnPointers
        <5>. QED  BY <1>3, <2>2, <2>5, <3>1, <4>2, <5>1
      <4>5. 1 - 0 \in Slots
        BY DEF Slots
      <4>. QED  BY <2>1, <4>3, <4>4, <4>5, Regions
    <3>. QED  BY <1>5, <3>1, <3>2, <3>3
  <2>. QED  BY <2>1, <2>2, <2>5
<1>8. \A w \in Slots : InodeBlock(g, w) \in mr.abEntries <=> InodeBlock(g, w) \in gpRedMR.abEntries
  BY <1>3, <1>4, <1>6
<1>9. \A w \in Slots : InodeBlock(g, w) \in gpRedMR.abEntries =>
           LET s == InodeBlock(g, w)
           IN  /\ data[s] = Cache[s]
               /\ \A o \in Offsets : Cache[s][o] # BLOCK_SPARSE => data[Cache[s][o]] = Cache[Cache[s][o]]
  BY <1>3, <1>7
<1>. QED  BY <1>1, <1>2, <1>8, <1>9, FileSame

(* File f itself is deleted,                                               *)
LEMMA DeletedFile ==
  ASSUME CowInv, WorkingInv, NEW f \in Files, NEW new, NEW gone,
         FileStep(new, gone), InodeDeleted(f, new, gone), NEW mr, NEW data, mr = gpRedMR'
  PROVE  FileOf(mr, data, f) = Nil
<1>1. PICK w : w = CurrentSlot(gpRedMR, f)
  OBVIOUS
<1>2. w \in Slots /\ InodeBlock(f, 1 - w) \notin gpRedMR.abEntries
  BY <1>1, CowInvParts, CurrentSlotIs DEF CowParts, InodeDeleted, FileExists, FileStep
<1>3. mr.abEntries = gpRedMR.abEntries \ gone /\ InodeBlock(f, w) \in gone
  BY <1>1 DEF InodeDeleted
<1>4. \A v \in Slots : InodeBlock(f, v) \notin mr.abEntries
  BY <1>2, <1>3, Regions
<1>. QED  BY <1>4, BitsLayout, MetaRootFields DEF FileOf, Bits!InodeExists

(* or reads as its new inode says.                                         *)
LEMMA WrittenFile ==
  ASSUME CowInv, WorkingInv, NEW f \in Files, NEW w, NEW node, NEW new, NEW gone,
         FileStep(new, gone), InodeWritten(f, w, node, new, gone),
         NEW mr, NEW data, mr = gpRedMR', data = Cache'
  PROVE  FileOf(mr, data, f) = [o \in Offsets |-> Pointed(data, node[o])]
<1>1. PICK s, t : s = InodeBlock(f, w) /\ t = InodeBlock(f, 1 - w)
  OBVIOUS
<1>2. /\ w \in Slots /\ node \in InodeNodes /\ mr.abEntries = (gpRedMR.abEntries \cup new) \ gone
      /\ new \cap FileSlots = {s} /\ gone \cap FileSlots = {t} /\ buffers'[s] = Buffer(TRUE, node)
  BY <1>1 DEF InodeWritten
<1>3. s \in FileSlots /\ s \in BufferedBlocks /\ s # t /\ OneSlot(mr)
  BY <1>1, <1>2, Regions DEF FileStep, OneSlot
<1>4. s \in mr.abEntries
  BY <1>2, <1>3 DEF FileStep
<1>5. Bits!InodeExists(mr, f)
  BY <1>1, <1>2, <1>4, BitsLayout, MetaRootFields DEF Bits!InodeExists
<1>6. CurrentSlot(mr, f) = w
  BY <1>1, <1>2, <1>3, <1>4, <1>5, CurrentSlotIs
<1>7. data[s] = node
  <2>1. node \in Contents(s)
    BY <1>2, <1>3, ContentsOf
  <2>2. Buffer(TRUE, node) # Nil /\ Buffer(TRUE, node).data = node
    BY <1>3, <2>1, BufferIsNotNil
  <2>3. buffers'[s] # Nil /\ buffers'[s].data = node
    BY <1>2, <2>2
  <2>. QED  BY <1>3, <2>3 DEF Cache, Cached
<1>. QED  BY <1>1, <1>5, <1>6, <1>7 DEF FileOf

(* Either way the file changes as the store lets it: it is created or      *)
(* deleted, truncated, or one of its blocks written.                       *)
LEMMA FileChangesAsStored ==
  ASSUME CowInv, WorkingInv, NEW f \in Files, NEW w, NEW node, NEW new, NEW gone,
         FileStep(new, gone), ~fReadOnly',
         InodeWritten(f, w, node, new, gone) \/ InodeDeleted(f, new, gone),
         NEW mr, NEW data, mr = gpRedMR', data = Cache'
  PROVE  FileOf(mr, data, f) \in Store!Changed(FileOf(gpRedMR, Cache, f))
<1>1. /\ OneSlot(gpRedMR) /\ Sound(gpRedMR, Cache) /\ Filled(gpRedMR, Cache)
      /\ gpRedMR \in Bits!MetaRoot
  BY CowInvParts DEF FileStep, CowParts, WorkingInv
<1>2. PICK c, d, n : /\ c = FileOf(gpRedMR, Cache, f) /\ d = FileOf(mr, data, f)
                     /\ n = InodeNode(f)
  OBVIOUS
<1>3. c \in [Offsets -> Values] \cup {Nil} /\ Nil \notin [Offsets -> Values]
  BY <1>1, <1>2, FileIsState, SentinelAssumption
<1>4. ASSUME FileExists(f)
      PROVE  /\ c = [o \in Offsets |-> Pointed(Cache, n[o])] /\ c # Nil /\ c \in [Offsets -> Values]
             /\ \A o \in Offsets : n[o] # BLOCK_SPARSE => n[o] \in AllocableBlocks
  <2>1. PICK s : s = InodeBlock(f, CurrentSlot(gpRedMR, f))
    OBVIOUS
  <2>2. n = Cache[s] /\ n \in InodeNodes
    BY <1>1, <1>2, <1>4, <2>1, SoundNode, NodeIn DEF FileExists
  <2>3. c = [o \in Offsets |-> Pointed(Cache, n[o])]
    BY <1>2, <1>4, <2>1, <2>2 DEF FileOf, FileExists
  <2>4. c # Nil
    <3>1. \A o \in Offsets : Pointed(Cache, n[o]) \in Values
      <4>1. \A o \in Offsets : n[o] # BLOCK_SPARSE => n[o] \in AllocableBlocks /\ n[o] \in gpRedMR.abEntries
        BY <1>1, <1>4, <2>1, <2>2, NodeIn DEF FileExists
      <4>. QED  BY <1>1, <4>1, MetaRootFields DEF Pointed, Filled
    <3>2. c \in [Offsets -> Values]
      BY <2>3, <3>1
    <3>. QED  BY <1>3, <3>2
  <2>. QED  BY <1>3, <2>2, <2>3, <2>4 DEF InodeNodes
<1>5. CASE InodeDeleted(f, new, gone)
  <2>1. d = Nil
    BY <1>2, <1>5, DeletedFile
  <2>2. c # Nil
    BY <1>4, <1>5 DEF InodeDeleted
  <2>. QED  BY <1>2, <2>1, <2>2 DEF Store!Changed
<1>6. CASE InodeWritten(f, w, node, new, gone)
  <2>1. d = [o \in Offsets |-> Pointed(data, node[o])]
    BY <1>2, <1>6, WrittenFile
  <2>2. \A b \in BufferedBlocks \ (new \cup gone) : data[b] = Cache[b]
    BY CacheKept
  <2>3. ASSUME FileExists(f), NEW q \in Offsets, node[q] = n[q], node[q] \notin new
        PROVE  Pointed(data, node[q]) = c[q]
    <3>1. CASE node[q] = BLOCK_SPARSE
      BY <1>4, <2>3, <3>1 DEF Pointed
    <3>2. CASE node[q] # BLOCK_SPARSE
      <4>1. node[q] \notin gone
        BY <1>6, <2>3, <3>2 DEF InodeWritten
      <4>2. node[q] \in BufferedBlocks
        BY <1>4, <2>3, <3>2, Regions
      <4>. QED  BY <1>4, <2>2, <2>3, <3>2, <4>1, <4>2 DEF Pointed
    <3>. QED  BY <3>1, <3>2
  <2>4. CASE ~FileExists(f) /\ \A q \in Offsets : node[q] = BLOCK_SPARSE
    <3>1. c = Nil
      BY <1>2, <2>4 DEF FileOf, FileExists
    <3>2. d = Store!Created
      BY <2>1, <2>4 DEF Store!Created, Pointed
    <3>. QED  BY <1>2, <3>1, <3>2 DEF Store!Changed
  <2>5. CASE /\ FileExists(f) /\ new \subseteq FileSlots
             /\ \E o \in Offsets : \A q \in Offsets : node[q] = IF q >= o THEN BLOCK_SPARSE ELSE InodeNode(f)[q]
    <3>1. PICK o \in Offsets : \A q \in Offsets : node[q] = IF q >= o THEN BLOCK_SPARSE ELSE n[q]
      BY <1>2, <2>5
    <3>2. \A q \in Offsets : Pointed(data, node[q]) = IF q >= o THEN Zero ELSE c[q]
      <4> SUFFICES ASSUME NEW q \in Offsets PROVE Pointed(data, node[q]) = IF q >= o THEN Zero ELSE c[q]
        OBVIOUS
      <4>1. CASE q >= o
        BY <3>1, <4>1 DEF Pointed
      <4>2. CASE ~(q >= o)
        <5>1. node[q] = n[q] /\ node[q] \notin new
          <6>1. node[q] = n[q]
            BY <3>1, <4>2
          <6>2. node[q] = BLOCK_SPARSE \/ node[q] \in AllocableBlocks
            BY <1>4, <2>5, <6>1
          <6>3. BLOCK_SPARSE \notin FileSlots
            BY Regions DEF FileSlots
          <6>. QED  BY <2>5, <6>1, <6>2, <6>3, Regions
        <5>. QED  BY <2>3, <2>5, <4>2, <5>1
      <4>. QED  BY <4>1, <4>2
    <3>3. d = Store!Truncated(c, o)
      BY <2>1, <3>2 DEF Store!Truncated
    <3>. QED  BY <1>2, <1>4, <2>5, <3>3 DEF Store!Changed
  <2>6. CASE /\ FileExists(f)
             /\ \E o \in Offsets, v \in Values :
                  /\ node[o] # BLOCK_SPARSE /\ (fReadOnly' \/ Cache[node[o]]' = v)
                  /\ \A q \in Offsets \ {o} : node[q] = InodeNode(f)[q] /\ node[q] \notin new
    <3>1. PICK o \in Offsets, v \in Values :
             /\ node[o] # BLOCK_SPARSE /\ Cache[node[o]]' = v
             /\ \A q \in Offsets \ {o} : node[q] = n[q] /\ node[q] \notin new
      BY <1>2, <2>6
    <3>2. Pointed(data, node[o]) = v
      BY <3>1 DEF Pointed
    <3>3. \A q \in Offsets \ {o} : Pointed(data, node[q]) = c[q]
      BY <2>3, <2>6, <3>1
    <3>4. d = [c EXCEPT ![o] = v]
      BY <1>4, <2>1, <2>6, <3>2, <3>3
    <3>5. c # Nil
      BY <1>4, <2>6
    <3> DEFINE With(i, x) == [c EXCEPT ![i] = x]
    <3>6. d \in {With(i, x) : i \in Offsets, x \in Values}
      <4>1. d = With(o, v)
        BY <3>4
      <4> HIDE DEF With
      <4>. QED  BY <4>1
    <3>7. d \in Store!Changed(c)
      BY <3>5, <3>6 DEF Store!Changed
    <3>. QED  BY <1>2, <3>7
  <2>7. NodeChanged(f, node, new)
    BY <1>6 DEF InodeWritten
  <2>. QED  BY <2>4, <2>5, <2>6, <2>7 DEF NodeChanged
<1>. QED  BY <1>5, <1>6

(* Operations on files change one file of the store, or fail.              *)
LEMMA StoreFileStep ==
  ASSUME IInv, IInv', FileChanged
  PROVE  StoreStep
<1>1. CowInv /\ CowInv' /\ CrashInv /\ WorkingInv /\ WorkingInv'
  BY DEF IInv
<1>2. PICK f \in Files : \E w, node, new, gone :
    /\ FileStep(new, gone)
    /\ Sound(gpRedMR, Cache) =>
         InodeWritten(f, w, node, new, gone) \/ InodeDeleted(f, new, gone)
  BY DEF FileChanged
<1>3. PICK w, node, new, gone :
    /\ FileStep(new, gone)
    /\ Sound(gpRedMR, Cache) =>
         InodeWritten(f, w, node, new, gone) \/ InodeDeleted(f, new, gone)
  BY <1>2
<1>4. InodeWritten(f, w, node, new, gone) \/ InodeDeleted(f, new, gone)
  BY <1>1, <1>3 DEF WorkingInv, FileStep
<1>5. /\ fMounted /\ ~fReadOnly /\ step = "idle" /\ fMounted' /\ step' = "idle"
      /\ fReadOnly' \in BOOLEAN
  BY <1>3 DEF FileStep
<1>6. Recoverable' = Recoverable
  BY <1>1, <1>3, <1>5, CrashFileStep, RecoverableKept DEF CrashInv
<1>7. CASE fReadOnly'
  BY <1>5, <1>6, <1>7, StoreFails
<1>8. CASE ~fReadOnly'
  <2>1. PICK mr, data, view : mr = gpRedMR' /\ data = Cache' /\ view = WorkingView
    OBVIOUS
  <2>2. view = ViewOf(gpRedMR, Cache) /\ WorkingView' = ViewOf(mr, data)
    BY <1>1, <1>5, <2>1, WorkingIs, WorkingIsNext
  <2>3. FileAlone(f, new, gone)
    BY <1>1, <1>4, <1>5, OperationIsAlone
  <2>4. PICK c : c = FileOf(mr, data, f)
    OBVIOUS
  <2>5. c \in Store!Changed(view[f])
    <3>1. view[f] = FileOf(gpRedMR, Cache, f)
      BY <2>2 DEF ViewOf
    <3>. QED  BY <1>1, <1>3, <1>4, <1>8, <2>1, <2>4, <3>1, FileChangesAsStored
  <2>6. ViewOf(mr, data) = [view EXCEPT ![f] = c]
    <3>1. \A g \in Files : g # f => FileOf(mr, data, g) = FileOf(gpRedMR, Cache, g)
      BY <1>1, <1>3, <2>1, <2>3, OtherFilesKept
    <3>. QED  BY <2>2, <2>4, <3>1 DEF ViewOf
  <2>7. \E d \in Store!Changed(WorkingView[f]) : WorkingView' = [WorkingView EXCEPT ![f] = d]
    BY <2>1, <2>2, <2>5, <2>6
  <2>. QED  BY <1>5, <1>6, <1>8, <2>7, StoreChanges
<1>. QED  BY <1>7, <1>8

(* Steps which leave the blocks of the working state as they read.         *)
LEMMA WorkingSame ==
  ASSUME CowInv, CowInv', WorkingInv, WorkingInv', fMounted, fMounted',
         gpRedMR'.abEntries = gpRedMR.abEntries,
         \A b \in BufferedBlocks : Cache'[b] = Cache[b]
  PROVE  WorkingView' = WorkingView
<1>1. PICK mr, data : mr = gpRedMR' /\ data = Cache'
  OBVIOUS
<1>2. WorkingView = ViewOf(gpRedMR, Cache) /\ WorkingView' = ViewOf(mr, data)
  BY <1>1, WorkingIs, WorkingIsNext
<1>3. OneSlot(gpRedMR) /\ Sound(gpRedMR, Cache)
  BY CowInvParts DEF CowParts, WorkingInv
<1>4. mr.abEntries = gpRedMR.abEntries /\ \A b \in BufferedBlocks : data[b] = Cache[b]
  BY <1>1
<1>. QED  BY <1>2, <1>3, <1>4, ViewSame

(* Buffers that come, go and are written are not seen.                     *)
LEMMA StoreBufferStep ==
  ASSUME IInv, IInv', NEW b \in BufferedBlocks, BufferStep(b),
         BlockRead(b) \/ BufferDropped(b) \/ BufferWritten(b) \/ WriteOfBufferFailed(b)
  PROVE  StoreStep
<1>1. CowInv /\ CowInv' /\ CrashInv /\ WorkingInv /\ WorkingInv' /\ CowParts
  BY CowInvParts DEF IInv
<1>2. /\ fMounted /\ fMounted' = fMounted /\ step = "idle" /\ step' = "idle" /\ gpRedMR' = gpRedMR
      /\ fReadOnly \in BOOLEAN /\ fReadOnly' \in BOOLEAN /\ (fReadOnly => fReadOnly')
  BY <1>1 DEF BufferStep, mrVars, CowParts
<1>3. Recoverable' = Recoverable
  BY <1>1, <1>2, CrashBufferStep, RecoverableKept DEF CrashInv
<1>4. CASE fReadOnly
  BY <1>2, <1>3, <1>4, StoreStutters
<1>5. CASE ~fReadOnly /\ fReadOnly'
  BY <1>2, <1>3, <1>5, StoreFails
<1>6. CASE ~fReadOnly /\ ~fReadOnly'
  <2>1. \A c \in BufferedBlocks : Cache'[c] = Cache[c]
    BY <1>1, <1>6, BufferStepReads
  <2>2. WorkingView' = WorkingView
    BY <1>1, <1>2, <2>1, WorkingSame
  <2>. QED  BY <1>2, <1>3, <1>6, <2>2, StoreStutters
<1>. QED  BY <1>2, <1>4, <1>5, <1>6

(* The transaction point begins with what does not change a thing,         *)
LEMMA StoreTransactBuffers ==
  ASSUME IInv, IInv', TransactBuffers \/ TransactBuffersFail
  PROVE  StoreStep
<1>1. CowInv /\ CowInv' /\ CrashInv /\ WorkingInv /\ WorkingInv'
  BY DEF IInv
<1>2. /\ fMounted /\ ~fReadOnly /\ fMounted' = fMounted /\ step = "idle" /\ step' \in {"idle", "flush"}
      /\ TransactBuffersFail => fReadOnly'
      /\ TransactBuffers => fReadOnly' = fReadOnly
  BY DEF TransactBuffers, TransactBuffersFail, Ready, FoldAlmostFree, CriticalError
<1>3. Recoverable' = Recoverable
  BY <1>1, <1>2, CrashTransactBuffers, RecoverableKept DEF CrashInv
<1>4. CASE TransactBuffersFail
  BY <1>2, <1>3, <1>4, StoreFails
<1>5. CASE TransactBuffers
  <2>1. BuffersSame /\ gpRedMR'.abEntries = gpRedMR.abEntries
    BY <1>1, <1>5, CowTransactBuffers, AllBuffersSame DEF AllBuffersWritten
  <2>2. WorkingView' = WorkingView
    BY <1>1, <1>2, <2>1, CacheSame, WorkingSame
  <2>. QED  BY <1>2, <1>3, <1>5, <2>2, StoreStutters
<1>. QED  BY <1>4, <1>5

(* flushes it,                                                             *)
LEMMA StoreTransactFlush ==
  ASSUME IInv, IInv', TransactFlush
  PROVE  StoreStep
<1>1. CowInv /\ CowInv' /\ CrashInv /\ CrashInv' /\ WorkingInv /\ WorkingInv' /\ CowParts
  BY CowInvParts DEF IInv
<1>2. /\ fMounted /\ ~fReadOnly /\ fMounted' = fMounted /\ fReadOnly' = fReadOnly
      /\ step = "flush" /\ step' = "metaroot" /\ Flushed
      /\ UNCHANGED <<gpRedMR, cmtMR, buffers>>
  BY <1>1 DEF TransactFlush, mrVars, CowParts
<1>3. media' = media
  BY <1>1, <1>2, FlushedBlocks DEF CowParts
<1>4. Recoverable' = Recoverable
  <2>1. Recoverable = {ViewOf(cmtMR, media)}
    BY <1>1, <1>2, OnlyCommitted
  <2>2. Recoverable' = {ViewOf(cmtMR', media')}
    BY <1>1, <1>2, OnlyCommittedNext
  <2>. QED  BY <1>2, <1>3, <2>1, <2>2
<1>5. WorkingView' = WorkingView
  <2>1. \A b \in BufferedBlocks : Cache'[b] = Cache[b]
    BY <1>2, <1>3 DEF Cache, Cached
  <2>. QED  BY <1>1, <1>2, <2>1, WorkingSame
<1>. QED  BY <1>2, <1>4, <1>5, StoreStutters

(* Nothing is left in the buffers which is not on the media.               *)
LEMMA WorkingOnMedia ==
  ASSUME CowInv, WorkingInv, fMounted, ~fReadOnly, step # "idle"
  PROVE  WorkingView = ViewOf(gpRedMR, media)
<1>1. CowParts
  BY CowInvParts
<1>2. OneSlot(gpRedMR) /\ Sound(gpRedMR, Cache) /\ WorkingView = ViewOf(gpRedMR, Cache)
  BY <1>1, WorkingIs DEF CowParts, WorkingInv
<1>3. \A b \in BufferedBlocks : media[b] = Cache[b]
  BY <1>1 DEF CowParts, WorkingInv, Cache, Cached
<1>. QED  BY <1>2, <1>3, ViewSame

(* then writes the new metaroot,                                           *)
LEMMA StoreTransactMetaroot ==
  ASSUME IInv, IInv', TransactMetaroot
  PROVE  StoreStep
<1>1. CowInv /\ CowInv' /\ CrashInv /\ CrashInv' /\ WorkingInv /\ WorkingInv' /\ CowParts
      /\ MetarootWritten
  BY CowInvParts, WrittenMetaroot DEF IInv
<1>2. /\ fMounted /\ ~fReadOnly /\ fMounted' = fMounted /\ fReadOnly' = fReadOnly
      /\ step = "metaroot" /\ step' = "sync" /\ UNCHANGED <<gpRedMR, cmtMR, buffers>>
      /\ OneSlot(gpRedMR)
  BY <1>1 DEF TransactMetaroot, CowParts
<1>3. \A b \in BufferedBlocks : media'[b] = media[b] /\ maybe'[b] = maybe[b]
  <2>1. \A b \in BufferedBlocks : b \in Blocks /\ b # MetarootBlock(bCurMR)
    BY <1>1, Regions DEF CowParts
  <2>. QED  BY <1>1, <2>1 DEF MetarootWritten
<1>4. WorkingView' = WorkingView
  <2>1. \A b \in BufferedBlocks : Cache'[b] = Cache[b]
    BY <1>2, <1>3 DEF Cache, Cached
  <2>. QED  BY <1>1, <1>2, <2>1, WorkingSame
<1>5. Recoverable = {ViewOf(cmtMR, media)} /\ Intact(cmtMR) /\ OneSlot(cmtMR)
  BY <1>1, <1>2, OnlyCommitted
<1>6. Intact(gpRedMR)
  <2>1. PICK k \in 0 .. 1, c \in DiskMetaroots : MountedFrom(k, c)
    BY <1>1, <1>2, MountedFromSome DEF CrashInv
  <2>. QED  BY <1>2, <2>1 DEF MountedFrom
<1>7. \A mr : Unwritten(mr)
  BY <1>3 DEF Unwritten
<1>8. ViewOf(cmtMR, media') = ViewOf(cmtMR, media) /\ ViewOf(gpRedMR, media') = WorkingView
  <2>1. PICK new, old : new = gpRedMR /\ old = cmtMR
    OBVIOUS
  <2>2. ViewOf(old, media') = ViewOf(old, media) /\ ViewOf(new, media') = ViewOf(new, media)
    BY <1>2, <1>5, <1>6, <1>7, <2>1, ViewKept
  <2>3. ViewOf(new, media) = WorkingView
    BY <1>1, <1>2, <2>1, WorkingOnMedia
  <2>. QED  BY <2>1, <2>2, <2>3
<1>9. PICK k \in 0 .. 1 : MountedFrom(k, media[MetarootBlock(k)])'
  BY <1>1, <1>2 DEF CrashInv, MountedInv
<1>10. PICK c, m, other : c = media'[MetarootBlock(k)] /\ m = media'[other] /\ other = MetarootBlock(1 - k)
  <2>1. PICK b : b = MetarootBlock(1 - k)
    OBVIOUS
  <2>. QED  BY <2>1
<1>11. /\ c \in DiskMetaroots /\ CommittedIs(k, c)' /\ c.body = cmtMR /\ m.body = gpRedMR
       /\ c.ullSequence = ullSequence' - 2 /\ m.ullSequence = ullSequence' - 1
  BY <1>2, <1>9, <1>10 DEF MountedFrom, CommittedIs
<1>12. Newer(k, c)' = {m}
  <2>1. m \in Newer(k, c)'
    <3>1. m \in maybe'[other]
      BY <1>1, <1>10, Regions DEF MetarootWritten, DeviceOK
    <3>2. m \in DiskMetaroots
      <4>1. m = [ullSequence |-> ullSequence' - 1, body |-> gpRedMR']
        BY <1>2, <1>9, <1>10 DEF MountedFrom
      <4>2. ullSequence' = ullSequence + 1 /\ ullSequence \in Nat
        BY <1>1 DEF TransactMetaroot, CowParts
      <4>3. m = [ullSequence |-> ullSequence, body |-> gpRedMR]
        BY <1>2, <4>1, <4>2
      <4>. QED  BY <1>1, <4>3 DEF MetarootWritten
    <3>3. m.ullSequence > c.ullSequence
      <4>1. PICK n : n = ullSequence
        OBVIOUS
      <4>2. ullSequence' = n + 1 /\ n \in Nat
        BY <1>1, <4>1 DEF TransactMetaroot, CowParts
      <4>3. c.ullSequence = (n + 1) - 2 /\ m.ullSequence = (n + 1) - 1
        BY <1>11, <4>2
      <4>. QED  BY <4>2, <4>3
    <3>. QED  BY <1>10, <3>1, <3>2, <3>3 DEF Newer
  <2>2. \A n \in Newer(k, c)' : n = m
    BY <1>10, <1>11 DEF CommittedIs
  <2>. QED  BY <2>1, <2>2
<1>13. Recoverable' = {ViewOf(c.body, media')} \cup {ViewOf(m.body, media')}
  BY <1>1, <1>11, <1>12, RecoverableIsNext
<1>14. Recoverable' = Recoverable \cup {WorkingView}
  BY <1>5, <1>8, <1>11, <1>13
<1>. QED  BY <1>2, <1>4, <1>14, StoreBeginsCommit

(* and is complete once that is flushed,                                   *)
LEMMA StoreTransactComplete ==
  ASSUME IInv, IInv', TransactComplete
  PROVE  StoreStep
<1>1. CowInv /\ CowInv' /\ CrashInv /\ CrashInv' /\ WorkingInv /\ WorkingInv' /\ CowParts
  BY CowInvParts DEF IInv
<1>2. /\ fMounted /\ ~fReadOnly /\ fMounted' = fMounted /\ fReadOnly' = fReadOnly
      /\ step = "sync" /\ step' = "idle" /\ Flushed
      /\ UNCHANGED <<gpRedMR, buffers>> /\ cmtMR' = gpRedMR
  BY <1>1 DEF TransactComplete, CowParts
<1>3. media' = media
  BY <1>1, <1>2, FlushedBlocks DEF CowParts
<1>4. WorkingView' = WorkingView
  <2>1. \A b \in BufferedBlocks : Cache'[b] = Cache[b]
    BY <1>2, <1>3 DEF Cache, Cached
  <2>. QED  BY <1>1, <1>2, <2>1, WorkingSame
<1>5. Recoverable' = {WorkingView}
  <2>1. Recoverable' = {ViewOf(cmtMR', media')}
    BY <1>1, <1>2, OnlyCommittedNext
  <2>2. WorkingView = ViewOf(gpRedMR, media)
    BY <1>1, <1>2, WorkingOnMedia
  <2>. QED  BY <1>2, <1>3, <2>1, <2>2
<1>. QED  BY <1>2, <1>4, <1>5, StoreEndsCommit

(* unless a write or a flush fails.                                        *)
LEMMA StoreTransactFails ==
  ASSUME IInv, IInv', TransactFails
  PROVE  StoreStep
<1>1. CowInv /\ CowInv' /\ CrashInv /\ CowParts
  BY CowInvParts DEF IInv
<1>2. /\ fMounted /\ ~fReadOnly /\ fMounted' = fMounted /\ fReadOnly' /\ step' = "idle"
  BY <1>1 DEF TransactFails, CriticalError, CowParts
<1>3. Recoverable' = Recoverable
  BY <1>1, <1>2, CrashTransactFails, RecoverableKept, RecoverableUnread DEF CrashInv
<1>. QED  BY <1>2, <1>3, StoreFails

(* The working state is sound after a step, too.                           *)
LEMMA SoundAlways ==
  (\A mr, data : WorkingInv /\ fMounted /\ mr = gpRedMR /\ data = Cache => Sound(mr, data))'
<1>1. \A mr, data : WorkingInv /\ fMounted /\ mr = gpRedMR /\ data = Cache => Sound(mr, data)
  BY DEF WorkingInv
<1>. QED  BY <1>1, PTL

(* A mount and a rollback show the one state that is recoverable.          *)
LEMMA MountShowsCommitted ==
  ASSUME IInv', fMounted', ~fReadOnly', step' # "sync", gpRedMR' = cmtMR', buffers' = NoBuffers
  PROVE  Recoverable' = {WorkingView'}
<1>1. CowInv' /\ CrashInv' /\ WorkingInv'
  BY DEF IInv
<1>2. PICK mr, data, disk : mr = gpRedMR' /\ data = Cache' /\ disk = media'
  OBVIOUS
<1>3. WorkingView' = ViewOf(mr, data)
  BY <1>1, <1>2, WorkingIsNext
<1>4. Recoverable' = {ViewOf(mr, disk)}
  BY <1>1, <1>2, OnlyCommittedNext
<1>5. \A b \in BufferedBlocks : disk[b] = data[b]
  BY <1>2, BuffersEmptied DEF Cache, Cached
<1>6. OneSlot(mr) /\ Sound(mr, data)
  <2>1. OneSlot(gpRedMR)'
    BY <1>1 DEF CowInv
  <2>2. OneSlot(mr)
    BY <1>2, <2>1 DEF OneSlot
  <2>3. Sound(mr, data)
    BY <1>1, <1>2, SoundAlways
  <2>. QED  BY <2>2, <2>3
<1>7. ViewOf(mr, disk) = ViewOf(mr, data)
  BY <1>5, <1>6, ViewSame
<1>. QED  BY <1>3, <1>4, <1>7

(* So they are steps of the store.                                         *)
LEMMA StoreMountOrRollback ==
  ASSUME IInv, IInv', Mount \/ Rollback
  PROVE  StoreStep
<1>1. CowInv /\ CowParts
  BY CowInvParts DEF IInv
<1>2. /\ fMounted' /\ gpRedMR' = cmtMR' /\ buffers' = NoBuffers /\ NoIo
      /\ step = "idle" /\ step' = "idle" /\ ~fReadOnly'
      /\ Mount => ~fMounted
      /\ Rollback => fMounted /\ ~fReadOnly
  BY <1>1 DEF Mount, Rollback, MountMetaroot, CowParts, Ready
<1>3. Recoverable' = {WorkingView'}
  BY <1>2, MountShowsCommitted
<1>4. Recoverable' = Recoverable
  BY <1>2, RecoverableUnread
<1>5. WorkingView' \in Recoverable
  BY <1>3, <1>4
<1>. QED  BY <1>2, <1>4, <1>5, StoreMounts, StoreRollsBack

(* A loss of power leaves one of them.                                     *)
LEMMA StorePowerLoss ==
  ASSUME IInv, IInv', PowerLoss
  PROVE  StoreStep
<1>1. CowInv /\ CowInv' /\ CrashInv
  BY DEF IInv
<1>2. PICK k, j \in 0 .. 1, c, x \in DiskMetaroots :
        /\ CommittedIs(k, c) /\ x \in {c} \cup Newer(k, c)
        /\ CommittedIs(j, x)' /\ Newer(j, x)' = {} /\ Unwritten(x.body)
  BY <1>1, CrashPowerLoss DEF PowerLost
<1>3. RecoverableAre(k, c)
  BY <1>1, <1>2, RecoverableIs
<1>4. ViewOf(x.body, media) \in Recoverable /\ Intact(x.body) /\ OneSlot(x.body)
  BY <1>2, <1>3 DEF RecoverableAre
<1>5. Recoverable' = {ViewOf(x.body, media')}
  BY <1>1, <1>2, RecoverableIsNext
<1>6. Recoverable' = {ViewOf(x.body, media)}
  BY <1>2, <1>4, <1>5, ViewKept
<1>7. fMounted' = FALSE /\ step' = "idle"
  BY DEF PowerLoss
<1>. QED  BY <1>4, <1>6, <1>7, StoreLosesPower

(* Every step of the volume is one of the store, or none.                  *)
LEMMA StoreNextStep ==
  ASSUME IInv, IInv', [Next]_vars
  PROVE  StoreStep
<1>1. CASE \/ \E f \in Files : Create(f) \/ Delete(f)
           \/ \E f \in Files, o \in Offsets, v \in Values \ {Zero} :
                WriteUnaligned(f, o, v) \/ WriteAligned(f, o, v)
           \/ \E f \in Files, o \in Offsets : WriteAlignedFails(f, o) \/ Truncate(f, o)
  <2>1. FileChanged
    BY <1>1, FileOperations DEF IInv
  <2>. QED  BY <2>1, StoreFileStep
<1>2. CASE \E b \in BufferedBlocks :
             BufferGet(b) \/ Evict(b) \/ ReadRange(b) \/ BufferWriteFails(b)
  <2>1. PICK b \in BufferedBlocks :
          /\ BufferStep(b)
          /\ BlockRead(b) \/ BufferDropped(b) \/ BufferWritten(b) \/ WriteOfBufferFailed(b)
    BY <1>2, BufferOperations DEF IInv
  <2>. QED  BY <2>1, StoreBufferStep
<1>3. CASE \/ TransactBuffers \/ TransactBuffersFail \/ TransactFlush
           \/ TransactMetaroot \/ TransactComplete \/ TransactFails
  BY <1>3, StoreTransactBuffers, StoreTransactFlush, StoreTransactMetaroot,
     StoreTransactComplete, StoreTransactFails
<1>4. CASE Mount \/ Rollback
  BY <1>4, StoreMountOrRollback
<1>5. CASE Unmount
  <2>1. fMounted /\ ~fMounted' /\ step = "idle" /\ step' = "idle" /\ NoIo
    BY <1>5 DEF Unmount
  <2>. QED  BY <2>1, RecoverableUnread, StoreUnmounts
<1>6. CASE PowerLoss
  BY <1>6, StorePowerLoss
<1>7. CASE UNCHANGED vars
  <2>1. Recoverable' = Recoverable
    BY <1>7, RecoverableUnread DEF vars, NoIo
  <2>2. WorkingView' = WorkingView
    BY <1>7 DEF vars, mrVars, devVars, WorkingView, InodeNode, Cached
  <2>. QED  BY <1>7, <2>1, <2>2, StoreStutters DEF vars
<1>. QED  BY <1>1, <1>2, <1>3, <1>4, <1>5, <1>6, <1>7 DEF Next

(* A formatted volume is a store without a file.                           *)
LEMMA StoreInitially ==
  ASSUME Init
  PROVE  Store!StoreInit
<1>1. CowInv /\ CrashInv
  BY CowInit, CrashInit
<1>2. PICK m0, m1 \in DiskMetaroots :
           /\ media[MetarootBlock(0)] = m0 /\ media[MetarootBlock(1)] = m1
           /\ m0.ullSequence = 0 /\ m1.ullSequence = 1
           /\ \A b \in BufferedBlocks : b \notin m0.body.abEntries /\ b \notin m1.body.abEntries
           /\ \A b \in Blocks : maybe[b] = {media[b]}
  BY InitialMedia
<1>3. fMounted = FALSE /\ step = "idle"
  BY DEF Init
<1>4. PICK k \in 0 .. 1, c \in DiskMetaroots : CommittedIs(k, c)
  BY <1>1, <1>3, CommittedAtSome DEF CrashInv
<1>5. RecoverableAre(k, c)
  BY <1>1, <1>4, RecoverableIs
<1>6. \A j \in 0 .. 1 : \A m \in maybe[MetarootBlock(j)] :
        \A b \in BufferedBlocks : b \notin m.body.abEntries
  <2>1. \A j \in 0 .. 1 : j = 0 \/ j = 1
    OBVIOUS
  <2>. QED  BY <1>2, <2>1, Regions
<1>7. \A m \in {c} \cup Newer(k, c) : ViewOf(m.body, media) = [f \in Files |-> Nil]
  <2> SUFFICES ASSUME NEW m \in {c} \cup Newer(k, c)
               PROVE  ViewOf(m.body, media) = [f \in Files |-> Nil]
    OBVIOUS
  <2>1. \A b \in BufferedBlocks : b \notin m.body.abEntries
    BY <1>4, <1>6, Regions DEF CommittedIs, Newer
  <2>2. \A f \in Files : ~Bits!InodeExists(m.body, f)
    BY <2>1, BitsLayout, MetaRootFields, Regions DEF Bits!InodeExists
  <2>. QED  BY <2>2 DEF ViewOf, FileOf
<1>8. Recoverable = {[f \in Files |-> Nil]}
  BY <1>5, <1>7 DEF RecoverableAre
<1>. QED  BY <1>3, <1>8 DEF Store!StoreInit

(* The volume implements the transactional store.                          *)
THEOREM VolumeImplementsStore ==
  ASSUME fRemountUnstable = FALSE
  PROVE  Spec => ImplementsStore
<1>1. Init => Store!StoreInit
  BY StoreInitially
<1>2. IInv /\ IInv' /\ [Next]_vars => [Store!StoreNext]_(Store!storeVars)
  BY StoreNextStep DEF StoreStep
<1>. QED  BY <1>1, <1>2, IInvariant, PTL DEF Spec, ImplementsStore, Store!StoreSpec
=============================================================================
