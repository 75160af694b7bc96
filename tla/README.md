# Reliance Edge in TLA+

This directory holds a formal model of Reliance Edge, the transactional file
system under `src/`: TLA+ modules for its block allocation, its copy-on-write
of inodes and file data, its buffers, transaction points, directories, paths
and both of its APIs, the TLC configurations that check them on small volumes,
and TLAPS proofs of what must hold on every volume.

## 1. The system

Reliance Edge is a library.  All of its state sits in a few global structures,
and every public call takes one global mutex (`RedOsMutexAcquire` in
`PosixEnter`, `src/posix/posix.c`, or `FseEnter`, `src/fse/fse.c`), so a call
runs to its end before the next one starts.  There are no background threads.
What interleaves is the *order of calls* of several tasks and volumes, and what
interrupts a call is an error, of the device or for lack of space, or the loss
of power: between two writes to the block device, in the middle of one, or
before the device made its cache stable.

The on-disk state of a volume is a master block, two metaroots, the imap
(allocation bitmap), the inode table (two block "slots" for each inode) and the
allocable blocks that hold file data, indirect nodes and directories.  Nothing
that the newest complete metaroot refers to is overwritten: every change goes
to blocks that are free in that *committed* metaroot, and a transaction point
makes the working metaroot the committed one by writing it over the older of
the two.

### Components

| component | source | state | operations | modelled in |
|---|---|---|---|---|
| Block allocation | `core/driver/imap*.c` | two bitmaps, `ulFreeBlocks`, `ulAlmostFreeBlocks`, `ulAllocNextBlock`; for an external imap `abEntries` and the imap nodes | get, set, allocate, state of a block, branch an imap node | `Imap` (inline), `EImap` (external) |
| Inode slots | `core/driver/inode.c` | bits of the inode table, `ulFreeInodes` | create, branch, free, mount | `Imap`, `Volume` |
| Volume | `core/driver/volume.c` | `aMR[2]`, `bCurMR`, `fBranched`, `ullSequence`, `fMounted`, `fReadOnly` | mount, transact, rollback, free orphans, critical error | `Imap`, `Volume`, `Orphans` |
| Orphans | `inode.c`, `core.c`, `volume.c`, `posix.c` | the orphan and the defunct orphan list | link, unlink, rename, close, free, join | `Orphans` |
| Buffers | `core/driver/buffer.c` | `aHead`, `abMRU`, `uNumUsed`, contents | get, put, dirty, branch, discard, flush, read and write past them | `Buffer`, `Volume` |
| Block I/O | `core/driver/blockio.c`, `bdev/bdev.c` | the device | read, write, flush | `Volume`, `Buffer` |
| File data | `core/driver/inodedata.c` | block pointers of an inode, indirect nodes | read, write, truncate, seek, reserve, branch | `FileData`; `Volume` down to the device |
| Directories | `core/driver/dir.c` | entries and size of a directory | create, delete, look up, read, rename | `Dir`, `Namespace` |
| Core entry points | `core/driver/core.c` | transaction mask, reserved counters | the calls of both APIs, `CoreFull` | `Dir`, `FileData`, `Orphans`, `Fse` |
| POSIX-like API | `posix/posix.c` | `gaOpenInos`, `gaHandle`, `gaTask`, generations | open, close, link, unlink, rename, chdir, readdir, mount, read, write, truncate, reserve, ... | `Posix`, `FileIo`, `Orphans` |
| Paths | `posix/path.c` | | parsing and walking, symbolic links | `Path`, `Posix` |
| FSE API | `fse/fse.c` | `gfFseInited` | the same core with fixed inode numbers | `Fse` |
| Metadata iterator | `tools/mditer.c` | | walk over committed metadata | `MdIter` |
| Format | `core/driver/format.c` | | two transaction points | `Imap`, `Fse` |
| OS services | `os/*/services` | mutex, device, clock | | the device, as `Volume` sees it |
| Utilities | `util/` | | bitmap, CRC, memory, strings | abstracted |
| Other host tools, tests, ports | `tools/`, `tests/`, `projects/`, `os/u-boot` | | | not modelled |

How they interact: the API layers resolve a path to an inode and call one entry
point of the core with the current volume set (`gpRedVolume`, `gpRedCoreVol`,
`gpRedMR` and `gbRedVolNum` are global pointers to it).  The core mounts the
inodes it needs, branches those it changes, lets `inodedata.c` and `dir.c`
change blocks through the buffers, and may end with a transaction point if the
event is in the mask.  Every block allocated or freed goes through
`RedImapBlockSet`, every dirty block through `buffer.c`, and everything written
through `blockio.c`, whose failure makes the current volume read-only.

What must hold, and where it is hard:

* *Transactions.*  A loss of power between, or in the middle of, two writes, a
  device that reorders writes, failing writes and failing flushes.  The volume
  must show a committed state, the new one only if it is complete.
* *Copy-on-write.*  A long sequence of creates, deletes, writes, transaction
  points and rollbacks must never make a committed block writeable; counters
  adjusted one at a time must not drift from the bitmaps.
* *Buffers.*  Dirty buffers are evicted at any time; aligned writes go past the
  buffers; blocks are freed and allocated again while buffered; volumes share
  the pool; reads and writes fail half-way.
* *File data.*  A write meets a full volume after part of it was done; a
  truncation stops between two nodes; what is beyond the end of a file must read
  as zeros when the file grows again; reserved space must suffice for what it was
  reserved for.
* *Directories.*  A rename writes two entries; each step of each call may fail;
  the size of a directory is the only record of how many entries it has.
* *Paths.*  Links to links, to themselves, at the end of other links.
* *Handles.*  Descriptors outlive the handles they were given for; unmounting
  by force, rollback and format take inodes away from under tasks.
* *Delete-open.*  Tasks unlink and rename over what others have open; the
  inode is freed at the last close, at a mount or when space runs out, from
  lists which a rollback or a crash takes back to an earlier time.
* *Volumes.*  Code that serves one volume while another is current.

## 2. Modules

| module | contents |
|---|---|
| `Layout` | block numbers: inode table, its two slots per inode, allocable area |
| `Imap` | bitmaps, counters and slots of one volume; a metaroot is one value and a transaction point one step |
| `ImapProofs` | theorems about `Imap`, for every layout |
| `TxnStore` | abstract: what a transactional file store promises |
| `Volume` | one volume down to the device; refines `TxnStore`; uses the bit operators of `Imap` (`Bits == INSTANCE Imap`) |
| `VolumeProofs` | theorems about `Volume`, the refinement of `TxnStore` included, for every layout and any number of files, offsets and contents |
| `Orphans` | open inodes, handles, working directories, link counts and the two orphan lists of a volume |
| `OrphansProofs` | theorems about `Orphans`, for any number of inodes, handles and tasks |
| `Buffer` | the pool of buffers which all volumes share |
| `BufferProofs` | theorems about `Buffer`, for every number of buffers, volumes and blocks |
| `Dir` | operators: entries of directories, and the core calls that change names |
| `Namespace` | state machine over `Dir`: the names of one volume |
| `DirProofs` | lemmas about the operators of `Dir`: sizes, entries, link counts, one attempt of each call |
| `NamespaceProofs` | theorems about `Namespace`, for any number of inodes, names and entries and every geometry of blocks |
| `Path` | state machine over `Dir`: one walk along a path, link by link |
| `Posix` | state machine over `Dir`: tasks, handles, descriptors and mounts of several volumes |
| `PosixLemmas` | lemmas about what the calls of `Posix` are made of: one volume, the users of open inodes, where a call begins |
| `PosixProofs` | one lemma for each call of `Posix`, and the theorems, for any number of volumes, inodes, handles, tasks and paths |
| `EImap` | operators: the external imap and the allocation of blocks from it |
| `FileData` | operators over `EImap`: file contents, and the core calls that change them |
| `FileIo` | operators over `FileData`: file I/O by descriptor |
| `Fse` | operators over `FileIo`: the FSE API, mount, rollback, format |
| `MdIter` | operators over `FileData`: the metadata iterator |
| `Files` | state machine over `Fse` and `MdIter`: all calls on file contents, by either API |
| `MC*` | instances for TLC |

Names are those of the source (`gpRedMR`, `ulAlmostFreeBlocks`, `aHead`;
`RedVolTransact` is `Transact` where it is an action).  Definitions commented
with "Bug:" are deliberately wrong variants of the definition that follows,
used to make sure that a property can be violated; no specification uses them.

There are two kinds of modules.  Where the order of *steps inside* a call
matters (`Imap`, `Volume`, `Buffer`, `Orphans`, `Path`) an action is a step.
Where it is what a call *makes of the state* that matters (`Dir`, `Posix`,
`EImap`, `FileData`, `FileIo`, `Fse`, `MdIter`) a function of the code is an
operator from the state of a volume or of the driver to its status and the state
after it, and a state machine (`Namespace`, `Posix`, `Files`) calls them in every
order, one call a step, which is what the mutex makes of them.

**`Imap`.**  `gpRedMR` and `cmtMR` are `aMR[bCurMR]` and `aMR[1 - bCurMR]`, each
a set of allocated block numbers and the counters.  `AllocBlock`, `FreeBlock`,
`InodeCreate`, `InodeBranch`, `InodeFree` are the functions of that name with
everything `RedImapBlockSet` does in them, including its two consistency checks,
which set `fReadOnly` (`CriticalError`).  `CommitWorking` is `RedVolTransact`,
`MountMetaroot` what mount and rollback do.  `Unmount` transacts only with
`fTransactUmount`, else it leaves `ulAlmostFreeBlocks` and `fBranched` behind, as
the code does.

**`Volume`.**  `media[b]` is what the device returns for a block; `maybe[b]` is
the set of contents it may have after a loss of power.  A write makes the
block unstable (old, new or torn), a flush stable.  An inode is its pointers;
`WriteUnaligned` dirties a buffer, `WriteAligned` writes the device and discards
the buffer.  `RedVolTransact` is four steps, `TransactBuffers`, `TransactFlush`,
`TransactMetaroot`, `TransactComplete`, each of which may fail, and the loss of
power may come between any two.  `Evict` writes a dirty buffer at any moment.
`Recoverable` is everything a mount could find if power were lost now.
`fRemountUnstable` says whether the volume is mounted again, without a restart,
from a metaroot whose flush failed; the run says what holds when it is not.

**`TxnStore`.**  The files a program sees, the set of states a restart may bring
back, and the rule that this set changes only by a transaction point: from one
state to the new one, by way of both while it is being completed.

**`Orphans`.**  The volume is the link counts, the list pointers and the three
list heads of the metaroot, in a working and a committed version.  Calls of
tasks interleave, each is one step.  `IoMayFail` adds I/O errors, `OtherReadOnly`
a second volume which is read-only, `SameNameRenames` the renames of a name to
itself.  A transaction point is one step here because `Volume` shows that it is
atomic.  The event mask is not a variable: any call that may end with an automatic
transaction point does or does not.

An I/O error makes the volume read-only (`RedVolCriticalError`), and what the
failing call did until then stays in the working state, where reads still find it:

* `TransactFails`: the transaction point at the end of a call fails.  The call
  returns that error with all its work done; `red_unlink` and `red_rename` then
  skip `InodeOrphaned` (`core.c:1078`, `1467`, `posix.c:2128`, `3335`), so that an
  orphan in use is not flagged.  The new metaroot may be on the media all the same.
* `HandleCloseFails`: `RedCoreFreeOrphan` frees the inode before it repairs the
  list (`core.c:1266`, `1282`; `PartlyFreed`).  A close that was to transact keeps
  its handle, on an inode that may be gone (`posix.c:6344`); any other, like
  `red_chdir`, ignores the error.
* `RollbackFails`: the buffers are discarded and the metaroots cannot be read; the
  working directories stay where they are (`posix.c:998`).
* `UnmountFails`: errors of the cleanup are ignored and the volume is unmounted, an
  error of the transaction point leaves it mounted with nothing open.
* `IoError`: any other call, with some of the defunct orphans freed, or with the
  inode of a create whose undo failed as well.

None of these working states is ever committed: a read-only volume refuses
transaction points, and the next mount starts from a committed metaroot.  So the
properties promise the exact reference counts and committed lists always, and the
rest (inodes in use exist, flags and working lists are exact, nothing is stranded)
for a volume that can be written.

**`Buffer`.**  Actions are the functions of `buffer.c`, one per call that the
driver makes; what a caller writes into a buffer it got is part of `BufferDirty`.
A call references at most `MINIMUM_BUFFER_COUNT` buffers, which is what that
macro of `redbufferpriv.h` is computed for, and drops all references before
another volume becomes current.  A call that asks for a new buffer of a block
which is buffered (`BFLAG_NEW`) is a critical error in the code; `Volume` shows
with `NoStaleBuffers` that it does not happen, so it is not an action here.
`View` is what a volume sees of its blocks, through the pool or on the media.
`BufferWriteRange` writes past the buffers and discards them; when the device fails
(`BufferWriteRangeFails`) any of the blocks may have been written and *no* buffer is
discarded (`buffer.c:648-656`).  The clean ones among them then differ from the
media (`Stale`) for as long as the volume stays mounted, which is read-only from
then on, and when such a buffer is reused for a block of any volume, its block
shows the media.  `CleanBuffersMatchMedia` therefore speaks of volumes that can be
written, and `OnlyCallersChangeBlocks` allows for stale blocks (`Kept`) and for
nothing else.  `VolRemount` discards the buffers of a volume and makes it writeable
again; everything a mount does besides is in `Volume`.

**`Dir` and `Namespace`.**  A directory is an array of entries and a size in
bytes, and as in `dir.c` the size alone says how many entries are looked at; the
conversions between positions and sizes, with node headers and the unused end of
each block, are those of the code.  An operator for a call takes a fault per
place where the call may fail, `ENOSPC` or `EIO`, and undoes what the code undoes.
`Namespace` makes every call with every fault, tries again after `CoreFull` where
the core does, and has a reader who goes through a directory in `RedCoreDirRead`.

**`Path`.**  The walk of `path.c` (`RedPathLookup`, `RedPathToName`): one step is
one name, a link pushes what is left of the path that contains it.  The volume
does not change during a walk, so it is chosen in `Init`, with the targets of its
links, the path, the start and what the walk is for.

**`Posix`.**  `red` is the driver: the volumes, `gaOpenInos`, `gaHandle`, `gaTask`
and `gauGeneration`; a file descriptor is a volume, a generation and an index as
`FildesPack` packs them.  `stale` keeps the descriptors of the handles that the last
unmount of their volume closed, `outcome` how the last call ended.  All calls that
do not concern contents are there, with task registration, the working directory
of each task, directory streams and forced unmounts.

**`EImap`, `FileData`, `FileIo`, `Fse`, `Files`.**  A volume is two metaroots (which
copy of every imap node, and where the search for a free block starts), the imap
blocks, the blocks and the inodes, working and committed.  A data block holds
units of a file, a node holds block numbers, so a block that is freed too early, or
written where it should have been copied, shows in what is read.  Writes and
truncations go through `SeekCoord`, `BranchBlock`, `BranchBlockCost`, `Shrink`,
`TruncIndir` and `TruncDindir` as in the code, and stop where blocks run out.  `FileIo` adds
offsets, flags and the reserved space of a descriptor, `Fse` the calls by inode
number, mount, unmount, rollback and the transaction mask.  `Files` keeps beside
that what the files should contain (`file`, `cfile`): what the calls reported as
written, and no other part of the model reads it.

**`MdIter`.**  `RedMetadataIterate` gives the sequence of blocks that are read and
reported.  It is evaluated in the states of `Files`, on the committed metadata: what
is iterated are the trees which `Files` made, once with the first file taken for
a directory, once with a node that cannot be read.

## 3. Runs

| run | question | instance | distinct states |
|---|---|---|---|
| `imap` | do counters, slots and copy-on-write survive every sequence of operations? | 3 inodes, 4 allocable blocks | 581,632 |
| `volume` | is a volume a transactional store, whenever power is lost and whatever write or flush fails? | 1 file, 1 offset, sector atomicity, `SeqMax` 3 | 22,544 |
| `orphans` | is an inode in use ever freed, a reference miscounted, a list broken, or an orphan not freed when its last user leaves? | 2 inodes, 2 handles, 2 tasks, I/O errors | 98,481 |
| `buffer` | is the pool consistent, and do contents change only when their volume's callers change them? | 2 buffers, 2 volumes of 2 blocks, 2 contents, one faulty volume | 99,840 |
| `namespace` | do names, link counts, sizes and the tree stay exact, whichever step fails? | 3 inodes, 3 names, 3 entries per directory, 2 per block | 2,909 |
| `path` | does a walk find what the path means, and end? | 2 directories, a file, 2 links and a removed directory; all targets of up to 2 names for one link and 7 targets for the other; `RED_SYMLOOP_MAX` 3 | 409,512 |
| `handles` | are descriptors, handles and working directories valid whatever is unmounted, rolled back or removed? | 2 volumes of 2 inodes, 2 handles, 2 task slots, 3 paths, 4 changes | 14,872 |
| `files` | is what is read what was written, is every block owned once, are reservations kept, and is the metadata iterated exactly? | 2 files of up to 6 blocks, 12 allocable blocks, 2 writes, 4 changes | 82,502 |

Why the bounds are enough:

* `imap`: a block has four states and an inode two slots, so two inodes besides the
  root and four blocks show every combination of states of two blocks, a full
  volume and the wrap of the allocation pointer.
* `volume`: one file with one offset is sparse, written and rewritten, and the disk
  is full after that.  The sequence number is bounded by `SeqMax`, three
  transaction points after the format, and both metaroot blocks have been
  rewritten after two; the theorems of section 4 have no such bound.  `fTransactUmount` is FALSE: a program may make a
  transaction point before it unmounts, so every behaviour with the flag is there too.
* `orphans`: two inodes give a list with a head and a tail, and longer lists are
  the theorems' part (`OrphansProofs`); two handles and two working directories
  are several users of one inode and of two.  An inode that is not the head of its
  list, which `PartlyFreed` needs, is there with two as well.
* `buffer`: with two buffers, one of them referenced, there is a victim behind a
  referenced buffer, and both may be referenced; the theorems of section 4 hold for
  any number.
* `namespace`: a directory has a full block and one entry in the next, so that
  deletions cut it back across the end of a block; three inodes make the rename
  of a directory below itself, and a full volume, possible.
* `path`: a link within a link within a link, and one more, reaches
  `RED_SYMLOOP_MAX`; targets include itself, each other, `..`, absolute paths and
  nothing.
* `handles`: two generations (`FD_GEN_MAX`) let a descriptor meet its handle again;
  `MAX_CALLS` counts the calls that change the driver, and four are open, unmount,
  mount and open again.
* `files`: one direct, one indirect and one double indirect pointer, nodes of two
  entries: every kind of boundary is crossed.  Twelve blocks do not hold two
  full files, and `StartSizes` lets one of them be full at the start, so that writes
  run out of space in the first four calls.  `RESERVED_BLOCKS` is 2, an imap node has
  six entries and there are several.

`MaxLinks` and `UINT16_MAX` stand for the 65,535 names of an inode, `MaxRefs` for
the 255 of `bRefCount`, `INT32_MAX` for the most units of one call.  No run uses
a state constraint; the bounds are the guards which name them.  Symmetry is used
over contents (`volume`), handles and tasks (`orphans`) and names (`namespace`),
which no definition tells apart.  Only `files` and its violation run switch off the
check for deadlock: there a behaviour ends when `MAX_CALLS` calls have changed
something and no other call is possible.

**Liveness.**  `WalksEnd` of `Path` says that every walk ends, under
`WF_vars(Next)`: a walk is a loop inside one call, run by the task that holds the
mutex, which goes on as long as the task is scheduled.  No other fairness is
assumed.  The tasks that call the driver owe it nothing, and nothing in it runs
by itself, so "an orphan is freed at last" or "a dirty buffer is written at last"
do not hold and are not claimed; that a loop over the bitmap finds a free block
when the counter says there is one is part of `SpaceExact`, where an operator that
did not find it would fail.

### Runs that show a disagreement

Each of these checks one property that a comment or a document states, and finds
it violated.

* `imap_no_umount` (`CommittedCountsExact`).  Write and delete a committed file,
  unmount without `RED_TRANSACT_UMOUNT`, format: `RedVolTransact`, called by
  the format, adds the left over `ulAlmostFreeBlocks` to the new free count.
  A free count that is too high matters beyond `statvfs`: `RedImapAllocBlock` starts a
  scan whenever it is not zero.
* `orphans_rename` (`OrphanFlagExact`).  `red_rename("f", "f")` while `f` is open
  and has one name flags it as an orphan.  The close then looks for it in the orphan list, fails
  with `-RED_EBADF`, and never succeeds while `RED_TRANSACT_CLOSE` is set.
* `orphans_readonly` (`ReadOnlyMountChangesNothing`).  A mount with
  `RED_MOUNT_READONLY` frees the orphans it finds (`volume.c:257`), in memory and
  in buffers which cannot be written to a device that is open for reading only.
* `files_reserve` (`ReservedInodesExact`).  `red_freserve` up to the largest size of
  a file, then write it to that size: the write that reaches the end releases the
  reservation at offset `INODE_SIZE_MAX`, `CountSparseBlocks` seeks the block after
  the last one there (`inodedata.c:1063`) and is refused.  The write fails with
  `-RED_EINVAL` although all of it was written, and `ulReservedInodes` stays one
  too high.

More such traces appear when a constant or a property is changed by hand; they
have no run of their own:

* `Volume` with `fRemountUnstable = TRUE` violates `ImplementsStore`: the second
  flush of a transaction point fails, the volume becomes read-only, is unmounted
  and mounted again.  Mount takes the newest metaroot the device returns, although
  it was never made stable, and reuses blocks of the other one.
* `Orphans` with `OtherReadOnly = TRUE` violates `NoStrandedOrphans`: remove the
  directory a task works in, then `red_chdir` to a read-only volume.
  `OpenInoDeref` looks at the read-only flag of the *new* volume (`posix.c:6477`)
  before it makes the one of the inode current, and does not free the orphan,
  although the comment in `red_chdir` says that it "can now be freed"
  (`posix.c:4854-4855`).  The run `orphans` and the theorem say what holds when the
  other volume is writeable.
* `DefunctOrphansReclaimable` of `Orphans`: after a mount with
  `RED_MOUNT_SKIP_DELETE` a rollback restores the lists of the disk
  (`volume.c:741-773`), where the orphans are not defunct, and nothing frees them
  before the next mount, while `posix.c:580-582` says that they "can be reclaimed
  later".
* `MountedMeansOpen` of `Orphans`: a mount that fails while it frees orphans closes
  the device but leaves `fMounted` set (`volume.c:308`, `541`); mounting again
  answers `RED_EBUSY`.
* `CriticalErrorsAreLocal` of `Buffer`: the dirty buffer of a volume whose device
  fails is reused by a call on another volume, which then becomes read-only.
* `Files` with `TruncReserved = TRUE` violates `SpaceExact`: `O_TRUNC` on an open of a
  file that has reserved space (`posix.c:5894-5897`) truncates it and leaves the
  reservation as it was.
* `Files` with a mask without `VOLFULL`, 18 allocable blocks and six calls violates
  `SpaceExact`: a truncation of one file may use `RESERVED_BLOCKS` that are
  counted on by the reserved space of another, whose next write runs out of space
  where `core.c:2297` asserts that it does not.

Read in the code while modelling, and not the subject of a run:
`RedCoreFreeOrphan` keeps the buffer of the previous inode referenced when it
fails (`core.c:1246-1259`); a volume that became read-only may still write dirty
buffers when they are reused; the cleanup of reserved space is skipped with that
of orphans in `OpenInoDeref` (`posix.c:6477`) when the volume became read-only, so
that the reserved counters stay up; inode exhaustion frees a defunct orphan whether
or not `RED_TRANSACT_VOLFULL` is set (`inode.c:222`); the scan for a free block
steps over whole bytes and ends only because a free block is known to exist
(`imapinline.c:169-208`).

## 4. Proofs

### `ImapProofs`

For every layout that satisfies `LayoutAssumption` (any number of inodes and
blocks, at least one allocable):

* `TypeCorrect`: `Spec => []TypeOK`.
* `CopyOnWrite`: `Spec => CommittedBlocksNotReused`, from `TypeOK` alone.
* With `fTransactUmount = TRUE`: `CountersExact` (`FreeCountsExact` and
  `CommittedCountsExact`), `NeverCritical`, `InodeSlotsCorrect`,
  `BranchedFlagCorrect` and `FullVolumeReclaims` (`FullVolumeCanReclaim`).

The last five follow from one inductive invariant,

    IInv == TypeOK /\ fReadOnly = FALSE /\ BlockCounts /\ InodeCounts
            /\ SlotsInv /\ CommitInv

None of the properties is inductive alone.  `NeverCritical` needs the counters to be
exact (`RedInodeFree` compares them with the capacity) and the slots well formed
(`RedInodeBranch` sets a bit which must be clear).  `SlotsInv` says of *both*
metaroots that an inode has at most one slot, because mount and rollback make
the committed one the working one.  `BlockCounts` needs the committed counter as
well, for the same reason, and `CommitInv` (a clear `fBranched` means equal
metaroots, and an unmounted volume is not branched) because a transaction point
on an unbranched volume does nothing.  The last part is what an unmount without
a transaction point breaks, hence the assumption; the run `imap_no_umount` shows
that it is needed.  The lemmas, one per operation, say what the operation does
to the sets that the counters count (`FreeBlocks`, `AlmostFree`, `Absent`); the
cardinality facts come from `FiniteSetTheorems`.

### `BufferProofs`

From `BufferAssumption` alone (any number of buffers, volumes and blocks), all
properties that the run `buffer` checks: `TypeCorrect`, `PoolIsConsistent`,
`CleanMatchesMedia`, `ReferencedKept` and `OnlyCallersChange`.  They rest on

    IInv == TypeOK /\ abMRU \in Orders /\ Unique(aHead)
            /\ uNumUsed = Cardinality(Refs(aHead))

`TypeOK` alone is not inductive: `uNumUsed` is counted up and down and stays within
the pool only because it is the number of referenced buffers.  `Orders` says that
`abMRU` has every buffer *exactly* once; that every buffer is in it, which
`PoolConsistent` says, follows by counting, but moving a buffer (`MakeMRU`,
`MakeLRU`) keeps the one only with the other.  `Unique` (no block of a volume has
two buffers) is kept by `RedBufferGet` because it looks for the block first and by
`RedBufferBranch` because the new block is not buffered.

* Discarding a range moves buffers to the end one after the other,
  a recursive function over buffer indexes (`MakeAllLRUOrder`).  The library's
  induction theorems cannot be used, so the lemma takes the least index at
  which the claim fails (`LeastMember`, from `WFMin`).
* `CleanMatchesMedia` adds `CleanBuffersMatchMedia` to the invariant.  `Unique` is what
  it needs: a buffer written before it is reused, or by a flush, changes the media
  under no other buffer.  It holds of volumes that can be written: the write past the
  buffers which fails makes its volume read-only, and `VolRemount`, which ends that,
  leaves no buffer of it.
* `OnlyCallersChange` needs both: when a clean buffer is reused or branched, its old
  block is seen on the media again, and must look the same there, or be stale on a
  read-only volume.  A stale block ends in no other way: `BufferDirty` and
  `BufferBranch` need a volume that can be written, and writes and discards are
  calls of its volume.  `ViewOfBlock` and `ViewChange` reduce a change of `View` to
  what happens to single blocks.

### `VolumeProofs`

For every layout, every number of files, offsets and contents, and every bound on
the sequence number.  Two theorems need no assumption beyond those on the
constants, and hold however the volume is mounted:

* `TypeCorrect`: `Spec => []TypeOK`.
* `CopyOnWrite`: `Spec => CommittedNotWritten`, down to the device: an operation
  that writes past the buffers, a dirty buffer written at any moment, a transaction
  point that is complete or not, all leave the committed blocks alone.

They rest on

    CowInv == TypeOK /\ (at most one slot per inode, in the working, the
              committed and every metaroot on the media) /\ (no dirty buffer is
              of a committed block) /\ (no dirty buffers after TransactBuffers)

*One slot* must hold of every metaroot a mount could find, not only of those in
memory, because a mount takes any of them; with two slots in one metaroot, branching
an inode would have no block left to write it to.

The other four take `fRemountUnstable = FALSE`: the volume is not mounted again,
without a restart, from a metaroot whose flush failed.  The code does not prevent
that, and with it the properties fail (section 3), so the assumption cannot be dropped.

* `NoBufferIsStale` (`NoStaleBuffers`), `CleanBuffersAreRedundant`
  (`CleanBuffersMatchMedia`), `EveryCrashIsRecoverable` (`RecoverableIsIntact`).
* `VolumeImplementsStore`: `Spec => ImplementsStore`, the refinement of `TxnStore`.

They rest on

    IInv == CowInv /\ CrashInv /\ WorkingInv

* `CrashInv` says what the two metaroot blocks hold.  One of them holds a state `c`,
  and no loss of power can take it back (`maybe` is `{c}`); all that `c` refers to is
  valid and stable (`Intact`).  The other may be torn or old, or hold a newer
  state, which is then just as intact and what the device returns (`Newer`).
  While the volume is mounted `c` is what it was mounted from (`MountedFrom`), a newer
  one exists only between the write and the flush of a metaroot or after that
  flush failed, and then there are no dirty buffers.
* `WorkingInv` says that the working metaroot is `Sound` and `Filled` as seen through
  the buffers (`Cache`): each allocated slot holds an inode, its blocks are
  allocated and nobody else's, and hold contents.  This becomes `Intact` in
  `TransactBuffers` and `TransactFlush`, when buffers and media become one.  Clean
  buffers match the media and no buffer is stale; both are needed to see through `Cache`.
* *The refinement.*  `Recoverable` is always the view of `c` together with that of
  the newer metaroot if there is one, and `WorkingView` the view of `gpRedMR` through
  `Cache`.  Each action is then mapped: file operations to `Change` (or to a stutter,
  or to `Fail` when the device fails), reads, evictions, `TransactBuffers` and
  `TransactFlush` to stutters, `TransactMetaroot` to `BeginCommit`,
  `TransactComplete` to `EndCommit`, and mount, rollback, unmount and the loss
  of power to the actions of those names.  That a call changes one file and no
  other, through blocks shared by nobody, is what `Sound` is for.

### `OrphansProofs`

For any number of inodes, handles and tasks, three theorems from
`OrphansAssumption` alone: `TypeCorrect`, `ReferencesExact`
(`ReferencedInodesExist`) and `ListsCorrect` (`OrphanListsExact`).  Two need a
constant, and section 3 has the run and the trace which show that they do:

* `FlagsCorrect` (`OrphanFlagExact`) takes `SameNameRenames = FALSE`: no task renames
  a name to itself.
* `NothingStranded` (`NoStrandedOrphans`) takes `OtherReadOnly = FALSE`: a working
  directory is not left while a read-only volume is the current one.

All five rest on

    IInv == VolumeInv(cmt) /\ (types of work and of the flags) /\ RefsInv
            /\ (~fReadOnly => Sound(gaOpenInos, work))

    Sound(inos, w) == VolumeInv(w) /\ UseOK(inos, w)

* `VolumeInv(w)`: there are sequences `s` and `t` of inodes, each without repetition
  and disjoint from one another, such that the orphan list is linked as `s`, the
  defunct list as `t`, the inodes without a name are those of `s` and `t`, and the
  tail is the last of `s`.  `OrphanListsExact` looks at sets and at ends of chains
  only; the order is what says where `FreeOrphan` has to join the list when it takes
  an inode from the middle (`OrphanFreed`), and which inodes are left when
  the first few defunct ones are freed (`DefunctFreed`).  It must hold of `cmt` too,
  because mount, rollback and the loss of power go back to that state.
* `RefsInv` says that references are counted exactly, that a closed inode is not
  flagged, and that nothing is in use on a volume that is not mounted; one handle or
  directory that changes its inode changes two of the counts by one (`UserChanges`).
* `UseOK`: an inode in use exists, is *not defunct*, and is flagged if it has no
  name.  That it is not defunct is what makes reclaiming safe while files are open:
  inode exhaustion, `CoreFull` and `red_freeorphans` take from the defunct list only,
  and the lists are joined only by a mount, when nothing is open.
* `FlagInv`, the other half of `OrphanFlagExact`: only inodes without a name are
  flagged, on a volume that can be written.
* *I/O errors.*  What an error leaves in `work` need not be `Sound`, and `IInv` claims
  nothing of it but its type: it makes the volume read-only (`KeptReadOnly`), nothing
  commits a read-only volume, and only a mount or the loss of power ends that, with a
  `work` made from `cmt`.  `RefsInv` and `VolumeInv(cmt)` hold throughout; the second is
  why a failing transaction point needs the state it tried to commit to satisfy
  `VolumeInv` (`TransactFailsKeeps`): its metaroot may be the one that is found later.

`KeptWhen` says what is to be shown of a step, and there is a lemma for each
action.  Calls which flag and close nothing (`Calm`: create, link, reclaim)
are done by one lemma, `CalmCall`.  Two places would need an induction: that a chain
follows the sequence (`ChainOfList`), and that freeing a set of orphans one after
the other, a fold, keeps `VolumeInv` (`OrphansAllFreed`).  Both take the least
number at which the claim fails, as in `BufferProofs`; the fold's recursive function
on finite sets is built there from those on smaller sets.

### `DirProofs` and `NamespaceProofs`

For any number of inodes, names and entries, for every size of blocks, node
headers and entries that leaves room for one entry in a block, and for every fault
of `Namespace`, from `DirAssumption` and `NamespaceAssumption` alone: `TypeCorrect`,
`LinksExact` (`LinkCountsExact`), `DirectorySizesExact` (`DirSizesExact`),
`TreeStaysConnected` (`TreeConnected`), `FailedCallsAreUndone`
(`FailedCallsChangeNothing`) and `ReadersMissNothing` (`EntriesKeepPlace`).  They rest on

    IInv == TypeOK /\ (Consistent => Tidy(vol))

`Tidy(v)` is what the calls count on: every directory has the size of its entries up
to the last one in use, and unused entries are blank (`Sized`, in `Shape`); entries
lead to inodes that exist and never to the root (`NamesLead`); names in a directory
are unique; link counts are exact; the one name of a directory is in the parent it
records; an orphan has no links, and as a directory neither entries nor a parent
(`Orphaned`), which keeps paths out of removed directories; and all inodes but the
orphans can be reached from the root (`Connected`).

* *Arithmetic.*  `Size(n)` is the size of a directory with `n` entries.  `Place` and
  `NextPlace` say where an entry is from its block and its number in the block;
  `CountIs` that `DirOffsetToEntryIndex` takes `Size(n)` back to `n`, `TruncSizeIs`
  that a delete leaves `Size(k)`, across headers and the unused end of a block.
* *Entries.*  `WriteIs` and `DeleteIs`: a write or a delete of one entry is the same
  as changing the entry and setting the size to that of what is left.
  `UndoIs`: writing the old entry back gives the volume from before, size included;
  this is why a rename that finds no space half way changes nothing.
* *Between the steps of a call* link counts are off by one and a renamed directory
  has its name in a directory that is not its parent yet.  `TidyOff(v, off, s)` is
  `Tidy` with inode `i` having `off[i]` names too many, and without the claim on the
  parent of `s`.  `ChangeTidy` says what one changed entry does to `off`, `LinkDecTidy`,
  `LinkIncTidy` and `ParentTidy` how the rest of the call brings `off` back to 0.
  `CreateGood`, `LinkGood`, `UnlinkGood` and `RenameGood` put the steps together,
  with each fault in each place.
* *The tree.*  `TreeConnected` counts levels below the root, which no step of a call
  keeps in order.  `Connected` says the same without counting: a set that has the root
  and whatever its directories lead to (`Closed`) has every inode that is no orphan.
  `Reached(v, X)` allows for the inodes `X` that have no name in the middle of a call;
  `EntryReached` and `PutReached` say how one changed entry takes from `X` and adds to it.
  The one hard case is a directory `x` that moves.  `DirCyclicRenameCheck` follows the
  parents of the new place as often as there are inodes, and `AncestorsAre` shows that
  this is enough to meet them all: a chain of sets over `C` members has stopped growing
  after `C` steps (`ChainStops`).  If a closed set of the new tree did not have the new
  place, then all inodes without the ancestors it lacks would be closed in the old tree,
  because `x` is none of those ancestors (`MovedReached`).  `TidyTree` goes back from
  `Connected` to levels, with `ChainStops` once more.
* *Readers.*  `Follows(v, w)`: an entry in use was in its place before, or has a name
  that no other entry had; with unique names no entry moves (`KeepsPlaceIs`).
  That reads from position to position reach every entry (`ReadersGetAll`) takes the
  first read past the entry; the recursive function of positions is built step by
  step (`ReadsGoOn`).

Three expressions of `Dir` and `Namespace` were rewritten without changing what they
mean, because the prover has no rule for `@@` and for sets over tuples.

### `PosixLemmas` and `PosixProofs`

For any number of volumes, inodes, names, handles, tasks and paths, and for every fault:

* `PosixTypes`: `Spec => []TypeOK`.
* `PosixDescriptors`: `Spec => []DescriptorsExact`.
* `PosixFailures`: `Spec => FailedCallsChangeNothing`, for every call.
* `PosixPaths`: `Spec => []PathsLeadBack`, for trees of any depth.
* `PosixReferences` (`HandlesAndTasksValid`) takes `SameNameRenames = FALSE`: the
  `fOrphan` flag is wrong after a rename of a name to itself, as the run
  `orphans_rename` shows.

They use the assumptions on the constants, `DirAssumption`, `PosixAssumption`,
`NamesAssumption` (no entry is named `.` or `..`, and the names that are too long are
others) and `PathsAssumption`; the last says that what is left of a path after the prefix
of its volume is names, no separators, which is how `Paths` are written.  They rest on

    DriverInv == Sound(red, {}) /\ Idle(red) /\ StaleGood(red, stale)
                 /\ (types of outcome and calls)

* `Sound(s, X)`: every volume is consistent, in its working and its committed state
  (`VolumeGood`); each handle in use is of an inode that exists, with the type and
  the generation in its descriptor; each task is in a directory; the references of
  an open inode are its *users*, handles and tasks counted together (`RefsExact`); the
  orphan flags are right (`MarkGood`, where `SameNameRenames` comes in); and a mounted
  volume has a generation.  `X` are the tasks whose directories are about to change:
  `CwdCloseVol` takes them one after the other, and in between the directories of the
  rest are of a volume that is no longer mounted.
* *Volumes.*  A volume of `Posix` is one of `Dir` with defunct orphans, a committed
  state and a mask.  `Carries(v, w, p)` says that a call changed `v` to `w` as it
  would change the volume of `Dir` that `v` is (`AsDir`, in which a defunct orphan is an
  orphan) to `p`.  So the lemmas of `DirProofs` (`Tidy` is kept, a failed call changes
  nothing, an inode in use keeps its type) hold of `Posix` as well, and what is
  left to prove is what `Posix` adds: `CoreFull` that frees defunct orphans, automatic
  transaction points, mounts and rollbacks.  `Keeps(v, w, X)` sums it up: all inodes
  which exist but those of `X` exist afterwards, with the type they had, orphans
  or not as they were.
* *Calls.*  `Answers(s, r)` is what a call with the result `r` owes to the state `s`:
  `Sound` again, nothing mounted or unmounted, and nothing that can be seen has
  changed if it failed.  There is one lemma for each call, put together from those of
  what it is made of: where it begins (`StartGood`: the descriptor or the directory
  that a path starts from), the walk, the core call, the reference that is gained or
  given up.  Mounts, unmounts, rollbacks and formats are `Served`, and every call, with
  the registration of its task, `Completes`; `Idle` and `StaleGood` are what
  `red_init`, `red_uninit` and the generations add.
* *Descriptors.*  `StaleGood(s, stale)`: a descriptor of the last mount of a volume has
  a generation other than the current one exactly if the volume is mounted again.
  That two mounts one after the other have different generations is what needs
  `FD_GEN_MAX > 1`.
* *Closing.*  When the last user of an orphan closes it, the inode is freed; that it may
  be freed follows from the count: the one user counted is the one that leaves, so no
  other handle or task is left with it.

* *Paths.*  A path is built by a climb from the directory to the root and taken apart by a
  walk, one recursive function after the other; neither is computed in the proof.
  Every state of the climb has the property that the names collected so far, walked from where
  the climb has come to, lead to the directory: a climb puts one name in front, and
  the walk that starts with it takes one step and goes on as before (`WalkFromParent`).
  The climb reaches the root before it runs out of steps (`RootIsAbove`): if the root were
  not among the ancestors of a directory that has a name, the inodes outside them would
  be a closed set without it, and after as many steps as there are inodes the climb has
  passed all ancestors.  So the climb ends in success, or
  in `RED_ENOENT` for a directory that was removed, and never in `RED_EFUBAR`, which is why
  `Answers` excludes that result.

For these proofs `Posix` names the part of a path after the prefix of its volume
(`LocalNames`).

### Only model-checked

* `WalkGivesMeaning` of `Path`: what a recursive definition (`Meaning`) computes
  for every input is induction over data, out of the prover's reach.
* All of `Files` (`FilesReadBack`, `SpaceExact`, `MetadataIterated`): a call there is
  a loop over the blocks of a file, with folds within folds, and what it computes
  is induction over data again.
* Liveness (`WalksEnd`) and ENABLED.

The counters of `Imap` are proved with `fTransactUmount` only, the last four
properties of `Volume` without `fRemountUnstable` only, `OrphanFlagExact`,
`NoStrandedOrphans` and `HandlesAndTasksValid` under the assumptions above.

## 5. Not modelled

* Attributes, times, owners and permission bits, names character by character,
  formatting, logging and `red_errnoptr`.
* The master block and the computation of the layout from the geometry of a
  volume; `EImap` has the number of imap nodes that follows from it.
* Checksums, signatures and byte order: a block is valid or it is not; sequence
  numbers of nodes, in `MdIter` too.
* The retries of `blockio.c`, which are part of one write, and discards, which
  tell the device what is free and change no contents.
* Device errors in the middle of file data calls: `Volume` and `Buffer` have them,
  `FileData` has full volumes and failed assertions.
* The inode table in `FileData`: inodes exist from the start, and their slots do not
  move; `Imap` and `Volume` have the moves.
* The grouping of contiguous blocks into one device request (`GetExtent` in
  `inodedata.c`), which changes no contents.
* The other host tools (image builder, checker, FUSE, configuration), tests,
  ports and utilities: they use the driver or are pure functions.

What could come next: that the buffers of `Volume` are implemented by `Buffer`
(a refinement over the current volume), proofs about `Files`, and
`InodeSlotsCorrect` without the assumption on unmounts.
