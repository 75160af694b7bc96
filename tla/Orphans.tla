------------------------------- MODULE Orphans -------------------------------
(***************************************************************************)
(* Deleting a file that is in use: the open inodes of the POSIX layer      *)
(* (posix.c), the orphan and defunct orphan lists of the metaroot          *)
(* (inode.c, core.c) and what mount, rollback, unmount, an I/O error and a *)
(* loss of power make of them (volume.c).                                  *)
(*                                                                         *)
(* The inodes of one volume are modelled by what these lists and the link  *)
(* counts say; names are only counted.  A transaction point is one step,   *)
(* which Volume justifies.  The mask of automatic transaction points may   *)
(* be changed between any two calls (red_settransmask), so that each call  *)
(* which may end with one does or does not.                                *)
(***************************************************************************)
EXTENDS Integers, FiniteSets, FiniteSetsExt

CONSTANTS
  Inodes,               \* the inode numbers of files and directories
  Tasks,                \* the tasks; each has a working directory
  Handles,              \* the handles
  MaxLinks,             \* the most names of an inode, UINT16_MAX in the code
  IoMayFail,            \* may I/O on the volume fail?
  OtherReadOnly,        \* is the other volume read-only?
  SameNameRenames       \* do tasks rename a name to itself?

ASSUME OrphansAssumption ==
  /\ Inodes \subseteq Nat \ {0} /\ IsFiniteSet(Inodes)
  /\ IsFiniteSet(Handles) /\ IsFiniteSet(Tasks)
  /\ MaxLinks \in Nat \ {0}
  /\ {IoMayFail, OtherReadOnly, SameNameRenames} \subseteq BOOLEAN

VARIABLES
  work, cmt,            \* the working and the committed state of the volume
  fBranched, fMounted, fReadOnly,
  fDeviceOpen,          \* is the block device open?
  gaOpenInos,           \* the open inodes: references and OIFLAG_ORPHAN
  gaHandle,             \* the inode a handle is open for
  pCwd                  \* the working directory of a task

volVars == <<work, cmt, fBranched, fMounted, fReadOnly, fDeviceOpen>>
useVars == <<gaOpenInos, gaHandle, pCwd>>
vars    == <<volVars, useVars>>

INODE_INVALID == 0
ELSEWHERE     == -1     \* a working directory that is no inode of Inodes
Free          == [uNLink |-> -1, ulNextOrphan |-> INODE_INVALID, fDirectory |-> FALSE]

-----------------------------------------------------------------------------
(* The lists.                                                              *)

Links == Inodes \cup {INODE_INVALID}
Nodes == [uNLink : 0 .. MaxLinks, ulNextOrphan : Links, fDirectory : BOOLEAN]
         \cup {Free}

Exists(w, i)   == w.node[i] # Free
IsOrphan(w, i) == w.node[i].uNLink = 0
IsNamed(w, i)  == w.node[i].uNLink > 0

\* The inodes met from "head" on, INODE_INVALID after the last.
Chain(w, head) ==
  LET c[n \in 0 .. Cardinality(Inodes)] ==
        IF n = 0 THEN head
        ELSE IF c[n - 1] = INODE_INVALID THEN INODE_INVALID
        ELSE w.node[c[n - 1]].ulNextOrphan
  IN  c

Listed(w, head) ==
  {Chain(w, head)[n] : n \in DOMAIN Chain(w, head)} \ {INODE_INVALID}

Orphans(w)        == Listed(w, w.ulOrphanHead)
DefunctOrphans(w) == Listed(w, w.ulDefunctOrphanHead)

WithNode(w, i, node) == [w EXCEPT !.node[i] = node]

\* Bug: the tail is set whether or not the list was empty.
OrphanedTail(w, i) ==
  [ WithNode(w, i, [w.node[i] EXCEPT !.uNLink = 0, !.ulNextOrphan = w.ulOrphanHead])
    EXCEPT !.ulOrphanHead = i,
           !.ulOrphanTail = i ]

\* RedInodeLinkDec with fOrphan: the inode leads the orphan list.
Orphaned(w, i) ==
  [ WithNode(w, i, [w.node[i] EXCEPT !.uNLink = 0, !.ulNextOrphan = w.ulOrphanHead])
    EXCEPT !.ulOrphanHead = i,
           !.ulOrphanTail = IF @ = INODE_INVALID THEN i ELSE @ ]

\* RedCoreFreeOrphan for an inode that is in the orphan list.
FreeOrphan(w, i) ==
  LET next  == w.node[i].ulNextOrphan
      prev  == {p \in Orphans(w) : w.node[p].ulNextOrphan = i}
      pull  == [j \in Inodes |->
                  IF j = i THEN Free
                  ELSE IF j \in prev THEN [w.node[j] EXCEPT !.ulNextOrphan = next]
                  ELSE w.node[j]]
  IN  [ w EXCEPT !.node = pull,
                 !.ulOrphanHead = IF @ = i THEN next ELSE @,
                 !.ulOrphanTail = IF @ # i THEN @
                                  ELSE IF prev = {} THEN INODE_INVALID
                                  ELSE CHOOSE p \in prev : TRUE ]

\* A failed RedCoreFreeOrphan has freed nothing, or has freed the inode but
\* not repaired the list: the inode before it cannot be branched.
PartlyFreed(w, i) ==
  {w} \cup (IF i = w.ulOrphanHead THEN {} ELSE {WithNode(w, i, Free)})

\* The orphans S, one after the other.
AllFreed(w, S) == FoldSet(LAMBDA i, v : FreeOrphan(v, i), w, S)

\* RedVolFreeOrphans frees up to "count" defunct orphans.
FreeDefunct(w, count) ==
  LET c     == Chain(w, w.ulDefunctOrphanHead)
      freed == {c[n] : n \in 0 .. count - 1}
  IN  [ w EXCEPT !.node = [j \in Inodes |-> IF j \in freed THEN Free ELSE w.node[j]],
                 !.ulDefunctOrphanHead = c[count] ]

AllDefunct == Cardinality(Inodes)

\* Every orphan becomes defunct when there is no defunct orphan yet.
MadeDefunct(w) ==
  [ w EXCEPT !.ulDefunctOrphanHead = w.ulOrphanHead,
             !.ulOrphanHead = INODE_INVALID,
             !.ulOrphanTail = INODE_INVALID ]

\* ConcatOrphanLists: the orphans go before the defunct ones.
ConcatOrphanLists(w) ==
  MadeDefunct([w EXCEPT !.node[w.ulOrphanTail].ulNextOrphan = w.ulDefunctOrphanHead])

-----------------------------------------------------------------------------
(* Open inodes and their references.                                       *)

Closed == [uRefs |-> 0, fOrphan |-> FALSE]

IsOpen(i)  == gaOpenInos[i].uRefs > 0
LastRef(i) == gaOpenInos[i].uRefs = 1

\* OpenInoFind with fAlloc, and one more reference.
WithRef(inos, i) == [inos EXCEPT ![i].uRefs = @ + 1]

\* The reference that OpenInoDeref drops; the last one closes the inode.
WithoutRef(inos, i) ==
  IF inos[i].uRefs = 1 THEN [inos EXCEPT ![i] = Closed]
  ELSE [inos EXCEPT ![i].uRefs = @ - 1]

\* The cleanup which OpenInoDeref does for the last reference.
NeedsFreeing(i) == LastRef(i) /\ gaOpenInos[i].fOrphan
CanFree(w, i)   == NeedsFreeing(i) => i \in Orphans(w)

\* Bug: the list is not searched past its head.
CleanedHead(w, i) ==
  IF NeedsFreeing(i) /\ i = w.ulOrphanHead THEN FreeOrphan(w, i) ELSE w

Cleaned(w, i) == IF NeedsFreeing(i) /\ CanFree(w, i) THEN FreeOrphan(w, i) ELSE w

HandlesOpen == \E h \in Handles : gaHandle[h] # INODE_INVALID

-----------------------------------------------------------------------------
(* Calls on names.  Each runs to its end under the driver's mutex.         *)

Accessible == fMounted /\ fDeviceOpen
Writeable  == Accessible /\ ~fReadOnly

\* A call leaves the working state w, branched or not, and may end with an
\* automatic transaction point, which does nothing if it is not branched.
Stays(w, branched) == work' = w /\ UNCHANGED cmt /\ fBranched' = branched

Transacts(w, branched) ==
  /\ work' = w
  /\ cmt' = IF branched THEN w ELSE cmt
  /\ fBranched' = FALSE

EndsWith(w, branched) ==
  UNCHANGED fReadOnly /\ (Stays(w, branched) \/ Transacts(w, branched))

\* The call has left the working state w when an I/O error ends it.
Aborts(w) ==
  /\ IoMayFail /\ fReadOnly' = TRUE
  /\ work' = w /\ UNCHANGED cmt
  /\ fBranched' \in {fBranched \/ w # work, TRUE}

\* Or the transaction point at its end fails, and the call returns that error
\* with all it did in the working state.  The metaroot may be on the media
\* although the device said that it could not be flushed.
TransactFails(w, branched) ==
  /\ IoMayFail /\ branched
  /\ fReadOnly' = TRUE
  /\ work' = w /\ cmt' \in {cmt, w} /\ fBranched' = TRUE

\* HandleOpen takes a handle that HandleFindFree found.
HandleOpen(h, i) ==
  /\ gaHandle[h] = INODE_INVALID
  /\ gaHandle' = [gaHandle EXCEPT ![h] = i]
  /\ gaOpenInos' = WithRef(gaOpenInos, i)

Open(h, i) ==
  /\ Accessible /\ IsNamed(work, i)
  /\ HandleOpen(h, i)
  /\ UNCHANGED <<volVars, pCwd>>

\* RedInodeCreate takes the lowest free inode or reclaims a defunct orphan.
IsNewInode(i) ==
  IF \E j \in Inodes : ~Exists(work, j)
  THEN ~Exists(work, i) /\ \A j \in Inodes : j < i => Exists(work, j)
  ELSE i = work.ulDefunctOrphanHead

NewInode(i, fDirectory) ==
  LET w == IF Exists(work, i) THEN FreeDefunct(work, 1) ELSE work
  IN  WithNode(w, i, [uNLink |-> 1, ulNextOrphan |-> INODE_INVALID,
                      fDirectory |-> fDirectory])

\* red_open with RED_O_CREAT of a new name.
OpenNew(h, i) ==
  /\ Writeable /\ IsNewInode(i)
  /\ \/ EndsWith(NewInode(i, FALSE), TRUE) /\ HandleOpen(h, i)
     \/ TransactFails(NewInode(i, FALSE), TRUE) /\ UNCHANGED <<gaOpenInos, gaHandle>>
  /\ UNCHANGED <<fMounted, fDeviceOpen, pCwd>>

MakeDirectory(i) ==
  /\ Writeable /\ IsNewInode(i)
  /\ EndsWith(NewInode(i, TRUE), TRUE) \/ TransactFails(NewInode(i, TRUE), TRUE)
  /\ UNCHANGED <<fMounted, fDeviceOpen, useVars>>

\* Bug: the link count is not checked.
LinkUnchecked(i) ==
  /\ Writeable /\ IsNamed(work, i) /\ ~work.node[i].fDirectory
  /\ EndsWith([work EXCEPT !.node[i].uNLink = @ + 1], TRUE)
  /\ UNCHANGED <<fMounted, fDeviceOpen, useVars>>

Link(i) ==
  LET w == [work EXCEPT !.node[i].uNLink = @ + 1]
  IN  /\ Writeable /\ IsNamed(work, i) /\ ~work.node[i].fDirectory
      /\ work.node[i].uNLink < MaxLinks
      /\ EndsWith(w, TRUE) \/ TransactFails(w, TRUE)
      /\ UNCHANGED <<fMounted, fDeviceOpen, useVars>>

\* Bug: only handles count, not working directories.
BecomesOrphanByHandle(i) ==
  (\E h \in Handles : gaHandle[h] = i) /\ work.node[i].uNLink = 1

\* InodeUnlinkCheck: the inode would lose its last name while it is open.
BecomesOrphan(i) == IsOpen(i) /\ work.node[i].uNLink = 1

\* RedInodeLinkDec.
LinkDec(i) ==
  IF work.node[i].uNLink > 1 THEN [work EXCEPT !.node[i].uNLink = @ - 1]
  ELSE IF BecomesOrphan(i) THEN Orphaned(work, i)
  ELSE WithNode(work, i, Free)

\* InodeOrphaned.
Flagged(i) ==
  IF BecomesOrphan(i) THEN [gaOpenInos EXCEPT ![i].fOrphan = TRUE] ELSE gaOpenInos

\* red_unlinkat of a file or of an empty directory.  When its transaction
\* point fails the name is gone, but the orphan is not flagged.
Unlink(i) ==
  /\ Writeable /\ IsNamed(work, i)
  /\ \/ EndsWith(LinkDec(i), TRUE) /\ gaOpenInos' = Flagged(i)
     \/ TransactFails(LinkDec(i), TRUE) /\ UNCHANGED gaOpenInos
  /\ UNCHANGED <<fMounted, fDeviceOpen, gaHandle, pCwd>>

\* red_renameat of a name of inode i to a name of inode j, which loses it.
\* When both are one inode, RedDirEntryRename changes no name and no link
\* count, whether the names are two or the same.
Rename(i, j) ==
  LET w == IF i = j THEN work ELSE LinkDec(j)
  IN  /\ Writeable /\ IsNamed(work, i) /\ IsNamed(work, j)
      /\ work.node[i].fDirectory = work.node[j].fDirectory
      /\ i = j => work.node[i].uNLink > 1 \/ SameNameRenames
      /\ \/ EndsWith(w, TRUE) /\ gaOpenInos' = Flagged(j)
         \/ TransactFails(w, TRUE) /\ UNCHANGED gaOpenInos
      /\ UNCHANGED <<fMounted, fDeviceOpen, gaHandle, pCwd>>

-----------------------------------------------------------------------------
(* Calls which give up a reference.                                        *)

HandleClosed(h) ==
  /\ gaOpenInos' = WithoutRef(gaOpenInos, gaHandle[h])
  /\ gaHandle' = [gaHandle EXCEPT ![h] = INODE_INVALID]
  /\ UNCHANGED pCwd

\* HandleClose.  The handle is closed before the transaction point, if there
\* is to be one.
HandleClose(h) ==
  LET i        == gaHandle[h]
      w        == IF fReadOnly THEN work ELSE Cleaned(work, i)
      branched == fBranched \/ w # work
  IN  /\ Accessible /\ i # INODE_INVALID
      /\ \/ UNCHANGED fReadOnly /\ Stays(w, branched)
         \/ /\ ~fReadOnly /\ CanFree(work, i)
            /\ EndsWith(w, branched) \/ TransactFails(w, branched)
      /\ HandleClosed(h)
      /\ UNCHANGED <<fMounted, fDeviceOpen>>

\* An I/O error while the last reference is cleaned up.
CleanupFails(i) ==
  /\ Writeable /\ NeedsFreeing(i) /\ CanFree(work, i)
  /\ \E w \in PartlyFreed(work, i) : Aborts(w)
  /\ UNCHANGED <<fMounted, fDeviceOpen>>

\* HandleClose returns that error, and keeps the handle, when the call is to
\* end with a transaction point; otherwise it ignores it.
HandleCloseFails(h) ==
  /\ gaHandle[h] # INODE_INVALID
  /\ CleanupFails(gaHandle[h])
  /\ UNCHANGED useVars \/ HandleClosed(h)

\* A task's working directory becomes d.  OpenInoDeref asks the volume made
\* current by the call, fCurrentReadOnly, whether it may clean up, then
\* RedCoreFreeOrphan the volume of the inode.  Its error is ignored.
MovesTo(t, d, fCurrentReadOnly) ==
  LET i       == pCwd[t]
      isHere  == i # ELSEWHERE
      w       == IF isHere /\ ~fCurrentReadOnly /\ ~fReadOnly
                 THEN Cleaned(work, i) ELSE work
      dropped == IF isHere THEN WithoutRef(gaOpenInos, i) ELSE gaOpenInos
  IN  /\ \/ /\ Stays(w, fBranched \/ w # work)
            /\ UNCHANGED <<fMounted, fReadOnly, fDeviceOpen>>
         \/ isHere /\ ~fCurrentReadOnly /\ CleanupFails(i)
      /\ gaOpenInos' = IF d = ELSEWHERE THEN dropped ELSE WithRef(dropped, d)
      /\ pCwd' = [pCwd EXCEPT ![t] = d]
      /\ UNCHANGED gaHandle

\* red_chdir within the volume.
ChangeDirectory(t, d) ==
  /\ Accessible /\ IsNamed(work, d) /\ work.node[d].fDirectory
  /\ MovesTo(t, d, fReadOnly)

\* red_chdir to a root directory or to the other volume, and TaskUnregister,
\* which finds the volume current that was used last.
LeaveDirectory(t) ==
  /\ pCwd[t] # ELSEWHERE
  /\ \E fCurrentReadOnly \in {fReadOnly, OtherReadOnly} :
       MovesTo(t, ELSEWHERE, fCurrentReadOnly)

-----------------------------------------------------------------------------
(* Calls on the volume.                                                    *)

\* RedCoreVolFreeOrphans.
FreeOrphans(ulCount) ==
  /\ Writeable
  /\ work.ulDefunctOrphanHead # INODE_INVALID
  /\ Stays(FreeDefunct(work, ulCount), TRUE)
  /\ UNCHANGED <<fMounted, fReadOnly, fDeviceOpen, useVars>>

\* CoreFull frees every defunct orphan when a call runs out of space, and ends
\* with a transaction point if blocks become free by it.
CoreFull ==
  LET w == FreeDefunct(work, AllDefunct)
  IN  /\ Writeable
      /\ work.ulDefunctOrphanHead # INODE_INVALID
      /\ EndsWith(w, TRUE) \/ TransactFails(w, TRUE)
      /\ UNCHANGED <<fMounted, fDeviceOpen, useVars>>

Transact ==
  /\ Writeable /\ fBranched
  /\ \/ Transacts(work, TRUE) /\ UNCHANGED fReadOnly
     \/ TransactFails(work, TRUE)
  /\ UNCHANGED <<fMounted, fDeviceOpen, useVars>>

\* CwdCloseVol with fReset drops the references without a cleanup.
NothingOpen ==
  /\ gaOpenInos' = [i \in Inodes |-> Closed]
  /\ gaHandle' = [h \in Handles |-> INODE_INVALID]
  /\ pCwd' = [t \in Tasks |-> ELSEWHERE]

\* Bug: rollback does not look for open inodes of the volume.
RollbackAnyway ==
  /\ Writeable
  /\ Stays(IF fBranched THEN cmt ELSE work, FALSE)
  /\ UNCHANGED <<fMounted, fReadOnly, fDeviceOpen, useVars>>

\* red_rollback.
Rollback ==
  /\ Writeable /\ ~HandlesOpen
  /\ Stays(IF fBranched THEN cmt ELSE work, FALSE)
  /\ NothingOpen
  /\ UNCHANGED <<fMounted, fReadOnly, fDeviceOpen>>

\* The metaroots cannot be read back.  The buffers are gone, so that the
\* working state is what the media has of it, and the references remain.
RollbackFails ==
  /\ Writeable /\ ~HandlesOpen /\ fBranched
  /\ IoMayFail /\ fReadOnly' = TRUE
  /\ work' \in {work, cmt}
  /\ UNCHANGED <<cmt, fBranched, fMounted, fDeviceOpen, useVars>>

\* The lists as RedVolMount leaves them.
Purged(w) == FreeDefunct(MadeDefunct(FreeDefunct(w, AllDefunct)), AllDefunct)

Postponed(w) ==
  IF w.ulDefunctOrphanHead = INODE_INVALID THEN MadeDefunct(w)
  ELSE IF w.ulOrphanHead # INODE_INVALID THEN ConcatOrphanLists(w)
  ELSE w

\* red_mount2.  Freeing and joining the lists branch the volume, moving one
\* does not; fBranched is not reset by an unmount.
Mount(ulFlags) ==
  LET w == IF "SKIP_DELETE" \in ulFlags THEN Postponed(cmt) ELSE Purged(cmt)
  IN  /\ ~fMounted
      /\ Stays(w, fBranched \/ w.node # cmt.node)
      /\ fMounted' = TRUE /\ fDeviceOpen' = TRUE
      /\ fReadOnly' = ("RDONLY" \in ulFlags)
      /\ UNCHANGED useVars

\* An I/O error while the orphans are freed: RedVolMount closes the device,
\* but fMounted was set before.
MountFails ==
  /\ IoMayFail /\ ~fMounted
  /\ Orphans(cmt) \cup DefunctOrphans(cmt) # {}
  /\ \E branched \in {fBranched, TRUE} : Stays(cmt, branched)
  /\ fMounted' = TRUE /\ fReadOnly' = TRUE /\ fDeviceOpen' = FALSE
  /\ UNCHANGED useVars

\* red_umount2; with RED_UMOUNT_FORCE if there are handles.  Every reference
\* is given up with its cleanup, then a transaction point may follow.
Freeable == {i \in Orphans(work) : gaOpenInos[i].fOrphan}

Unmount ==
  LET w        == IF fReadOnly THEN work ELSE AllFreed(work, Freeable)
      branched == fBranched \/ w # work
  IN  /\ fMounted
      /\ \/ UNCHANGED cmt /\ fBranched' = branched
         \/ ~fReadOnly /\ branched /\ cmt' = w /\ fBranched' = FALSE
      /\ work' = cmt'     \* of no use until the next mount sets it
      /\ fMounted' = FALSE /\ fDeviceOpen' = FALSE
      /\ NothingOpen
      /\ UNCHANGED fReadOnly

\* The error of a cleanup is ignored, but ends the cleaning up: a read-only
\* volume is unmounted.  One of the transaction point leaves it mounted.
UnmountFails ==
  LET w == AllFreed(work, Freeable)
  IN  /\ Writeable
      /\ \/ /\ Freeable # {} /\ Aborts(work)
            /\ fMounted' = FALSE /\ fDeviceOpen' = FALSE
         \/ /\ TransactFails(w, fBranched \/ w # work)
            /\ UNCHANGED <<fMounted, fDeviceOpen>>
      /\ NothingOpen

\* RedVolCriticalError in any other call, or in one of these before it changes
\* a link count.  RedVolFreeOrphans may have freed some defunct orphans then,
\* and the inode of a create remains if freeing it again fails as well.
IoError ==
  /\ Writeable
  /\ \/ \E count \in 0 .. AllDefunct : Aborts(FreeDefunct(work, count))
     \/ \E i \in Inodes, fDirectory \in BOOLEAN :
          IsNewInode(i) /\ Aborts(NewInode(i, fDirectory))
  /\ UNCHANGED <<fMounted, fDeviceOpen, useVars>>

\* The memory is gone.
PowerLoss ==
  /\ work' = cmt /\ UNCHANGED cmt
  /\ fBranched' = FALSE /\ fMounted' = FALSE
  /\ fReadOnly' = FALSE /\ fDeviceOpen' = FALSE
  /\ NothingOpen

-----------------------------------------------------------------------------

EmptyVolume ==
  [ node |-> [i \in Inodes |-> Free], ulDefunctOrphanHead |-> INODE_INVALID,
    ulOrphanHead |-> INODE_INVALID, ulOrphanTail |-> INODE_INVALID ]

Init ==
  /\ work = EmptyVolume /\ cmt = EmptyVolume
  /\ fBranched = FALSE /\ fMounted = FALSE /\ fReadOnly = FALSE
  /\ fDeviceOpen = FALSE
  /\ gaOpenInos = [i \in Inodes |-> Closed]
  /\ gaHandle = [h \in Handles |-> INODE_INVALID]
  /\ pCwd = [t \in Tasks |-> ELSEWHERE]

Next ==
  \/ \E i \in Inodes :
       \/ MakeDirectory(i) \/ Link(i) \/ Unlink(i)
       \/ \E j \in Inodes : Rename(i, j)
       \/ \E h \in Handles : Open(h, i) \/ OpenNew(h, i)
       \/ \E t \in Tasks : ChangeDirectory(t, i)
  \/ \E h \in Handles : HandleClose(h) \/ HandleCloseFails(h)
  \/ \E t \in Tasks : LeaveDirectory(t)
  \/ \E ulCount \in 1 .. AllDefunct : FreeOrphans(ulCount)
  \/ CoreFull \/ Transact \/ Rollback \/ RollbackFails
  \/ \E ulFlags \in SUBSET {"RDONLY", "SKIP_DELETE"} : Mount(ulFlags)
  \/ MountFails \/ Unmount \/ UnmountFails \/ IoError \/ PowerLoss

Spec == Init /\ [][Next]_vars

-----------------------------------------------------------------------------
(* Properties.                                                             *)

VolumeStates ==
  [ node : [Inodes -> Nodes], ulDefunctOrphanHead : Links,
    ulOrphanHead : Links, ulOrphanTail : Links ]

TypeOK ==
  /\ work \in VolumeStates /\ cmt \in VolumeStates
  /\ {fBranched, fMounted, fReadOnly, fDeviceOpen} \subseteq BOOLEAN
  /\ gaOpenInos \in
       [Inodes -> [uRefs : 0 .. Cardinality(Handles) + Cardinality(Tasks),
                   fOrphan : BOOLEAN]]
  /\ gaHandle \in [Handles -> Links]
  /\ pCwd \in [Tasks -> Inodes \cup {ELSEWHERE}]

(* The two lists hold the inodes without a name, each of them once, and    *)
(* the tail of the orphan list is its last inode.  RedInodeFreeOrphan      *)
(* would meet a foreign inode, and end in a critical error, otherwise; an  *)
(* orphan in no list could never be freed again.                           *)
ListsExact(w) ==
  /\ Orphans(w) \cap DefunctOrphans(w) = {}
  /\ Orphans(w) \cup DefunctOrphans(w) = {i \in Inodes : IsOrphan(w, i)}
  /\ \A head \in {w.ulOrphanHead, w.ulDefunctOrphanHead} :
       Chain(w, head)[Cardinality(Inodes)] = INODE_INVALID
  /\ IF w.ulOrphanHead = INODE_INVALID THEN w.ulOrphanTail = INODE_INVALID
     ELSE /\ w.ulOrphanTail \in Orphans(w)
          /\ w.node[w.ulOrphanTail].ulNextOrphan = INODE_INVALID

\* They do so for whatever is or may still be committed.  The working state
\* which an I/O error left on a read-only volume never is.
OrphanListsExact == ListsExact(cmt) /\ (~fReadOnly => ListsExact(work))

(* The references that OpenInoDeref counts down are the handles and        *)
(* working directories there are, through I/O errors, forced unmounts and  *)
(* rollbacks, so that the last one to go frees the orphan and no earlier   *)
(* one does; and an inode of a writeable volume which they refer to is not *)
(* freed, whichever names it loses and however often space is reclaimed.   *)
(* An I/O error in a close may free the inode and leave its handle open,   *)
(* and one in a rollback leaves references to what it undid: the volume is *)
(* read-only then.                                                         *)
ReferencedInodesExist ==
  \A i \in Inodes :
    /\ gaOpenInos[i].uRefs =
         Cardinality({h \in Handles : gaHandle[h] = i})
           + Cardinality({t \in Tasks : pCwd[t] = i})
    /\ IsOpen(i) => fMounted /\ (~fReadOnly => Exists(work, i))

(* OIFLAG_ORPHAN says that "the link count of the inode is 0", and such an *)
(* inode is in the list RedCoreFreeOrphan searches when it is closed.  An  *)
(* unlink or rename whose transaction point fails leaves an orphan without *)
(* the flag, but on a read-only volume, where no orphan is freed.          *)
OrphanFlagExact ==
  ~fReadOnly =>
    \A i \in Inodes : IsOpen(i) =>
      /\ gaOpenInos[i].fOrphan <=> IsOrphan(work, i)
      /\ gaOpenInos[i].fOrphan => i \in Orphans(work)

(* An orphan which is not open is defunct, and can be reclaimed while the  *)
(* volume is mounted, unless it was already stranded or a rollback made it *)
(* so: unlinking, closing and leaving never strand one on a volume that    *)
(* can be written.                                                         *)
Stranded == {i \in Orphans(work) : ~IsOpen(i)}

NoStrandedOrphans ==
  [][ Writeable /\ Writeable' /\ ~Rollback => Stranded' \subseteq Stranded ]_vars

(* Whatever a mount with RED_MOUNT_SKIP_DELETE found is freed or remains   *)
(* defunct, within reach of red_freeorphans and of CoreFull, for as long   *)
(* as the volume stays mounted: "the orphaned inodes can be reclaimed       *)
(* later".                                                                 *)
DefunctOrphansReclaimable ==
  [][ Writeable /\ Writeable' =>
        \A i \in DefunctOrphans(work) :
          i \in DefunctOrphans(work') \/ ~IsOrphan(work', i) ]_vars

(* "If specified, the volume will be mounted read-only": a mount with      *)
(* RED_MOUNT_READONLY leaves the files on the volume as they are, so that  *)
(* nothing has to be written to a device that was opened for reading only. *)
ReadOnlyMountChangesNothing ==
  [][ ~fMounted /\ fMounted' /\ fDeviceOpen' /\ fReadOnly' => work'.node = cmt.node ]_vars

(* A volume that counts as mounted has its block device open.              *)
MountedMeansOpen == fMounted => fDeviceOpen
=============================================================================
