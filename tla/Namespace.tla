------------------------------ MODULE Namespace ------------------------------
(***************************************************************************)
(* The names of one volume under every sequence of calls that change them, *)
(* each of which may run out of space or meet an I/O error in any of its   *)
(* steps.                                                                  *)
(***************************************************************************)
EXTENDS Dir

CONSTANTS
  Types                  \* what callers create

ASSUME NamespaceAssumption == Types \subseteq {"DIR", "REG", "LNK"}

VARIABLES
  vol,                   \* the volume
  fOk                    \* did the last call succeed?

vars == <<vol, fOk>>

-----------------------------------------------------------------------------
(* Faults.                                                                 *)

Fine == [dst |-> "OK", src |-> "OK", undo |-> "OK"]

Fault(g) == [one |-> g, two |-> Fine, full |-> FALSE, transact |-> "OK"]

\* The writes of the undo are to blocks the call has branched already, so that
\* they find space.
NoSpaceDst == [Fine EXCEPT !.dst = "ENOSPC"]
NoSpaceSrc == [Fine EXCEPT !.src = "ENOSPC"]

\* Faults of a call that writes a new entry, of one that deletes an old one,
\* and of a rename, which does both.
OnWrite ==
  {Fault(Fine), Fault(NoSpaceDst), [Fault(NoSpaceDst) EXCEPT !.full = TRUE],
   Fault([Fine EXCEPT !.dst = "EIO"]), [Fault(Fine) EXCEPT !.transact = "EIO"]}

OnDelete ==
  {Fault(Fine), Fault(NoSpaceSrc), [Fault(NoSpaceSrc) EXCEPT !.full = TRUE],
   Fault([Fine EXCEPT !.src = "EIO"])}

OnRename ==
  OnWrite \cup OnDelete \cup
    {Fault([NoSpaceSrc EXCEPT !.undo = "EIO"]),
     [Fault(NoSpaceSrc) EXCEPT !.full = TRUE, !.two = NoSpaceSrc]}

-----------------------------------------------------------------------------

Returns(r) == vol' = r.v /\ fOk' = (r.ret = "OK")

\* A path is resolved from a directory that was not removed.
Resolvable(p) == RedCoreDirParent(vol, p).ret = "OK"

Create(p, name, type, f) ==
  /\ Resolvable(p)
  /\ Returns(RedCoreCreate(vol, p, name, type, f))

\* The inode is found by another of its names.
Link(p, name, ino, f) ==
  /\ Resolvable(p) /\ ino \notin vol.orphans
  /\ Returns(RedCoreLink(vol, p, name, ino, f))

\* fOrphan says whether the inode is in use.
Unlink(p, name, fOrphan, f) ==
  /\ Resolvable(p)
  /\ Returns(RedCoreUnlink(vol, p, name, fOrphan, f))

Rename(srcP, srcName, dstP, dstName, fOrphan, f) ==
  /\ Resolvable(srcP) /\ Resolvable(dstP)
  /\ Returns(RedCoreRename(vol, srcP, srcName, dstP, dstName, fOrphan, f))

\* The last user of an inode without a name closes it.
Close(i) ==
  /\ Writeable(vol) /\ i \in vol.orphans
  /\ Returns(Done(FreeOrphan(vol, i)))

Init == vol = EmptyVolume /\ fOk = TRUE

\* A call on a name that does not exist gets to no step that could fail.
FaultsFor(p, name, faults) ==
  IF RedCoreLookup(vol, p, name).ret = "OK" THEN faults ELSE {Fault(Fine)}

Next ==
  \/ \E p \in Inodes, name \in Names :
       \/ \E type \in Types, f \in OnWrite : Create(p, name, type, f)
       \/ \E ino \in Inodes, f \in OnWrite : Link(p, name, ino, f)
       \/ \E fOrphan \in BOOLEAN, f \in FaultsFor(p, name, OnDelete) :
            Unlink(p, name, fOrphan, f)
       \/ \E q \in Inodes, to \in Names, fOrphan \in BOOLEAN,
             f \in FaultsFor(p, name, OnRename) :
            Rename(p, name, q, to, fOrphan, f)
  \/ \E i \in Inodes : Close(i)

Spec == Init /\ [][Next]_vars

-----------------------------------------------------------------------------
(* Properties.  After an I/O error the volume is read-only and the state   *)
(* in memory is given up with the next mount.                              *)

Consistent == ~vol.fReadOnly

TypeOK ==
  /\ vol \in [node : [Inodes -> Nodes], orphans : SUBSET Inodes,
              fMounted : BOOLEAN, fReadOnly : BOOLEAN]
  /\ fOk \in BOOLEAN

(* The entries that reads one after the other give, each from the position *)
(* where the last one stopped, until one gives RED_ENOENT.                 *)
EntriesRead(d) ==
  LET pos[n \in 0 .. DIRENTS_MAX] ==
        IF n = 0 THEN 0 ELSE RedCoreDirRead(vol, d, pos[n - 1]).pos
      reads == {n \in 0 .. DIRENTS_MAX - 1 : RedCoreDirRead(vol, d, pos[n]).ret = "OK"}
  IN  {RedCoreDirRead(vol, d, pos[n]).entry : n \in reads}

(* The size of a directory, the only record of how many entries it has, is *)
(* that of its entries up to the last one in use, across the headers and   *)
(* the unused ends of its blocks: no entry is out of reach of a lookup or  *)
(* of a reader, and a directory without entries has size 0, so that it can *)
(* be removed.                                                             *)
DirSizesExact ==
  Consistent => \A d \in Inodes : IsDir(vol, d) =>
    /\ Count(vol, d) =
         Max({-1} \cup {i \in 0 .. DIRENTS_MAX - 1 : Used(vol, d, i)}) + 1
    /\ vol.node[d].ullSize = 0 <=> Entries(vol, d) = {}
    /\ EntriesRead(d) = Entries(vol, d)

NamesOf(i) ==
  {e \in {d \in Inodes : IsDir(vol, d)} \X (0 .. DIRENTS_MAX - 1) :
     vol.node[e[1]].dirents[e[2]].ino = i}

(* Every name leads to an inode and every link count is the number of the  *)
(* names, whichever step of a create, link, unlink or rename failed; a     *)
(* directory has one name, in the directory its ulPInode says, from which  *)
(* ".." is resolved; and no two entries of a directory have the same name. *)
LinkCountsExact ==
  Consistent => \A i \in Inodes :
    /\ Cardinality(NamesOf(i)) =
         IF i = ROOT \/ ~Exists(vol, i) THEN 0 ELSE vol.node[i].uNLink
    /\ IsDir(vol, i) =>
         /\ \A e \in NamesOf(i) : e[1] = vol.node[i].ulPInode
         /\ \A j, k \in 0 .. DIRENTS_MAX - 1 :
              Used(vol, i, j) /\ vol.node[i].dirents[j].name = vol.node[i].dirents[k].name => j = k

(* Every inode can be reached from the root or is an orphan: no sequence   *)
(* of renames ties a directory into its own subtree, no failed call leaves *)
(* an inode behind, nothing is created in a directory that was removed.    *)
Below[n \in 0 .. Cardinality(Inodes)] ==
  IF n = 0 THEN {ROOT}
  ELSE Below[n - 1] \cup
       {e.ino : e \in UNION {Entries(vol, d) : d \in {i \in Below[n - 1] : IsDir(vol, i)}}}

TreeConnected ==
  Consistent => {i \in Inodes : Exists(vol, i)} =
                  Below[Cardinality(Inodes)] \cup vol.orphans

(* A call that fails changes no name and no inode, whichever of its steps  *)
(* failed and whether or not it was tried again after CoreFull.            *)
FailedCallsChangeNothing ==
  [][fOk' \/ vol'.fReadOnly \/ vol'.node = vol.node]_vars

(* A reader which calls RedCoreDirRead again and again gets every entry    *)
(* that was there all along, and gets it once, whatever is created,        *)
(* removed and renamed between the calls: an entry never moves within its  *)
(* directory.                                                              *)
EntriesKeepPlace ==
  [][ Consistent' => \A d \in Inodes, i \in 0 .. DIRENTS_MAX - 1 :
        LET e == vol.node[d].dirents[i]
        IN  Used(vol, d, i) /\ e \in Entries(vol', d) => vol'.node[d].dirents[i] = e ]_vars
=============================================================================
