--------------------------- MODULE NamespaceProofs ---------------------------
(***************************************************************************)
(* Theorems about Namespace, for any number of inodes, names and entries,  *)
(* and for every size of blocks, entries and node headers.  What one       *)
(* attempt of a call does is in DirProofs.                                 *)
(***************************************************************************)
EXTENDS Namespace, DirProofs

-----------------------------------------------------------------------------
(* The entry points.                                                       *)

\* The result r of an entry point on v.
Settled(v, r) ==
  /\ r.v \in DirVolumes
  /\ r.v.fReadOnly \/ (Tidy(r.v) /\ Follows(v, r.v) /\ (r.ret = "OK" \/ r.v = v))

\* Which fault each step of a call may meet.
FaultOfStep(g) == g.dst \in Outcomes /\ g.src \in Outcomes /\ g.undo \in {"OK", "EIO"}

(* The faults that calls are given.                                        *)
LEMMA FaultsAre ==
  ASSUME NEW f \in OnRename
  PROVE  FaultOfStep(f.one) /\ FaultOfStep(f.two)
<1>1. /\ FaultOfStep(Fine) /\ FaultOfStep(NoSpaceDst) /\ FaultOfStep(NoSpaceSrc)
      /\ FaultOfStep([Fine EXCEPT !.dst = "EIO"]) /\ FaultOfStep([Fine EXCEPT !.src = "EIO"])
      /\ FaultOfStep([NoSpaceSrc EXCEPT !.undo = "EIO"])
  BY DEF FaultOfStep, Fine, NoSpaceDst, NoSpaceSrc, Outcomes
<1>2. \A g : Fault(g).one = g /\ Fault(g).two = Fine
  BY DEF Fault
<1>3. \A g : /\ [Fault(g) EXCEPT !.full = TRUE].one = g /\ [Fault(g) EXCEPT !.full = TRUE].two = Fine
             /\ [Fault(g) EXCEPT !.transact = "EIO"].one = g /\ [Fault(g) EXCEPT !.transact = "EIO"].two = Fine
             /\ [Fault(g) EXCEPT !.full = TRUE, !.two = NoSpaceSrc].one = g
             /\ [Fault(g) EXCEPT !.full = TRUE, !.two = NoSpaceSrc].two = NoSpaceSrc
  BY DEF Fault
<1>4. \A g : FaultOfStep(g) =>
        \A h \in {Fault(g), [Fault(g) EXCEPT !.full = TRUE], [Fault(g) EXCEPT !.transact = "EIO"],
                [Fault(g) EXCEPT !.full = TRUE, !.two = NoSpaceSrc]} :
          FaultOfStep(h.one) /\ FaultOfStep(h.two)
  BY ONLY <1>1, <1>2, <1>3
<1>5. PICK dstErr, srcErr, undoErr : /\ dstErr = [Fine EXCEPT !.dst = "EIO"] /\ srcErr = [Fine EXCEPT !.src = "EIO"]
                                     /\ undoErr = [NoSpaceSrc EXCEPT !.undo = "EIO"]
  OBVIOUS
<1>6. \E g \in {Fine, NoSpaceDst, NoSpaceSrc, dstErr, srcErr, undoErr} :
        f \in {Fault(g), [Fault(g) EXCEPT !.full = TRUE], [Fault(g) EXCEPT !.transact = "EIO"],
              [Fault(g) EXCEPT !.full = TRUE, !.two = NoSpaceSrc]}
  BY ONLY f \in OnRename, <1>5 DEF OnRename, OnWrite, OnDelete
<1>7. PICK g \in {Fine, NoSpaceDst, NoSpaceSrc, dstErr, srcErr, undoErr} :
        f \in {Fault(g), [Fault(g) EXCEPT !.full = TRUE], [Fault(g) EXCEPT !.transact = "EIO"],
              [Fault(g) EXCEPT !.full = TRUE, !.two = NoSpaceSrc]}
  BY ONLY <1>6
<1>8. FaultOfStep(g)
  BY ONLY <1>1, <1>5
<1>. QED  BY ONLY <1>4, <1>7, <1>8

(* A call that is tried once more and followed by a transaction point.     *)
LEMMA RetryIsSettled ==
  ASSUME NEW v, v \in DirVolumes, Tidy(v), NEW one, Good(v, one), NEW two, Good(v, two), NEW f,
         NEW r, r = Transacted(IF one.ret = "ENOSPC" /\ f.full THEN two ELSE one, f)
  PROVE  Settled(v, r)
<1>1. PICK s : s = IF one.ret = "ENOSPC" /\ f.full THEN two ELSE one
  OBVIOUS
<1>2. Good(v, s)
  BY <1>1
<1>3. r = Transacted(s, f)
  BY <1>1
<1>4. CASE s.ret = "OK" /\ f.transact = "EIO"
  <2>1. r.v = Critical(s.v)
    BY <1>3, <1>4 DEF Transacted, Failed
  <2>2. Critical(s.v) \in DirVolumes /\ Critical(s.v).fReadOnly
    BY <1>2, CriticalIs DEF Good
  <2>. QED  BY <2>1, <2>2 DEF Settled
<1>5. CASE ~(s.ret = "OK" /\ f.transact = "EIO")
  <2>1. r = s
    BY <1>3, <1>5 DEF Transacted
  <2>. QED  BY <1>2, <2>1 DEF Settled, Good
<1>. QED  BY <1>4, <1>5

(* A path never starts at a directory that was removed.                    *)
LEMMA ResolvableIs ==
  ASSUME Tidy(vol), NEW p, Resolvable(p)
  PROVE  p \notin vol.orphans
<1>. SUFFICES ASSUME p \in vol.orphans PROVE FALSE
  OBVIOUS
<1>1. p # ROOT /\ (IsDir(vol, p) => vol.node[p].ulPInode = INODE_INVALID)
  BY DEF Tidy, TidyOff, Orphaned
<1>2. CASE IsDir(vol, p)
  BY <1>1, <1>2 DEF Resolvable, RedCoreDirParent
<1>3. CASE ~IsDir(vol, p)
  BY <1>1, <1>3 DEF Resolvable, RedCoreDirParent, MountDir
<1>. QED  BY <1>2, <1>3

(* RedCoreCreate.                                                          *)
LEMMA RedCoreCreateIs ==
  ASSUME NEW v, v \in DirVolumes, Tidy(v), NEW p \in Inodes, p \notin v.orphans, NEW name \in Names,
         NEW type \in Types, NEW f \in OnWrite, Writeable(v)
  PROVE  Settled(v, RedCoreCreate(v, p, name, type, f))
<1>1. f.one.dst \in Outcomes /\ f.two.dst \in Outcomes
  BY FaultsAre DEF OnRename, FaultOfStep
<1>2. PICK one : one = CoreCreate(v, p, name, type, f.one.dst)
  OBVIOUS
<1>3. PICK two : two = CoreCreate(v, p, name, type, f.two.dst)
  OBVIOUS
<1>4. type \in {"DIR", "REG", "LNK"}
  BY NamespaceAssumption
<1>5. Good(v, one) /\ Good(v, two)
  BY <1>1, <1>2, <1>3, <1>4, CreateGood
<1>6. one.ret = "ENOSPC" => one.v = v
  BY <1>5 DEF Good
<1>7. RedCoreCreate(v, p, name, type, f) = Transacted(IF one.ret = "ENOSPC" /\ f.full THEN two ELSE one, f)
  BY ONLY <1>2, <1>3, <1>6, Writeable(v) DEF RedCoreCreate, Retried
<1>. QED  BY <1>5, <1>7, RetryIsSettled

(* RedCoreLink.                                                            *)
LEMMA RedCoreLinkIs ==
  ASSUME NEW v, v \in DirVolumes, Tidy(v), NEW p \in Inodes, p \notin v.orphans, NEW name \in Names,
         NEW x \in Inodes, x \notin v.orphans, NEW f \in OnWrite, Writeable(v)
  PROVE  Settled(v, RedCoreLink(v, p, name, x, f))
<1>1. f.one.dst \in Outcomes /\ f.two.dst \in Outcomes
  BY FaultsAre DEF OnRename, FaultOfStep
<1>2. PICK one : one = CoreLink(v, p, name, x, f.one.dst)
  OBVIOUS
<1>3. PICK two : two = CoreLink(v, p, name, x, f.two.dst)
  OBVIOUS
<1>5. Good(v, one) /\ Good(v, two)
  BY <1>1, <1>2, <1>3, LinkGood
<1>6. one.ret = "ENOSPC" => one.v = v
  BY <1>5 DEF Good
<1>7. RedCoreLink(v, p, name, x, f) = Transacted(IF one.ret = "ENOSPC" /\ f.full THEN two ELSE one, f)
  BY ONLY <1>2, <1>3, <1>6, Writeable(v) DEF RedCoreLink, Retried
<1>. QED  BY <1>5, <1>7, RetryIsSettled

(* RedCoreUnlink.                                                          *)
LEMMA RedCoreUnlinkIs ==
  ASSUME NEW v, v \in DirVolumes, Tidy(v), NEW p \in Inodes, p \notin v.orphans, NEW name,
         NEW fOrphan, NEW f \in OnRename, Writeable(v)
  PROVE  Settled(v, RedCoreUnlink(v, p, name, fOrphan, f))
<1>1. f.one.src \in Outcomes /\ f.two.src \in Outcomes
  BY FaultsAre DEF FaultOfStep
<1>2. PICK one : one = CoreUnlink(v, p, name, fOrphan, f.one.src)
  OBVIOUS
<1>3. PICK two : two = CoreUnlink(v, p, name, fOrphan, f.two.src)
  OBVIOUS
<1>5. Good(v, one) /\ Good(v, two)
  BY <1>1, <1>2, <1>3, UnlinkGood
<1>6. one.ret = "ENOSPC" => one.v = v
  BY <1>5 DEF Good
<1>7. RedCoreUnlink(v, p, name, fOrphan, f) = Transacted(IF one.ret = "ENOSPC" /\ f.full THEN two ELSE one, f)
  BY ONLY <1>2, <1>3, <1>6, Writeable(v) DEF RedCoreUnlink, Retried
<1>. QED  BY <1>5, <1>7, RetryIsSettled

(* RedCoreRename.                                                          *)
LEMMA RedCoreRenameIs ==
  ASSUME NEW v, v \in DirVolumes, Tidy(v), NEW p, p \notin v.orphans, NEW name,
         NEW q, q \notin v.orphans, NEW to \in Names, NEW fOrphan, NEW f \in OnRename, Writeable(v)
  PROVE  Settled(v, RedCoreRename(v, p, name, q, to, fOrphan, f))
<1>1. FaultOfStep(f.one) /\ FaultOfStep(f.two)
  BY FaultsAre
<1>2. PICK one : one = CoreRename(v, p, name, q, to, fOrphan, f.one)
  OBVIOUS
<1>3. PICK two : two = CoreRename(v, p, name, q, to, fOrphan, f.two)
  OBVIOUS
<1>4. \A g : FaultOfStep(g) => Good(v, CoreRename(v, p, name, q, to, fOrphan, g))
  BY RenameGood DEF FaultOfStep
<1>5. Good(v, one) /\ Good(v, two)
  BY <1>1, <1>2, <1>3, <1>4
<1>6. one.ret = "ENOSPC" => one.v = v
  BY <1>5 DEF Good
<1>7. RedCoreRename(v, p, name, q, to, fOrphan, f) =
        Transacted(IF one.ret = "ENOSPC" /\ f.full THEN two ELSE one, f)
  BY ONLY <1>2, <1>3, <1>6, Writeable(v) DEF RedCoreRename, Retried
<1>. QED  BY <1>5, <1>7, RetryIsSettled

-----------------------------------------------------------------------------
(* The invariant, and what every step does.                                *)

IInv == TypeOK /\ (Consistent => Tidy(vol))

\* A step that changes a volume.
StepSettled ==
  /\ vol' \in DirVolumes /\ fOk' \in BOOLEAN
  /\ vol'.fReadOnly \/ (Tidy(vol') /\ Follows(vol, vol') /\ (fOk' \/ vol' = vol))

(* The step that gives the result of a call.                               *)
LEMMA ReturnsIs ==
  ASSUME NEW r, Settled(vol, r), Returns(r)
  PROVE  StepSettled
BY DEF Settled, Returns, StepSettled

(* A call on a volume that is read-only changes nothing.                   *)
LEMMA RefusedIs ==
  ASSUME IInv, NEW r, r.v = vol, Returns(r)
  PROVE  StepSettled
<1>1. vol' = vol /\ fOk' \in BOOLEAN
  BY DEF Returns
<1>2. vol \in DirVolumes
  BY DEF IInv, TypeOK, DirVolumes
<1>3. Follows(vol, vol)
  BY DEF Follows
<1>. QED  BY <1>1, <1>2, <1>3 DEF StepSettled, IInv, Consistent

(* Every step.                                                             *)
LEMMA NextIs ==
  ASSUME IInv, Next
  PROVE  StepSettled
<1>1. vol \in DirVolumes
  BY DEF IInv, TypeOK, DirVolumes
<1>2. Writeable(vol) => Tidy(vol)
  BY DEF IInv, Consistent, Writeable
<1>3. OnWrite \subseteq OnRename /\ OnDelete \subseteq OnRename /\ Fault(Fine) \in OnRename
  BY DEF OnRename, OnWrite
<1>4. \A p, name : FaultsFor(p, name, OnDelete) \subseteq OnRename /\ FaultsFor(p, name, OnRename) \subseteq OnRename
  BY <1>3 DEF FaultsFor
<1>5. ASSUME NEW p \in Inodes, NEW name \in Names, NEW type \in Types, NEW f \in OnWrite, Create(p, name, type, f)
      PROVE  StepSettled
  <2>1. PICK r : r = RedCoreCreate(vol, p, name, type, f)
    OBVIOUS
  <2>2. Returns(r)
    BY <1>5, <2>1 DEF Create
  <2>3. CASE Writeable(vol)
    <3>1. p \notin vol.orphans
      BY <1>2, <1>5, <2>3, ResolvableIs DEF Create
    <3>. QED  BY <1>1, <1>2, <2>1, <2>2, <2>3, <3>1, RedCoreCreateIs, ReturnsIs
  <2>4. CASE ~Writeable(vol)
    <3>1. r.v = vol
      BY <2>1, <2>4 DEF RedCoreCreate
    <3>. QED  BY <2>2, <3>1, RefusedIs
  <2>. QED  BY <2>3, <2>4
<1>6. ASSUME NEW p \in Inodes, NEW name \in Names, NEW x \in Inodes, NEW f \in OnWrite, Link(p, name, x, f)
      PROVE  StepSettled
  <2>1. PICK r : r = RedCoreLink(vol, p, name, x, f)
    OBVIOUS
  <2>2. Returns(r) /\ x \notin vol.orphans
    BY <1>6, <2>1 DEF Link
  <2>3. CASE Writeable(vol)
    <3>1. p \notin vol.orphans
      BY <1>2, <1>6, <2>3, ResolvableIs DEF Link
    <3>. QED  BY <1>1, <1>2, <2>1, <2>2, <2>3, <3>1, RedCoreLinkIs, ReturnsIs
  <2>4. CASE ~Writeable(vol)
    <3>1. r.v = vol
      BY <2>1, <2>4 DEF RedCoreLink, NotWriteable, Failed
    <3>. QED  BY <2>2, <3>1, RefusedIs
  <2>. QED  BY <2>3, <2>4
<1>7. ASSUME NEW p \in Inodes, NEW name \in Names, NEW fOrphan \in BOOLEAN,
             NEW f \in FaultsFor(p, name, OnDelete), Unlink(p, name, fOrphan, f)
      PROVE  StepSettled
  <2>1. PICK r : r = RedCoreUnlink(vol, p, name, fOrphan, f)
    OBVIOUS
  <2>2. Returns(r) /\ f \in OnRename
    BY <1>4, <1>7, <2>1 DEF Unlink
  <2>3. CASE Writeable(vol)
    <3>1. p \notin vol.orphans
      BY <1>2, <1>7, <2>3, ResolvableIs DEF Unlink
    <3>. QED  BY <1>1, <1>2, <2>1, <2>2, <2>3, <3>1, RedCoreUnlinkIs, ReturnsIs
  <2>4. CASE ~Writeable(vol)
    <3>1. r.v = vol
      BY <2>1, <2>4 DEF RedCoreUnlink, NotWriteable, Failed
    <3>. QED  BY <2>2, <3>1, RefusedIs
  <2>. QED  BY <2>3, <2>4
<1>8. ASSUME NEW p \in Inodes, NEW name \in Names, NEW q \in Inodes, NEW to \in Names, NEW fOrphan \in BOOLEAN,
             NEW f \in FaultsFor(p, name, OnRename), Rename(p, name, q, to, fOrphan, f)
      PROVE  StepSettled
  <2>1. PICK r : r = RedCoreRename(vol, p, name, q, to, fOrphan, f)
    OBVIOUS
  <2>2. Returns(r) /\ f \in OnRename
    BY <1>4, <1>8, <2>1 DEF Rename
  <2>3. CASE Writeable(vol)
    <3>1. p \notin vol.orphans /\ q \notin vol.orphans
      BY <1>2, <1>8, <2>3, ResolvableIs DEF Rename
    <3>. QED  BY <1>1, <1>2, <2>1, <2>2, <2>3, <3>1, RedCoreRenameIs, ReturnsIs
  <2>4. CASE ~Writeable(vol)
    <3>1. r.v = vol
      BY <2>1, <2>4 DEF RedCoreRename, NotWriteable, Failed
    <3>. QED  BY <2>2, <3>1, RefusedIs
  <2>. QED  BY <2>3, <2>4
<1>9. ASSUME NEW x \in Inodes, Close(x) PROVE StepSettled
  <2>1. PICK w : w = FreeOrphan(vol, x)
    OBVIOUS
  <2>2. Writeable(vol) /\ x \in vol.orphans /\ vol' = w /\ fOk' = TRUE
    BY <1>9, <2>1 DEF Close, Returns, Done
  <2>3. /\ w \in DirVolumes /\ Tidy(w)
        /\ \A i \in Inodes : i # x => w.node[i] = vol.node[i]
        /\ x \in Inodes /\ w.node[x].dirents = NoDirents
    BY <1>1, <1>2, <2>1, <2>2, FreeOrphanTidy
  <2>4. Follows(vol, vol)
    BY DEF Follows
  <2>5. \A i \in Inodes : w.node[i].dirents = vol.node[i].dirents \/ w.node[i].dirents = NoDirents
    BY <2>3
  <2>6. Follows(vol, w)
    BY ONLY <2>4, <2>5, FollowsOn
  <2>. QED  BY ONLY <2>2, <2>3, <2>6 DEF StepSettled
<1>. QED  BY ONLY Next, <1>5, <1>6, <1>7, <1>8, <1>9 DEF Next

(* No step writes a volume that is read-only.                              *)
LEMMA ReadOnlyStays ==
  ASSUME Next, vol.fReadOnly
  PROVE  vol' = vol
<1>1. ~Writeable(vol)
  BY DEF Writeable
<1>2. ASSUME NEW p, NEW name, NEW type, NEW f, Create(p, name, type, f) PROVE vol' = vol
  BY <1>1, <1>2 DEF Create, Returns, RedCoreCreate
<1>3. ASSUME NEW p, NEW name, NEW x, NEW f, Link(p, name, x, f) PROVE vol' = vol
  BY <1>1, <1>3 DEF Link, Returns, RedCoreLink, NotWriteable, Failed
<1>4. ASSUME NEW p, NEW name, NEW fOrphan, NEW f, Unlink(p, name, fOrphan, f) PROVE vol' = vol
  BY <1>1, <1>4 DEF Unlink, Returns, RedCoreUnlink, NotWriteable, Failed
<1>5. ASSUME NEW p, NEW name, NEW q, NEW to, NEW fOrphan, NEW f, Rename(p, name, q, to, fOrphan, f)
      PROVE  vol' = vol
  BY <1>1, <1>5 DEF Rename, Returns, RedCoreRename, NotWriteable, Failed
<1>6. ASSUME NEW x, Close(x) PROVE FALSE
  BY <1>1, <1>6 DEF Close
<1>. QED  BY ONLY Next, <1>2, <1>3, <1>4, <1>5, <1>6 DEF Next

(* A new volume is consistent.                                             *)
LEMMA InitIs ==
  ASSUME Init
  PROVE  IInv
<1>1. EmptyVolume \in DirVolumes /\ Tidy(EmptyVolume)
  BY EmptyTidy
<1>2. vol = EmptyVolume /\ fOk = TRUE
  BY DEF Init
<1>. QED  BY <1>1, <1>2 DEF IInv, TypeOK, DirVolumes, Consistent

(* Every step keeps the invariant.                                         *)
LEMMA InvariantStep ==
  ASSUME IInv, [Next]_vars
  PROVE  IInv'
<1>1. CASE Next
  <2>1. StepSettled
    BY <1>1, NextIs
  <2>2. PICK w : w = vol'
    OBVIOUS
  <2>. QED  BY <2>1 DEF StepSettled, IInv, TypeOK, DirVolumes, Consistent
<1>2. CASE UNCHANGED vars
  <2>1. vol' = vol /\ fOk' = fOk
    BY <1>2 DEF vars
  <2>2. PICK u, w : u = vol /\ w = vol'
    OBVIOUS
  <2>3. u = w
    BY <2>1, <2>2
  <2>4. (Consistent => Tidy(vol)) <=> (~u.fReadOnly => Tidy(u))
    BY <2>2 DEF Consistent
  <2>5. (Consistent => Tidy(vol))' <=> (~w.fReadOnly => Tidy(w))
    BY <2>2 DEF Consistent
  <2>6. TypeOK'
    BY <2>1 DEF IInv, TypeOK, Nodes
  <2>. QED  BY <2>3, <2>4, <2>5, <2>6 DEF IInv
<1>. QED  BY <1>1, <1>2

(* The invariant holds.                                                    *)
LEMMA Invariant == Spec => []IInv
<1>. QED  BY InitIs, InvariantStep, PTL DEF Spec

-----------------------------------------------------------------------------

(* The volume stays well-formed: no link count, parent, size or entry that *)
(* a call writes is out of its range, whatever fails.                      *)
THEOREM TypeCorrect == Spec => []TypeOK
<1>1. IInv => TypeOK
  BY DEF IInv
<1>. QED  BY <1>1, Invariant, PTL

(* A call that fails has changed no inode and no entry, unless an I/O      *)
(* error made the volume read-only: whichever of its steps failed, a       *)
(* create, link, unlink or rename has undone the steps before.             *)
THEOREM FailedCallsAreUndone == Spec => FailedCallsChangeNothing
<1>1. ASSUME IInv, [Next]_vars
      PROVE  [fOk' \/ vol'.fReadOnly \/ vol'.node = vol.node]_vars
  <2>1. CASE Next
    BY <2>1, <1>1, NextIs DEF StepSettled
  <2>2. CASE UNCHANGED vars
    BY <2>2
  <2>. QED  BY <1>1, <2>1, <2>2
<1>. QED  BY <1>1, Invariant, PTL DEF Spec, FailedCallsChangeNothing

(* While it is in use an entry stays where it is in its directory, so that *)
(* a reader which goes on from its last position meets it exactly once.    *)
THEOREM ReadersMissNothing == Spec => EntriesKeepPlace
<1>1. ASSUME IInv, [Next]_vars
      PROVE  [ Consistent' => \A d \in Inodes, i \in 0 .. DIRENTS_MAX - 1 :
                 LET e == vol.node[d].dirents[i]
                 IN  Used(vol, d, i) /\ e \in Entries(vol', d) => vol'.node[d].dirents[i] = e ]_vars
  <2>1. CASE Next
    <3>1. StepSettled
      BY <1>1, <2>1, NextIs
    <3>. SUFFICES ASSUME Consistent'
                  PROVE  \A d \in Inodes, i \in 0 .. DIRENTS_MAX - 1 :
                           LET e == vol.node[d].dirents[i]
                           IN  Used(vol, d, i) /\ e \in Entries(vol', d) => vol'.node[d].dirents[i] = e
      OBVIOUS
    <3>2. PICK v, w : v = vol /\ w = vol'
      OBVIOUS
    <3>3. ~w.fReadOnly
      BY <3>2 DEF Consistent
    <3>4. Follows(v, w)
      BY <3>1, <3>2, <3>3 DEF StepSettled
    <3>5. Tidy(v)
      <4>1. CASE vol.fReadOnly
        <5>1. vol' = vol
          BY <2>1, <4>1, ReadOnlyStays
        <5>. QED  BY <3>2, <3>3, <4>1, <5>1
      <4>2. CASE ~vol.fReadOnly
        BY <1>1, <3>2, <4>2 DEF IInv, Consistent
      <4>. QED  BY <4>1, <4>2
    <3>6. KeepsPlace(v, w)
      BY <3>4, <3>5, KeepsPlaceIs DEF Tidy, TidyOff
    <3>. QED  BY <3>2, <3>6 DEF KeepsPlace
  <2>2. CASE UNCHANGED vars
    BY <2>2
  <2>. QED  BY <1>1, <2>1, <2>2
<1>. QED  BY <1>1, Invariant, PTL DEF Spec, EntriesKeepPlace

(* A consistent volume has exact link counts.                              *)
LEMMA TidyCounts ==
  ASSUME vol \in DirVolumes, Tidy(vol)
  PROVE  LinkCountsExact
<1>. SUFFICES ASSUME NEW i \in Inodes
              PROVE  /\ Cardinality(NamesOf(i)) = IF i = ROOT \/ ~Exists(vol, i) THEN 0 ELSE vol.node[i].uNLink
                     /\ IsDir(vol, i) =>
                          /\ \A e \in NamesOf(i) : e[1] = vol.node[i].ulPInode
                          /\ \A j, k \in 0 .. DIRENTS_MAX - 1 :
                               Used(vol, i, j) /\ vol.node[i].dirents[j].name = vol.node[i].dirents[k].name => j = k
  BY DEF LinkCountsExact
<1>1. NamesOf(i) = NamesIn(vol, i)
  BY DEF NamesOf, NamesIn
<1>2. i # INODE_INVALID
  BY DirAssumption
<1>3. \A e \in NamesOf(i) : Leads(vol, e[1], e[2], i)
  BY <1>1, NamesInIs
<1>4. \A d, k : Leads(vol, d, k, i) => i # ROOT /\ Exists(vol, i)
  BY <1>2 DEF Leads, Used, IsDir, Exists, Tidy, TidyOff, NamesLead
<1>5. Cardinality(NamesOf(i)) = IF i = ROOT \/ ~Exists(vol, i) THEN 0 ELSE vol.node[i].uNLink
  <2>1. CASE i = ROOT \/ ~Exists(vol, i)
    <3>1. NamesOf(i) = {}
      BY <1>3, <1>4, <2>1
    <3>. QED  BY <2>1, <3>1, FS_EmptySet
  <2>2. CASE i # ROOT /\ Exists(vol, i)
    <3>1. Cardinality(NamesIn(vol, i)) = vol.node[i].uNLink + Exact[i]
      BY <2>2 DEF Tidy, TidyOff, CountsOff
    <3>2. Exact[i] = 0 /\ vol.node[i].uNLink \in Nat
      BY OffValues, LinkCountIsNat
    <3>. QED  BY <1>1, <2>2, <3>1, <3>2
  <2>. QED  BY <2>1, <2>2
<1>6. ASSUME IsDir(vol, i), NEW e \in NamesOf(i) PROVE e[1] = vol.node[i].ulPInode
  <2>1. i # ROOT /\ Leads(vol, e[1], e[2], i)
    BY <1>3, <1>4, <1>6
  <2>. QED  BY <1>2, <1>6, <2>1 DEF Tidy, TidyOff, OneParent
<1>7. ASSUME IsDir(vol, i), NEW j \in 0 .. DIRENTS_MAX - 1, NEW k \in 0 .. DIRENTS_MAX - 1,
             Used(vol, i, j), vol.node[i].dirents[j].name = vol.node[i].dirents[k].name
      PROVE  j = k
  <2>1. vol.node[i].dirents[j].name # ""
    BY <1>7 DEF Tidy, TidyOff, NamesLead
  <2>2. Unused.name = ""
    BY DEF Unused
  <2>3. Used(vol, i, k)
    BY <1>7, <2>1, <2>2 DEF Used, Tidy, TidyOff, Shape, Sized
  <2>. QED  BY <1>7, <2>3 DEF Tidy, TidyOff, UniqueNames
<1>. QED  BY <1>5, <1>6, <1>7

(* The reads of a directory: the positions they start from.                *)
ReadFrom(v, d, p) == RedCoreDirRead(v, d, p).pos

\* The first positions, up to the m-th.
ReadsTo(v, d, m, g) ==
  /\ g = [n \in 0 .. m |-> g[n]]
  /\ g[0] = 0 /\ \A n \in 1 .. m : g[n] = ReadFrom(v, d, g[n - 1])

(* Reads can go on.                                                        *)
LEMMA ReadsGoOn ==
  ASSUME NEW v, NEW d, NEW m \in Nat
  PROVE  \E g : ReadsTo(v, d, m, g)
<1>. DEFINE Bad == {n \in Nat : ~\E g : ReadsTo(v, d, n, g)}
<1>1. CASE Bad = {}
  BY <1>1
<1>2. CASE Bad # {}
  <2>1. PICK b \in Bad : \A n \in Bad : b <= n
    BY <1>2, LeastMember
  <2>2. CASE b = 0
    <3>1. PICK g : g = [n \in 0 .. 0 |-> 0]
      OBVIOUS
    <3>2. ReadsTo(v, d, 0, g)
      BY <3>1 DEF ReadsTo
    <3>. QED  BY <2>1, <2>2, <3>2
  <2>3. CASE b # 0
    <3>1. b \in Nat /\ b - 1 \in Nat /\ b - 1 \notin Bad
      BY <2>1, <2>3
    <3>2. PICK g : ReadsTo(v, d, b - 1, g)
      BY <3>1
    <3>3. PICK h : h = [n \in 0 .. b |-> IF n = b THEN ReadFrom(v, d, g[b - 1]) ELSE g[n]]
      OBVIOUS
    <3>4. /\ h[b] = ReadFrom(v, d, g[b - 1])
          /\ \A n \in 0 .. b - 1 : h[n] = g[n]
          /\ h = [n \in 0 .. b |-> h[n]]
      BY <3>1, <3>3
    <3>5. h[0] = 0
      BY <3>1, <3>2, <3>4 DEF ReadsTo
    <3>6. ASSUME NEW n \in 1 .. b PROVE h[n] = ReadFrom(v, d, h[n - 1])
      <4>1. CASE n = b
        <5>1. b - 1 \in 0 .. b - 1
          BY <3>1
        <5>2. h[b - 1] = g[b - 1]
          BY <3>4, <5>1
        <5>. QED  BY <3>4, <4>1, <5>2
      <4>2. CASE n # b
        <5>1. n \in 1 .. b - 1 /\ n \in 0 .. b - 1 /\ n - 1 \in 0 .. b - 1
          BY <3>1, <4>2
        <5>. QED  BY <3>2, <3>4, <5>1 DEF ReadsTo
      <4>. QED  BY <4>1, <4>2
    <3>7. ReadsTo(v, d, b, h)
      BY <3>4, <3>5, <3>6 DEF ReadsTo
    <3>. QED  BY <2>1, <3>7
  <2>. QED  BY <2>2, <2>3
<1>. QED  BY <1>1, <1>2

(* The positions of the reads of a directory, one after the other.         *)
LEMMA ReadsAre ==
  ASSUME NEW d
  PROVE  \E g : /\ ReadsTo(vol, d, DIRENTS_MAX, g)
                /\ EntriesRead(d) = {RedCoreDirRead(vol, d, g[n]).entry : n \in
                     {m \in 0 .. DIRENTS_MAX - 1 : RedCoreDirRead(vol, d, g[m]).ret = "OK"}}
<1>1. DIRENTS_MAX \in Nat
  BY BlockFits
<1>2. PICK g : g = CHOOSE pos : pos = [n \in 0 .. DIRENTS_MAX |->
                                         IF n = 0 THEN 0 ELSE RedCoreDirRead(vol, d, pos[n - 1]).pos]
  OBVIOUS
<1>3. EntriesRead(d) = {RedCoreDirRead(vol, d, g[n]).entry : n \in
                     {m \in 0 .. DIRENTS_MAX - 1 : RedCoreDirRead(vol, d, g[m]).ret = "OK"}}
  BY ONLY <1>2 DEF EntriesRead
<1>4. PICK h : ReadsTo(vol, d, DIRENTS_MAX, h)
  BY <1>1, ReadsGoOn
<1>5. h = [n \in 0 .. DIRENTS_MAX |-> IF n = 0 THEN 0 ELSE RedCoreDirRead(vol, d, h[n - 1]).pos]
  <2>1. ASSUME NEW n \in 0 .. DIRENTS_MAX
        PROVE  h[n] = IF n = 0 THEN 0 ELSE RedCoreDirRead(vol, d, h[n - 1]).pos
    <3>1. n = 0 \/ n \in 1 .. DIRENTS_MAX
      BY <1>1
    <3>. QED  BY <1>4, <3>1 DEF ReadsTo, ReadFrom
  <2>. QED  BY <1>4, <2>1 DEF ReadsTo
<1>6. g = [n \in 0 .. DIRENTS_MAX |-> IF n = 0 THEN 0 ELSE RedCoreDirRead(vol, d, g[n - 1]).pos]
  BY ONLY <1>2, <1>5
<1>7. ReadsTo(vol, d, DIRENTS_MAX, g)
  <2>1. g = [n \in 0 .. DIRENTS_MAX |-> g[n]]
    BY ONLY <1>6
  <2>2. g[0] = 0
    BY ONLY <1>1, <1>6
  <2>3. ASSUME NEW n \in 1 .. DIRENTS_MAX PROVE g[n] = ReadFrom(vol, d, g[n - 1])
    <3>1. n \in 0 .. DIRENTS_MAX /\ n # 0
      BY <1>1
    <3>. QED  BY ONLY <1>6, <3>1 DEF ReadFrom
  <2>. QED  BY ONLY <2>1, <2>2, <2>3 DEF ReadsTo
<1>. QED  BY <1>3, <1>7

\* The read r from p of a directory with n entries.
ReadResult(v, d, n, p, r) ==
  \/ /\ r.ret = "OK"
     /\ \E k \in p .. n - 1 : /\ Used(v, d, k) /\ r.entry = v.node[d].dirents[k] /\ r.pos = k + 1
                              /\ \A i \in p .. n - 1 : Used(v, d, i) => k <= i
  \/ /\ r.ret # "OK" /\ r.pos = n
     /\ \A i \in p .. n - 1 : ~Used(v, d, i)

(* One read.                                                               *)
LEMMA ReadIs ==
  ASSUME NEW v, v.fMounted = TRUE, NEW d, IsDir(v, d), Sized(v, d), NEW n, n = Top(v.node[d].dirents),
         NEW p \in 0 .. n, NEW r, r = RedCoreDirRead(v, d, p)
  PROVE  ReadResult(v, d, n, p, r)
<1>1. Count(v, d) = n /\ n \in 0 .. DIRENTS_MAX /\ DIRENTS_MAX \in Nat
  BY CountIsTop, BlockFits
<1>2. PICK S : S = NextUsed(v, d, p)
  OBVIOUS
<1>3. S = {i \in p .. n - 1 : Used(v, d, i)}
  BY <1>1, <1>2 DEF NextUsed
<1>4. r = IF S # {}
          THEN [ret |-> "OK", pos |-> Min(S) + 1, entry |-> v.node[d].dirents[Min(S)]]
          ELSE [ret |-> "ENOENT", pos |-> n, entry |-> Unused]
  <2>1. r = RedDirEntryRead(v, d, p)
    BY DEF RedCoreDirRead, MountDir, IsDir
  <2>2. r = IF S # {}
          THEN [ret |-> "OK", pos |-> Min(S) + 1, entry |-> v.node[d].dirents[Min(S)]]
          ELSE [ret |-> "ENOENT", pos |-> Count(v, d), entry |-> Unused]
    BY ONLY IsDir(v, d), <1>2, <2>1 DEF RedDirEntryRead
  <2>. QED  BY ONLY <1>1, <2>2
<1>5. CASE S = {}
  BY ONLY <1>1, <1>3, <1>4, <1>5 DEF ReadResult
<1>6. CASE S # {}
  <2>1. S \subseteq Nat
    BY <1>1, <1>3
  <2>2. PICK k : k = Min(S)
    OBVIOUS
  <2>3. k \in S /\ \A i \in S : k <= i
    BY ONLY <1>6, <2>1, <2>2, MinIs
  <2>4. r.ret = "OK" /\ r.pos = k + 1 /\ r.entry = v.node[d].dirents[k]
    BY ONLY <1>4, <1>6, <2>2
  <2>. QED  BY ONLY <1>1, <1>3, <2>3, <2>4 DEF ReadResult
<1>. QED  BY <1>5, <1>6

\* The m-th read starts at position x.
ReadAt(n, m, x) == x \in 0 .. n /\ (x >= m \/ x = n)

(* Where the reads get.                                                    *)
LEMMA ReadsAdvance ==
  ASSUME NEW v, v.fMounted = TRUE, NEW d, IsDir(v, d), Sized(v, d), NEW n, n = Top(v.node[d].dirents),
         NEW g, ReadsTo(v, d, DIRENTS_MAX, g), NEW m \in 0 .. DIRENTS_MAX
  PROVE  ReadAt(n, m, g[m])
<1>. DEFINE Bad == {k \in 0 .. DIRENTS_MAX : ~ReadAt(n, k, g[k])}
<1>1. n \in 0 .. DIRENTS_MAX /\ DIRENTS_MAX \in Nat /\ n \in Nat
  BY CountIsTop, BlockFits
<1>2. CASE Bad = {}
  BY <1>2
<1>3. CASE Bad # {}
  <2>1. Bad \subseteq Nat
    BY <1>1
  <2>. HIDE DEF Bad
  <2>2. PICK b \in Bad : \A k \in Bad : b <= k
    BY <1>3, <2>1, LeastMember
  <2>3. b \in 0 .. DIRENTS_MAX /\ ~ReadAt(n, b, g[b])
    BY <2>2 DEF Bad
  <2>4. CASE b = 0
    <3>1. g[0] = 0
      BY DEF ReadsTo
    <3>. QED  BY ONLY <1>1, <2>3, <2>4, <3>1 DEF ReadAt
  <2>5. CASE b # 0
    <3>1. b \in 1 .. DIRENTS_MAX /\ b - 1 \in 0 .. DIRENTS_MAX /\ ~(b <= b - 1)
      BY <1>1, <2>3, <2>5
    <3>2. b - 1 \notin Bad
      BY <2>2, <3>1
    <3>3. ReadAt(n, b - 1, g[b - 1])
      BY <3>1, <3>2 DEF Bad
    <3>4. PICK p : p = g[b - 1]
      OBVIOUS
    <3>5. p \in 0 .. n /\ (p >= b - 1 \/ p = n)
      BY ONLY <3>3, <3>4 DEF ReadAt
    <3>6. PICK r : r = RedCoreDirRead(v, d, p)
      OBVIOUS
    <3>7. g[b] = r.pos
      BY <3>1, <3>4, <3>6 DEF ReadsTo, ReadFrom
    <3>8. r.pos = n \/ \E k \in p .. n - 1 : r.pos = k + 1
      <4>1. ReadResult(v, d, n, p, r)
        BY ONLY v.fMounted = TRUE, IsDir(v, d), Sized(v, d), n = Top(v.node[d].dirents), <3>5, <3>6, ReadIs
      <4>. QED  BY ONLY <4>1 DEF ReadResult
    <3>9. PICK z : z = g[b]
      OBVIOUS
    <3>10. z \in 0 .. n /\ (z >= b \/ z = n)
      BY ONLY <1>1, <3>1, <3>5, <3>7, <3>8, <3>9
    <3>. QED  BY ONLY <2>3, <3>9, <3>10 DEF ReadAt
  <2>. QED  BY <2>4, <2>5
<1>. QED  BY <1>2, <1>3

(* Readers get the entries in use, all of them and no others.              *)
LEMMA ReadersGetAll ==
  ASSUME vol.fMounted = TRUE, NEW d, IsDir(vol, d), Sized(vol, d)
  PROVE  EntriesRead(d) = Entries(vol, d)
<1>1. PICK g : /\ ReadsTo(vol, d, DIRENTS_MAX, g)
               /\ EntriesRead(d) = {RedCoreDirRead(vol, d, g[n]).entry : n \in
                    {m \in 0 .. DIRENTS_MAX - 1 : RedCoreDirRead(vol, d, g[m]).ret = "OK"}}
  BY ReadsAre
<1>2. PICK n : n = Top(vol.node[d].dirents)
  OBVIOUS
<1>3. n \in 0 .. DIRENTS_MAX /\ DIRENTS_MAX \in Nat /\ n \in Nat
  BY <1>2, CountIsTop, BlockFits
<1>4. \A m \in 0 .. DIRENTS_MAX : g[m] \in 0 .. n /\ (g[m] >= m \/ g[m] = n)
  <2>. SUFFICES ASSUME NEW m \in 0 .. DIRENTS_MAX PROVE ReadAt(n, m, g[m])
    BY DEF ReadAt
  <2>1. ReadsTo(vol, d, DIRENTS_MAX, g)
    BY <1>1
  <2>. QED  BY ONLY vol.fMounted = TRUE, IsDir(vol, d), Sized(vol, d), m \in 0 .. DIRENTS_MAX, <1>2, <2>1, ReadsAdvance
<1>5. \A m \in 0 .. DIRENTS_MAX : ReadResult(vol, d, n, g[m], RedCoreDirRead(vol, d, g[m]))
  BY ONLY vol.fMounted = TRUE, IsDir(vol, d), Sized(vol, d), <1>2, <1>4, ReadIs
<1>6. ASSUME NEW k \in 0 .. DIRENTS_MAX - 1, Used(vol, d, k) PROVE k \in 0 .. n - 1
  <2>1. IsTop(vol.node[d].dirents, n)
    BY <1>2, TopIs
  <2>2. ~(k \in n .. DIRENTS_MAX - 1)
    BY <1>6, <2>1 DEF IsTop, Used
  <2>. QED  BY ONLY <1>3, <2>2, k \in 0 .. DIRENTS_MAX - 1
<1>7. ASSUME NEW e \in EntriesRead(d) PROVE e \in Entries(vol, d)
  <2>1. PICK m \in 0 .. DIRENTS_MAX - 1 : /\ RedCoreDirRead(vol, d, g[m]).ret = "OK"
                                          /\ e = RedCoreDirRead(vol, d, g[m]).entry
    BY <1>1, <1>7
  <2>2. PICK r, p : r = RedCoreDirRead(vol, d, g[m]) /\ p = g[m]
    OBVIOUS
  <2>3. m \in 0 .. DIRENTS_MAX
    BY <1>3
  <2>4. ReadResult(vol, d, n, p, r) /\ p \in 0 .. n
    BY ONLY <1>4, <1>5, <2>2, <2>3
  <2>5. PICK k \in p .. n - 1 : Used(vol, d, k) /\ e = vol.node[d].dirents[k]
    BY ONLY <2>1, <2>2, <2>4 DEF ReadResult
  <2>6. k \in 0 .. DIRENTS_MAX - 1
    BY ONLY <1>3, <2>4, k \in p .. n - 1
  <2>. QED  BY <2>5, <2>6 DEF Entries
<1>8. ASSUME NEW e \in Entries(vol, d) PROVE e \in EntriesRead(d)
  <2>1. PICK k \in 0 .. DIRENTS_MAX - 1 : Used(vol, d, k) /\ e = vol.node[d].dirents[k]
    BY <1>8 DEF Entries
  <2>2. k \in 0 .. n - 1
    BY <1>6, <2>1
  <2>3. PICK B : B = {m \in 0 .. DIRENTS_MAX : g[m] > k}
    OBVIOUS
  <2>4. DIRENTS_MAX \in B /\ B \subseteq Nat
    <3>1. DIRENTS_MAX \in 0 .. DIRENTS_MAX
      BY <1>3
    <3>2. PICK z : z = g[DIRENTS_MAX]
      OBVIOUS
    <3>3. z \in 0 .. n /\ (z >= DIRENTS_MAX \/ z = n)
      BY ONLY <1>4, <3>1, <3>2
    <3>4. z > k
      BY ONLY <1>3, <2>2, <3>3
    <3>. QED  BY ONLY <1>3, <2>3, <3>1, <3>2, <3>4
  <2>5. PICK b \in B : \A m \in B : b <= m
    BY ONLY <2>4, LeastMember
  <2>6. b \in 0 .. DIRENTS_MAX /\ g[b] > k
    BY ONLY <2>3, <2>5
  <2>7. b # 0
    <3>1. g[0] = 0
      BY <1>1 DEF ReadsTo
    <3>2. ~(0 > k)
      BY ONLY <1>3, <2>2
    <3>. QED  BY ONLY <2>6, <3>1, <3>2
  <2>8. b \in 1 .. DIRENTS_MAX /\ b - 1 \in 0 .. DIRENTS_MAX /\ b - 1 \in 0 .. DIRENTS_MAX - 1 /\ ~(b <= b - 1)
    BY ONLY <1>3, <2>6, <2>7
  <2>9. PICK p, r : p = g[b - 1] /\ r = RedCoreDirRead(vol, d, p)
    OBVIOUS
  <2>10. p \in 0 .. n /\ ~(p > k) /\ ReadResult(vol, d, n, p, r)
    <3>1. b - 1 \notin B
      BY ONLY <2>5, <2>8
    <3>. QED  BY ONLY <1>4, <1>5, <2>3, <2>8, <2>9, <3>1
  <2>11. g[b] = r.pos
    BY ONLY <1>1, <2>8, <2>9 DEF ReadsTo, ReadFrom
  <2>12. k \in p .. n - 1
    BY ONLY <1>3, <2>2, <2>10
  <2>13. PICK j \in p .. n - 1 : /\ r.ret = "OK" /\ r.entry = vol.node[d].dirents[j] /\ r.pos = j + 1
                                 /\ \A i \in p .. n - 1 : Used(vol, d, i) => j <= i
    BY ONLY <2>1, <2>10, <2>12 DEF ReadResult
  <2>14. j = k
    <3>1. j <= k
      BY ONLY <2>1, <2>12, <2>13
    <3>2. PICK z : z = g[b]
      OBVIOUS
    <3>3. z = j + 1 /\ z > k
      BY ONLY <2>6, <2>11, <2>13, <3>2
    <3>4. j \in Int /\ k \in Int
      BY ONLY <1>3, <2>2, <2>10, j \in p .. n - 1
    <3>. QED  BY ONLY <3>1, <3>3, <3>4
  <2>15. e = r.entry /\ r.ret = "OK" /\ r = RedCoreDirRead(vol, d, g[b - 1])
    BY ONLY <2>1, <2>9, <2>13, <2>14
  <2>. QED  BY ONLY <1>1, <2>8, <2>15
<1>. QED  BY <1>7, <1>8

(* A consistent volume has exact sizes of directories.                     *)
LEMMA TidySizes ==
  ASSUME Tidy(vol)
  PROVE  DirSizesExact
<1>. SUFFICES ASSUME NEW d \in Inodes, IsDir(vol, d)
              PROVE  /\ Count(vol, d) = Max({-1} \cup {i \in 0 .. DIRENTS_MAX - 1 : Used(vol, d, i)}) + 1
                     /\ vol.node[d].ullSize = 0 <=> Entries(vol, d) = {}
                     /\ EntriesRead(d) = Entries(vol, d)
  BY DEF DirSizesExact
<1>1. Sized(vol, d) /\ vol.fMounted = TRUE
  BY DEF Tidy, TidyOff, Shape
<1>2. PICK n : n = Top(vol.node[d].dirents)
  OBVIOUS
<1>3. n \in 0 .. DIRENTS_MAX /\ DIRENTS_MAX \in Nat /\ n \in Nat /\ Count(vol, d) = n
  BY <1>1, <1>2, CountIsTop, BlockFits
<1>4. PICK U : U = {i \in 0 .. DIRENTS_MAX - 1 : Used(vol, d, i)}
  OBVIOUS
<1>5. \A i \in U : i \in 0 .. n - 1
  <2>1. IsTop(vol.node[d].dirents, n)
    BY <1>2, TopIs
  <2>2. \A i \in U : i \in 0 .. DIRENTS_MAX - 1 /\ ~(i \in n .. DIRENTS_MAX - 1)
    BY ONLY <1>4, <2>1 DEF IsTop, Used
  <2>. QED  BY ONLY <1>3, <2>2
<1>6. n # 0 => n - 1 \in U
  <2>1. IsTop(vol.node[d].dirents, n)
    BY <1>2, TopIs
  <2>2. n # 0 => n - 1 \in 0 .. DIRENTS_MAX - 1
    BY ONLY <1>3
  <2>. QED  BY ONLY <1>4, <2>1, <2>2 DEF IsTop, Used
<1>7. Count(vol, d) = Max({-1} \cup {i \in 0 .. DIRENTS_MAX - 1 : Used(vol, d, i)}) + 1
  <2>1. PICK S : S = {-1} \cup U
    OBVIOUS
  <2>2. S \subseteq Int /\ n - 1 \in S /\ \A y \in S : y <= n - 1
    BY ONLY <1>3, <1>5, <1>6, <2>1
  <2>3. Max(S) = n - 1
    BY ONLY <2>2, MaxIs
  <2>. QED  BY <1>3, <1>4, <2>1, <2>3
<1>8. vol.node[d].ullSize = 0 <=> Entries(vol, d) = {}
  <2>1. vol.node[d].ullSize = Size(n)
    BY <1>1, <1>2 DEF Sized
  <2>2. Size(n) = 0 <=> n = 0
    <3>1. n = 0 => Size(n) = 0
      BY DEF Size
    <3>2. DIRENT_SIZE \in Nat \ {0}
      BY BlockFits
    <3>3. Size(n) \in Nat /\ (n # 0 => Size(n) >= DIRENT_SIZE)
      BY ONLY <1>3, SizeIsNat
    <3>4. PICK z : z = Size(n)
      OBVIOUS
    <3>. QED  BY ONLY <3>1, <3>2, <3>3, <3>4
  <2>3. n = 0 <=> U = {}
    BY ONLY <1>3, <1>5, <1>6
  <2>4. Entries(vol, d) = {} <=> U = {}
    BY <1>4 DEF Entries
  <2>. QED  BY ONLY <2>1, <2>2, <2>3, <2>4
<1>9. EntriesRead(d) = Entries(vol, d)
  BY <1>1, ReadersGetAll
<1>. QED  BY <1>7, <1>8, <1>9

(* Every link count is the number of names of its inode, the one name of a *)
(* directory is in its parent, and names are unique, whichever step of a   *)
(* call failed before.                                                     *)
THEOREM LinksExact == Spec => []LinkCountsExact
<1>1. IInv => LinkCountsExact
  <2>1. CASE Consistent
    BY <2>1, TidyCounts DEF IInv, TypeOK, DirVolumes
  <2>2. CASE ~Consistent
    BY <2>2 DEF LinkCountsExact
  <2>. QED  BY <2>1, <2>2
<1>. QED  BY <1>1, Invariant, PTL

(* The size of a directory is that of its entries, for every size of       *)
(* blocks, headers and entries, and a reader gets all entries.             *)
THEOREM DirectorySizesExact == Spec => []DirSizesExact
<1>1. IInv => DirSizesExact
  <2>1. CASE Consistent
    BY <2>1, TidySizes DEF IInv
  <2>2. CASE ~Consistent
    BY <2>2 DEF DirSizesExact
  <2>. QED  BY <2>1, <2>2
<1>. QED  BY <1>1, Invariant, PTL

\* S and what the directories of S lead to.
LedTo(v, S) == S \cup {i \in Inodes : \E d \in S : \E k : Leads(v, d, k, i)}

\* The inodes at most n names away from the root.
LevelsAre(v, B) ==
  /\ B \in [0 .. Cardinality(Inodes) -> SUBSET {i \in Inodes : Exists(v, i)}] /\ B[0] = {ROOT}
  /\ \A n \in 1 .. Cardinality(Inodes) : B[n] = LedTo(v, B[n - 1])

(* What the entries of a set of directories lead to.                       *)
LEMMA LedToIs ==
  ASSUME NEW v, NamesLead(v), NEW S, S \subseteq Inodes
  PROVE  S \cup {e.ino : e \in UNION {Entries(v, d) : d \in {i \in S : IsDir(v, i)}}} = LedTo(v, S)
<1>. DEFINE T == {e.ino : e \in UNION {Entries(v, d) : d \in {i \in S : IsDir(v, i)}}}
            R == {i \in Inodes : \E d \in S : \E k : Leads(v, d, k, i)}
<1>1. ASSUME NEW i \in T PROVE i \in R
  <2>1. PICK d \in S : IsDir(v, d) /\ \E e \in Entries(v, d) : i = e.ino
    BY <1>1
  <2>2. PICK k \in 0 .. DIRENTS_MAX - 1 : Used(v, d, k) /\ i = v.node[d].dirents[k].ino
    BY <2>1 DEF Entries
  <2>3. d \in Inodes
    BY <2>1 DEF IsDir, Exists
  <2>4. i \in Inodes
    BY <2>1, <2>2, <2>3 DEF NamesLead, Exists
  <2>5. Leads(v, d, k, i)
    BY <2>1, <2>2 DEF Leads
  <2>. QED  BY <2>4, <2>5
<1>2. ASSUME NEW i \in R PROVE i \in T
  <2>1. PICK d \in S : \E k : Leads(v, d, k, i)
    BY <1>2
  <2>2. PICK k : Leads(v, d, k, i)
    BY <2>1
  <2>3. /\ IsDir(v, d) /\ k \in 0 .. DIRENTS_MAX - 1 /\ v.node[d].dirents[k].ino = i
        /\ i \in Inodes /\ i # INODE_INVALID
    BY <1>2, <2>2, DirAssumption DEF Leads
  <2>4. v.node[d].dirents[k] \in Entries(v, d)
    BY <2>3 DEF Entries, Used
  <2>5. v.node[d].dirents[k] \in UNION {Entries(v, c) : c \in {j \in S : IsDir(v, j)}}
    BY <2>3, <2>4
  <2>. QED  BY <2>3, <2>5
<1>3. T = R
  BY <1>1, <1>2
<1>. QED  BY <1>3 DEF LedTo

(* The levels below the root.                                              *)
LEMMA BelowIs ==
  ASSUME Tidy(vol)
  PROVE  \E B : LevelsAre(vol, B) /\ Below[Cardinality(Inodes)] = B[Cardinality(Inodes)]
<1>1. PICK C : C = Cardinality(Inodes)
  OBVIOUS
<1>2. C \in Nat
  BY <1>1, DirAssumption, FS_CardinalityType
<1>3. NamesLead(vol) /\ Exists(vol, ROOT) /\ ROOT \in Inodes
  BY DirAssumption DEF Tidy, TidyOff, Shape, IsDir
<1>. DEFINE Ex == {i \in Inodes : Exists(vol, i)}
            F == [S \in SUBSET Ex |-> LedTo(vol, S)]
            More(S) == S \cup {e.ino : e \in UNION {Entries(vol, d) : d \in {i \in S : IsDir(vol, i)}}}
<1>4. F \in [SUBSET Ex -> SUBSET Ex]
  <2>1. ASSUME NEW S \in SUBSET Ex PROVE LedTo(vol, S) \in SUBSET Ex
    <3>1. ASSUME NEW i \in Inodes, NEW d \in S, NEW k, Leads(vol, d, k, i) PROVE Exists(vol, i)
      <4>1. IsDir(vol, d) /\ k \in 0 .. DIRENTS_MAX - 1 /\ vol.node[d].dirents[k].ino = i /\ d \in Inodes
        BY <3>1 DEF Leads, IsDir, Exists
      <4>2. Used(vol, d, k)
        BY <3>1, <4>1, DirAssumption DEF Used
      <4>. QED  BY <1>3, <4>1, <4>2 DEF NamesLead
    <3>. QED  BY <3>1 DEF LedTo
  <2>. QED  BY <2>1
<1>5. PICK h : Iterates(SUBSET Ex, F, {ROOT}, C, h)
  <2>1. {ROOT} \in SUBSET Ex
    BY <1>3
  <2>. HIDE DEF Ex, F
  <2>. QED  BY ONLY <1>2, <1>4, <2>1, IterateIs
<1>6. /\ h \in [0 .. C -> SUBSET Ex] /\ h[0] = {ROOT}
      /\ \A n \in 1 .. C : h[n] = F[h[n - 1]]
  BY ONLY <1>5 DEF Iterates
<1>7. ASSUME NEW n \in 1 .. C
      PROVE  h[n - 1] \in SUBSET Ex /\ h[n] = LedTo(vol, h[n - 1]) /\ h[n] = More(h[n - 1])
  <2>1. n - 1 \in 0 .. C
    BY <1>2
  <2>2. h[n - 1] \in SUBSET Ex /\ h[n] = LedTo(vol, h[n - 1])
    BY <1>6, <2>1
  <2>3. PICK S : S = h[n - 1]
    OBVIOUS
  <2>4. S \subseteq Inodes
    BY <2>2, <2>3
  <2>5. More(S) = LedTo(vol, S)
    BY ONLY <1>3, <2>4, LedToIs
  <2>. QED  BY <2>2, <2>3, <2>5
<1>8. h = [n \in 0 .. C |-> IF n = 0 THEN {ROOT} ELSE More(h[n - 1])]
  <2>1. ASSUME NEW n \in 0 .. C PROVE h[n] = IF n = 0 THEN {ROOT} ELSE More(h[n - 1])
    <3>1. n = 0 \/ n \in 1 .. C
      BY <1>2
    <3>. QED  BY ONLY <1>6, <1>7, <3>1
  <2>2. h = [n \in 0 .. C |-> h[n]]
    BY <1>6
  <2>. HIDE DEF More
  <2>. QED  BY ONLY <2>1, <2>2
<1>9. PICK a : a = Below
  OBVIOUS
<1>10. a = CHOOSE f : f = [n \in 0 .. C |-> IF n = 0 THEN {ROOT} ELSE More(f[n - 1])]
  BY ONLY <1>1, <1>9 DEF Below
<1>11. a = [n \in 0 .. C |-> IF n = 0 THEN {ROOT} ELSE More(a[n - 1])]
  BY ONLY <1>8, <1>10
<1>12. \A n \in 0 .. C : a[n] = h[n]
  <2>. DEFINE Bad == {m \in Nat : m <= C /\ a[m] # h[m]}
  <2>. HIDE DEF More
  <2>1. CASE Bad # {}
    <3>1. PICK m \in Bad : \A k \in Bad : m <= k
      BY <2>1, LeastMember
    <3>2. m \in 0 .. C /\ m \in Nat
      BY <1>2, <3>1
    <3>3. m # 0
      <4>1. a[0] = {ROOT}
        BY ONLY <1>2, <1>11
      <4>. QED  BY <1>6, <3>1, <4>1
    <3>4. m - 1 \in Nat /\ m - 1 <= C /\ ~(m <= m - 1)
      BY <1>2, <3>2, <3>3
    <3>5. a[m - 1] = h[m - 1]
      BY <3>1, <3>4
    <3>6. a[m] = More(a[m - 1]) /\ h[m] = More(h[m - 1])
      BY ONLY <1>8, <1>11, <3>2, <3>3
    <3>. QED  BY <3>1, <3>5, <3>6
  <2>2. CASE Bad = {}
    BY <1>2, <2>2
  <2>. QED  BY <2>1, <2>2
<1>13. LevelsAre(vol, h)
  BY <1>1, <1>6, <1>7 DEF LevelsAre
<1>14. C \in 0 .. C
  BY <1>2
<1>. QED  BY <1>1, <1>9, <1>12, <1>13, <1>14

(* A consistent volume is a tree.                                          *)
LEMMA TidyTree ==
  ASSUME vol \in DirVolumes, Tidy(vol)
  PROVE  TreeConnected
<1>1. PICK C, B : /\ C = Cardinality(Inodes) /\ LevelsAre(vol, B) /\ Below[C] = B[C]
  BY BelowIs
<1>2. C \in Nat /\ IsFiniteSet(Inodes)
  BY <1>1, DirAssumption, FS_CardinalityType
<1>3. /\ B \in [0 .. C -> SUBSET {i \in Inodes : Exists(vol, i)}] /\ B[0] = {ROOT}
      /\ \A n \in 1 .. C : B[n] = LedTo(vol, B[n - 1])
  BY ONLY <1>1 DEF LevelsAre
<1>4. B \in [0 .. C -> SUBSET Inodes] /\ B[0] # {}
  BY <1>3
<1>5. \A n \in 1 .. C : B[n - 1] \subseteq B[n]
  BY <1>3 DEF LedTo
<1>6. ASSUME NEW n \in 1 .. C - 1, B[n] = B[n - 1] PROVE B[n + 1] = B[n]
  <2>1. n \in 1 .. C /\ n + 1 \in 1 .. C /\ (n + 1) - 1 = n
    BY <1>2
  <2>2. B[n + 1] = LedTo(vol, B[n]) /\ B[n] = LedTo(vol, B[n - 1])
    <3>1. B[n + 1] = LedTo(vol, B[(n + 1) - 1])
      BY <1>3, <2>1
    <3>. QED  BY <1>3, <2>1, <3>1
  <2>. QED  BY ONLY <1>6, <2>2
<1>7. C \in Nat \ {0} /\ B[C] = B[C - 1]
  BY ONLY <1>1, <1>2, <1>4, <1>5, <1>6, ChainStops
<1>8. C \in 0 .. C /\ C \in 1 .. C
  BY <1>7
<1>9. PICK S : S = B[C]
  OBVIOUS
<1>10. S \subseteq {i \in Inodes : Exists(vol, i)} /\ S = LedTo(vol, S)
  BY ONLY <1>3, <1>7, <1>8, <1>9
<1>11. ROOT \in S
  <2>. DEFINE Bad == {n \in Nat : n <= C /\ ROOT \notin B[n]}
  <2>1. CASE Bad # {}
    <3>1. PICK n \in Bad : \A k \in Bad : n <= k
      BY <2>1, LeastMember
    <3>2. n # 0
      BY <1>3, <3>1
    <3>3. n \in 1 .. C /\ n - 1 \in Nat /\ n - 1 <= C /\ ~(n <= n - 1)
      BY <1>2, <3>1, <3>2
    <3>4. ROOT \in B[n - 1]
      BY <3>1, <3>3
    <3>. QED  BY <1>5, <3>1, <3>3, <3>4
  <2>2. CASE Bad = {}
    BY <1>2, <1>9, <2>2
  <2>. QED  BY <2>1, <2>2
<1>12. Closed(vol, S)
  BY <1>10, <1>11 DEF Closed, LedTo
<1>13. \A i \in Inodes : Live(vol, i) => i \in S
  <2>1. S \in SUBSET Inodes
    BY <1>10
  <2>. QED  BY ONLY Tidy(vol), <1>12, <2>1 DEF Tidy, Connected, Reached
<1>14. \A i \in vol.orphans : i \in Inodes /\ Exists(vol, i)
  BY DEF DirVolumes, Tidy, TidyOff, Orphaned
<1>15. {i \in Inodes : Exists(vol, i)} = S \cup vol.orphans
  BY <1>10, <1>13, <1>14 DEF Live
<1>. QED  BY <1>1, <1>9, <1>15 DEF TreeConnected

(* Every inode can be reached from the root or is an orphan: no sequence   *)
(* of renames makes a directory its own ancestor, and no call, whichever   *)
(* of its steps fails, leaves an inode without a way to it.                *)
THEOREM TreeStaysConnected == Spec => []TreeConnected
<1>1. IInv => TreeConnected
  <2>1. CASE Consistent
    BY <2>1, TidyTree DEF IInv, TypeOK, DirVolumes
  <2>2. CASE ~Consistent
    BY <2>2 DEF TreeConnected
  <2>. QED  BY <2>1, <2>2
<1>. QED  BY <1>1, Invariant, PTL

=============================================================================
