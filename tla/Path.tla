-------------------------------- MODULE Path --------------------------------
(***************************************************************************)
(* Walking a path (path.c): a local path is a sequence of names, from a    *)
(* directory on; symbolic links on the way are followed with a stack of    *)
(* those not yet read to their end.  A walk ends with an inode             *)
(* (RedPathLookup) or with a directory and the last name, which is not     *)
(* looked up (RedPathToName).  The volume does not change during a walk,   *)
(* which is one call under the mutex.                                      *)
(***************************************************************************)
EXTENDS Dir, Sequences

CONSTANTS
  Volumes,               \* the volumes and directory trees there may be
  Targets,               \* the targets their symbolic links may have
  Paths, Starts,         \* local paths, and where they start
  RED_SYMLOOP_MAX        \* the most symbolic links within one another

ASSUME PathAssumption == RED_SYMLOOP_MAX \in Nat

VARIABLES
  vol,                   \* the volume, with the directory tree
  target,                \* of a symbolic link: [abs, names]
  path, start,           \* what is walked
  pc,                    \* the next thing the walk does
  ctx,                   \* PATHWALKCTX
  result                 \* [ret, p, name, ino] of the walk

vars == <<vol, target, path, start, pc, ctx, result>>

NoName == ""
Modes  == {"lookup", "nofollow", "name"}

PW_LOOKUP_LAST(c) == c.mode # "name"

\* ctx: the flags, the names of the path still to come, the last one taken,
\* the name at hand, the inode and its parent, the stack of links.
NewCtx(mode, names, dir) ==
  [ mode |-> mode, names |-> names, pszLastName |-> NoName, pszName |-> NoName,
    ulPInode |-> INODE_INVALID, ulInode |-> dir, stack |-> <<>> ]

IsDot(name)         == name = "."
IsDotDot(name)      == name = ".."
IsDotOrDotDot(name) == IsDot(name) \/ IsDotDot(name)

PathHasMoreComponents(c) == c.names # <<>>

InodeMustBeSearchableDir(i) ==
  IF i = ROOT THEN "OK" ELSE IF RedCoreStat(vol, i).ret # "OK" THEN "EBADF"
  ELSE IF IsDir(vol, i) THEN "OK" ELSE "ENOTDIR"

IsLink(i) == i # ROOT /\ Exists(vol, i) /\ vol.node[i].type = "LNK"

-----------------------------------------------------------------------------

Ends(ret, c) ==
  /\ pc' = "done"
  /\ ctx' = c
  /\ result' = [ret |-> ret, p |-> c.ulPInode, name |-> c.pszLastName, ino |-> c.ulInode]

Goes(to, c) == pc' = to /\ ctx' = c /\ UNCHANGED result

\* The context c with inode i and its parent, unless i was removed.
AtDirectory(c, i, to) ==
  LET parent == RedCoreDirParent(vol, i)
  IN  IF parent.ret = "OK"
      THEN Goes(to, [c EXCEPT !.ulInode = i, !.ulPInode = parent.ino])
      ELSE Ends(parent.ret, c)

Unchanged == UNCHANGED <<vol, target, path, start>>

\* PathWalk begins.
PathWalk ==
  /\ pc = "walk" /\ Unchanged
  /\ AtDirectory(ctx, ctx.ulInode, "next")

\* A link is followed unless it is the last name of the path and the walk has
\* RED_AT_SYMLINK_NOFOLLOW.
FollowsLink(c) == c.mode = "nofollow" => PathHasMoreComponents(c)

TooDeep(c) == Len(c.stack) >= RED_SYMLOOP_MAX

\* The directory of a link, from which its target is relative.
LinkDirectory(c) == c.ulPInode

\* PathWalkNext ends the walk when the last name was not to be looked up, and
\* SymlinkNext enters the link which the walk has come to.
SymlinkEnter ==
  /\ pc = "next" /\ Unchanged
  /\ IF ctx.ulInode = INODE_INVALID THEN Goes("finish", ctx)
     ELSE IF ~(IsLink(ctx.ulInode) /\ FollowsLink(ctx))
     THEN Goes("symlink", [ctx EXCEPT !.pszName = NoName])
     ELSE IF TooDeep(ctx) THEN Ends("ELOOP", ctx)
     ELSE AtDirectory([ctx EXCEPT !.stack = Append(@, [ino |-> ctx.ulInode, pos |-> 0])],
                      LinkDirectory(ctx), "symlink")

Top == ctx.stack[Len(ctx.stack)]

\* The target that is read from its beginning and is absolute starts at the
\* root.
TargetStart(c, t, pos) ==
  IF t.abs /\ pos = 0 THEN [c EXCEPT !.ulInode = ROOT, !.ulPInode = INODE_INVALID] ELSE c

\* Bug: a link is left with its last name.
StackAfterNameLeaving(stack, t) ==
  LET n == Len(stack)
  IN  IF stack[n].pos + 1 = Len(t.names) THEN SubSeq(stack, 1, n - 1)
      ELSE [stack EXCEPT ![n].pos = @ + 1]

\* The link whose last name was read stays until that name was followed, so
\* that a link it leads to is one level deeper.
StackAfterName(stack, t) == [stack EXCEPT ![Len(stack)].pos = @ + 1]

\* SymlinkNext reads the next name of the innermost link, or leaves the link
\* at its end.
SymlinkNext ==
  LET t == target[Top.ino]
      c == TargetStart(ctx, t, Top.pos)
      n == Len(ctx.stack)
  IN  /\ pc = "symlink" /\ ctx.stack # <<>> /\ Unchanged
      /\ IF Top.pos < Len(t.names)
         THEN IF t.names[Top.pos + 1] \in LongNames THEN Ends("ENAMETOOLONG", c)
              ELSE Goes("follow", [c EXCEPT !.pszName = t.names[Top.pos + 1],
                                            !.stack = StackAfterName(@, t)])
         ELSE IF Top.pos = 0 /\ ~t.abs THEN Ends("ENOENT", c)
         ELSE Goes("symlink", [c EXCEPT !.stack = SubSeq(@, 1, n - 1)])

\* PathWalkNext takes the next name of the path, or ends the walk.
PathWalkNext ==
  /\ pc = "symlink" /\ ctx.stack = <<>> /\ Unchanged
  /\ IF PathHasMoreComponents(ctx)
     THEN Goes("follow", [ctx EXCEPT !.pszName = Head(ctx.names),
                                     !.pszLastName = Head(ctx.names),
                                     !.names = Tail(@)])
     ELSE Goes("finish", ctx)

\* Bug: the parent is not updated by "..".
FollowDotDotKeepingParent(c, dir) ==
  IF dir # "OK" THEN Ends(dir, c)
  ELSE Goes("next", [c EXCEPT !.ulInode = IF @ = ROOT THEN ROOT ELSE c.ulPInode])

FollowDotDot(c, dir) ==
  IF dir # "OK" THEN Ends(dir, c)
  ELSE AtDirectory(c, IF c.ulInode = ROOT THEN ROOT ELSE c.ulPInode, "next")

\* PathWalkFollow.
PathWalkFollow ==
  LET dir   == InodeMustBeSearchableDir(ctx.ulInode)
      found == RedCoreLookup(vol, ctx.ulInode, ctx.pszName)
      below == [ctx EXCEPT !.ulPInode = ctx.ulInode]
  IN  /\ pc = "follow" /\ Unchanged
      /\ IF IsDot(ctx.pszName)
         THEN IF dir # "OK" THEN Ends(dir, ctx) ELSE Goes("next", ctx)
         ELSE IF IsDotDot(ctx.pszName) THEN FollowDotDot(ctx, dir)
         ELSE IF ~(PW_LOOKUP_LAST(ctx) \/ PathHasMoreComponents(ctx))
         THEN Goes("next", [below EXCEPT !.ulInode = INODE_INVALID])
         ELSE IF found.ret # "OK" THEN Ends(found.ret, ctx)
         ELSE Goes("next", [below EXCEPT !.ulInode = found.ino])

\* The end of RedPathLookup.
RedPathLookup ==
  /\ pc = "finish" /\ PW_LOOKUP_LAST(ctx) /\ Unchanged
  /\ Ends("OK", ctx)

\* The end of RedPathToName.  The root has no name, and "." and ".." are none
\* that could be created or removed.
RedPathToName ==
  /\ pc = "finish" /\ ~PW_LOOKUP_LAST(ctx) /\ Unchanged
  /\ Ends(IF ctx.ulPInode = INODE_INVALID THEN "rootDirError"
          ELSE IF IsDotOrDotDot(ctx.pszLastName) THEN "EINVAL" ELSE "OK", ctx)

NoResult == [ret |-> "", p |-> INODE_INVALID, name |-> NoName, ino |-> INODE_INVALID]

Init ==
  /\ vol \in Volumes /\ target \in Targets
  /\ path \in Paths /\ start \in Starts
  /\ \E mode \in Modes : ctx = NewCtx(mode, path, start)
  /\ pc = "walk" /\ result = NoResult

\* A finished walk stays.
Finished == pc = "done" /\ UNCHANGED vars

Next ==
  \/ PathWalk \/ SymlinkEnter \/ SymlinkNext \/ PathWalkNext
  \/ PathWalkFollow \/ RedPathLookup \/ RedPathToName \/ Finished

\* The walk is a loop in one call, which nothing holds up.
Spec == Init /\ [][Next]_vars /\ WF_vars(Next)

-----------------------------------------------------------------------------
(* Properties.                                                             *)

(* Every walk ends, whichever symbolic links lead to themselves or to one  *)
(* another: "There is no special handling for loops, they are followed     *)
(* until this limit is reached" (path.c:50-52).                            *)
WalksEnd == <>(pc = "done")

\* What a path means, by the rules for path names: the inode i that the names
\* lead to, each link within at most "depth" others replaced by its target.
RECURSIVE Meaning(_, _, _, _)
Meaning(i, names, depth, last) ==
  LET name == Head(names)
      j    == RedCoreLookup(vol, i, name)
      to   == IF j.ret = "OK" /\ IsLink(j.ino) THEN target[j.ino] ELSE [abs |-> FALSE, names |-> <<>>]
      link == IF to.names = <<>> /\ ~to.abs THEN [ret |-> "ENOENT", ino |-> i]
              ELSE Meaning(IF to.abs THEN ROOT ELSE i, to.names, depth + 1, TRUE)
      rest == Tail(names)
  IN  IF names = <<>> THEN [ret |-> "OK", ino |-> i]
      ELSE IF ~IsDir(vol, i) THEN [ret |-> "ENOTDIR", ino |-> i]
      ELSE IF name = "." THEN Meaning(i, rest, depth, last)
      ELSE IF name = ".."
           THEN Meaning(IF i = ROOT THEN ROOT ELSE vol.node[i].ulPInode, rest, depth, last)
      ELSE IF j.ret # "OK" THEN [ret |-> j.ret, ino |-> i]
      ELSE IF ~IsLink(j.ino) \/ (rest = <<>> /\ ~last) THEN Meaning(j.ino, rest, depth, last)
      ELSE IF depth >= RED_SYMLOOP_MAX THEN [ret |-> "ELOOP", ino |-> i]
      ELSE IF link.ret # "OK" THEN link
      ELSE Meaning(link.ino, rest, depth, last)

\* The last name is not looked up, and cannot be "." or "..".
MeaningOfName(dir, names) ==
  LET last  == names[Len(names)]
      whole == Meaning(dir, names, 0, TRUE)
      p     == Meaning(dir, SubSeq(names, 1, Len(names) - 1), 0, TRUE)
  IN  IF IsDotOrDotDot(last)
      THEN [ret |-> IF whole.ret # "OK" THEN whole.ret
                    ELSE IF whole.ino = ROOT THEN "rootDirError" ELSE "EINVAL",
            p |-> INODE_INVALID, name |-> last]
      ELSE [ret |-> p.ret, p |-> p.ino, name |-> last]

(* A walk gives the inode, or the directory and the name, which the path   *)
(* means, or the error met on the way to it.  The walk keeps the parent of *)
(* where it is in a variable that links, "." and ".." must all keep right, *)
(* and takes what comes last from the names left in the outermost path     *)
(* while it may be deep in the links of an earlier name.  From a directory *)
(* that was removed there is no way to any other.                          *)
WalkGivesMeaning ==
  pc = "done" =>
    IF start \in vol.orphans THEN result.ret = "ENOENT"
    ELSE IF PW_LOOKUP_LAST(ctx)
    THEN LET m == Meaning(start, path, 0, ctx.mode = "lookup")
         IN  result.ret = m.ret /\ (m.ret = "OK" => result.ino = m.ino)
    ELSE path # <<>> =>
         LET m == MeaningOfName(start, path)
         IN  /\ result.ret = m.ret
             /\ m.ret = "OK" => result.p = m.p /\ result.name = m.name
=============================================================================
