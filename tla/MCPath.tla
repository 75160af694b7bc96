------------------------------ MODULE MCPath ------------------------------
\* Root: the directory d and the link l; in d the file f and the link m;
\* and a directory in use that was removed.
EXTENDS Path, SequencesExt

MCInodes == 2 .. 7
Made(v, p, name, type) == CoreCreate(v, p, name, type, "OK").v
MCVolume == Made(Made(Made(Made(EmptyVolume, 2, "d", "DIR"), 2, "l", "LNK"), 3, "f", "REG"), 3, "m", "LNK")
MCVolumes == {CoreUnlink(Made(MCVolume, 3, "x", "DIR"), 3, "x", TRUE, "OK").v}
MCPaths == BoundedSeq({"d", "l", "m", ".."}, 2) \cup {<<"d", "m", "f">>, <<"l", ".">>, <<"d", "f", ".">>}
\* The link m names itself, l, a directory, or nothing; l anything.
MCTargets ==
  [{4} -> [abs : BOOLEAN, names : BoundedSeq({"d", "l", "m", ".."}, 2)]]
MCTargetsOfM ==
  {[abs |-> FALSE, names |-> n] : n \in {<<"m">>, <<"f">>, <<"..", "l">>, <<>>}}
    \cup {[abs |-> TRUE, names |-> n] : n \in {<<"d">>, <<"l", "..">>, <<"no">>}}
MCBothTargets == {t @@ (6 :> m) : t \in MCTargets, m \in MCTargetsOfM}
=============================================================================
