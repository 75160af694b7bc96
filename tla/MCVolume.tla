------------------------------ MODULE MCVolume ------------------------------
(* Volume with one file beside the root directory, which may have one      *)
(* block, on a disk of one or two allocable blocks.                        *)
EXTENDS Volume

LOCAL MC == INSTANCE TLC

MCOneOffset == {0}

MCSymmetry == MC!Permutations(Values \ {Zero})
=============================================================================
