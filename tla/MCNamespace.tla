---------------------------- MODULE MCNamespace ----------------------------
\* Two entries in a block, with space left at its end.
EXTENDS Namespace
MCInodes == 2 .. 4
Symmetry == Permutations(Names)
=============================================================================
