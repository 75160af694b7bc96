------------------------------ MODULE MCOrphans ------------------------------
(* Orphans on a small instance: handles and tasks are interchangeable.     *)
EXTENDS Orphans, TLC

MCInodes == 3 .. 4
MCSymmetry == Permutations(Handles) \cup Permutations(Tasks)
==============================================================================
