------------------------------- MODULE MCBuffer -------------------------------
(* Buffer with volumes of two blocks each.                                  *)
EXTENDS Buffer, TLC

MCTwoBlocks  == 0 .. 1
===============================================================================
