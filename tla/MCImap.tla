------------------------------- MODULE MCImap -------------------------------
(* Imap on a volume of three inodes (the root directory and two more) and  *)
(* four allocable blocks.                                                  *)
EXTENDS Imap
=============================================================================
