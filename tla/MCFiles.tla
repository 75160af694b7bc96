------------------------------- MODULE MCFiles -------------------------------
(* Files on a small volume: files of at most six blocks of two units, below *)
(* a direct pointer, an indirect and a double indirect node of two entries. *)
EXTENDS Files

MCWrites == {<<5, 4>>, <<9, 3>>}
MCSeeks  == {<<7, "SET">>, <<-3, "CUR">>}
MCMasks  == {{"VOLFULL"}, {"VOLFULL", "WRITE", "TRUNCATE", "CLOSE", "UMOUNT"}}
MCFlags  == {{"READABLE", "WRITEABLE", "APPENDING"}, {"READABLE"}}
=============================================================================
