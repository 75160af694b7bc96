SPECIFICATION Spec
CONSTANTS
  Inodes <- MCInodes
  Tasks = {t1}
  Handles = {h1}
  MaxLinks = 2
  IoMayFail = FALSE
  OtherReadOnly = FALSE
  SameNameRenames = TRUE
INVARIANT OrphanFlagExact
