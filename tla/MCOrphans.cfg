SPECIFICATION Spec
CONSTANTS
  Inodes <- MCInodes
  Tasks = {t1, t2}
  Handles = {h1, h2}
  MaxLinks = 2
  IoMayFail = TRUE
  OtherReadOnly = FALSE
  SameNameRenames = FALSE
SYMMETRY MCSymmetry
INVARIANT TypeOK
INVARIANT ReferencedInodesExist
INVARIANT OrphanFlagExact
INVARIANT OrphanListsExact
PROPERTY NoStrandedOrphans
