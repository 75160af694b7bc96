CONSTANTS
  Inodes <- MCInodes
  ROOT = 2
  LongNames = {"long"}
  UINT16_MAX = 2
  BLOCK_SIZE = 16
  DIRENT_SIZE = 5
  NODEHEADER_SIZE = 4
  DIRENTS_MAX = 3
  Names = {a, b, c}
  Types = {"DIR", "REG"}
SYMMETRY Symmetry
SPECIFICATION Spec
INVARIANT TypeOK
INVARIANT DirSizesExact
INVARIANT LinkCountsExact
INVARIANT TreeConnected
PROPERTY FailedCallsChangeNothing
PROPERTY EntriesKeepPlace
