CONSTANTS
  Inodes <- MCInodes
  ROOT = 2
  Names = {"d", "l", "f", "m", "x"}
  LongNames = {"long"}
  UINT16_MAX = 2
  BLOCK_SIZE = 16
  DIRENT_SIZE = 5
  NODEHEADER_SIZE = 4
  DIRENTS_MAX = 3
  Volumes <- MCVolumes
  Targets <- MCBothTargets
  Paths <- MCPaths
  Starts = {2, 3, 7}
  RED_SYMLOOP_MAX = 3
SPECIFICATION Spec
INVARIANT WalkGivesMeaning
PROPERTY WalksEnd
