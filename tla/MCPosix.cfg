CONSTANTS
  Inodes <- MCInodes
  ROOT = 2
  Names = {"a", "b", "v1"}
  LongNames = {"long"}
  UINT16_MAX = 2
  BLOCK_SIZE = 16
  DIRENT_SIZE = 5
  NODEHEADER_SIZE = 4
  DIRENTS_MAX = 2
  Volumes = {0, 1}
  Prefix <- MCPrefix
  Tasks = {t1}
  Slots = {0, 1}
  Handles = {0, 1}
  FD_GEN_MAX = 2
  Paths <- MCPaths
  OpenFlags <- MCOpenFlags
  Masks <- MCMasks
  REDCONF_TRANSACT_DEFAULT = {"UMOUNT", "CLOSE", "SYNC", "FSYNC"}
  MountFlags <- MCMountFlags
  Faults = {"OK", "ENOSPC"}
  MAX_CALLS = 4
  SameNameRenames = FALSE
SPECIFICATION Spec
INVARIANT TypeOK
INVARIANT DescriptorsExact
INVARIANT HandlesAndTasksValid
INVARIANT PathsLeadBack
PROPERTY FailedCallsChangeNothing
