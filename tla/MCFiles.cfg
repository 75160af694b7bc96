SPECIFICATION Spec
CONSTANTS
  Files = {2, 3}
  ulInodeTableStartBN = 9
  ulInodeCount = 2
  ulBlockCount = 25
  IMAPNODE_ENTRIES = 6
  BYTE = 3
  BLOCK_SIZE = 2
  INDIR_ENTRIES = 2
  DIRECT_POINTERS = 1
  INDIRECT_POINTERS = 1
  DINDIR_POINTERS = 1
  UINT32_MAX = 6
  RESERVED_BLOCKS = 2
  Handles = {h1, h2}
  INT32_MAX = 12
  REDCONF_TRANSACT_DEFAULT = {"VOLFULL"}
  Apis = {"POSIX", "FSE"}
  Masks <- MCMasks
  StartSizes = {0, 12}
  Writes <- MCWrites
  Lengths = {3, 13}
  Sizes = {0, 3, 12}
  Reserves = {11}
  Seeks <- MCSeeks
  Flags <- MCFlags
  TruncReserved = FALSE
  MAX_CALLS = 4
INVARIANTS TypeOK FilesReadBack SpaceExact MetadataIterated
CHECK_DEADLOCK FALSE
