SPECIFICATION Spec
CONSTANTS
  ulInodeTableStartBN = 3
  ulInodeCount = 3
  ulBlockCount = 13
  fTransactUmount = TRUE
INVARIANTS
  TypeOK
  FreeCountsExact
  NoCriticalError
  SlotsWellFormed
  UnbranchedMeansCommitted
  FullVolumeCanReclaim
PROPERTY
  CommittedBlocksNotReused
