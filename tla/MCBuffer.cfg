SPECIFICATION Spec
CONSTANTS
  REDCONF_BUFFER_COUNT = 2
  MINIMUM_BUFFER_COUNT = 2
  MaxRefs = 2
  Volumes = {0, 1}
  FaultyVolumes = {0}
  Blocks <- MCTwoBlocks
  Values = {zero, one}
  Zero = zero
INVARIANT TypeOK
INVARIANT PoolConsistent
INVARIANT CleanBuffersMatchMedia
PROPERTY OnlyCallersChangeBlocks
PROPERTY ReferencedBuffersKept
