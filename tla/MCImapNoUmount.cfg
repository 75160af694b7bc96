SPECIFICATION Spec
CONSTANTS
  ulInodeTableStartBN = 3
  ulInodeCount = 3
  ulBlockCount = 13
  fTransactUmount = FALSE
INVARIANT
  CommittedCountsExact
