SPECIFICATION Spec
CONSTANTS
  ulInodeTableStartBN = 3
  ulInodeCount = 2
  ulBlockCount = 9
  fTransactUmount = FALSE
  fAtomicSectorWrite = TRUE
  IoMayFail = TRUE
  FlushMayFail = TRUE
  fRemountUnstable = FALSE
  SeqMax = 3
  Offsets <- MCOneOffset
  Values = {Zero, one, two}
  Zero = Zero
  Nil = Nil
  Torn = Torn
  Junk = Junk
SYMMETRY
  MCSymmetry
INVARIANTS
  TypeOK
  RecoverableIsIntact
  CleanBuffersMatchMedia
  NoStaleBuffers
PROPERTIES
  ImplementsStore
  CommittedNotWritten
