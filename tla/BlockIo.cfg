SPECIFICATION FairSpec
CONSTANTS
  DevSize = 4
  SecSize = 2
  MaxChunk = 3
  Cell <- MCCell
  Zero <- MCZero
  Old <- MCOld
  Trimmed <- MCTrimmed
  Bytes <- MCBytes
  Requests <- MCRequests
INVARIANT DescriptorsReleased
PROPERTIES
  ImplementsBlockDev
  TransferIsWhole
  OperationReturns
