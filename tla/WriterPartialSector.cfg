SPECIFICATION Spec
CONSTANTS
  DevSize = 10
  SecSize = 2
  BlkSize = 4
  Word = 24
  Cell <- MCCell
  Zero <- MCZero
  Old <- MCOld
  Trimmed <- MCTrimmed
  Junk <- MCJunk
  Payload <- MCPayload
  Offsets <- MCOffsets
  Sizes <- MCSizes
INVARIANT CloseFlushesAll
CHECK_DEADLOCK FALSE
