SPECIFICATION MainFairSpec
CONSTANTS
  DevSize = 80
  SecSize = 2
  BlkSize = 8
  Word = 128
  UpCaseSize = 3
  User = 1000
  Options <- MCOptions
  MaxOptions = 2
  LabelSize = 2
  Nul = "nul"
  MaxCapacity = 2
  Layouts <- MCLayouts
  Cell <- MCCell
  Zero <- MCZero
  Old <- MCOld
  Trimmed <- MCTrimmed
  Junk <- MCJunk
  Payload <- MCPayload
  Offsets <- MCNone
  Sizes <- MCNone
INVARIANTS
  SuccessMounts
  DataAreaUntouched
  RefusedUntouched
  NeverSeeksBack
  ClosesAtSectorEnd
  CardIsReleased
  ExitTellsFailure
  NoWayBack
  OptionsAreMeant
PROPERTY Terminates
