SPECIFICATION PrinterFairSpec
CONSTANTS
  Cards <- MCPrinterCards
  UpCaseSize = 5836
  Overrides <- MCOverrides
INVARIANTS
  PrinterTypeOK
  NoWrap
  FatLayout
  FatIsExact
  ExfatLayout
  BitmapFitsOneCluster
  CalculationsAreRight
  ChsAgreesWithLba
  PartitionHoldsFs
  DriversAgree
  BootSectorLeadsToFs
  PrinterFindsFs
  ChecksumSeesEveryByte
PROPERTY Terminates
CHECK_DEADLOCK FALSE
