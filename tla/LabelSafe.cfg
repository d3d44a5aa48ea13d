SPECIFICATION Spec
CONSTANT Labels <- MCLabels
INVARIANTS
  OutputFits
  UnitsCounted
  FatLabelIsGiven
CHECK_DEADLOCK FALSE
