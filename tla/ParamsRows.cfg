SPECIFICATION Spec
CONSTANTS
  Cards <- MCFewCards
  Overrides <- MCNoOverride
INVARIANT EveryRowFormats
CHECK_DEADLOCK FALSE
