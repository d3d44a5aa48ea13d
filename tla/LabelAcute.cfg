SPECIFICATION Spec
CONSTANT Labels <- MCLabels
INVARIANT Cp850IsAccepted
CHECK_DEADLOCK FALSE
