SPECIFICATION Spec
CONSTANT Labels <- MCLabels
INVARIANT ExfatLabelIsGiven
CHECK_DEADLOCK FALSE
