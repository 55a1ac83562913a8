SPECIFICATION Spec
CONSTANTS
    Inputs <- MCInputs
    MaxRotations = 2
    MaxFetches = 2
INVARIANT RefetchReads
CHECK_DEADLOCK FALSE
