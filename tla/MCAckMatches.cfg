CONSTANTS
    Factor = 2
    GainSteps = 1
    MaxStates = 6
SPECIFICATION Spec
INVARIANT AckMatchesPreviousKey
CHECK_DEADLOCK FALSE
