CONSTANT Factor = 6
SPECIFICATION Spec
INVARIANT RevertsToStanding
CHECK_DEADLOCK FALSE
