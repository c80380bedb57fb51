\* The six events per command of the demo.
CONSTANT Factor = 6
SPECIFICATION FairSpec
INVARIANTS
    CountInv
PROPERTIES
    StopEndsGenerator
CHECK_DEADLOCK FALSE
