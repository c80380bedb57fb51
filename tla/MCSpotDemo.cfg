\* The demo's six events per command; the robot may fall silent at any time.
CONSTANT Factor = 6
SPECIFICATION FairSpec
INVARIANTS
    LeaseCoversStream
    CommandsStopFirst
    SavedLogComplete
    ExitLeavesRobotOff
PROPERTIES
    CleanupEnds
    StateLossPowersOff
CHECK_DEADLOCK FALSE
