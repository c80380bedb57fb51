CONSTANT Factor = 6
SPECIFICATION FairSpec
PROPERTY StopStateStreamReturns
CHECK_DEADLOCK FALSE
