\* Threads that are late by less than the divider's patience, or by more than a
\* slot of the timer and the patience.
CONSTANTS
    Dt = 2
    Factor = 2
    Timeout = 7
    Lates = {1, 3}
    MaxTime = 14
SPECIFICATION Spec
INVARIANTS
    PolicyHasState
    CleanupInOrder
PROPERTY KeepsToSlots
CHECK_DEADLOCK FALSE
