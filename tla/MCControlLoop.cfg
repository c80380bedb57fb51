\* Three events per command and seven states: two commands, the gains
\* on the first alone, with room for coalesced and left-over events.
CONSTANTS
    Factor = 3
    GainSteps = 1
    MaxStates = 7
SPECIFICATION Spec
INVARIANTS
    PolicyHasState
    RateBound
    FreshInputs
    ReadsInOrder
    KeysInSequence
    ActivationProtocol
    AckCausal
PROPERTY
    ImplementsPipe
CHECK_DEADLOCK FALSE
