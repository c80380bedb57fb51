SPECIFICATION MCSpec
CONSTANTS
    Setpoints <- MCSetpoints
    Angles <- MCAngles
    Speeds <- MCSpeeds
    Stiffness = 13
    Damping = 3
    EffortLimit = 300
    TorqueLimit <- MCTorqueLimit
    PosSpeedLimit <- MCPosSpeedLimit
    NegSpeedLimit <- MCNegSpeedLimit
    MaxDelay = 4
    Decimation = 10
    Envs = {1, 2}
    Legs = {0, 1}
    Sampled <- MCSampled
    Which = 4
    TrajSteps = {2, 3}
    HoldSteps = {1}
    Poses <- MCPoses
    Actions <- MCActions
    ArmLower = 0
    ArmUpper = 12
    Tasks = {"deployment", "training"}
    Base = {"hx"}
    Arm = {"sh1", "el0"}
    Default <- MCDefault
    Stow <- MCStow
    JointLower <- MCJointLower
    JointUpper <- MCJointUpper
    MaxVel <- MCMaxVel
    PosRange = 20
    VelRange = 250
    Elsewhere = {33}
    Scripts = {"demo", "replay"}
    Steps = 3
    Dt = 1
    MaxKeys = 2
INVARIANTS
    BothLimits
    SetpointLands
    GoalsFeasible
    OnSchedule
    StartsWithinLimits
    LockStep
    RecordsBelongTogether
PROPERTIES
    OthersUndisturbed
    GoalsChange
    OthersGoOn
CHECK_DEADLOCK FALSE
