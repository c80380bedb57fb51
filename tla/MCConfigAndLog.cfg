SPECIFICATION MCSpec
CONSTANTS
    Columns = {"raw_joint_positions", "commanded_action", "spot_current_positions",
               "response_timestamp", "dt_divider_wait", "dt_total_step",
               "raw_state_proto_bytes", "proto_bytes"}
    MaxRows = 4
    Period = 2
    Margins = {1, 2, 3}
    ISAAC <- MCOrder
    SPOT <- MCOrder
    NLegs = 3
    Envs <- MCConfigurations
    DefaultKp <- MCDefaultKp
    ArmOffset <- MCArmOffset
    Positions <- MCPositions
    Actions = {3, 7}
    GainSteps = 3
    MaxCount = 4
    NULL = NULL
INVARIANTS
    LastMatchWins
    NoCommandWithoutGains
    EachToItsJoint
    WholeOrTorn
    Diagnosable
CHECK_DEADLOCK FALSE
