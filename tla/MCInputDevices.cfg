\* Two axes, and caps that a second key press goes over.
CONSTANTS
    Axes = 2
    Delta = 1
    Max = 1
    Configs <- MCConfigs
    Positions <- MCPositions
    Full = 20
    Window = 4
    WindowAxes = {"x_vel", "yaw"}
    MaxPlus <- MCMaxPlus
    MaxMinus <- MCMaxMinus
SPECIFICATION MCSpec
INVARIANTS
    KeysCapped
    StaleOnce
    StickCurve
    StickFiltered
    HeldKeysSettle
PROPERTIES
    StopKeyHeard
CHECK_DEADLOCK FALSE
