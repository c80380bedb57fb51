\* The default axes of GamepadConfig, at the ends of their reverse travel.
CONSTANTS
    Axes = 2
    Delta = 1
    Max = 1
    Configs <- MCDefaults
    Positions <- MCPositions
    Full = 20
    Window = 4
    WindowAxes = {"x_vel", "yaw"}
    MaxPlus <- MCMaxPlus
    MaxMinus <- MCMaxMinus
SPECIFICATION MCSpec
INVARIANT ReverseAsDocumented
CHECK_DEADLOCK FALSE
