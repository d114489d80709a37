SPECIFICATION Spec
CONSTANTS
    Items = {1, 2, 3}
    Limit = 1
    TicksPerMilli = 2
    MaxTime = 2
    Loads = {l1, l2}
    Nothing = Nothing
    MaxDisturbances = 2
SYMMETRY Slots
CHECK_DEADLOCK FALSE
INVARIANT
    ReconnectReloads
