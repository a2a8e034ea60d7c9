SPECIFICATION Spec
CONSTANTS
    d = d
    Devices = {d}
    Savers = {1, 2}
    Limits = {0, 1}
    Default = 2
    Starts = 2
    Nothing = Nothing
INVARIANT StartsAgain
CHECK_DEADLOCK FALSE
