SPECIFICATION Spec
CONSTANTS
    d = d
    Devices = {d}
    Savers = {1, 2}
    Limits = {0}
    Default = 1
    Starts = 2
    Nothing = Nothing
INVARIANTS TypeOK SaveRepairs
PROPERTIES IdentityKept
CHECK_DEADLOCK FALSE
