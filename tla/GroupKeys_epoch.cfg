SPECIFICATION Spec
CONSTANTS
    Users        = {u1, u2}
    Readers      = {}
    MaxSends     = 1
    MaxPreparing = 1
    MaxChanges   = 1
    MaxFailures  = 0
INVARIANT KeyIsOfEpoch
CHECK_DEADLOCK FALSE
