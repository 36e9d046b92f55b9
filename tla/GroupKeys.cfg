SPECIFICATION FairSpec
CONSTANTS
    Users        = {u1}
    Readers      = {u1}
    MaxSends     = 2
    MaxPreparing = 2
    MaxChanges   = 1
    MaxFailures  = 1
INVARIANTS NoKeyReuse KeyStaysInRoster RosterHoldsKey 
PROPERTIES PendingIsTaken 
CHECK_DEADLOCK FALSE
