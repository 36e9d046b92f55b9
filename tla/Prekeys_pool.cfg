SPECIFICATION FairSpec
CONSTANTS
    Contacts     = {c1, c2}
    NoContact    = NoContact
    Readers      = {c1, c2}
    Initial      = 2
    Batch        = 1
    MinReserved  = 1
    LowThreshold = 2
    MaxKeyId     = 3
    MaxBatches   = 3
    MaxPurges    = 1
    MaxCrashes   = 1
INVARIANTS TypeOK BoundAsReserved KeyServesOne AckedIsConsumed KeyIsWithdrawn
PROPERTY SentIsDelivered
CHECK_DEADLOCK FALSE
