SPECIFICATION FairSpec
CONSTANTS
    Tabs         = {t1, t2}
    NoToken      = NoToken
    MaxRotations = 3
    MaxLosses    = 1
INVARIANTS TypeOK CookieIsCurrent  LogoutEndsSession
PROPERTY AccessEnds
CHECK_DEADLOCK FALSE
