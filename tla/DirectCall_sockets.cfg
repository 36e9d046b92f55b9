SPECIFICATION Spec
CONSTANTS
    CallerDevs = {c1}
    CalleeDevs = {d1, d2}
    NoDev = NoDev
    NoSession = NoSession
    NoLane = NoLane
    LateDevs = {d2}
    Dropping = {c1, d1}
    MaxRequests = 2
    MaxDrops = 1
    MaxConnects = 1
    MaxExpiries = 1
    MaxRestarts = 1
INVARIANTS TypeOK EndIsTrue
PROPERTY ImplementsLifecycle
CHECK_DEADLOCK FALSE
