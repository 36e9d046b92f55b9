SPECIFICATION FairSpec
CONSTANTS
    CallerDevs = {c1}
    CalleeDevs = {d1}
    NoDev = NoDev
    NoSession = NoSession
    NoLane = NoLane
    LateDevs = {}
    Dropping = {c1, d1}
    MaxRequests = 2
    MaxDrops = 1
    MaxConnects = 0
    MaxExpiries = 0
    MaxRestarts = 0
PROPERTIES CounterpartIsTold HandlersFinish
CHECK_DEADLOCK FALSE
