SPECIFICATION Spec
CONSTANTS
    CallerDevs = {c1}
    CalleeDevs = {d1, d2}
    NoDev = NoDev
    NoSession = NoSession
    NoLane = NoLane
    LateDevs = {}
    Dropping = {}
    MaxRequests = 4
    MaxDrops = 0
    MaxConnects = 0
    MaxExpiries = 0
    MaxRestarts = 0
SYMMETRY Symmetry
INVARIANTS AgreeOnAnswerer AnswerIsReported RenegotiationIsConfined
PROPERTY StatusMovesOnly
CHECK_DEADLOCK FALSE
