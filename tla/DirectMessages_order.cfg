SPECIFICATION Spec
CONSTANTS
    a = a
    b = b
    Devs = {a, b}
    Openers = {a}
    NoSession = NoSession
    NoMsg = NoMsg
    NoX3dh = NoX3dh
    NoPub = NoPub
    SendsA = 3
    SendsB = 1
    Sends <- SendCounts
    MaxSkip = 2
    MaxRetries = 0
    Bundles = {TRUE}
    MaxInits = 1
    MaxLosses = 0
    MaxCrashes = 0
INVARIANTS KeysHold SessionsHold
CHECK_DEADLOCK FALSE
