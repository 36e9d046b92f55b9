SPECIFICATION Spec
CONSTANTS
    a = a
    b = b
    Devs = {a, b}
    Openers = {a, b}
    NoSession = NoSession
    NoMsg = NoMsg
    NoX3dh = NoX3dh
    NoPub = NoPub
    SendsA = 3
    SendsB = 2
    Sends <- SendCounts
    MaxSkip = 2
    MaxRetries = 1
    Bundles = {TRUE}
    MaxInits = 1
    MaxLosses = 0
    MaxCrashes = 0
INVARIANT KeysNotReused
CHECK_DEADLOCK FALSE
