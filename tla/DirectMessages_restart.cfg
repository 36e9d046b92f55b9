SPECIFICATION FairSpec
CONSTANTS
    a = a
    b = b
    Devs = {a, b}
    Openers = {a}
    NoSession = NoSession
    NoMsg = NoMsg
    NoX3dh = NoX3dh
    NoPub = NoPub
    SendsA = 2
    SendsB = 0
    Sends <- SendCounts
    MaxSkip = 2
    MaxRetries = 1
    Bundles = {TRUE}
    MaxInits = 1
    MaxLosses = 1
    MaxCrashes = 1
INVARIANTS   KeysHold
 
CHECK_DEADLOCK FALSE
