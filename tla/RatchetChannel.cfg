SPECIFICATION Spec
CONSTANTS
    MaxSkip    = 2
    NoPub      = NoPub
    Sides      = {alice, bob}
    Initiators = {alice}
    Secrets    = {secret}
    MaxSent    = 5
INVARIANTS KeysAreFresh OpenedOnce StaysOpenable
CHECK_DEADLOCK FALSE
