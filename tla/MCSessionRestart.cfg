CONSTANTS
    Names = {alice, bob}
    Generic = Peer
    Keys = {k1, k2}
    Codes = {s1, s2}
    None = None
    MaxInputs = 5
SPECIFICATION Spec
INVARIANTS
    KeyContinuity
CHECK_DEADLOCK FALSE
