CONSTANTS
    Names = {alice, bob}
    Generic = Peer
    Keys = {k1, k2}
    Codes = {s1, s2}
    None = None
    MaxInputs = 6
SPECIFICATION Spec
INVARIANTS
    TypeOK
    VerifiedMeansLatestCode
    SecondKeyNeedsRestart
PROPERTIES
    ImplementsSessionContract
CHECK_DEADLOCK FALSE
