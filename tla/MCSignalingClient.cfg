CONSTANTS
    Planes = {local, cloud}
    Codes = {me, a, b}
    Self = me
    NoPlane = NoPlane
    MaxCallbacks = 5
    MaxSignals = 2
SPECIFICATION FairSpec
INVARIANTS
    TypeOK
    MissingOnlyIfLeftElsewhere
    StaleOnlyByOutageOrLateList
    SignalsOnceInOrder
PROPERTIES
    ShownCatchesUp
CHECK_DEADLOCK FALSE
