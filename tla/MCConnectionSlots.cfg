CONSTANTS
    Conns = {c1, c2, c3, c4, c5}
    MaxConnections = 2
SPECIFICATION FairSpec
INVARIANTS
    TypeOK
    CounterExact
PROPERTIES
    ImplementsSlotPool
    AcceptDecides
CHECK_DEADLOCK FALSE
