CONSTANTS
    Starts = {s1, s2}
    Watchers = {s1}
    None = None
    MaxMessages = 2
SPECIFICATION FairSpec
INVARIANTS
    TypeOK
    NoOrphans
    AnsweredOnceInOrder
PROPERTIES
    CommandsEnd
CHECK_DEADLOCK FALSE
