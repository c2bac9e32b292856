CONSTANTS
    BufferCap = 3
    Trim = 2
    TailLines = 2
    QueueCap = 2
    Kinds = {"send_file", "transfer_pause"}
    MaxInputs = 4
SPECIFICATION FairSpec
INVARIANTS
    TypeOK
    WtFlagExact
    QueueKeepsOldest
    NewestRequestKept
PROPERTIES
    DeathNoticed
CHECK_DEADLOCK FALSE
