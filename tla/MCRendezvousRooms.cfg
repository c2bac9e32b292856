CONSTANTS
    Conns = {c1, c2, c3}
    Codes = {k1, k2, k3}
    NoCode = NoCode
    NoConn = NoConn
    Addrs = {lan, wan}
    PrivateAddrs = {lan}
    TrustedProxies = {}
    NoAddr = NoAddr
    Local = Local
    MaxConnections = 3
    MaxRooms = 1
    MaxPeersPerRoom = 2
    MaxQueue = 0
SPECIFICATION Spec
SYMMETRY Symmetry
INVARIANTS
    TypeOK
    SlotsExact
    UniqueCodes
    ListedAreLive
    RoomLimit
    EmptyRoomsReclaimed
    RoomsWithinSlots
    PeersLearnOfEachOther
PROPERTIES
    TeardownSparesOthers
CHECK_DEADLOCK FALSE
