CONSTANTS
    Conns = {c1, c2}
    Codes = {k1, k2}
    NoCode = NoCode
    NoConn = NoConn
    Addrs = {lan, wan}
    PrivateAddrs = {lan}
    TrustedProxies = {}
    NoAddr = NoAddr
    Local = Local
    MaxConnections = 2
    MaxRooms = 2
    MaxPeersPerRoom = 2
    MaxQueue = 1
SPECIFICATION FairSpec
INVARIANTS
    SignalRouting
PROPERTIES
    TeardownCompletes
    RegistrationDecided
    RelayEnds
CHECK_DEADLOCK FALSE
