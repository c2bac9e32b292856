CONSTANTS
    Conns = {c1, c2}
    Codes = {k1}
    NoCode = NoCode
    NoConn = NoConn
    Addrs = {lan}
    PrivateAddrs = {lan}
    TrustedProxies = {}
    NoAddr = NoAddr
    Local = Local
    MaxConnections = 2
    MaxRooms = 1
    MaxPeersPerRoom = 2
    MaxQueue = 1
SPECIFICATION IdleFairSpec
PROPERTY StaleConnectionEnds
CHECK_DEADLOCK FALSE
