CONSTANTS
    Conns = {c1, c2}
    Codes = {k1, k2}
    NoCode = NoCode
    NoConn = NoConn
    Addrs = {lan}
    PrivateAddrs = {lan}
    TrustedProxies = {}
    NoAddr = NoAddr
    Local = Local
    MaxConnections = 2
    MaxRooms = 1
    MaxPeersPerRoom = 2
    MaxQueue = 0
SPECIFICATION Spec
INVARIANT RegisteredIsListed
CHECK_DEADLOCK FALSE
