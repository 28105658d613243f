SPECIFICATION Spec
CONSTANTS
    c1 = c1
    c2 = c2
    c3 = c3
    c4 = c4
    a1 = a1
    a2 = a2
    a3 = a3
    Conn <- FourConns
    Ip <- MCIp
    ipOf <- MCIpOf
    CountModulus = 3
    MaxFds = 3
    Backlog = 2
    MaxPeers = 1
    MayVanish = {c2}
    NoConn = NoConn
INVARIANTS
    TypeOK
    ListWellFormed
    ReplyExact
    Discovery
PROPERTIES
    ImplementsRegistry
    ListServed
CHECK_DEADLOCK FALSE
