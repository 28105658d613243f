SPECIFICATION OrderedSpec
CONSTANTS
    n1 = n1
    n2 = n2
    n3 = n3
    n4 = n4
    Node = {n1, n2, n3}
    MaxRuns = 2
    MayCrash = {n1, n2, n3}
    MayDie = {n1, n2, n3}
    MaxStarts = 4
    MaxConnections = 500
    MaxPeers = 3
    Stdin = Stdin
    Closed = Closed
INVARIANTS
    TypeOK
    NoCircularStart
    HandshakeKept
    RegisteredEarlier
    SocketsKept
PROPERTY HandshakeAnswered
CHECK_DEADLOCK FALSE
