SPECIFICATION OrderedSpec
CONSTANTS
    n1 = n1
    n2 = n2
    n3 = n3
    n4 = n4
    Node = {n1, n2, n3, n4}
    MaxRuns = 1
    MayCrash = {}
    MayDie = {}
    MaxStarts = 4
    MaxConnections = 500
    MaxPeers = 10
    Stdin = Stdin
    Closed = Closed
PROPERTY HandshakeAnswered
CHECK_DEADLOCK FALSE
