SPECIFICATION SafetySpec
CONSTANTS
    Peer = {p1, p2, p3}
    Node = {b1, b2, b3}
    NoNode = NoNode
    NoPeer = NoPeer
    MayAnswer = {}
    MayCrash = {}
    MaxRooms = 2
    MaxRoomSize = 2
INVARIANTS
    TypeOK
    LimitsKept
    OneEntryPerPeer
    MainWalksAgree
    JoinerOnRoster
    RequestKept
PROPERTY ImplementsRooms
VIEW Reachable
SYMMETRY PeerAndNodeSymmetry
CHECK_DEADLOCK FALSE
