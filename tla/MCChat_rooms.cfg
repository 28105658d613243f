SPECIFICATION Spec
CONSTANTS
    Peer = {p1, p2, p3}
    NoPeer = NoPeer
    MaxRooms = 2
    MaxRoomSize = 2
    Client = {p1}
    Faulty = {p1}
    MaxPackets = 2
    MaxTasks = 4
INVARIANTS
    TypeOK
    
    ListAgreement
    OnlyToRoommates
SYMMETRY OtherPeers
CHECK_DEADLOCK FALSE
