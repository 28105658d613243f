SPECIFICATION Spec
CONSTANTS
    Peer = {p1, p2}
    Node = {b1, b2}
    NoNode = NoNode
    NoPeer = NoPeer
    MayAnswer = {p1, p2}
    MayCrash = {p1}
    MaxRooms = 2
    MaxRoomSize = 2
PROPERTY KilledForgotten
CHECK_DEADLOCK FALSE
