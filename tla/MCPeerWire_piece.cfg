SPECIFICATION Spec
CONSTANTS
    MaxPeers = 3
    TotalPieces = 8
    Dialled = 2
    MaxArrivals = 3
    Garbage <- NoGarbage
    MayReset = {3}
    Wanted = {5}
    Offered = {5}
INVARIANT PieceToRequester
CHECK_DEADLOCK FALSE
