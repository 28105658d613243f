SPECIFICATION Spec
CONSTANTS
    MaxPeers = 3
    TotalPieces = 8
    Dialled = 2
    MaxArrivals = 3
    Garbage <- NoGarbage
    MayReset = {5}
    Wanted = {5}
    Offered = {6}
INVARIANTS
    TypeOK
    
    PieceWasRequested
    ConnectionsKept
VIEW Relevant
CHECK_DEADLOCK FALSE
