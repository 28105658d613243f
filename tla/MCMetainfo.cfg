SPECIFICATION Spec
CONSTANTS
    Files <- MCFiles
    LongMax = 99
    IntSize = 8
    Trailers <- MCTrailers
    HashSize = 1
    BlockSize = 1
    Announce <- kAnnounce
    Info <- kInfo
    Name <- kName
    Length <- kLength
    PieceLength <- kPieceLength
    Pieces <- kPieces
INVARIANTS
    TypeOK
    RoundTrip
    DecodingKept
PROPERTY Terminates
CHECK_DEADLOCK FALSE
