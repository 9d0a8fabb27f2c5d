CONSTANTS
    FOUR_KB = 4
    Inodes <- MCInodes
    FileLength <- MCFileLength
    BadBlocks <- MCBadBlocks
    DirEntries = 2
    FD_MAX_FILE = 3
    ReadSizes = {0, 1, 3, 5, 8}
    BufSize = 10
    MaxProcs = 2
    OffsetFloor <- MCOffsetFloor
SPECIFICATION Spec
INVARIANTS
    TypeOK
    StaysInRequest
    PositionWithinFile
    ExactBeyondFirstBlock
    ReadResult
PROPERTIES
    ReadEnds
