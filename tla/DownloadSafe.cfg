SPECIFICATION Spec
CONSTANTS
    x = x
    y = y
    MirrorOrder <- TwoMirrors
    FileSize = 7
    ChunkSize = 2
    SaveSize = 1
    MaxTries = 2
    MaxConnections = 2
    Resuming = {x, y}
    PieceSize = 2
    StopsWithData = FALSE
INVARIANTS TypeOK ChunksHaveOwners FinishedIsWritten OffsetsAgree WorkIsGiven
PROPERTIES ImplementsStore
CHECK_DEADLOCK FALSE
