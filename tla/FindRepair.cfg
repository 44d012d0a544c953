SPECIFICATION Spec
CONSTANTS
    x = x
    y = y
    MirrorOrder <- TwoMirrors
    FileSize = 6
    ChunkSize = 3
    SaveSize = 1
    MaxTries = 2
    MaxConnections = 1
    Resuming = {x, y}
    PieceSize = 2
    StopsWithData = FALSE
INVARIANTS FinishedFileIsRight
CHECK_DEADLOCK FALSE
