SPECIFICATION MCSpec
CONSTANTS
    Transfers = {t1, t2}
    FileExists = TRUE
    MaxObservers = 2
    x = x
    y = y
    MirrorOrder <- TwoMirrors
    FileSize = 3
    ChunkSize = 2
    SaveSize = 0
    MaxTries = 1
    MaxConnections = 1
    Resuming = {x, y}
    PieceSize = 2
    StopsWithData = FALSE
    MaxCrashes = 1
INVARIANTS ChangesAreSaved ProgressIsSaved CrashLosesOneWrite RestartedIsExecuted
CHECK_DEADLOCK FALSE
