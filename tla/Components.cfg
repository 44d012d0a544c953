SPECIFICATION MCSpec
CONSTANTS
    t1 = t1
    t2 = t2
    s1 = s1
    s2 = s2
    k1 = k1
    f1 = f1
    f2 = f2
    d1 = d1
    x = x
    y = y
    NoTransfer = NoTransfer
    Transfers = {t1, t2}
    Sources = {s1, s2}
    Destinations = {d1}
    MaxFileFailures = 1
    FileOrder <- TwoFiles
    SimultanousFiles = 1
    MaxFailures = 2
    MaxSelections = 2
    MaxDownloads = 1
    Signatures = {s1, s2}
    Fingerprint <- OneKey
    ServerOrder <- TwoServers
    MaxVerify = 2
    Total = 3
    Threads = 2
INVARIANTS
    OneJobPerKey NobodyIsForgotten MmsAccountsAgree MmsDoneIsWritten
    FinishedIsComplete StoppedIsIdle DeletionSparesDownload StartIsRemembered
PROPERTIES
    MmsDownloadEnds SelectedFileEnds CompletesInTheEnd
CHECK_DEADLOCK FALSE
