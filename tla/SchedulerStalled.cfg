SPECIFICATION FairSpec
CONSTANTS
    a = a
    b = b
    c = c
    q1 = q1
    q2 = q2
    Jobs = {a}
    Queues = {q1}
    Kind <- KioOnly
    QueueOrder <- OneQueue
    StallTime = 1
    ReconnectDelay = 2
    ReconnectRetries = 1
    RetryPeriod = 2
    Limits = {1}
    FilesMove = TRUE
    Obstacles = {}
INVARIANTS MovingIsIdle
PROPERTIES StalledIsExecutedInTheEnd
CHECK_DEADLOCK FALSE
