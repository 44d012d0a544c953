SPECIFICATION UntimedSpec
CONSTANTS
    a = a
    b = b
    c = c
    q1 = q1
    q2 = q2
    Jobs = {a, b, c}
    Queues = {q1, q2}
    Kind <- KioOnly
    QueueOrder <- TwoQueues
    StallTime = 1
    ReconnectDelay = 1
    ReconnectRetries = 0
    RetryPeriod = 1
    Limits = {1}
    FilesMove = FALSE
    Obstacles = {}
SYMMETRY JobSymmetry
INVARIANTS QueuesPartitionJobs LimitRespected
CHECK_DEADLOCK FALSE
