SPECIFICATION Spec
CONSTANTS
    a = a
    b = b
    c = c
    q1 = q1
    q2 = q2
    Jobs = {a, b}
    Queues = {q1}
    Kind <- KioOnly
    QueueOrder <- OneQueue
    StallTime = 1
    ReconnectDelay = 2
    ReconnectRetries = 1
    RetryPeriod = 2
    Limits = {1}
    FilesMove = FALSE
    Obstacles = {}
SYMMETRY JobSymmetry
INVARIANTS TypeOK Settled LimitRespected OfflineIsIdle StopPolicyObeyed
PROPERTIES AddAndRemoveInterruptNobody
CHECK_DEADLOCK FALSE
