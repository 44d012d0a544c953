SPECIFICATION Spec
CONSTANTS
    a = a
    b = b
    c = c
    q1 = q1
    q2 = q2
    Jobs = {a, b}
    Queues = {q1}
    Kind <- MultiOnly
    QueueOrder <- OneQueue
    StallTime = 1
    ReconnectDelay = 1
    ReconnectRetries = 0
    RetryPeriod = 1
    Limits = {1}
    FilesMove = FALSE
    Obstacles = {"none"}
INVARIANTS StopPolicyObeyed
CHECK_DEADLOCK FALSE
