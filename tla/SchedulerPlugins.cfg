SPECIFICATION PluginSpec
CONSTANTS
    a = a
    b = b
    c = c
    q1 = q1
    q2 = q2
    Jobs = {a, b}
    Queues = {q1}
    Kind <- BtAndMulti
    QueueOrder <- OneQueue
    StallTime = 1
    ReconnectDelay = 1
    ReconnectRetries = 0
    RetryPeriod = 1
    Limits = {1}
    FilesMove = TRUE
    Obstacles = {"none", "missing", "port", "damaged"}
INVARIANTS UpdateRestoresLimit RunningIsExecuted
CHECK_DEADLOCK FALSE
