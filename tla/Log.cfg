SPECIFICATION Spec
CONSTANTS
    Daemon = d
    Loggers = {l1}
    MAX = 2
    QueueCap = 1
    MaxLines = 5
    MaxRecords = 1
    MaxDeaths = 1
INVARIANTS SizeCapped KeepsRecent ReadSound
CHECK_DEADLOCK FALSE
