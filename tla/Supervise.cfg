SPECIFICATION Spec
CONSTANTS
    SERVICES <- MCServices
    Pid = {1, 2, 3}
    MaxExits = 3
    MaxForkFails = 2
    MaxOrphans = 1
    Forwards = {0, 10, 11}
    DrainLimit = 32
INVARIANTS TypeOK TableExact MissingOnlyIfForkFailed SeenErrorReported
PROPERTIES Respawned StopSeenAtNextExit BootPastFw
CHECK_DEADLOCK FALSE
