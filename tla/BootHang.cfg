SPECIFICATION Spec
CONSTANTS
    SERVICES <- MCServices
    Pid = {1, 2, 3}
    MaxExits = 0
    MaxForkFails = 0
    MaxOrphans = 0
    Forwards = {0}
    DrainLimit = 32
PROPERTY BootCompletes
CHECK_DEADLOCK FALSE
