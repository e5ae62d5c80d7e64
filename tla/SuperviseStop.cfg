SPECIFICATION Spec
CONSTANTS
    SERVICES <- MCServices
    Pid = {1, 2, 3}
    MaxExits = 0
    MaxForkFails = 0
    MaxOrphans = 0
    Forwards = {11}
    DrainLimit = 32
PROPERTY StopReboots
CHECK_DEADLOCK FALSE
