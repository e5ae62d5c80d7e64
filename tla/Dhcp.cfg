SPECIFICATION Spec
CONSTANTS
    Mac = {1, 2, 3, 4}
    Clients = {1, 2}
    Host = {1}
    Word = {1}
    Reads <- MCReads
    WordSize = 4
    Pools <- MCPools
    MaxRestarts = 0
INVARIANTS TypeOK PoolConsistent LeaseFileSound ConfiguredIsAcked NoSharedAddress
PROPERTY LeasesKept
CHECK_DEADLOCK FALSE
