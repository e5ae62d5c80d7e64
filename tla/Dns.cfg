SPECIFICATION DnsSpec
CONSTANTS
    Mac = {1}
    Host = {1, 2}
    Word = {1}
    Reads <- MCReads
    WordSize = 2
    Pools <- MCPools
    MaxRestarts = 1
    Id = {7, 8}
    Names = {1}
    Data = {d1}
    TTL = 1
    MaxTicks = 1
INVARIANT AnswersCurrent
PROPERTY LocalAnswersLeased
