SPECIFICATION Spec
CONSTANTS
    Infos <- MCInfos
    Images <- MCImages
    WordSize = 5
    MaxCmds = 3
    MaxChanges = 2
INVARIANTS TypeOK CrashShape RebootSafe VerifyTruth
PROPERTY CommandEnds
CHECK_DEADLOCK FALSE
