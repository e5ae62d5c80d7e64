SPECIFICATION Spec
CONSTANTS
    Conn = {c1, c2}
    Files <- MCFiles
    Word <- MCWord
    DEFAULT <- MCDefault
    Password = {"good", "bad"}
    Forms <- MCForms
    SESSION_TTL = 1
    MaxTime = 1
    MaxRequests = 3
    MaxCrashes = 1
SYMMETRY ConnSymmetry
INVARIANTS TypeOK AuthedByLogin SessionsBounded SaveMerges UnmanagedKept
CHECK_DEADLOCK FALSE
