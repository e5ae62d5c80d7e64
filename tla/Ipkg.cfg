SPECIFICATION Spec
CONSTANTS
    Pkg = {"a", "b"}
    Path = {"x", "s", "y"}
    Build = {"a1", "a2", "b1"}
    Of <- MCOf
    Name <- MCNames
    Dir = {"/", "/usr"}
    Root = "/"
    Sanitized <- MCSanitized
    Resolved <- MCResolved
    Cuts <- MCCuts
    Members <- MCMembers
    MaxCmds = 5
    MaxBuilds = 1
INVARIANTS OnlyVerified Accounted InstalledWhole
CHECK_DEADLOCK FALSE
