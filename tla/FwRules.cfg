SPECIFICATION Spec
CONSTANTS
    Router = "r"
    LanHosts = {"a", "b"}
    Far = "f"
    Ports = {1, 2}
    Configs <- MCConfigs
    MaxRuns = 2
INVARIANTS Protected 
