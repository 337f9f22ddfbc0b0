SPECIFICATION FairSpec
CONSTANTS
    b1 = b1
    f1 = f1
    f2 = f2
    f3 = f3
    Firsts <- MCFirsts
    Procs <- MCProcs
    KeySource <- MCKeySource
    None = None
    Empty = Empty
    Static = Static
    Missing = Missing
    Failed = Failed
    Runs <- MCRuns
    Backups <- MCBackups
    Probes = {"c1"}
    Patches <- MCPatches
    Patch <- MCPatch
    Leaves <- MCLeaves
    Base <- MCBase
    Default <- MCDefault
    Env <- MCEnv
    Bad = Bad
    Null = Null
    Clear = Clear
    Faults <- MCFaults
    Workloads <- MCWorkloads
CHECK_DEADLOCK FALSE
INVARIANTS
    ControlSound
    PatchesSound
    SchemaSound
PROPERTIES
    ControlEnds
