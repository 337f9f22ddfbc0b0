SPECIFICATION FairSpec
CONSTANTS
    Requests <- MCRequests
    Kind <- MCKind
    Workloads <- MCWorkloads
    Threshold = 1
    MaxActors = 4
    MaxFiles = 4
    MaxFaults = 1
    None = None
INVARIANTS
    DurableInv
PROPERTIES
    AnswersExact
