SPECIFICATION FairSpec
CONSTANTS
    Networks <- MCNetworks
    Name <- MCName
    Slots <- MCSlots
    Workloads <- MCWorkloads
    Ttl = 3
    LastTime = 3
    None = None
    n1 = n1
    n2 = n2
CHECK_DEADLOCK FALSE
INVARIANTS
    NetworksSound
    ReleasesAccounted

    
