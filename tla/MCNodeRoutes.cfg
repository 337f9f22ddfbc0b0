SPECIFICATION FairSpec
CONSTANTS
    None = None
    s1 = s1
    pub = pub
    small = small
    big = big
    tiny = tiny
    a1 = a1
    Spaces <- MCSpaces
    Contents <- MCContents
    Size <- MCSize
    Chunks <- MCChunks
    Public = {pub}
    PublicLimit = 3
    Slots <- MCSlots
    Workloads <- MCWorkloads
    Clients = {a1}
    Capacity = 1
    MaxStreams = 1
    MaxSubs = 1
    MaxScopes = 2
    HookTtl = 2
    UrlTtl = 2
    Burst = 1
    Rate = 1
    LastTime = 3
CHECK_DEADLOCK FALSE
INVARIANTS
    LimitsHold
    EventsFaithful
PROPERTIES
    RoutesProgress
