SPECIFICATION FairSpec
CONSTANTS
    Requests <- MCRequests
    Job <- MCJob
    Workloads <- MCWorkloads
    Nodes <- MCNodes
    Material <- MCMaterial
    Authority <- MCAuthority
    Rank <- MCRank
    Share <- MCShare
    Trust <- MCTrust
    Skew = 2
    InviteTtl = 2
    MaxAge = 6
    SessionTtl = 6
    ChallengeTtl = 2
    ReadTtl = 2
    ShareQuota = 2
    Null = Null
    Nobody = Nobody
CHECK_DEADLOCK FALSE
INVARIANTS
    SessionsSound
PROPERTIES
    AuthorityForward
    KernelRefined
    AnsweredOnce
