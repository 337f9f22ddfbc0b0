SPECIFICATION FairSpec
CONSTANTS
    Commands <- MCCommands
    CommandKind <- MCCommandKind
    CommandName <- MCCommandName
    Names <- MCNames
    Ips <- MCIps
    AutoRenew = AutoRenew
    TunnelBump = TunnelBump
    Workloads <- MCWorkloads
    ResyncJump = 2
    MaxEpoch = 1
    None = None
    Torn = Torn
    Ids <- MCIds
    MaxPending = 2
    MaxBody = 4
    Chunk = 2
    Upstream <- MCUpstream
    MaxExp = 3
    MaxResyncs = 2
CHECK_DEADLOCK FALSE
INVARIANTS
    DirectorySound
    TunnelSound
PROPERTIES
    LinkProgress
