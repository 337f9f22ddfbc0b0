SPECIFICATION FairSpec
CONSTANTS
    Subscriptions = {"all", "docs"}
    Writes = {"doc", "row"}
    DatabaseWrites = {"row"}
    Existing = {"all"}
    Matches <- MCMatches
    Unusable = {"docs"}
    MaxPerSpace = 2
    MaxAttempts = 3
    BatchSize = 2
    Delay <- MCDelay
    TicksPerSecond = 2
    MaxTime = 6
    LastChange = 1
    MaxFaults = 1
INVARIANTS
    OutboxSound
PROPERTIES
    BackoffHonoured
    DeliveriesSettle
