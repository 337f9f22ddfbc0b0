SPECIFICATION FairCacheSpec
CONSTANTS
    Writers = {w1, w2}
    Default = 99
    Override = 98
    MaxPlans = 1
    MaxOverrides = 1
    MaxFailures = 2
    None = None
INVARIANTS
    LimitsSound
PROPERTIES
    LimitFollowsPlan
