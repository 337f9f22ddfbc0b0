SPECIFICATION Spec
CONSTANTS
    Keys <- MCKeys
    Values <- MCValues
    Absent = Absent
    Events <- MCEvents
    Ops <- MCOps
    Requests <- MCRequests
    Request <- MCRequest
    Spaces <- MCSpaces
    SpaceOf <- MCSpaceOf
    Touches <- MCTouches
    Cached <- MCCached
    Hosts <- MCHosts
    Workloads <- MCWorkloads
    MaxEpochs = 5
    NoRequest = NoRequest
INVARIANTS
    RowsBacked
    VersionsOrdered
    HistoryIsLinear
    ListingExact
PROPERTIES
    ImplementsKvStore
