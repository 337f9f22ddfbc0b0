SPECIFICATION FairSpec
CONSTANTS
    Delegations <- MCDelegations
    MaxChainNodes = 4
    Principals <- MCPrincipals
    Capabilities <- MCCapabilities
    Content <- MCContent
    RootAuthority <- MCRootAuthority
    SpaceOwner <- MCSpaceOwner
    Covers <- MCCovers
    Controls <- MCControls
    Requests <- MCRequests
    Request <- MCRequest
    Workloads <- MCWorkloads
    MaxClock = 1
    NoRequest = NoRequest
    NoDelegation = NoDelegation
    owner = owner
    ann = ann
    bob = bob
    cho = cho
    key = key
INVARIANTS
    GuardsExclusive
    AuthorityGrounded
PROPERTIES
    RevocationOrdering
    ActiveAnswerIsCurrent
    EveryRequestAnswered
