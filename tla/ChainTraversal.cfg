SPECIFICATION Spec
CONSTANTS
    Delegations = {1, 2, 3, 4}
    MaxChainNodes = 3
INVARIANTS
    WalkSound
PROPERTIES
    Terminates
