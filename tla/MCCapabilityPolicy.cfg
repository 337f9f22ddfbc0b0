SPECIFICATION FairSpec
CONSTANTS
    Actions = {"sql/*", "sql/admin", "sql/read", "sql/schema", "sql/select", "sql/write",
               "duckdb/read", "duckdb/write", "duckdb/admin", "duckdb/import",
               "kv/get", "kv/del", "kv/delete", "delegation/list"}
    Characters = {"a", "b", "d", "/", ".", "%a", "%.", "decomposed", "composed"}
    Writes <- MCWrites
    Sql <- MCSql
    Workloads <- MCWorkloads
    Delegations = {1, 2, 3, 4}
    MaxChainNodes = 4
    Keys = {"k1", "k2"}
    None = None
CHECK_DEADLOCK FALSE
INVARIANTS
    AuthorityNarrows
    
    ListingsTruthful
PROPERTIES
    EveryRequestAnswered
