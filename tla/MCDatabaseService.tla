------------------------- MODULE MCDatabaseService -------------------------
(***************************************************************************)
(* Instances of DatabaseService.                                           *)
(***************************************************************************)
EXTENDS DatabaseService

AllKinds ==
    [write1 |-> "write", batch |-> "batch", read1 |-> "read", export |-> "export", import |-> "import"]

MCRequests == DOMAIN AllKinds
MCKind == AllKinds

OneByOne(service, requests) == [service |-> service, requests |-> requests, overlap |-> FALSE]
Together(service, requests) == [service |-> service, requests |-> requests, overlap |-> TRUE]

MCWorkloads ==
    {OneByOne("sql", {"write1", "batch", "export", "read1"}),
     OneByOne("duckdb", {"write1", "import", "batch", "read1"}),
     Together("sql", {"write1", "batch"}), Together("sql", {"write1", "read1"}),
     Together("sql", {"batch", "export"}),
     Together("duckdb", {"write1", "import"}), Together("duckdb", {"write1", "read1"})}

=============================================================================
