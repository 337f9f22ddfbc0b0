----------------------------- MODULE MCKvLedger -----------------------------
(***************************************************************************)
(* Instances of KvLedger: keys 1 and 2 of one space and key 3 of another.  *)
(***************************************************************************)
EXTENDS KvLedger

MCKeys == 1..3
MCSpaces == {"s", "t"}
MCSpaceOf == [k \in MCKeys |-> IF k = 3 THEN "t" ELSE "s"]
MCValues == {"a", "b"}

Put(k, v) == [j \in {k} |-> v]

MCOps ==
    [setA |-> Put(1, "a"),
     setB |-> Put(1, "b"),
     other |-> Put(2, "a"),
     both |-> [k \in {1, 3} |-> "b"],
     drop |-> Put(1, Absent),
     clear |-> [k \in {1, 2} |-> Absent],
     session |-> [k \in {} |-> Absent],
     host |-> [k \in {} |-> Absent]]

MCEvents == DOMAIN MCOps
MCHosts == [session |-> {}, host |-> {"s"}]
MCCached == MCEvents \ DOMAIN MCHosts
MCTouches == [e \in MCEvents |-> IF e = "both" THEN {"s", "t"} ELSE {"s"}]

Ask(event, pre) == [event |-> event, pre |-> pre]

\* The requests the workloads are made of.
AllRequests ==
    [setA |-> Ask("setA", "none"),
     replayA |-> Ask("setA", "none"),
     setB |-> Ask("setB", "none"),
     createB |-> Ask("setB", "absent"),
     swapB |-> Ask("setB", "a"),
     other |-> Ask("other", "none"),
     both |-> Ask("both", "none"),
     drop |-> Ask("drop", "none"),
     clear |-> Ask("clear", "none"),
     session |-> Ask("session", "none"),
     session2 |-> Ask("session", "none"),
     host |-> Ask("host", "none")]

MCRequests == DOMAIN AllRequests

Work(engine, requests, spaces) == [engine |-> engine, requests |-> requests, hosted |-> spaces]

\* The last two meet spaces that are hosted meanwhile or not at all.
MCWorkloads ==
    {Work("postgres", {"setA", "setB", "session"}, MCSpaces),
     Work("postgres", {"setA", "replayA", "swapB"}, MCSpaces),
     Work("postgres", {"other", "session", "session2"}, MCSpaces),
     Work("sqlite", {"other", "createB", "both", "drop"}, MCSpaces),
     Work("sqlite", {"setA", "other", "clear"}, MCSpaces),
     Work("postgres", {"host", "session", "createB"}, {}),
     Work("sqlite", {"host", "setA", "both"}, {})}

MCRequest == AllRequests

=============================================================================
