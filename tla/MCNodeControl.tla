--------------------------- MODULE MCNodeControl ----------------------------
(***************************************************************************)
(* Instances of NodeControl.                                               *)
(***************************************************************************)
EXTENDS NodeControl

CONSTANTS b1, f1, f2, f3

MCRuns == 1 .. 4
MCBackups == {b1}
MCFirsts == {f1, f2, f3}
MCProcs == MCRuns \union MCBackups \union MCFirsts
\* The last two processes run with the bootstrap configuration, one of them
\* with TINYCLOUD_KEYS_SECRET.
MCKeySource ==
    [p \in MCProcs |-> CASE p \in {1, 2} -> "static" [] p = 4 -> "env" [] OTHER -> "provider"]

MCLeaves == {"cors", "log", "limit"}
MCBase == [cors |-> 0, log |-> 0, limit |-> 5]
MCDefault == [cors |-> 0, log |-> 0, limit |-> Clear]
MCEnv == [cors |-> None, log |-> 1, limit |-> None]
MCPatch ==
    [cors |-> [cors |-> 1], back |-> ("cors" :> Null @@ "limit" :> 7),
     limit |-> [limit |-> Null], shadowed |-> [log |-> 0],
     bad |-> ("cors" :> 1 @@ "limit" :> Bad), unknown |-> [colour |-> 1]]
MCPatches == DOMAIN MCPatch

MCFaults == {"boot", "ignite", "bind", "signal", "crash", "abandon", "stop"}
NoFault == [f \in MCFaults |-> 0]

Day(runs, faults, patches, probes, uninstall) ==
    [runs |-> runs, faults |-> faults @@ NoFault, patches |-> patches,
     probes |-> probes, backups |-> {}, firsts |-> {}, uninstall |-> uninstall,
     engine |-> "sqlite", release |-> Len(Migrations)]

\* A node that boots on a database of an older release, and dies at most once.
Upgrade(engine, release, runs, crashes) ==
    [Day(runs, [crash |-> crashes], {}, {}, FALSE) EXCEPT !.engine = engine, !.release = release]

Days == {
    \* first resolutions that die anywhere, a backup and a starting node
    [Day({}, [crash |-> 2], {}, {}, FALSE) EXCEPT !.backups = {b1}, !.firsts = MCFirsts],
    [Day({3}, [crash |-> 1], {}, {}, FALSE) EXCEPT !.firsts = {f1, f2}],
    \* start, failed starts, restart, and a status command
    Day({1, 2}, [boot |-> 1, signal |-> 1], {}, {"c1"}, FALSE),
    Day({1, 2}, [ignite |-> 1, crash |-> 1], {}, {"c1"}, FALSE),
    Day({1, 4}, [signal |-> 2, bind |-> 1], {}, {}, FALSE),
    \* patches of two clients, one of which may leave
    Day({1}, [signal |-> 1], {"cors", "back"}, {}, FALSE),
    Day({1}, [abandon |-> 1], {"limit", "back"}, {}, FALSE),
    Day({1, 2}, [crash |-> 1], {"cors", "shadowed"}, {}, FALSE),
    Day({1}, NoFault, {"bad", "unknown", "back"}, {}, FALSE),
    \* uninstall
    Day({1}, [abandon |-> 1], {"cors"}, {"c1"}, TRUE),
    Day({1}, [stop |-> 1, crash |-> 1], {"cors"}, {}, TRUE)
} \union
    \* every release there was, and a crash anywhere in an upgrade
    {Upgrade(e, n, {1}, 0) : e \in {"sqlite", "postgres"}, n \in 0 .. Len(Migrations)} \union
    {Upgrade(e, n, {1, 2}, 1) : e \in {"sqlite", "postgres"}, n \in {0, 8}}

\* TLC evaluates a definition that replaces a constant at every use; this one is
\* evaluated once.
MCWorkloads == Days
=============================================================================
