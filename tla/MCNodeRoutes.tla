---------------------------- MODULE MCNodeRoutes ----------------------------
(***************************************************************************)
(* Instances of NodeRoutes: two spaces, one of them public, three bodies   *)
(* of which one is larger than a chunk.                                    *)
(***************************************************************************)
EXTENDS NodeRoutes, TLC

CONSTANTS s1, pub, small, big, tiny, a1

MCSpaces == {s1, pub}
MCContents == {small, big, tiny}
MCSize == small :> 2 @@ big :> 3 @@ tiny :> 1
MCChunks == small :> 1 @@ big :> 2 @@ tiny :> 1

Put(s, path, c) == [space |-> s, path |-> path, val |-> c]
Del(s, path) == [space |-> s, path |-> path, val |-> None]
x == <<"x">>
y == <<"x", "y">>
db == <<"db">>
t == <<"db", "t">>
u == <<"db", "u">>

Kv(ops) == [kind |-> "kv", ops |-> ops, multipart |-> FALSE, pre |-> "none", flaws |-> {}]
Batch(ops) == [Kv(ops) EXCEPT !.multipart = TRUE]
With(job, flaws) == [job EXCEPT !.flaws = flaws]
If(job, pre) == [job EXCEPT !.pre = pre]
Sql(s, grows, touched) ==
    [kind |-> "db", service |-> "sql", space |-> s, grows |-> grows, tables |-> touched,
     import |-> FALSE, flaws |-> {}]
Duck(s, grows, touched) == [Sql(s, grows, touched) EXCEPT !.service = "duckdb"]
Import(s, grows) == [Duck(s, grows, <<>>) EXCEPT !.import = TRUE]
Host(s) == [kind |-> "host", space |-> s, flaws |-> {}]

Cap(action, path) == [action |-> action, space |-> s1, path |-> path]
Scope(service, prefix, abilities) ==
    [space |-> s1, service |-> service, prefix |-> prefix, abilities |-> abilities]
Ticket(scopes, path, ttl, exp, parents) ==
    [kind |-> "ticket", scopes |-> scopes, caps |-> {Cap("subscribe", path)}, ttl |-> ttl,
     exp |-> exp, parents |-> parents]
Stream(of) == [kind |-> "stream", of |-> of]
Hook(scope, path) == [kind |-> "subscribe", scope |-> scope, caps |-> {Cap("register", path)}]
Unhook(of, path) == [kind |-> "unsubscribe", of |-> of, caps |-> {Cap("unregister", path)}]
Url(path, hash, ttl, exp, parents) ==
    [kind |-> "url", space |-> s1, path |-> path, caps |-> {Cap("get", x)}, hash |-> hash,
     ttl |-> ttl, exp |-> exp, parents |-> parents, flaws |-> {}]
Signed(of) == [kind |-> "signed", of |-> of]
Get(s, path, etag) ==
    [kind |-> "public", verb |-> "get", space |-> s, path |-> path, client |-> a1, etag |-> etag]
List(s) == [Get(s, <<>>, None) EXCEPT !.verb = "list"]

MCSlots == 1 .. 6
NoFault == [db |-> 0, crash |-> 0, drop |-> 0]
Files == [store |-> "file", stage |-> "memory"]
Renamed == [store |-> "file", stage |-> "file"]
Objects == [store |-> "s3", stage |-> "memory"]
Four == s1 :> 4 @@ pub :> None
Unlimited == s1 :> None @@ pub :> None

Day(jobs, engine, stores, limit, last, faults) ==
    [jobs |-> jobs, engine |-> engine, backend |-> stores, limit |-> limit, last |-> last,
     faults |-> faults @@ NoFault]

\* TLC evaluates a definition that replaces a constant at every use, and this
\* one once.
Days == <<
    \* two writers of one content, and of one key
    Day(<<Host(s1), Kv(<<Put(s1, x, small)>>), Kv(<<Put(s1, y, small)>>)>>, "postgres", Files,
        Four, 0, [crash |-> 1]),
    Day(<<Host(s1), Kv(<<Put(s1, x, small)>>), If(Kv(<<Put(s1, x, big)>>), small)>>, "sqlite", Files,
        Four, 0, [db |-> 1]),
    Day(<<Host(s1), Kv(<<Put(s1, x, big)>>), Kv(<<Put(s1, y, big)>>)>>, "postgres", Renamed,
        Unlimited, 0, [crash |-> 1]),
    \* batches, deletions, refusals
    Day(<<Host(s1), Batch(<<Put(s1, x, small), Put(s1, y, tiny)>>), Batch(<<Put(s1, x, small), Put(s1, y, big)>>),
          Kv(<<Del(s1, x)>>)>>, "postgres", Objects, Four, 0, [db |-> 1]),
    Day(<<Host(s1), Kv(<<Put(s1, x, small), Del(s1, y), Del(s1, x)>>), Kv(<<Put(s1, y, tiny), Del(s1, x)>>),
          With(Kv(<<Put(s1, x, tiny)>>), {"etag"}), With(Batch(<<Put(s1, x, tiny)>>), {"missing-part"})>>,
        "sqlite", Files, Four, 0, NoFault),
    \* an invocation over two spaces
    Day(<<Host(s1), Host(pub), Kv(<<Put(pub, x, tiny)>>), Hook(Scope("kv", <<>>, {}), <<>>),
          Kv(<<Del(pub, x), Put(s1, x, tiny)>>)>>, "sqlite", Objects, Unlimited, 0, NoFault),
    \* the public space, full at once
    Day(<<Host(pub), Kv(<<Put(pub, x, big)>>), Kv(<<Put(pub, y, tiny)>>), Get(pub, x, big)>>, "sqlite",
        Files, Four, 0, [crash |-> 1]),
    Day(<<Get(pub, x, None), List(pub), Get(pub, x, None), Get(s1, x, None), Host(pub),
          Kv(<<Put(pub, x, tiny)>>)>>, "sqlite", Files, Four, 1, NoFault),
    \* a space hosted again while it is written
    Day(<<Host(s1), Kv(<<Put(s1, x, big)>>), Host(s1), Kv(<<Put(s1, y, small)>>)>>, "postgres", Files,
        Four, 0, NoFault),
    \* database writes against the limit, with a key-value write
    Day(<<Host(s1), Sql(s1, 3, <<t, u>>), Sql(s1, 2, <<t>>), Kv(<<Put(s1, x, small)>>)>>, "postgres",
        Objects, Four, 0, [crash |-> 1]),
    Day(<<Host(s1), With(Sql(s1, 3, <<t>>), {"admin"}), Import(s1, 4), Duck(s1, 1, <<t>>)>>, "postgres",
        Objects, Four, 0, [db |-> 1]),
    Day(<<Host(s1), Sql(s1, 0, <<>>), With(Duck(s1, 1, <<t>>), {"export-caveats"}), Import(s1, 1)>>,
        "sqlite", Files, Unlimited, 0, NoFault),
    \* streams, their limit, their lag and their end
    Day(<<Host(s1), Ticket({Scope("kv", x, {"put"})}, <<"kv", "x">>, 5, 3, {}), Stream(2), Stream(2),
          Kv(<<Put(s1, x, tiny)>>), Kv(<<Del(s1, x), Put(s1, <<"z">>, tiny)>>)>>, "sqlite", Files, Unlimited,
        3, [drop |-> 1]),
    Day(<<Host(s1), Ticket({Scope("kv", x, {}), Scope("sql", db, {})}, <<>>, 1, 3, {2}), Stream(2),
          Batch(<<Put(s1, x, tiny), Put(s1, y, tiny)>>), Sql(s1, 1, <<t>>)>>, "sqlite", Files, Unlimited,
        1, [db |-> 1, crash |-> 1]),
    Day(<<Ticket({Scope("kv", x, {})}, <<"kv", "z">>, 1, 3, {}), Ticket({Scope("kv", x, {"write"})}, <<>>, 1, 3, {}),
          Ticket({Scope("kv", x, {})}, <<"kv", "x">>, 1, 1, {}), Stream(3)>>, "sqlite", Files, Unlimited,
        2, NoFault),
    \* webhooks
    Day(<<Host(s1), Hook(Scope("kv", x, {"put"}), <<"kv">>), Hook(Scope("kv", <<>>, {}), <<>>),
          Batch(<<Put(s1, x, tiny), Put(s1, y, tiny)>>), Unhook(2, <<"kv">>)>>, "postgres", Objects,
        Unlimited, 0, [db |-> 1]),
    Day(<<Host(s1), Hook(Scope("sql", t, {}), <<"sql">>), Sql(s1, 1, <<t, u>>), Unhook(2, <<"kv">>),
          Hook(Scope("duckdb", t, {}), <<"sql", "db">>), Hook(Scope("sql", db, {}), <<"sql", "db", "t">>)>>,
        "postgres", Objects, Unlimited, 0, NoFault),
    \* signed URLs, bound and not, against the clock and new versions
    Day(<<Host(s1), Kv(<<Put(s1, y, tiny)>>), Url(y, tiny, 5, 3, {}), Signed(3), Kv(<<Put(s1, y, small)>>)>>,
        "sqlite", Files, Unlimited, 2, NoFault),
    Day(<<Host(s1), Kv(<<Put(s1, y, tiny)>>), Url(y, None, 5, 3, {2, 1}), Signed(3), Url(y, None, 5, 1, {})>>,
        "sqlite", Files, Unlimited, 3, [db |-> 1]),
    Day(<<Url(<<"z">>, None, 5, 3, {}), With(Url(y, None, 5, 3, {}), {"max-uses"}), Url(x, None, 1, 3, {}), Signed(3)>>,
        "sqlite", Files, Unlimited, 3, NoFault)
>>
MCWorkloads == Days
=============================================================================
