------------------------- MODULE MCCapabilityPolicy -------------------------
(***************************************************************************)
(* Days on which capabilities are passed on, used, listed and withdrawn.   *)
(***************************************************************************)
EXTENDS CapabilityPolicy

-----------------------------------------------------------------------------
(***************************************************************************)
(* SQL texts.  Tables t and s hold rows, v is a view.                      *)
(***************************************************************************)
Part(kind, target, from, columns) ==
    [kind |-> kind, target |-> target, from |-> from, columns |-> columns, qualified |-> {}, protected |-> FALSE]

Access(op, t, c) == [op |-> op, table |-> t, column |-> c, db |-> "main", harmless |-> FALSE, renames |-> FALSE]

Text(parts, calls, reads, changes) ==
    [parts |-> parts, calls |-> calls, reads |-> reads, changes |-> changes, external |-> FALSE]

SelectT == <<Access("select", None, None), Access("read", "t", "c")>>
Master(op) == Access(op, "sqlite_master", "c")

Texts ==
    [select_t |-> Text(<<Part("query", None, {"t"}, {"c"})>>, SelectT, {"t"}, {}),
     \* SELECT c FROM t WHERE c = (SELECT c FROM s)
     nested |-> Text(<<Part("query", None, {"t"}, {"c"})>>,
                     SelectT \o <<Access("select", None, None), Access("read", "s", "c")>>, {"t", "s"}, {}),
     \* WITH x AS (...) INSERT INTO t ...
     with_insert |-> Text(<<Part("query", None, {"t"}, {})>>,
                     <<Access("insert", "t", None), Access("select", None, None)>>, {}, {"t"}),
     insert_t |-> Text(<<Part("insert", "t", {}, {})>>, <<Access("insert", "t", None)>>, {}, {"t"}),
     update_t |-> Text(<<Part("update", "t", {}, {"c"})>>,
                     <<Access("read", "t", "c"), Access("update", "t", "c")>>, {"t"}, {"t"}),
     delete_t |-> Text(<<Part("delete", "t", {}, {})>>, <<Access("delete", "t", None)>>, {}, {"t"}),
     drop_v |-> Text(<<Part("ddl", "v", {}, {})>>,
                     <<Master("delete"), Access("dropView", "v", None), Access("delete", "v", None), Master("read")>>,
                     {}, {"v"}),
     drop_t |-> Text(<<Part("ddl", "t", {}, {})>>,
                     <<Master("delete"), Access("dropTable", "t", None), Access("delete", "t", None),
                       Access("delete", "sqlite_sequence", None), Access("delete", "sqlite_stat1", None)>>,
                     {}, {"t"}),
     drop_i |-> Text(<<Part("ddl", "i", {}, {})>>,
                     <<Master("delete"), Access("dropIndex", "t", None), Access("delete", "sqlite_stat1", None)>>,
                     {}, {}),
     create_i |-> Text(<<Part("ddl", "i", {}, {})>>,
                     <<Master("insert"), Access("createOther", "t", None), Access("select", None, None)>>, {}, {}),
     \* CREATE TABLE copy AS SELECT c FROM s
     copy_s |-> Text(<<Part("ddl", "copy", {}, {})>>,
                     <<Master("insert"), Access("createTable", "copy", None), Access("select", None, None),
                       Access("read", "s", "c")>>, {"s"}, {"copy"}),
     \* ALTER TABLE t RENAME TO ...
     rename_t |-> Text(<<Part("ddl", "t", {}, {})>>,
                     <<Access("alterTable", "t", None), Master("read"),
                       [Access("function", None, None) EXCEPT !.renames = TRUE], Master("update"),
                       Access("update", "sqlite_sequence", "c")>>, {}, {"t"}),
     pragma |-> Text(<<Part("pragma", None, {}, {})>>, <<Access("pragma", None, None)>>, {}, {}),
     attach |-> Text(<<Part("query", None, {}, {})>>, <<Access("attach", None, None)>>, {}, {}),
     two |-> Text(<<Part("query", None, {"t"}, {}), Part("delete", "t", {}, {})>>, <<>>, {"t"}, {"t"}),
     other |-> Text(<<Part("set", None, {}, {})>>, <<>>, {}, {}),
     broken |-> Text(<<Part("broken", None, {}, {})>>, <<>>, {}, {}),
     file |-> [Text(<<Part("query", None, {}, {"c"})>>, <<>>, {}, {}) EXCEPT !.external = TRUE]]

Catalogue ==
    [names |-> DOMAIN Texts,
     parts |-> [x \in DOMAIN Texts |-> Texts[x].parts],
     calls |-> [x \in DOMAIN Texts |-> Texts[x].calls],
     reads |-> [x \in DOMAIN Texts |-> Texts[x].reads],
     changes |-> [x \in DOMAIN Texts |-> Texts[x].changes],
     external |-> [x \in DOMAIN Texts |-> Texts[x].external]]

MCSql == Catalogue

MCWrites(sql) == sql \in {"insert_t", "update_t", "delete_t", "drop_t", "with_insert", "two"}

-----------------------------------------------------------------------------
(***************************************************************************)
(* Capabilities.                                                           *)
(***************************************************************************)
Home == [owner |-> "alice", name |-> "home"]
Away == [owner |-> "bob", name |-> "away"]

Resource(space, service, path) == [space |-> space, service |-> service, path |-> path, fragment |-> None]
Row(ability, path, caveat) ==
    [resource |-> Resource(Home, "sql", path), ability |-> ability, caveats |-> [sql |-> caveat, other |-> None]]
KvRow(ability, path) ==
    [resource |-> Resource(Home, "kv", path), ability |-> ability, caveats |-> NoCaveats]
DuckRow(ability) == [resource |-> Resource(Home, "duckdb", <<"d">>), ability |-> ability, caveats |-> NoCaveats]
ListRow == [resource |-> Resource(Home, "delegation", None), ability |-> "delegation/list", caveats |-> NoCaveats]

Pin(index, value) == [index |-> index, value |-> value]
Stmt(name, sql, fixed) == [name |-> name, sql |-> sql, fixed |-> fixed]
Caveat(statements) == [readOnly |-> TRUE, statements |-> statements]

Wide == Caveat(<<Stmt("mine", "select_t", <<Pin(0, "true")>>), Stmt("all", "nested", <<>>)>>)
Narrow1 == Caveat(<<Stmt("mine", "select_t", <<Pin(0, "true"), Pin(1, "two")>>)>>)
Elsewhere == Caveat(<<Stmt("mine", "select_t", <<Pin(0, "one")>>)>>)
Loose == Caveat(<<Stmt("mine", "select_t", <<>>)>>)
Writable == [readOnly |-> FALSE, statements |-> <<>>]

Grant(from, to, parents, rows, notBefore, expiry) ==
    [from |-> from, to |-> to, parents |-> parents, rows |-> rows, notBefore |-> notBefore,
     expiry |-> expiry, terminal |-> FALSE, issued |-> 0]

Inv(parents, rows, invoker) == [parents |-> parents, rows |-> rows, invoker |-> invoker]

-----------------------------------------------------------------------------
(***************************************************************************)
(* Requests.                                                               *)
(***************************************************************************)
On(kind, d) == [kind |-> kind, target |-> d]
Db(kind, inv, op, sqls, facts) ==
    [kind |-> kind, inv |-> inv, op |-> op, sqls |-> sqls, name |-> None, params |-> <<>>, facts |-> facts]
Stated(inv, name, params, facts) ==
    [kind |-> "sql", inv |-> inv, op |-> "statement", sqls |-> <<>>, name |-> name, params |-> params, facts |-> facts]
Tables(T) == [tables |-> T, columns |-> None, readOnly |-> FALSE, statements |-> None]
Prepared(name, sql) ==
    [tables |-> None, columns |-> None, readOnly |-> FALSE, statements |-> <<[name |-> name, sql |-> sql]>>]

DayUntil(last, fills, grants, jobs, extra) ==
    [last |-> last, fills |-> fills, grants |-> grants, jobs |-> jobs,
     raws |-> {jobs[i].raw : i \in {k \in DOMAIN jobs : jobs[k].kind = "attenuate"}},
     invocations |-> extra \cup {jobs[i].inv : i \in {k \in DOMAIN jobs : "inv" \in DOMAIN jobs[k]}}]

Day(grants, jobs, extra) == DayUntil(2, {FALSE}, grants, jobs, extra)
DbDay(grants, jobs, extra) == DayUntil(0, BOOLEAN, grants, jobs, extra)

Unused == Grant("alice", "alice", {}, {}, 0, 0)

\* A caveat passed on, narrowed and used: named, raw, with facts of its own.
CaveatDay(row2, jobs) ==
    DbDay(<<Grant("alice", "k1", {}, {Row("sql/read", <<"d">>, Wide)}, 0, 3),
          Grant("k1", "k2", {1}, {row2}, 0, 3), Unused, Unused>>,
        <<On("delegate", 1), On("delegate", 2)>> \o jobs, {})

ByK2(row) == Inv({2}, {row}, "k2")
R2 == Row("sql/select", <<"d">>, Narrow1)

CaveatDays ==
    {CaveatDay(R2, <<Stated(ByK2(R2), "mine", <<>>, Prepared("mine", "nested")),
                     Db("sql", ByK2(R2), "query", <<"select_t">>, None), On("revoke", 1)>>),
     CaveatDay(R2, <<Stated(ByK2(R2), "all", <<>>, None), Stated(ByK2(R2), "mine", <<"x">>, None)>>),
     CaveatDay(Row("sql/read", <<"d">>, Loose), <<Stated(ByK2(Row("sql/read", <<"d">>, Loose)), "mine", <<>>, None)>>),
     CaveatDay(Row("sql/read", <<"d">>, None), <<Db("sql", ByK2(Row("sql/read", <<"d">>, None)), "query", <<"nested">>, None)>>)}

\* One holder of each tier, and what they send.
TierDay(ability, jobs) ==
    DbDay(<<Grant("alice", "k1", {}, {Row(ability, <<"d">>, None)}, 0, 3), Unused, Unused, Unused>>,
        <<On("delegate", 1)>> \o jobs, {})
Ask(ability, op, sqls, facts) == Db("sql", Inv({1}, {Row(ability, <<"d">>, None)}, "k1"), op, sqls, facts)

TierDays ==
    {TierDay("sql/schema", <<Ask("sql/schema", "batch", <<"drop_v", "copy_s">>, None),
                             Ask("sql/schema", "execute", <<"create_i", "drop_t">>, None)>>),
     TierDay("sql/schema", <<Ask("sql/schema", "batch", <<"rename_t", "drop_i">>, None),
                             Ask("sql/schema", "query", <<"select_t">>, None),
                             Ask("sql/schema", "query", <<"attach">>, None)>>),
     TierDay("sql/select", <<Ask("sql/select", "query", <<"with_insert">>, None),
                             Ask("sql/read", "batch", <<"select_t", "update_t">>, None),
                             Ask("sql/read", "query", <<"pragma">>, None)>>),
     TierDay("sql/read", <<Ask("sql/read", "execute", <<"copy_s">>, None), Ask("sql/read", "export", <<>>, None),
                           Ask("sql/admin", "query", <<"pragma">>, None)>>),
     TierDay("sql/write", <<Ask("sql/write", "query", <<"nested">>, Tables({"t"})),
                            Ask("sql/write", "batch", <<"select_t", "delete_t">>, Tables({"t"})),
                            Ask("sql/write", "execute", <<"insert_t", "select_t">>, Tables({"s"}))>>),
     TierDay("sql/*", <<Ask("sql/admin", "query", <<"pragma">>, None), Ask("sql/*", "query", <<"two">>, None),
                        Ask("sql/*", "execute", <<"drop_t", "insert_t">>, None)>>),
     TierDay("sql/write", <<Stated(Inv({1}, {Row("sql/write", <<"d">>, None)}, "k1"), "w", <<>>, Prepared("w", "update_t")),
                            Stated(Inv({1}, {Row("sql/write", <<"d">>, None)}, "k1"), "x", <<>>, Prepared("w", "update_t"))>>)}

DuckDay(ability, jobs) ==
    DbDay(<<Grant("alice", "k1", {}, {DuckRow(ability)}, 0, 3), Unused, Unused, Unused>>,
        <<On("delegate", 1)>> \o jobs, {})
Duck(ability, op, sqls, facts) == Db("duckdb", Inv({1}, {DuckRow(ability)}, "k1"), op, sqls, facts)

DuckDays ==
    {DuckDay("duckdb/read", <<Duck("duckdb/read", "query", <<"two">>, None), Duck("duckdb/read", "query", <<"file">>, None),
                              Duck("duckdb/read", "describe", <<>>, None)>>),
     DuckDay("duckdb/read", <<Duck("duckdb/read", "batch", <<"select_t", "insert_t">>, None),
                              Duck("duckdb/read", "query", <<"select_t">>, Tables({"t"})),
                              Duck("duckdb/read", "export", <<>>, Tables({"t"}))>>),
     DuckDay("duckdb/write", <<Duck("duckdb/write", "batch", <<"select_t", "insert_t">>, None),
                               Duck("duckdb/write", "execute", <<"copy_s", "select_t">>, None),
                               Duck("duckdb/write", "ingest", <<>>, None)>>),
     DuckDay("duckdb/admin", <<Duck("duckdb/admin", "query", <<"other">>, None), Duck("duckdb/admin", "export", <<>>, None)>>),
     DuckDay("duckdb/import", <<Duck("duckdb/import", "query", <<>>, None), Duck("duckdb/read", "query", <<"broken">>, None)>>)}

-----------------------------------------------------------------------------
\* A chain of three with narrowing paths, abilities and windows, and a
\* fourth delegation that claims more than it was given.
Deep(rows3, rows4, window3) ==
    <<Grant("alice", "bob", {}, {KvRow("kv/delete", <<"a">>), Row("sql/*", None, None)}, 0, 3),
      Grant("bob", "k1", {1}, {KvRow("kv/del", <<"a", "/">>), Row("sql/admin", <<"d">>, None)}, 0, 3),
      Grant("k1", "k2", {2}, rows3, window3[1], window3[2]),
      [Grant("k2", "k1", {3}, rows4, 0, 2) EXCEPT !.terminal = TRUE]>>

DeepJobs == <<On("delegate", 1), On("delegate", 2), On("delegate", 3), On("delegate", 4), On("revoke", 2)>>

Kv(p) == KvRow("kv/del", p)

ChainDays ==
    {Day(Deep({Kv(<<"a", "/", "b">>), Row("sql/schema", <<"d">>, Loose)}, {Kv(<<"a", "/", "b">>)}, <<0, 2>>), DeepJobs,
         {Inv({4}, {Kv(<<"a", "/", "b", "/">>)}, "k1"), Inv({3}, {Kv(<<"a">>)}, "k2"),
          Inv({3}, {Row("sql/schema", <<"d">>, Loose)}, "k2"), Inv({2, 3}, {Kv(<<"a", "/">>)}, "k1")}),
     Day(Deep({Kv(<<"a", "b">>)}, {Kv(<<"a">>)}, <<0, 3>>), DeepJobs,
         {Inv({3}, {Kv(<<"a", "b">>)}, "k2"), Inv({4}, {Kv(<<"a">>)}, "k1")}),
     Day(Deep({Row("sql/write", <<"d">>, None)}, {Row("sql/write", <<"d">>, None)}, <<0, 3>>), DeepJobs,
         {Inv({3}, {Row("sql/write", <<"d">>, None)}, "k2")}),
     \* The owner cites a delegation that ends before the new one.
     Day(<<Grant("alice", "k1", {}, {Kv(<<"a">>)}, 0, 1), Grant("alice", "k2", {1}, {Kv(<<"a">>)}, 0, 3), Unused, Unused>>,
         <<On("delegate", 1), On("delegate", 2), On("revoke", 1)>>, {Inv({2}, {Kv(<<"a">>)}, "k2")}),
     Day(Deep({Row("sql/schema", <<"d">>, Writable)}, {Row("sql/schema", <<"d">>, Writable)}, <<1, 3>>), DeepJobs,
         {Inv({3}, {Row("sql/schema", <<"d">>, Writable)}, "k2")})}

Read(d, who) == Inv({d}, {Kv(<<"a", "/">>)}, who)
Filters(direction, path, actions) == [direction |-> direction, path |-> path, actions |-> actions]

SpaceDays ==
    {Day(Deep({Kv(<<"a", "/", "b">>)}, {Kv(<<"a", "/", "b">>)}, <<0, 2>>),
         <<On("delegate", 1), On("delegate", 2), On("delegate", 3), On("revoke", 1),
           [kind |-> "chain", target |-> 3, space |-> Home, inv |-> Inv({}, {Kv(None)}, "alice")],
           [kind |-> "space", space |-> Home, filters |-> Filters("received", <<"a">>, {"kv/del"}),
            inv |-> Inv({2}, {Kv(<<"a", "/">>)}, "k1")]>>, {}),
     Day(Deep({Kv(<<"a", "/", "b">>)}, {Kv(<<"a", "/", "b">>)}, <<0, 2>>),
         <<On("delegate", 1), On("delegate", 2),
           [kind |-> "chain", target |-> 2, space |-> Away, inv |-> Inv({2}, {Kv(<<"a", "/">>)}, "k1")],
           [kind |-> "space", space |-> Home, filters |-> Filters("created", None, {}),
            inv |-> Inv({}, {Kv(None)}, "alice")]>>, {})}

-----------------------------------------------------------------------------
\* An account with session keys lists its records.
Issued(g, t) == [g EXCEPT !.issued = t]
Query(direction, space, status, limit) ==
    [principal |-> "alice", direction |-> direction, space |-> space, status |-> status, limit |-> limit]
List(inv, q) == [kind |-> "list", inv |-> inv, query |-> q]
Accounts ==
    <<Issued(Grant("alice", "k1", {}, {ListRow, Kv(<<"a">>)}, 0, 3), 1),
      Issued(Grant("k1", "k2", {1}, {ListRow}, 0, 2), 2),
      Issued(Grant("alice", "bob", {}, {Kv(<<"a">>)}, 0, 1), 2),
      Issued(Grant("k2", "bob", {2}, {ListRow}, 0, 2), 0)>>
Registrations == <<On("delegate", 1), On("delegate", 2), On("delegate", 3), On("delegate", 4)>>

ListDays ==
    {Day(Accounts, Registrations \o <<List(Inv({}, {ListRow}, "alice"), Query("all", None, None, 1))>>, {}),
     Day(Accounts, Registrations \o <<List(Inv({2}, {ListRow}, "k2"), Query("all", Home, None, 2)), On("revoke", 3)>>, {}),
     Day(Accounts, Registrations \o <<List(Inv({1}, {ListRow}, "k1"), Query("received", None, None, 1))>>, {}),
     Day(Accounts, Registrations \o <<On("revoke", 1), List(Inv({}, {ListRow}, "alice"), Query("granted", None, "revoked", 1))>>, {})}

-----------------------------------------------------------------------------
\* Capabilities of a policy, narrowed in any order.
Raw(service, path, actions, caveats) ==
    [keys |-> "known", service |-> service, space |-> "home", path |-> path, actions |-> actions, caveats |-> caveats]
Attempt(raw) == [kind |-> "attenuate", raw |-> raw]

PolicyDays ==
    {DayUntil(0, {FALSE}, <<Unused, Unused, Unused, Unused>>, [i \in DOMAIN raws |-> Attempt(raws[i])], {}) : raws \in
        {<<Raw("kv", <<"a", "/">>, {"kv/delete", "kv/get"}, None), Raw("kv", <<"a", "/", "%a", "/">>, {"kv/del"}, None),
           Raw("kv", <<"a", "/", "a", "/", "a">>, {"kv/del"}, None), Raw("kv", <<"a", "/", "a">>, {"kv/get"}, None),
           Raw("kv", <<"a", "/", "%.", ".", "/", "a">>, {"kv/get"}, None)>>,
         <<Raw("sql", <<"a">>, {"sql/*"}, None), Raw("sql", <<"a">>, {"sql/read"}, Wide),
           Raw("sql", <<"a">>, {"sql/select"}, Narrow1), Raw("sql", <<"a">>, {"sql/read"}, Loose), Raw("sql", <<"a">>, {"sql/read"}, Elsewhere),
           Raw("sql", <<"a">>, {"sql/read"}, Caveat(<<Stmt("w", "update_t", <<>>)>>))>>,
         <<[Raw("kv", <<"a">>, {"kv/get"}, None) EXCEPT !.keys = "unknown"],
           [Raw("kv", <<"a">>, {"kv/get"}, None) EXCEPT !.space = "wildcard"],
           Raw("none", <<"a">>, {"kv/get"}, None), Raw("kv", <<"a">>, {"kv/get"}, Loose),
           Raw("kv", <<"a">>, {"sql/read"}, None)>>}}

Days == CaveatDays \cup TierDays \cup DuckDays \cup ChainDays \cup SpaceDays \cup ListDays \cup PolicyDays

MCWorkloads == Days

=============================================================================
