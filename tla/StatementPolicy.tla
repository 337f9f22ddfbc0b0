-------------------------- MODULE StatementPolicy --------------------------
(***************************************************************************)
(* What a database request may do.  Three guards stand between an          *)
(* invocation and the engine: the profile of a constrained-statements      *)
(* caveat (routes/mod.rs), the classification of the SQL text (parser.rs)  *)
(* and, for SQLite, the authorizer that the engine calls for every access  *)
(* it compiles (authorizer.rs).                                            *)
(*                                                                         *)
(* SQL text is a name; Sql[name] says what the parsers find in it (parts), *)
(* which accesses SQLite reports for it (calls), and which tables running  *)
(* it changes and shows.                                                   *)
(***************************************************************************)
EXTENDS CapabilityAlgebra

CONSTANT Sql

(***************************************************************************)
(* The caveats of an execution: allowed tables and columns, prepared       *)
(* statements and a read-only flag.                                        *)
(***************************************************************************)
is_table_allowed(caveats, t) == caveats = None \/ caveats.tables = None \/ t \in caveats.tables
is_column_allowed(caveats, c) == caveats = None \/ caveats.columns = None \/ c \in caveats.columns
is_write_allowed(caveats) == caveats = None \/ ~caveats.readOnly

\* The first statement of that name.
find_statement(caveats, name) ==
    IF caveats = None \/ caveats.statements = None \/ ~\E s \in Sql.names : Named(caveats, name, [name |-> name, sql |-> s])
    THEN None
    ELSE CHOOSE s \in Sql.names : Named(caveats, name, [name |-> name, sql |-> s])

-----------------------------------------------------------------------------
(***************************************************************************)
(* The parsers.  Tables are taken from FROM clauses and targets, columns   *)
(* from plain projections and assignments; what only occurs inside an      *)
(* expression is not found.                                                *)
(***************************************************************************)
Parts(sql) == Sql.parts[sql]
Kinds(sql) == {Parts(sql)[i].kind : i \in DOMAIN Parts(sql)}

DataKinds == {"insert", "update", "delete"}
ChangeKinds == DataKinds \cup {"ddl"}

extract_tables(part) ==
    CASE part.kind = "query" -> part.from
      [] part.kind \in {"insert", "ddl"} -> {part.target}
      [] part.kind \in {"update", "delete"} -> {part.target} \cup part.from
      [] OTHER -> {}

extract_columns(part) == IF part.kind \in {"query", "update"} THEN part.columns ELSE {}

\* DuckDB's parser also reports qualified columns and "*".
extract_duckdb_columns(part) ==
    extract_columns(part) \cup (IF part.kind = "query" THEN part.qualified ELSE {})

CaveatsAllow(caveats, readOnly, tables, columns) ==
    /\ readOnly \/ is_write_allowed(caveats)
    /\ \A t \in tables : is_table_allowed(caveats, t)
    /\ \A c \in columns : is_column_allowed(caveats, c)

is_pragma_sql(sql) == Kinds(sql) = {"pragma"}

\* ParsedQuery::is_read_only
SqlReadOnly(sql) == Kinds(sql) \cap ChangeKinds = {}

SqlValid(sql, caveats, ability) ==
    IF is_pragma_sql(sql) THEN ability_matches(ability, "sql/admin")
    ELSE LET part == Parts(sql)[1]
             ddl == part.kind = "ddl" IN
         /\ Len(Parts(sql)) = 1
         /\ part.kind \in ChangeKinds \cup {"query"}
         /\ ddl => ability_matches(ability, "sql/write") \/ ability_matches(ability, "sql/schema")
         /\ resolve_alias(ability) = "sql/schema" => ddl
         /\ resolve_alias(ability) = "sql/read" => SqlReadOnly(sql)
         /\ CaveatsAllow(caveats, SqlReadOnly(sql), extract_tables(part), extract_columns(part))

\* DuckDB: a statement of the caveats is taken as approved; else an admin
\* may do anything but change a protected setting, and the others what the
\* allowlist has.
Preapproved(sql, caveats) ==
    caveats # None /\ caveats.statements # None /\
    \E i \in DOMAIN caveats.statements : caveats.statements[i].sql = sql

DuckReadOnly(sql) == Kinds(sql) \cap (ChangeKinds \cup {"set"}) = {}

check_statement_allowed(part, mayWrite) ==
    \/ part.kind \in {"query", "explain", "transaction"}
    \/ part.kind \in ChangeKinds /\ mayWrite

check_admin_blocked(part) == part.kind = "set" => ~part.protected

DuckCaveats(sql, caveats) ==
    LET all(E(_)) == UNION {E(Parts(sql)[i]) : i \in DOMAIN Parts(sql)} IN
    CaveatsAllow(caveats, DuckReadOnly(sql), all(extract_tables), all(extract_duckdb_columns))

DuckValid(sql, caveats, ability) ==
    LET admin == ability_matches(ability, "duckdb/admin")
        mayWrite == admin \/ ability_matches(ability, "duckdb/write") IN
    /\ "broken" \notin Kinds(sql)
    /\ admin \/ ~Sql.external[sql]
    /\ DuckCaveats(sql, caveats)
    /\ Preapproved(sql, caveats) \/
          /\ Parts(sql) # <<>>
          /\ \A i \in DOMAIN Parts(sql) :
                IF admin THEN check_admin_blocked(Parts(sql)[i])
                         ELSE check_statement_allowed(Parts(sql)[i], mayWrite)
          /\ "ddl" \in Kinds(sql) => mayWrite
          /\ resolve_alias(ability) = "duckdb/read" => DuckReadOnly(sql)

-----------------------------------------------------------------------------
(***************************************************************************)
(* The authorizer: a closure with some memory of the statement it serves.  *)
(* It is asked about each access and answers allow or deny.                *)
(***************************************************************************)
NewAuthorizer == [ddl |-> FALSE, state |-> None, drop |-> None, alter |-> FALSE]

SchemaTables == {"sqlite_master"}
StatTables == {"sqlite_stat1"}
AuxiliaryTables == {"sqlite_sequence"} \cup StatTables
SchemaChanges == {"createTable", "dropTable", "dropView", "alterTable", "dropIndex", "createOther"}

IsAdmin(ability) == ability_matches(ability, "sql/admin")
\* The exact schema tier, which admin is not.
SchemaOnly(ability) == ~IsAdmin(ability) /\ resolve_alias(ability) = "sql/schema"

can_write_data(ability) == IsAdmin(ability) \/ ability_matches(ability, "sql/write")

can_write_table(ability, t) ==
    can_write_data(ability) \/ (resolve_alias(ability) = "sql/schema" /\ t \in SchemaTables)

\* The statement under way changes the schema of that database in one of
\* those ways.
schema_ddl_matches_database(au, db, kinds) ==
    au.state # None /\ au.state.db = db /\ au.state.kind \in kinds

can_update_table(au, ability, db, t) ==
    \/ can_write_table(ability, t)
    \/ /\ resolve_alias(ability) = "sql/schema"
       /\ t \in AuxiliaryTables
       /\ schema_ddl_matches_database(au, db, {"alterTable"})

can_delete_table(au, ability, db, t) ==
    \/ can_write_table(ability, t)
    \/ /\ resolve_alias(ability) = "sql/schema"
       /\ \/ au.drop # None /\ au.drop.db = db /\ au.drop.object = t
          \/ /\ t = "sqlite_sequence"
             /\ au.drop # None /\ au.drop.kind = "table"
             /\ schema_ddl_matches_database(au, db, {"dropTable"})
          \/ t \in StatTables /\ schema_ddl_matches_database(au, db, {"dropIndex", "dropTable"})

MayChangeSchema(ability) ==
    IsAdmin(ability) \/ ability_matches(ability, "sql/write") \/ ability_matches(ability, "sql/schema")

Allows(au, call, caveats, ability) ==
    CASE call.op = "pragma" -> call.harmless \/ IsAdmin(ability)
      [] call.op = "function" -> call.harmless \/ (au.alter /\ call.renames)
      [] call.op = "read" ->
            /\ SchemaOnly(ability) => au.ddl \/ call.table \in SchemaTables
            /\ is_table_allowed(caveats, call.table) /\ is_column_allowed(caveats, call.column)
      [] call.op = "insert" ->
            /\ can_write_table(ability, call.table)
            /\ is_write_allowed(caveats) /\ is_table_allowed(caveats, call.table)
      [] call.op = "delete" ->
            /\ can_delete_table(au, ability, call.db, call.table)
            /\ is_write_allowed(caveats) /\ is_table_allowed(caveats, call.table)
      [] call.op = "update" ->
            /\ can_update_table(au, ability, call.db, call.table)
            /\ is_write_allowed(caveats) /\ is_table_allowed(caveats, call.table)
            /\ is_column_allowed(caveats, call.column)
      [] call.op \in SchemaChanges -> MayChangeSchema(ability)
      [] call.op = "select" -> SchemaOnly(ability) => au.ddl
      [] OTHER -> FALSE

\* What it remembers of an access it allowed.
Remember(au, call, ability) ==
    CASE call.op = "alterTable" ->
            IF SchemaOnly(ability)
            THEN [au EXCEPT !.alter = TRUE, !.ddl = TRUE, !.state = [db |-> call.db, kind |-> call.op]]
            ELSE [au EXCEPT !.alter = TRUE]
      [] ~SchemaOnly(ability) -> au
      [] call.op = "dropTable" ->
            [au EXCEPT !.ddl = TRUE, !.state = [db |-> call.db, kind |-> call.op],
                       !.drop = [db |-> call.db, object |-> call.table, kind |-> "table"]]
      [] call.op = "dropView" ->
            [au EXCEPT !.ddl = TRUE,
                       !.drop = [db |-> call.db, object |-> call.table, kind |-> "view"]]
      [] call.op = "dropIndex" ->
            [au EXCEPT !.ddl = TRUE, !.state = [db |-> call.db, kind |-> call.op]]
      [] call.op = "createOther" -> [au EXCEPT !.ddl = TRUE]
      [] OTHER -> au

-----------------------------------------------------------------------------
(***************************************************************************)
(* The constrained-statements profile: only a named statement, none of its *)
(* pinned parameters supplied, the rest plain values.                      *)
(***************************************************************************)
looks_like_escape(v) == v = "quoted"

\* A pinned JSON value as the engine gets it.
json_to_sql_value(v) == IF v = "true" THEN "1" ELSE v

enforce_constrained_profile(caveat, q) ==
    /\ q.op = "statement"
    /\ \E s \in {caveat.statements[i] : i \in DOMAIN caveat.statements} :
          /\ Named(caveat, q.name, s)
          /\ ~Writes(s.sql)
          /\ Len(Parts(s.sql)) = 1
          /\ \A i \in DOMAIN s.fixed : Len(q.params) <= s.fixed[i].index /\ s.fixed[i].value # "object"
          /\ \A i \in DOMAIN q.params : ~looks_like_escape(q.params[i]) /\ q.params[i] # "blob"

Highest(S) == CHOOSE x \in S : \A y \in S : y <= x

substitute_fixed_params(s, params) ==
    [i \in 1..Highest({Len(params)} \cup {s.fixed[k].index + 1 : k \in DOMAIN s.fixed}) |->
        IF \E k \in DOMAIN s.fixed : s.fixed[k].index = i - 1
        THEN json_to_sql_value(CHOOSE v \in {s.fixed[k].value : k \in DOMAIN s.fixed} : Pinned(s, i - 1, v))
        ELSE IF i <= Len(params) THEN params[i] ELSE "null"]

constrained_caveat_to_sql_caveats(caveat) ==
    [tables |-> None, columns |-> None, readOnly |-> caveat.readOnly,
     statements |-> [i \in DOMAIN caveat.statements |->
        [name |-> caveat.statements[i].name, sql |-> caveat.statements[i].sql]]]

-----------------------------------------------------------------------------
(***************************************************************************)
(* Which database and which ability a request is served with.              *)
(***************************************************************************)
Preferred(service) ==
    IF service = "sql"
    THEN <<"sql/write", "sql/schema", "sql/admin", "sql/*", "sql/read", "sql/select">>
    ELSE <<"duckdb/write", "duckdb/admin", "duckdb/*", "duckdb/import", "duckdb/export",
           "duckdb/read", "duckdb/select">>

\* One space, and one path among the rows that name one.
select_database_path(rows) ==
    /\ \A r, s \in rows : r.resource.space = s.resource.space
    /\ \A r, s \in rows :
          r.resource.path = None \/ s.resource.path = None \/ r.resource.path = s.resource.path

Serves(rows, service, k) == \E r \in rows : resolve_alias(r.ability) = resolve_alias(Preferred(service)[k])

preferred_database_ability(rows, service) ==
    LET slots == {k \in DOMAIN Preferred(service) : Serves(rows, service, k)} IN
    IF slots = {} THEN None
    ELSE LET first == CHOOSE k \in slots : \A j \in slots : k <= j IN
         CHOOSE a \in {r.ability : r \in rows} : resolve_alias(a) = resolve_alias(Preferred(service)[first])

has_database_admin_capability(rows, service) ==
    \E r \in rows : ability_matches(r.ability, IF service = "sql" THEN "sql/admin" ELSE "duckdb/admin")

require_sql_admin_for_request(q, rows) ==
    q.op \in {"query", "execute", "batch"} /\ (\E i \in DOMAIN q.sqls : is_pragma_sql(q.sqls[i]))
        => has_database_admin_capability(rows, "sql")

\* Classification for the quota: text that does not pass is no write.
sql_request_is_write(q, caveats, ability) ==
    LET isWrite(sql) == SqlValid(sql, caveats, ability) /\ ~SqlReadOnly(sql) IN
    CASE q.op = "export" -> FALSE
      [] q.op = "statement" ->
            find_statement(caveats, q.name) # None /\ isWrite(find_statement(caveats, q.name))
      [] q.op = "execute" -> Len(q.sqls) > 1 \/ isWrite(q.sqls[Len(q.sqls)])
      [] OTHER -> \E i \in DOMAIN q.sqls : isWrite(q.sqls[i])

duckdb_request_is_write(q, caveats, ability) ==
    LET isWrite(sql) == DuckValid(sql, caveats, ability) /\ ~DuckReadOnly(sql) IN
    CASE q.op \in {"describe", "export"} -> FALSE
      [] q.op \in {"ingest", "exportToKv", "import"} -> TRUE
      [] q.op = "statement" ->
            find_statement(caveats, q.name) # None /\ isWrite(find_statement(caveats, q.name))
      [] q.op = "execute" -> Len(q.sqls) > 1 \/ isWrite(q.sqls[Len(q.sqls)])
      [] OTHER -> \E i \in DOMAIN q.sqls : isWrite(q.sqls[i])

=============================================================================
