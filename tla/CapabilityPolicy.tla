-------------------------- MODULE CapabilityPolicy --------------------------
(***************************************************************************)
(* Requests that are decided by what a capability says: registrations and  *)
(* revocations, narrowing of a policy, SQL and DuckDB requests on their    *)
(* way through the guards, and the listings of delegations.                *)
(*                                                                         *)
(* A database request reads the grants twice: for the caveat of its chain  *)
(* and then to be authorised.  The account query reads them once a page.   *)
(***************************************************************************)
EXTENDS StatementPolicy, AccountListing

VARIABLES
    req,        \* req[r]: what the handler of request r has done
    full        \* the space has no quota left; one of load.fills, never changes

vars == <<grantVars, req, full>>

Slots == DOMAIN req
Job(r) == load.jobs[r]

Fresh ==
    [pc |-> "new", answer |-> None, derived |-> None, known |-> FALSE, ability |-> None,
     caveats |-> None, params |-> <<>>, todo |-> <<>>, ran |-> <<>>, au |-> NewAuthorizer, at |-> 1,
     gated |-> FALSE, cursor |-> None, seen |-> <<>>, first |-> {}, time |-> 0]

Init ==
    /\ GrantInit
    /\ req = [r \in DOMAIN load.jobs |-> Fresh]
    /\ full \in load.fills

\* The request is answered.
Reply(r, answer) == req' = [req EXCEPT ![r].pc = "done", ![r].answer = answer]

Is(r, pc, kinds) == req[r].pc = pc /\ Job(r).kind \in kinds

Unmoved == UNCHANGED <<grantVars, full>>

-----------------------------------------------------------------------------
(***************************************************************************)
(* Writers.                                                                *)
(***************************************************************************)
Delegate(r) ==
    /\ Is(r, "new", {"delegate"})
    /\ IF Registers(Job(r).target)
       THEN Register(Job(r).target) /\ Reply(r, "stored")
       ELSE Reply(r, "refused") /\ UNCHANGED grantVars
    /\ UNCHANGED full

Withdraw(r) ==
    /\ Is(r, "new", {"revoke"})
    /\ IF Job(r).target \in stored
       THEN Revoke(Job(r).target) /\ Reply(r, "revoked")
       ELSE Reply(r, "refused") /\ UNCHANGED grantVars
    /\ UNCHANGED full

Narrow(r) ==
    /\ Is(r, "new", {"attenuate"})
    /\ IF Admits(Job(r).raw)
       THEN Attenuate(Job(r).raw) /\ Reply(r, "admitted")
       ELSE Reply(r, "refused") /\ UNCHANGED grantVars
    /\ UNCHANGED full

-----------------------------------------------------------------------------
(***************************************************************************)
(* A database request.  The caveat of the chain is that of the nearest     *)
(* level that has one, whichever row of that level is read first.          *)
(***************************************************************************)
CaveatsOf(S) == {row.caveats.sql : row \in UNION {Content(d).rows : d \in S \cap stored}} \ {None}

Levels(parents) ==
    LET level[k \in 1..Cardinality(Delegations)] ==
            IF k = 1 THEN parents ELSE UNION {Links[d] : d \in level[k - 1]}
    IN level

ChainCaveats(parents) ==
    LET level == Levels(parents)
        carrying == {k \in DOMAIN level : CaveatsOf(level[k]) # {}} IN
    IF carrying = {} THEN {None}
    ELSE CaveatsOf(level[CHOOSE k \in carrying : \A j \in carrying : k <= j])

Derive(r) ==
    /\ Is(r, "new", {"sql"})
    /\ \E caveat \in ChainCaveats(Job(r).inv.parents) :
          req' = [req EXCEPT ![r].pc = "derived", ![r].derived = caveat,
                             ![r].known = Job(r).inv.parents \subseteq stored]
    /\ Unmoved

Authorized(r) == Accepts(Job(r).inv.parents, Job(r).inv.rows, Job(r).inv.invoker)

verify_auth(r) ==
    /\ Is(r, "derived", {"sql"}) \/ Is(r, "new", {"duckdb"})
    /\ IF Authorized(r) THEN req' = [req EXCEPT ![r].pc = "admit"] ELSE Reply(r, "unauthorized")
    /\ Unmoved

\* The statements of a request: schema statements first, or the named one.
Statements(q, caveats) ==
    IF q.op # "statement" THEN q.sqls
    ELSE IF find_statement(caveats, q.name) = None THEN <<>> ELSE <<find_statement(caveats, q.name)>>

Parameters(caveat, q) ==
    IF caveat = None THEN q.params
    ELSE substitute_fixed_params(CHOOSE s \in {caveat.statements[i] : i \in DOMAIN caveat.statements} :
            Named(caveat, q.name, s), q.params)

\* Past the guards of the handler, with the quota looked at for a write.
Dispatch(r, ability, caveats, isWrite) ==
    IF isWrite /\ full THEN Reply(r, "full")
    ELSE req' = [req EXCEPT ![r].pc = "run", ![r].ability = ability, ![r].caveats = caveats,
                            ![r].params = Parameters(req[r].derived, Job(r)),
                            ![r].todo = Statements(Job(r), caveats), ![r].gated = isWrite]


ExecCaveats(derived, facts) ==
    IF derived # None THEN constrained_caveat_to_sql_caveats(derived) ELSE facts

handle_sql_invoke(r) ==
    LET q == Job(r)
        rows == q.inv.rows
        ability == preferred_database_ability(rows, "sql")
        caveats == ExecCaveats(req[r].derived, q.facts) IN
    /\ Is(r, "admit", {"sql"})
    /\ IF \/ ~select_database_path(rows)
          \/ ability = None
          \/ ~require_sql_admin_for_request(q, rows)
          \/ req[r].derived # None /\ ~enforce_constrained_profile(req[r].derived, q)
       THEN Reply(r, "refused")
       ELSE IF q.op = "export" THEN Reply(r, "exported")
       ELSE Dispatch(r, ability, caveats, sql_request_is_write(q, caveats, ability))
    /\ Unmoved

\* An import takes no request body of this kind; it replaces the database.
handle_duckdb_invoke(r) ==
    LET q == Job(r)
        rows == q.inv.rows
        ability == preferred_database_ability(rows, "duckdb") IN
    /\ Is(r, "admit", {"duckdb"})
    /\ IF ~select_database_path(rows) \/ ability = None THEN Reply(r, "refused")
       ELSE IF ability = "duckdb/import" THEN Reply(r, IF full THEN "full" ELSE "imported")
       ELSE IF q.op = "export" THEN Reply(r, IF q.facts # None THEN "refused" ELSE "exported")
       ELSE Dispatch(r, ability, q.facts, duckdb_request_is_write(q, q.facts, ability))
    /\ Unmoved

-----------------------------------------------------------------------------
(***************************************************************************)
(* handle_message: the statements one after the other.  A batch is         *)
(* validated as a whole first; each statement gets an authorizer.  What    *)
(* an earlier statement did stays when a later one fails.                  *)
(***************************************************************************)
Valid(r, sql) ==
    IF Job(r).kind = "sql" THEN SqlValid(sql, req[r].caveats, req[r].ability)
                           ELSE DuckValid(sql, req[r].caveats, req[r].ability)

Head1(r) == req[r].todo[1]

InstallAuthorizer(au) == NewAuthorizer

\* Mutant: a statement that has run is started again.
RanAgain(r) == [req EXCEPT ![r].pc = "run"]

Ran(r) ==
    [req EXCEPT ![r].ran = Append(@, Head1(r)), ![r].todo = Tail(@),
                ![r].pc = IF Len(req[r].todo) = 1 THEN "done" ELSE "run",
                ![r].answer = IF Len(req[r].todo) = 1 THEN "ok" ELSE None]

Prepare(r) ==
    /\ req[r].pc = "run"
    /\ IF \/ req[r].todo = <<>>
          \/ ~Valid(r, Head1(r))
          \/ Job(r).op = "batch" /\ \E i \in DOMAIN req[r].todo : ~Valid(r, req[r].todo[i])
       THEN Reply(r, IF Job(r).op = "describe" THEN "ok" ELSE "refused")
       ELSE IF Job(r).kind = "duckdb" THEN req' = Ran(r)
       ELSE req' = [req EXCEPT ![r].pc = "call", ![r].at = 1, ![r].au = InstallAuthorizer(@)]
    /\ Unmoved

Calls(r) == Sql.calls[Head1(r)]

AuthorizerCall(r) ==
    /\ req[r].pc = "call"
    /\ req[r].at \in DOMAIN Calls(r)
    /\ LET call == Calls(r)[req[r].at] IN
       IF Allows(req[r].au, call, req[r].caveats, req[r].ability)
       THEN req' = [req EXCEPT ![r].at = @ + 1, ![r].au = Remember(@, call, req[r].ability)]
       ELSE Reply(r, "denied")
    /\ Unmoved

Execute(r) ==
    /\ req[r].pc = "call"
    /\ req[r].at \notin DOMAIN Calls(r)
    /\ req' = Ran(r)
    /\ Unmoved

-----------------------------------------------------------------------------
(***************************************************************************)
(* Listings.                                                               *)
(***************************************************************************)
query_account_delegations(r) ==
    LET q == Job(r).query
        page == Page(q, req[r].cursor) IN
    /\ Is(r, "new", {"list"}) \/ Is(r, "more", {"list"})
    /\ IF ~Authorized(r) \/ ~account_query_principal(Job(r).inv, q.principal) \/ ~CursorFound(q, req[r].cursor)
       THEN Reply(r, "unauthorized")
       ELSE req' = [req EXCEPT
                ![r].seen = @ \o page.items,
                ![r].first = IF req[r].pc = "new" THEN View(q) ELSE @,
                ![r].cursor = page.cursor,
                ![r].pc = IF page.cursor = None THEN "done" ELSE "more",
                ![r].answer = IF page.cursor = None THEN "listed" ELSE None]
    /\ Unmoved

list_delegations(r) ==
    /\ Is(r, "new", {"space"})
    /\ IF ~Authorized(r) THEN Reply(r, "unauthorized")
       ELSE \E account \in resolve_pkh_did(Job(r).inv.invoker) :
               req' = [req EXCEPT ![r].pc = "done", ![r].answer = "listed",
                                  ![r].first = get_filtered_delegations(Job(r).space, account, Job(r).filters)]
    /\ Unmoved

\* Each delegation of a chain is read by a query of its own, parents by
\* another; the time is taken once.
get_delegation_chain(r) ==
    /\ Is(r, "new", {"chain"})
    /\ IF Authorized(r) THEN req' = [req EXCEPT ![r].pc = "more", ![r].time = now,
                                                 ![r].known = Job(r).target \in stored]
                        ELSE Reply(r, "unauthorized")
    /\ Unmoved

ChainNext(r) ==
    LET chain == req[r].seen
        nexts == IF chain = <<>> THEN {Job(r).target} ELSE Links[chain[Len(chain)]] IN
    /\ Is(r, "more", {"chain"})
    /\ \/ nexts = {} /\ Reply(r, "listed")
       \/ \E d \in nexts :
             IF ContinuesChain(d, Job(r).space, req[r].time)
             THEN req' = [req EXCEPT ![r].seen = Append(@, d)]
             ELSE Reply(r, "listed")
    /\ Unmoved

-----------------------------------------------------------------------------
Handle(r) ==
    \/ Delegate(r) \/ Withdraw(r) \/ Narrow(r)
    \/ Derive(r) \/ verify_auth(r) \/ handle_sql_invoke(r) \/ handle_duckdb_invoke(r)
    \/ Prepare(r) \/ AuthorizerCall(r) \/ Execute(r)
    \/ query_account_delegations(r) \/ list_delegations(r)
    \/ get_delegation_chain(r) \/ ChainNext(r)

Handler == \E r \in Slots : Handle(r)

Pass == Tick /\ UNCHANGED <<req, full>>

Next == Handler \/ Pass

Spec == Init /\ [][Next]_vars

FairSpec == Spec /\ WF_vars(Handler)

-----------------------------------------------------------------------------
TypeOK ==
    /\ stored \subseteq Delegations /\ revoked \subseteq stored
    /\ now \in 0..load.last
    /\ \A i \in DOMAIN caps : caps[i].actions \subseteq Actions /\ ~Climbs(caps[i].path)
    /\ \A r \in Slots :
          /\ req[r].pc \in {"new", "derived", "admit", "run", "call", "more", "done"}
          /\ (req[r].pc = "done") <=> (req[r].answer # None)
          /\ req[r].ability \in Actions \cup {None}
          /\ req[r].first \subseteq stored
          /\ \A i \in DOMAIN req[r].ran : req[r].ran[i] \in Sql.names

(***************************************************************************)
(* A caveat binds every holder below it.  When the cited chain is a line   *)
(* of one-row delegations, each from a grantee, and its caveat was read    *)
(* from stored delegations, a SQL request has run nothing but the named    *)
(* statement as each caveat of the chain has it, with each of its pinned   *)
(* parameters, whatever the invocation's own facts say.                    *)
(***************************************************************************)
Line(parents) ==
    /\ Cardinality(parents) = 1
    /\ \A d \in Chain(Links, parents) :
          /\ Cardinality(Content(d).rows) = 1
          /\ Cardinality(Links[d]) <= 1
          /\ Links[d] # {} => Dependent(Content(d).rows, Content(d).from) # {}

KeepsCaveat(r, caveat) ==
    \E s \in {caveat.statements[i] : i \in DOMAIN caveat.statements} :
        /\ Named(caveat, Job(r).name, s)
        /\ req[r].ran = <<s.sql>>
        /\ \A i \in DOMAIN s.fixed : req[r].params[s.fixed[i].index + 1] = json_to_sql_value(s.fixed[i].value)

ChainCaveatsHold ==
    \A r \in Slots :
        req[r].ran # <<>> /\ Job(r).kind = "sql" /\ req[r].known /\ Line(Job(r).inv.parents) =>
            \A caveat \in CaveatsOf(Chain(Links, Job(r).inv.parents)) : KeepsCaveat(r, caveat)

(***************************************************************************)
(* The read tier changes nothing.  For SQLite this includes statements     *)
(* the parser takes for queries, which the authorizer stops; DuckDB has    *)
(* only the parser, and lets through what the caveats pre-approve.         *)
(***************************************************************************)
ReaderNeverWrites ==
    \A r \in Slots : \A i \in DOMAIN req[r].ran :
        LET sql == req[r].ran[i] IN
        resolve_alias(req[r].ability) \in {"sql/read", "duckdb/read"} =>
            Sql.changes[sql] = {} \/ (Job(r).kind = "duckdb" /\ Preapproved(sql, req[r].caveats))

(***************************************************************************)
(* The schema tier sees no rows and copies none: a statement run with      *)
(* exactly that ability reads no user table, and changes at most the one   *)
(* it names, across all statements of a request.                           *)
(***************************************************************************)
SchemaKeepsRows ==
    \A r \in Slots : \A i \in DOMAIN req[r].ran :
        LET sql == req[r].ran[i] IN
        req[r].ability = "sql/schema" =>
            Sql.reads[sql] = {} /\ Sql.changes[sql] \subseteq {Parts(sql)[1].target}

(***************************************************************************)
(* Table caveats of a SQL request hold for what the statement really       *)
(* touches, also where the parser does not find the table in the text.     *)
(***************************************************************************)
WithinTables ==
    \A r \in Slots : \A i \in DOMAIN req[r].ran :
        LET sql == req[r].ran[i] IN
        Job(r).kind = "sql" /\ req[r].caveats # None /\ req[r].caveats.tables # None =>
            Sql.reads[sql] \cup Sql.changes[sql] \subseteq req[r].caveats.tables

(***************************************************************************)
(* While the space is full, no statement runs that is a change by its      *)
(* outermost form, in whichever position of a request it stands.           *)
(***************************************************************************)
WritesGated ==
    full => \A r \in Slots : \A i \in DOMAIN req[r].ran : Kinds(req[r].ran[i]) \cap ChangeKinds = {}

(***************************************************************************)
(* The status of the account listing tells what an invocation would meet:  *)
(* what is accepted from the holder of a delegation is listed as active,   *)
(* and an active delegation is accepted (but for rows whose caveat does    *)
(* not contain itself).                                                    *)
(***************************************************************************)
Usable(d, row) == Accepts({d}, {row}, Content(d).to)

StatusTellsUsable ==
    \A d \in stored : \A row \in Dependent(Content(d).rows, Content(d).to) :
        IF Supports(row, row) THEN Usable(d, row) <=> lifecycle(d) = "active"
                              ELSE Usable(d, row) => lifecycle(d) = "active"

\* What the holder of a delegation can use in a space is listed there.
UsableIsListed ==
    \A d \in stored : \A row \in Dependent(Content(d).rows, Content(d).to) :
        Usable(d, row) => d \in get_valid_delegations(row.resource.space)

(***************************************************************************)
(* Paging without a status or direction filter returns each record of the  *)
(* first page's view exactly once, whatever is registered, revoked or      *)
(* expires between the pages.                                              *)
(***************************************************************************)
PagesComplete ==
    \A r \in Slots :
        LET seen == req[r].seen IN
        Job(r).kind = "list" /\ Job(r).query.status = None /\ Job(r).query.direction = "all" =>
            /\ \A i, j \in DOMAIN seen : seen[i] = seen[j] => i = j
            /\ req[r].answer = "listed" => \A d \in req[r].first : \E i \in DOMAIN seen : seen[i] = d

(***************************************************************************)
(* The chain of a delegation, read one delegation at a time, is a path     *)
(* along citations, and the chain of a delegation known at the start       *)
(* reaches one without parents, if none of it was revoked, expired or of   *)
(* another space by the end.                                               *)
(***************************************************************************)
ChainReachesRoot ==
    \A r \in Slots :
        LET seen == req[r].seen
            all == Chain(Links, {Job(r).target}) IN
        Job(r).kind = "chain" /\ req[r].answer = "listed" =>
            /\ \A i \in DOMAIN seen : IF i = 1 THEN seen[i] = Job(r).target ELSE seen[i] \in Links[seen[i - 1]]
            /\ req[r].known /\ all \subseteq get_valid_delegations(Job(r).space) =>
                  seen # <<>> /\ Links[seen[Len(seen)]] = {}

\* Every request is answered.
EveryRequestAnswered == <>[](\A r \in Slots : req[r].pc = "done")


(***************************************************************************)
(* Listings agree with what can be used, while registrations and           *)
(* revocations go on.                                                      *)
(***************************************************************************)
ListingsTruthful == StatusTellsUsable /\ UsableIsListed /\ PagesComplete /\ ChainReachesRoot

=============================================================================
