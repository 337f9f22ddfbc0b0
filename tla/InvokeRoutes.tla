---------------------------- MODULE InvokeRoutes ----------------------------
(***************************************************************************)
(* The routes that write: invoke_impl, handle_sql_invoke and               *)
(* handle_duckdb_invoke of routes/mod.rs over                              *)
(* SpaceDatabase::invoke_with_options.                                     *)
(*                                                                         *)
(* A key-value write is checked, compared with what the space may still    *)
(* store, staged, applied in a transaction during which its blobs are      *)
(* stored, committed together with its webhook deliveries, and published   *)
(* on the live bus.  A database write is compared with the limit only,     *)
(* executed, and told of by a task of its own.  How the transaction orders *)
(* its rows is the subject of KvLedger, what the databases do that of      *)
(* DatabaseService; here a commit is one step.                             *)
(***************************************************************************)
EXTENDS BlobStore, WriteEvents

CONSTANTS
    Slots,          \* bound: the requests of one instance are numbered within it
    Workloads,      \* what the instances do: their requests, configuration and faults
    Public,         \* the spaces named "public"
    PublicLimit     \* public_spaces.storage_limit

VARIABLES
    day,            \* the number of the workload; it never changes
    budget,         \* how often each fault may still happen
    req,            \* req[r]: the state of a request's handler
    task,           \* task[r]: the delivery task a database write spawned
    hosted,         \* rows of the space table
    live,           \* the live value of every key: an id or None
    artifact,       \* bytes of the databases of each space
    commits,        \* history: the committed writes, in order
    rehosted        \* history: the spaces hosted when they were hosted already

tables == <<task, hosted, live, artifact, commits, rehosted>>
writeVars == <<day, budget, req, task, hosted, live, artifact, commits, rehosted>>

-----------------------------------------------------------------------------
load == Workloads[day]
Requests == DOMAIN load.jobs
Job(r) == load.jobs[r]

Idle == [pc |-> "idle", i |-> 1, ids |-> <<>>, room |-> None, full |-> FALSE, alone |-> TRUE,
         at |-> None, out |-> None]

At(r, kind, pc) == req[r].pc = pc /\ Job(r).kind = kind
Goto(r, pc) == req' = [req EXCEPT ![r].pc = pc]
Answer(r, out) == req' = [req EXCEPT ![r].pc = "done", ![r].out = out]

Fixed == UNCHANGED <<day, budget>>

Ops(r) == Job(r).ops
PutsOf(r) == SelectSeq(Ops(r), LAMBDA op : op.val # None)
HasPut(r) == PutsOf(r) # <<>>
SpaceOf(r) ==
    IF Job(r).kind # "kv" THEN Job(r).space
    ELSE IF HasPut(r) THEN Head(PutsOf(r)).space ELSE Head(Ops(r)).space
KeyOf(op) == <<op.space, op.path>>
Keys(r) == {KeyOf(Ops(r)[i]) : i \in DOMAIN Ops(r)}
Total(seq) == FoldSeq(LAMBDA op, n : n + Size[op.val], 0, seq)

FirstFlaw(r, checks) ==
    LET failing == SelectSeq(checks, LAMBDA c : c \in Job(r).flaws)
    IN  IF failing = <<>> THEN None ELSE Head(failing)

\* kv_invoke_options_for_capabilities, in the order of its tests.
HeaderChecks == <<"both-etags", "if-none-match", "create-target", "match-target", "etag",
                  "max-bytes", "list-limit">>
\* validate_kv_batch_capability_set, of a multipart request with a put: the
\* capabilities are puts in one space, each of a path of its own.
BatchShaped(r) ==
    \A i, j \in DOMAIN Ops(r) :
        /\ Ops(r)[i].val # None
        /\ Ops(r)[i].space = Ops(r)[j].space
        /\ Ops(r)[i].path = Ops(r)[j].path => i = j
\* build_batch_kv_inputs.
PartChecks == <<"boundary", "field-name", "unexpected-part", "duplicate-part", "missing-part">>
\* One body is for one put; a request for a put has a body.
BodyShaped(r) ==
    HasPut(r) => Len(PutsOf(r)) = 1 /\ "no-body" \notin Job(r).flaws

-----------------------------------------------------------------------------
\* The limit of a space: the public one, or what the quota cache answers.
Limit(s) == IF s \in Public THEN PublicLimit ELSE load.limit[s]

\* store_size: the blocks and the databases together.
Usage(s) ==
    IF sizes[s] = None /\ artifact[s] = 0 THEN None
    ELSE (IF sizes[s] = None THEN 0 ELSE sizes[s]) + artifact[s]

\* checked_sub is None or zero.
Full(s) == Usage(s) # None /\ Usage(s) >= Limit(s)

\* staged_batch_remaining, and the same lines of invoke_impl.
Room(s) == IF Limit(s) = None THEN None ELSE Limit(s) - Usage(s)

\* Another request has changed what is used of a space.
Disturbed(r, s) == [q \in Slots |->
    IF q # r /\ q \in Requests /\ req[q].room # None /\ SpaceOf(q) = s
    THEN [req[q] EXCEPT !.alone = FALSE] ELSE req[q]]

\* A request arrives.  A space is full for it if it was when it came.
Arrives(r, pc) ==
    req' = [req EXCEPT ![r] = [Idle EXCEPT !.pc = pc,
        !.full = Job(r).kind \in {"kv", "db"} /\ Limit(SpaceOf(r)) # None /\ Full(SpaceOf(r))]]

-----------------------------------------------------------------------------
(* Key-value writes.                                                       *)

KvReceive(r) ==
    /\ At(r, "kv", "idle")
    /\ Arrives(r, "check")
    /\ UNCHANGED <<blobVars, eventVars, tables>>
    /\ Fixed

\* The headers and the shape of the request.
KvCheck(r) ==
    /\ At(r, "kv", "check")
    /\ IF \/ FirstFlaw(r, HeaderChecks) # None
          \/ ~(IF Job(r).multipart /\ HasPut(r) THEN BatchShaped(r) ELSE BodyShaped(r))
       THEN Answer(r, "bad-request")
       ELSE Goto(r, IF HasPut(r) THEN "admit" ELSE "begin")
    /\ UNCHANGED <<blobVars, eventVars, tables>>
    /\ Fixed

\* What is left of the limit is computed once, before the body is read.
KvAdmit(r) ==
    /\ At(r, "kv", "admit")
    /\ LET s == SpaceOf(r)
       IN  IF Limit(s) = None THEN Goto(r, "stage")
           ELSE IF Usage(s) = None THEN Answer(r, "not-found")
           ELSE IF Full(s) THEN Answer(r, "quota")
           ELSE req' = [req EXCEPT ![r].pc = "stage", ![r].room = Room(s)]
    /\ UNCHANGED <<blobVars, eventVars, tables>>
    /\ Fixed

\* LimitedReader, and copy_multipart_field_to_stage over all parts together.
Fits(room, puts) == room = None \/ Total(puts) <= room

\* The bodies are staged, and hashed on the way.
KvStage(r) ==
    /\ At(r, "kv", "stage")
    /\ IF Job(r).multipart /\ FirstFlaw(r, PartChecks) # None THEN Answer(r, "bad-request")
       ELSE IF ~Fits(req[r].room, PutsOf(r)) THEN Answer(r, "too-large")
       ELSE \E ids \in [DOMAIN Ops(r) -> Ids \union {None}] :
              /\ \A i \in DOMAIN ids :
                    IF Ops(r)[i].val = None THEN ids[i] = None
                    ELSE ids[i] \in StagedIds(Ops(r)[i].val)
              /\ req' = [req EXCEPT ![r].pc = "begin", ![r].ids = ids]
    /\ UNCHANGED <<blobVars, eventVars, tables>>
    /\ Fixed

Unreturned(r) ==
    req[r].pc \in {"exists", "create", "fill", "place", "count", "commit", "host", "done"}

InTransaction(r) ==
    req[r].pc \in {"exists", "create", "fill", "place", "count", "commit", "host"}

\* The guards of its keys are free, and on SQLite the connection.
Alone(r) ==
    \A q \in Requests \ {r} : InTransaction(q) =>
        /\ load.engine = "postgres"
        /\ Job(q).kind = "kv" => Keys(q) \cap Keys(r) = {}

\* kv_precondition_matches.
PreHolds(r) ==
    LET now == live[KeyOf(Ops(r)[1])]
    IN  CASE Job(r).pre = "none" -> TRUE
          [] Job(r).pre = "absent" -> now = None
          [] OTHER -> now # None /\ now = Digest(Job(r).pre)

\* What the events of the request cannot be applied to: a space that is not
\* hosted, a deletion of nothing, two deletions in one space.
Deletions(r, s) == {i \in DOMAIN Ops(r) : Ops(r)[i].val = None /\ Ops(r)[i].space = s}
ApplyFlaw(r) ==
    IF \E i \in DOMAIN Ops(r) : Ops(r)[i].space \notin hosted THEN "not-found"
    ELSE IF \E i \in DOMAIN Ops(r) :
                Ops(r)[i].val = None /\ \A c \in DOMAIN commits : KeyOf(Ops(r)[i]) \notin Keys(commits[c])
         THEN "not-found"
    ELSE IF \E s \in Spaces : \E i, j \in Deletions(r, s) : i # j THEN "db-error"
    ELSE None

KvBegin(r) ==
    /\ At(r, "kv", "begin")
    /\ Alone(r)
    /\ IF ~PreHolds(r) THEN Answer(r, "precondition")
       ELSE IF ApplyFlaw(r) # None THEN Answer(r, ApplyFlaw(r))
       ELSE Goto(r, "exists")
    /\ UNCHANGED <<blobVars, eventVars, tables>>
    /\ Fixed

IdOf(r, i) == IF Ops(r)[i].val = None THEN None ELSE req[r].ids[i]
BlobOf(r) == IdOf(r, req[r].i)
BlobSpace(r) == Ops(r)[req[r].i].space

\* The next operation of the invocation, or the end of them.
NextOp(r) ==
    [req EXCEPT ![r].pc = IF req[r].i = Len(Ops(r)) THEN "commit" ELSE "exists",
                ![r].i = IF req[r].i = Len(Ops(r)) THEN @ ELSE @ + 1]

\* persist: a blob that is there already is left alone.
PersistNext(r) ==
    IF BlobOf(r) = None \/ HasBlob(BlobSpace(r), BlobOf(r)) THEN NextOp(r)
    ELSE [req EXCEPT ![r].pc = IF InPlace THEN "create" ELSE "place"]

KvExists(r) ==
    /\ At(r, "kv", "exists")
    /\ req' = PersistNext(r)
    /\ UNCHANGED <<blobVars, eventVars, tables>>
    /\ Fixed

\* A file is created, which empties it, and then filled.
KvCreate(r) ==
    /\ At(r, "kv", "create")
    /\ Truncate(BlobSpace(r), BlobOf(r))
    /\ Goto(r, "fill")
    /\ UNCHANGED <<backend, dirs, sizes, eventVars, tables>>
    /\ Fixed

KvStore(r) ==
    /\ At(r, "kv", "place") \/ At(r, "kv", "fill")
    /\ Store(BlobSpace(r), BlobOf(r))
    /\ Goto(r, "count")
    /\ UNCHANGED <<backend, dirs, sizes, eventVars, tables>>
    /\ Fixed

KvCount(r) ==
    /\ At(r, "kv", "count")
    /\ Increment(BlobSpace(r), Length(BlobOf(r)))
    /\ req' = [q \in Slots |-> IF q = r THEN NextOp(r)[r] ELSE Disturbed(r, BlobSpace(r))[q]]
    /\ UNCHANGED <<backend, disk, dirs, eventVars, tables>>
    /\ Fixed

\* The events of a write: both channels number them per space, the bus while
\* it publishes and the deliveries while they are inserted.
Ability(op) == IF op.val = None THEN "del" ELSE "put"
EarlierIn(ops, i) == Cardinality({j \in 1 .. i - 1 : ops[j].space = ops[i].space})

\* emit_kv_hook_events.
BusIndex(ops, i) == EarlierIn(ops, i)
\* enqueue_kv_webhook_deliveries.
OutboxIndex(ops, i) == EarlierIn(ops, i)

KvEvent(r, i, index) ==
    LET op == Ops(r)[i] IN Event(op.space, "kv", Ability(op), op.path, <<r, op.space>>, index)

BusEvents(r) == [i \in DOMAIN Ops(r) |-> KvEvent(r, i, BusIndex(Ops(r), i))]
OutboxEvents(r) == {KvEvent(r, i, OutboxIndex(Ops(r), i)) : i \in DOMAIN Ops(r)}

\* The rows and the deliveries of the write are committed together.
KvCommit(r) ==
    /\ At(r, "kv", "commit")
    /\ live' = [k \in DOMAIN live |->
                    IF \E i \in DOMAIN Ops(r) : KeyOf(Ops(r)[i]) = k
                    THEN IdOf(r, CHOOSE i \in DOMAIN Ops(r) : KeyOf(Ops(r)[i]) = k)
                    ELSE live[k]]
    /\ commits' = Append(commits, r)
    /\ outbox' = outbox \union UNION {Deliveries(e, ActiveSubs(e.space)) : e \in OutboxEvents(r)}
    /\ Goto(r, "emit")
    /\ UNCHANGED <<blobVars, bus, active, stream, subs, task, hosted, artifact, rehosted>>
    /\ Fixed

EmitEarly(r) ==
    /\ At(r, "kv", "emit") \/ At(r, "kv", "commit")
    /\ Publish(BusEvents(r))
    /\ Answer(r, "ok")
    /\ UNCHANGED <<blobVars, active, stream, subs, outbox, tables>>
    /\ Fixed

\* emit_kv_hook_events, after the transaction and its guards are gone.
KvEmit(r) ==
    /\ At(r, "kv", "emit")
    /\ Publish(BusEvents(r))
    /\ Answer(r, "ok")
    /\ UNCHANGED <<blobVars, active, stream, subs, outbox, tables>>
    /\ Fixed

-----------------------------------------------------------------------------
(* Database writes.                                                        *)

DbReceive(r) ==
    /\ At(r, "db", "idle")
    /\ Arrives(r, "check")
    /\ UNCHANGED <<blobVars, eventVars, tables>>
    /\ Fixed

\* The checks of handle_sql_invoke and of handle_duckdb_invoke before the request
\* is looked at for whether it writes; verify_auth also needs the space to be
\* hosted.
SqlChecks == <<"chain-caveat", "auth", "body", "scope", "request", "admin", "constrained">>
DuckDbChecks == <<"auth", "scope", "body", "request", "export-caveats">>
DbChecks(r) == IF Job(r).service = "sql" THEN SqlChecks ELSE DuckDbChecks

DbCheck(r) ==
    /\ At(r, "db", "check")
    /\ IF FirstFlaw(r, DbChecks(r)) # None THEN Answer(r, "forbidden")
       ELSE IF SpaceOf(r) \notin hosted THEN Answer(r, "not-found")
       ELSE Goto(r, "admit")
    /\ UNCHANGED <<blobVars, eventVars, tables>>
    /\ Fixed

\* A write is refused when the space is full; how much it writes is not known.
DbAdmit(r) ==
    /\ At(r, "db", "admit")
    /\ LET s == SpaceOf(r)
       IN  IF Job(r).grows = 0 \/ Limit(s) = None THEN Goto(r, "execute")
           ELSE IF Usage(s) = None THEN Answer(r, "not-found")
           ELSE IF Full(s) THEN Answer(r, "quota")
           ELSE Goto(r, "execute")
    /\ UNCHANGED <<blobVars, eventVars, tables>>
    /\ Fixed

\* The statement runs and its size is recorded; a task is spawned for its
\* events, which carry the epoch that verify_auth committed.  An import into
\* DuckDB has none.
DbExecute(r) ==
    /\ At(r, "db", "execute")
    /\ artifact' = [artifact EXCEPT ![SpaceOf(r)] = @ + Job(r).grows]
    /\ commits' = IF Job(r).grows > 0 THEN Append(commits, r) ELSE commits
    /\ task' = [task EXCEPT ![r] = IF Job(r).import THEN "none" ELSE "enqueue"]
    /\ req' = [Disturbed(r, SpaceOf(r)) EXCEPT ![r].pc = "done", ![r].out = "ok"]
    /\ UNCHANGED <<blobVars, eventVars, hosted, live, rehosted>>
    /\ Fixed

\* database_write_events: one event per table, numbered.
DbEvents(r) ==
    [i \in DOMAIN Job(r).tables |->
        Event(SpaceOf(r), Job(r).service, "write", Job(r).tables[i], <<r, SpaceOf(r)>>, i - 1)]

\* enqueue_database_webhook_deliveries lists by the path of the event.
SubscribersListed(e) == Listed(e.space, e.service, e.path)

TaskEnqueue(r) ==
    /\ task[r] = "enqueue"
    /\ outbox' = outbox \union UNION
            {Deliveries(DbEvents(r)[i], SubscribersListed(DbEvents(r)[i])) :
                i \in DOMAIN DbEvents(r)}
    /\ task' = [task EXCEPT ![r] = "publish"]
    /\ UNCHANGED <<blobVars, bus, active, stream, subs, req, hosted, live, artifact, commits,
                   rehosted>>
    /\ Fixed

TaskPublish(r) ==
    /\ task[r] = "publish"
    /\ Publish(DbEvents(r))
    /\ task' = [task EXCEPT ![r] = "done"]
    /\ UNCHANGED <<blobVars, active, stream, subs, outbox, req, hosted, live, artifact, commits,
                   rehosted>>
    /\ Fixed
=============================================================================
