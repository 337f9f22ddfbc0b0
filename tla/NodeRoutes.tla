----------------------------- MODULE NodeRoutes -----------------------------
(***************************************************************************)
(* The routes beside the writing ones, and the node that serves them all:  *)
(* hosting, hook tickets and event streams, webhook subscriptions, signed  *)
(* URLs and the public key-value routes (routes/hooks.rs, signed_urls.rs,  *)
(* routes/public.rs).                                                      *)
(***************************************************************************)
EXTENDS InvokeRoutes

CONSTANTS
    MaxSubs,        \* max_webhook_subscriptions_per_space
    MaxScopes,      \* max_scopes_per_ticket
    HookTtl,        \* max_ticket_ttl_seconds
    UrlTtl,         \* max_ttl_seconds of signed URLs
    Clients,        \* addresses of public readers
    Burst, Rate,    \* rate_limit_burst, and tokens per second
    LastTime        \* bound: the clock of a workload stops here or before

VARIABLES
    clock,          \* now, in seconds
    ticket,         \* ticket[r]: the hook ticket or signed URL that request minted
    bucket,         \* bucket[a]: the token bucket of an address
    reads,          \* history: what was read through signed URLs and publicly
    admits,         \* history: the public requests let through, with their times
    torn,           \* history: blobs whose writer failed or died half way
    raced           \* history: spaces where registrations have overlapped

readVars == <<clock, ticket, bucket, reads, admits, torn, raced>>
vars == <<blobVars, eventVars, writeVars, readVars>>

-----------------------------------------------------------------------------
Least(S) == CHOOSE m \in S : \A n \in S : m <= n

\* Where the handler of a request begins, other than a write.
Entry(kind) ==
    CASE kind = "host" -> "create-space"
      [] kind = "subscribe" -> "count-subs"
      [] kind = "unsubscribe" -> "find-sub"
      [] kind = "url" -> "mint"
      [] kind = "signed" -> "load"
      [] OTHER -> "start"

OtherReceive(r) ==
    /\ req[r].pc = "idle"
    /\ Job(r).kind \notin {"kv", "db"}
    /\ Job(r).kind \in {"signed", "stream"} => ticket[Job(r).of] # None
    /\ Job(r).kind = "unsubscribe" => Job(r).of \in DOMAIN subs
    /\ Arrives(r, Entry(Job(r).kind))
    /\ UNCHANGED <<blobVars, eventVars, tables, readVars>>
    /\ Fixed

-----------------------------------------------------------------------------
(* Hosting.                                                                *)

\* transact: the block store is told of the space inside the transaction,
\* whether or not the row was there.
HostCreate(r) ==
    /\ At(r, "host", "create-space")
    /\ load.engine = "postgres" \/ \A q \in Requests : ~InTransaction(q)
    /\ Create(Job(r).space)
    /\ rehosted' = IF Job(r).space \in hosted \/ sizes[Job(r).space] # None
                   THEN rehosted \union {Job(r).space} ELSE rehosted
    /\ req' = [Disturbed(r, Job(r).space) EXCEPT ![r].pc = "host"]
    /\ UNCHANGED <<backend, disk, eventVars, task, hosted, live, artifact, commits, readVars>>
    /\ Fixed

HostCommit(r) ==
    /\ At(r, "host", "host")
    /\ hosted' = hosted \union {Job(r).space}
    /\ Answer(r, "ok")
    /\ UNCHANGED <<blobVars, eventVars, task, live, artifact, commits, rehosted, readVars>>
    /\ Fixed

-----------------------------------------------------------------------------
(* Tickets.                                                                *)

Authorised(r, action, scope) == \E cap \in Job(r).caps : Authorises(cap, action, scope)

\* The ticket lives no longer than asked for, allowed, or than the invocation
\* and its parents.
Expiry(r, ttl) ==
    Least({clock + Least({Job(r).ttl, ttl}), Job(r).exp} \union Job(r).parents)

\* mint_hook_ticket; the claims carry the expiry of the parents as well.
HookTicket(r) ==
    /\ At(r, "ticket", "start")
    /\ LET scopes == Job(r).scopes
           ok == \A s \in scopes : Supported(s) /\ Authorised(r, "subscribe", s)
       IN  IF scopes = {} \/ Cardinality(scopes) > MaxScopes \/ ~ok
           THEN Answer(r, "refused") /\ UNCHANGED ticket
           ELSE IF Expiry(r, HookTtl) <= clock THEN Answer(r, "expired") /\ UNCHANGED ticket
           ELSE /\ ticket' = [ticket EXCEPT ![r] =
                        [scopes |-> scopes, exp |-> Expiry(r, HookTtl),
                         parent |-> Least({Job(r).exp} \union Job(r).parents)]]
                /\ Answer(r, "ok")
    /\ UNCHANGED <<blobVars, eventVars, tables, clock, bucket, reads, admits, torn, raced>>
    /\ Fixed

\* hook_events: a lease, then the deadline; a refused stream drops its lease.
StreamOpen(r) ==
    /\ At(r, "stream", "start")
    /\ LET t == ticket[Job(r).of]
           deadline == Least({t.exp, t.parent, clock + HookTtl})
       IN  IF ~Lease THEN Answer(r, "too-many") /\ UNCHANGED <<active, stream>>
           ELSE IF deadline <= clock THEN Answer(r, "expired") /\ UNCHANGED <<active, stream>>
           ELSE /\ active' = active + 1
                /\ Subscribe(r, t.scopes, deadline)
                /\ Answer(r, "ok")
    /\ UNCHANGED <<blobVars, bus, subs, outbox, tables, readVars>>
    /\ Fixed

StreamReceive(r) ==
    /\ Receive(r) \/ Lag(r)
    /\ UNCHANGED <<blobVars, bus, active, subs, outbox, writeVars, readVars>>

DeadlinePassed(r) == clock >= stream[r].until

\* The deadline has come, or the client has gone.
StreamEnd(r) ==
    /\ stream[r].state = "open"
    /\ DeadlinePassed(r)
    /\ Close(r)
    /\ UNCHANGED <<blobVars, bus, subs, outbox, writeVars, readVars>>

StreamDropped(r) ==
    /\ budget.drop > 0
    /\ budget' = [budget EXCEPT !.drop = @ - 1]
    /\ Close(r)
    /\ UNCHANGED <<blobVars, bus, subs, outbox, day, req, tables, readVars>>

-----------------------------------------------------------------------------
(* Webhook subscriptions.                                                  *)

Registering(s) ==
    {r \in Requests : req[r].pc = "insert-sub" /\ Job(r).scope.space = s}

AtLimit(s) == Cardinality(ActiveSubs(s)) >= MaxSubs

SubCount(r) ==
    /\ At(r, "subscribe", "count-subs")
    /\ LET scope == Job(r).scope
       IN  IF ~Supported(scope) \/ ~Authorised(r, "register", scope)
           THEN Answer(r, "refused") /\ UNCHANGED raced
           ELSE IF AtLimit(scope.space) THEN Answer(r, "too-many") /\ UNCHANGED raced
           ELSE /\ Goto(r, "insert-sub")
                /\ raced' = IF Registering(scope.space) # {} THEN raced \union {scope.space}
                            ELSE raced
    /\ UNCHANGED <<blobVars, eventVars, tables, clock, ticket, bucket, reads, admits, torn>>
    /\ Fixed

SubInsert(r) ==
    /\ At(r, "subscribe", "insert-sub")
    /\ subs' = [q \in DOMAIN subs \union {r} |->
                   IF q = r THEN Subscription(Job(r).scope, Len(commits)) ELSE subs[q]]
    /\ Answer(r, "ok")
    /\ UNCHANGED <<blobVars, bus, active, stream, outbox, tables, readVars>>
    /\ Fixed

\* delete_webhook: authorised for the scope of the row that was found.
SubFind(r) ==
    /\ At(r, "unsubscribe", "find-sub")
    /\ IF Authorised(r, "unregister", subs[Job(r).of].scope) THEN Goto(r, "off-sub")
       ELSE Answer(r, "refused")
    /\ UNCHANGED <<blobVars, eventVars, tables, readVars>>
    /\ Fixed

SubOff(r) ==
    /\ At(r, "unsubscribe", "off-sub")
    /\ subs' = [subs EXCEPT ![Job(r).of].active = FALSE]
    /\ Answer(r, "ok")
    /\ UNCHANGED <<blobVars, bus, active, stream, outbox, tables, readVars>>
    /\ Fixed

-----------------------------------------------------------------------------
(* Reads without an invocation.                                            *)

\* has_attenuable_kv_get: the path lies within that of a capability.
MayGet(r) == \E cap \in Job(r).caps :
    cap.action = "get" /\ cap.space = Job(r).space /\ Covers(cap.path, Job(r).path)

\* The row of signed_kv_ticket.
UrlTicket(r) ==
    [space |-> Job(r).space, path |-> Job(r).path, exp |-> Expiry(r, UrlTtl),
     created |-> clock, hash |-> Job(r).hash]

\* mint_signed_kv_url; the clock is read before the row is inserted.
UrlMint(r) ==
    /\ At(r, "url", "mint")
    /\ IF "max-uses" \in Job(r).flaws \/ ~MayGet(r) THEN Answer(r, "refused") /\ UNCHANGED ticket
       ELSE IF Expiry(r, UrlTtl) <= clock THEN Answer(r, "expired") /\ UNCHANGED ticket
       ELSE ticket' = [ticket EXCEPT ![r] = UrlTicket(r)] /\ Answer(r, "ok")
    /\ UNCHANGED <<blobVars, eventVars, tables, clock, bucket, reads, admits, torn, raced>>
    /\ Fixed

\* load_signed_kv_ticket and validate_signed_kv_ticket.
SignedLoad(r) ==
    /\ At(r, "signed", "load")
    /\ IF ticket[Job(r).of].exp <= clock THEN Answer(r, "expired")
       ELSE req' = [req EXCEPT ![r].pc = "get", ![r].at = clock]
    /\ UNCHANGED <<blobVars, eventVars, tables, readVars>>
    /\ Fixed

\* validate_signed_kv_hash_binding.
BoundHash(t, id) == t.hash = None \/ id = Digest(t.hash)

Found(r, key) == [by |-> r, key |-> key, id |-> live[key]]

\* kv_get, then the hash the ticket is bound to.
SignedGet(r) ==
    /\ At(r, "signed", "get")
    /\ LET t == ticket[Job(r).of]
           key == <<t.space, t.path>>
       IN  IF live[key] = None THEN Answer(r, "not-found") /\ UNCHANGED reads
           ELSE IF ~BoundHash(t, live[key]) THEN Answer(r, "precondition") /\ UNCHANGED reads
           ELSE Answer(r, "ok") /\ reads' = reads \union {Found(r, key)}
    /\ UNCHANGED <<blobVars, eventVars, tables, clock, ticket, bucket, admits, torn, raced>>
    /\ Fixed

MaxTokens == Burst + Rate

\* The limiter of a node that has just started.
FullBuckets == [a \in Clients |-> [tokens |-> MaxTokens, last |-> clock]]

Refilled(a) ==
    Least({MaxTokens, bucket[a].tokens + (clock - bucket[a].last) * Rate})

\* RateLimiter::check.
Drained(a) == [tokens |-> Refilled(a) - 1, last |-> clock]

\* public_kv_get and its siblings for the headers and the keys: the limiter
\* first, then the space, then the key.
PublicGet(r) ==
    /\ At(r, "public", "start")
    /\ LET a == Job(r).client
           key == <<Job(r).space, Job(r).path>>
       IN  /\ bucket' = [bucket EXCEPT ![a] =
                    IF Refilled(a) >= 1 THEN Drained(a) ELSE [tokens |-> Refilled(a), last |-> clock]]
           /\ admits' = IF Refilled(a) >= 1 THEN admits \union {[by |-> r, at |-> clock]} ELSE admits
           /\ IF Refilled(a) < 1 THEN Answer(r, "too-many") /\ UNCHANGED reads
              ELSE IF Job(r).space \notin Public THEN Answer(r, "refused") /\ UNCHANGED reads
              ELSE IF Job(r).verb = "list" THEN Answer(r, "ok") /\ UNCHANGED reads
              ELSE IF live[key] = None THEN Answer(r, "not-found") /\ UNCHANGED reads
              ELSE /\ Answer(r, IF Job(r).etag # None /\ live[key] = Digest(Job(r).etag)
                                THEN "not-modified" ELSE "ok")
                   /\ reads' = reads \union {Found(r, key)}
    /\ UNCHANGED <<blobVars, eventVars, tables, clock, ticket, torn, raced>>
    /\ Fixed
-----------------------------------------------------------------------------
(* Faults and time.                                                        *)

Running(r) == req[r].pc \notin {"idle", "done", "lost"}

\* A blob whose writing stops between the creation of its file and its end.
HalfWritten(R) == {<<BlobSpace(r), BlobOf(r)>> : r \in {q \in R : req[q].pc = "fill"}}

\* A statement, a write to the store or a commit fails: the transaction is
\* rolled back, what was done to the block store stays.
StepFails(r) ==
    /\ budget.db > 0
    /\ budget' = [budget EXCEPT !.db = @ - 1]
    /\ \/ req[r].pc \in {"begin", "fill", "place", "commit", "host", "count-subs", "insert-sub",
                         "find-sub", "off-sub", "load", "get"}
       \/ At(r, "db", "check") \/ At(r, "db", "execute")
    /\ Answer(r, "db-error")
    /\ torn' = torn \union HalfWritten({r})
    /\ UNCHANGED <<blobVars, eventVars, day, tables, clock, ticket, bucket, reads, admits, raced>>

\* The committed rows cannot be read back, or the deliveries not inserted:
\* nothing is published, and the request was or will be answered as served.
EventsLost(r) ==
    /\ budget.db > 0
    /\ budget' = [budget EXCEPT !.db = @ - 1]
    /\ \/ At(r, "kv", "emit") /\ Answer(r, "ok") /\ UNCHANGED task
       \/ task[r] = "enqueue" /\ task' = [task EXCEPT ![r] = "lost"] /\ UNCHANGED req
    /\ UNCHANGED <<blobVars, eventVars, day, hosted, live, artifact, commits, rehosted, readVars>>

\* The node dies and is started again.  The rows and the blobs stay; the sizes
\* are counted, the bus, its streams and the token buckets are new.
Crash ==
    /\ budget.crash > 0
    /\ budget' = [budget EXCEPT !.crash = @ - 1]
    /\ req' = [r \in Slots |-> IF Running(r) THEN [req[r] EXCEPT !.pc = "lost"] ELSE req[r]]
    /\ task' = [r \in Slots |-> IF task[r] \in {"enqueue", "publish"} THEN "lost" ELSE task[r]]
    /\ sizes' = Recount
    /\ rehosted' = {}
    /\ stream' = [r \in Slots |->
            IF stream[r].state = "open" THEN [stream[r] EXCEPT !.state = "lost"] ELSE stream[r]]
    /\ active' = 0
    /\ bucket' = FullBuckets
    /\ admits' = {}
    /\ torn' = torn \union HalfWritten({r \in Requests : Running(r)})
    /\ UNCHANGED <<backend, disk, dirs, bus, subs, outbox, day, hosted, live, artifact, commits,
                   clock, ticket, reads, raced>>

Tick ==
    /\ clock < load.last
    /\ clock' = clock + 1
    /\ UNCHANGED <<blobVars, eventVars, writeVars, ticket, bucket, reads, admits, torn, raced>>

-----------------------------------------------------------------------------
AllPaths == UNION {UNION {
    (IF w.jobs[r].kind = "kv" THEN {KeyOf(w.jobs[r].ops[i]) : i \in DOMAIN w.jobs[r].ops} ELSE {})
    \union (IF w.jobs[r].kind \in {"url", "public"} THEN {KeyOf(w.jobs[r])} ELSE {}) :
        r \in DOMAIN w.jobs} : w \in Range(Workloads)}

Init ==
    /\ day \in DOMAIN Workloads
    /\ backend = load.backend
    /\ budget = load.faults
    /\ BlobInit
    /\ bus = <<>> /\ active = 0 /\ subs = <<>> /\ outbox = {}
    /\ stream = [r \in Slots |-> NoStream]
    /\ req = [r \in Slots |-> Idle]
    /\ task = [r \in Slots |-> "none"]
    /\ hosted = {} /\ rehosted = {} /\ commits = <<>>
    /\ live = [k \in AllPaths |-> None]
    /\ artifact = [s \in Spaces |-> 0]
    /\ clock = 0
    /\ ticket = [r \in Slots |-> None]
    /\ bucket = FullBuckets
    /\ reads = {} /\ admits = {} /\ torn = {} /\ raced = {}

Writes(r) ==
    \/ KvReceive(r) \/ KvCheck(r) \/ KvAdmit(r) \/ KvStage(r) \/ KvBegin(r) \/ KvExists(r)
    \/ KvCreate(r) \/ KvStore(r) \/ KvCount(r) \/ KvCommit(r) \/ KvEmit(r)
    \/ DbReceive(r) \/ DbCheck(r) \/ DbAdmit(r) \/ DbExecute(r)
    \/ TaskEnqueue(r) \/ TaskPublish(r)

Others(r) ==
    \/ OtherReceive(r)
    \/ HostCreate(r) \/ HostCommit(r) \/ HookTicket(r) \/ StreamOpen(r)
    \/ SubCount(r) \/ SubInsert(r) \/ SubFind(r) \/ SubOff(r)
    \/ UrlMint(r) \/ SignedLoad(r) \/ SignedGet(r) \/ PublicGet(r)

\* A request that has come, the task of one, or the end of a stream.
Handler ==
    \E r \in Requests :
        /\ req[r].pc # "idle"
        /\ \/ Writes(r) /\ UNCHANGED readVars
           \/ Others(r)
           \/ StreamEnd(r)

Next ==
    \/ \E r \in Requests :
          \/ Writes(r) /\ UNCHANGED readVars
          \/ Others(r)
          \/ StreamReceive(r) \/ StreamEnd(r) \/ StreamDropped(r)
          \/ StepFails(r) \/ EventsLost(r)
    \/ Crash
    \/ Tick

Spec == Init /\ [][Next]_vars

\* The runtime polls every task until it ends, and its timers fire.  A task
\* takes finitely many steps, so that no task need be named.
FairSpec ==
    /\ Spec
    /\ WF_vars(Tick)
    /\ WF_vars(Handler)

-----------------------------------------------------------------------------
\* The state of the store, of the routes and of the bus.
TypeOK ==
    /\ BlobTypeOK
    /\ day \in DOMAIN Workloads
    /\ \A r \in Requests : req[r].room # None => req[r].room \in Nat \ {0}
    /\ \A r \in Requests : task[r] \in {"none", "enqueue", "publish", "done", "lost"}
    /\ \A r \in Requests : stream[r].next <= Len(bus) + 1
    /\ \A k \in DOMAIN live : live[k] = None \/ live[k] \in Ids
    /\ \A a \in Clients : bucket[a].tokens \in 0 .. MaxTokens
    /\ DOMAIN subs \subseteq Requests

Counting(s) == {r \in Requests : At(r, "kv", "count") /\ BlobSpace(r) = s}

\* What a space is charged for covers what is stored of it, whatever writes,
\* failures and crashes interleave, as long as it is not hosted a second time
\* and its size is known (persist, increment_size, store_sizes).
UsageCovers ==
    \A s \in Spaces \ rehosted : sizes[s] # None =>
        Bytes(s) <= sizes[s] + MapThenSumSet(LAMBDA r : Length(BlobOf(r)), Counting(s))

\* A write that shares its space with no other between the moment its room
\* was computed and its commit never takes the space over its limit, in one
\* body or in several parts (invoke_impl, copy_multipart_field_to_stage).
AloneWithinLimit ==
    \A r \in Requests :
        At(r, "kv", "commit") /\ req[r].room # None /\ req[r].alone
        /\ SpaceOf(r) \notin rehosted
            => Usage(SpaceOf(r)) <= Limit(SpaceOf(r))

\* A write that comes when its space is full is never served, the one-write
\* overshoot of a database write included: "the next write 402s".
FullRefuses ==
    \A r \in Requests :
        /\ req[r].full /\ req[r].out = "ok" /\ SpaceOf(r) \notin rehosted
        => IF Job(r).kind = "kv" THEN ~HasPut(r) ELSE Job(r).grows = 0

\* The value of a key can be read whole, unless another writer of the same
\* content is at it or was stopped half way: a commit never precedes its
\* blobs, and nothing removes one (persist).
CommittedReadable ==
    \A k \in DOMAIN live :
        \/ live[k] = None
        \/ disk[k[1]][live[k]] = "whole"
        \/ <<k[1], live[k]>> \in torn \union HalfWritten(Requests)

Committed == {commits[i] : i \in DOMAIN commits}

\* What is published tells of a committed write, and no id is published twice.
PublishedIsCommitted ==
    /\ \A i \in DOMAIN bus : bus[i].id[1][1] \in Committed
    /\ \A i, j \in DOMAIN bus : bus[i].id = bus[j].id => i = j

\* The live bus and the webhooks number the events of a write separately, and
\* agree: one id is one event, and one change has one id on both
\* (emit_kv_hook_events, enqueue_kv_webhook_deliveries).
SameChange(d, e) == d.id[1] = e.id[1] /\ d.path = e.path /\ d.ability = e.ability
ChannelsAgree ==
    \A d \in outbox : \A i \in DOMAIN bus :
        d[2].id = bus[i].id \/ SameChange(d[2], bus[i]) => d[2] = bus[i]

\* A stream yields only what the invocation that asked for its ticket was
\* allowed to subscribe to (mint_hook_ticket, matches_scope).
StreamWithinAuthority ==
    \A r \in Requests : \A i \in DOMAIN stream[r].got :
        LET e == stream[r].got[i]
        IN  \E cap \in Job(Job(r).of).caps :
                cap.space = e.space /\ IsPrefix(cap.path, <<e.service>> \o e.path)

\* A stream that was never told it lags has yielded every event in its scope
\* that was published since it was opened, in order (hook_events).
StreamComplete ==
    \A r \in Requests :
        stream[r].state # "none" /\ ~stream[r].lagged =>
            stream[r].got = SelectSeq(SubSeq(bus, stream[r].from + 1, stream[r].next - 1),
                                      LAMBDA e : \E s \in stream[r].scopes : Matches(e, s))

\* The counter of active streams is the number of open ones and never above
\* the limit, however streams end (try_acquire_stream, HookStreamLease).
LeasesCounted == active = Cardinality(Streaming) /\ active <= MaxStreams

\* A space has no more active subscriptions than allowed unless registrations
\* overlapped, each counting before the other inserted (create_webhook).
SubsWithinLimit ==
    \A s \in Spaces \ raced : Cardinality(ActiveSubs(s)) <= MaxSubs

\* A signed URL serves only the version it is bound to, and only to requests
\* that come within its lifetime and that of the invocation and the
\* delegations behind it (mint_signed_kv_url, validate_signed_kv_ticket).
SignedReadsBound ==
    \A read \in reads : Job(read.by).kind = "signed" =>
        LET mint == Job(Job(read.by).of)
            t == ticket[Job(read.by).of]
        IN  /\ mint.hash # None => read.id = Digest(mint.hash)
            /\ req[read.by].at < t.created + UrlTtl
            /\ req[read.by].at < mint.exp
            /\ \A p \in mint.parents : req[read.by].at < p

\* Between any two moments an address is let through at most the burst, one
\* second's tokens and what was refilled in between (RateLimiter::check).
RateBounded ==
    \A a \in Clients : \A t1, t2 \in 0 .. LastTime : t1 <= t2 =>
        Cardinality({m \in admits : Job(m.by).client = a /\ t1 <= m.at /\ m.at <= t2})
            <= MaxTokens + Rate * (t2 - t1)

\* A database write whose task ends is told to every webhook that was registered
\* for just the path written before the write, whichever crash or failure other
\* writes met (enqueue_database_webhook_deliveries).
DatabaseWritesTold ==
    \A c \in DOMAIN commits : task[commits[c]] = "done" =>
        \A i \in DOMAIN DbEvents(commits[c]) : \A q \in DOMAIN subs :
            /\ subs[q].active /\ subs[q].since < c
            /\ subs[q].scope.prefix = DbEvents(commits[c])[i].path
            /\ Matches(DbEvents(commits[c])[i], subs[q].scope)
            => Delivery(q, DbEvents(commits[c])[i]) \in outbox

\* Every request is answered and every delivery task ends, unless the node
\* dies with it: in the end none waits for its turn on the connection, for the
\* guards of its keys or for another request.
EveryRequestAnswered ==
    <>[] \A r \in Slots :
            /\ req[r].pc \in {"idle", "done", "lost"}
            /\ task[r] \in {"none", "done", "lost"}

\* Every event stream whose deadline comes ends, and gives its lease back.
StreamsEnd ==
    <>[] \A r \in Slots : stream[r].state = "open" => stream[r].until > load.last

\* Limits hold: of a space's size, its subscriptions, an address's rate, and
\* the lifetime of a signed URL.
LimitsHold ==
    /\ TypeOK /\ UsageCovers /\ AloneWithinLimit /\ FullRefuses
    /\ SubsWithinLimit /\ SignedReadsBound /\ RateBounded

\* Subscribers are told what was committed and can be read, all of what they
\* may see and nothing else.
EventsFaithful ==
    /\ CommittedReadable /\ PublishedIsCommitted /\ ChannelsAgree /\ DatabaseWritesTold
    /\ StreamWithinAuthority /\ StreamComplete /\ LeasesCounted

\* Requests are answered and streams end.
RoutesProgress == EveryRequestAnswered /\ StreamsEnd

=============================================================================
