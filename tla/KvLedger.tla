------------------------------ MODULE KvLedger ------------------------------
(***************************************************************************)
(* How a node commits events to spaces: SpaceDatabase::invoke_with_options *)
(* and transact of tinycloud-core/src/db.rs with invocation::save, behind  *)
(* the replay cache of tinycloud-node-server.                              *)
(*                                                                         *)
(* A request takes one in-process guard per key it writes, in key order,   *)
(* opens a transaction, reads the live values, then the next sequence      *)
(* number and the epoch tips of every space it touches, inserts its epoch, *)
(* its event and its key-value rows, stores the blobs and commits.  The    *)
(* live value of a key is its write with the greatest (seq, epoch), unless *)
(* that write is tombstoned.                                               *)
(*                                                                         *)
(* On PostgreSQL a transaction without precondition is READ COMMITTED: its *)
(* statements see different states.  One with a precondition reads from    *)
(* one snapshot and may be told to retry.  On SQLite the transaction owns  *)
(* the only connection.  Whether the request is authorised is the subject  *)
(* of DelegationChain; here a request may fail at any step.                *)
(***************************************************************************)
EXTENDS KvRequests

CONSTANTS
    Spaces,
    SpaceOf,            \* SpaceOf[k]: the space of a key
    Touches,            \* Touches[e]: the spaces the event is ordered in
    Cached,             \* events the replay cache looks at: the invocations
    Hosts,              \* Hosts[e]: the spaces a delegation has hosted
    Workloads,          \* sets of requests that come together, with the engine that serves
                        \* them and the spaces hosted before
    MaxEpochs,          \* bound on the epochs created
    NoRequest           \* not a request

ASSUME LedgerAssumption ==
    /\ SpaceOf \in [Keys -> Spaces]
    /\ Touches \in [Events -> SUBSET Spaces]
    /\ \A e \in Events : {SpaceOf[k] : k \in DOMAIN Ops[e]} \subseteq Touches[e]
    /\ Cached \subseteq Events
    /\ DOMAIN Hosts \subseteq Events \ Cached
    /\ \A e \in DOMAIN Hosts : Hosts[e] \subseteq Touches[e]
    /\ \A e \in DOMAIN Hosts : DOMAIN Ops[e] = {}      \* a delegation writes no key
    /\ Workloads \subseteq
          [engine : {"sqlite", "postgres"}, requests : SUBSET Requests, hosted : SUBSET Spaces]
    /\ MaxEpochs \in Nat
    /\ NoRequest \notin Requests

VARIABLES
    load,       \* the workload; it never changes
    \* committed rows and stored blobs
    writes,     \* kv_write
    deletes,    \* kv_delete
    epochs,     \* epoch, epoch_order and event_order
    recorded,   \* events with a row of their own
    hosted,     \* space
    blobs,      \* (space, content) pairs in the block store
    \* the process
    seen,       \* invocations in the replay cache
    conn,       \* SQLite: the request whose transaction owns the connection
    pc,         \* where the request is
    held,       \* keys whose guard it owns
    seqs,       \* the sequence numbers it read: space -> number
    tips,       \* the epoch tips it read: space -> epochs
    hidden,     \* the writes its deletions are to tombstone: key -> event
    staged,     \* keys whose blob it has still to store
    answer      \* outcome

rows == <<writes, deletes, epochs, recorded, hosted>>
locals == <<held, seqs, tips, hidden, staged>>
vars == <<load, rows, blobs, seen, conn, pc, locals, answer>>

SingleConnection == load.engine = "sqlite"

Nothing == [x \in {} |-> x]

Init ==
    /\ load \in Workloads
    /\ writes = {} /\ deletes = {} /\ epochs = {} /\ recorded = {} /\ blobs = {}
    /\ hosted = load.hosted
    /\ seen = {}
    /\ conn = NoRequest
    /\ pc = [r \in Requests |-> IF r \in load.requests THEN "idle" ELSE "done"]
    /\ held = [r \in Requests |-> {}]
    /\ staged = [r \in Requests |-> {}]
    /\ seqs = [r \in Requests |-> Nothing]
    /\ tips = [r \in Requests |-> Nothing]
    /\ hidden = [r \in Requests |-> Nothing]
    /\ answer = [r \in Requests |-> "none"]

-----------------------------------------------------------------------------
(***************************************************************************)
(* What the rows say.                                                      *)
(***************************************************************************)
Newer(v, w) == v.seq > w.seq \/ (v.seq = w.seq /\ v.epoch > w.epoch)

WritesOf(k) == {w \in writes : w.key = k}

Latest(k) == CHOOSE w \in WritesOf(k) : \A v \in WritesOf(k) : ~Newer(v, w)

Tombstoned(w) == \E t \in deletes : t.key = w.key /\ t.deleted = w.event

Current(k) ==
    IF WritesOf(k) = {} \/ Tombstoned(Latest(k)) THEN Absent ELSE Latest(k).value

\* Mutant: a write may be superseded.
ListAny(s) == {w.key : w \in {w \in writes : SpaceOf[w.key] = s /\ ~Tombstoned(w)}}

\* list_bounded: the keys with a write that no tombstone hides and no other
\* write is newer than ...
List(s) ==
    {w.key : w \in {w \in writes : /\ SpaceOf[w.key] = s
                                  /\ ~Tombstoned(w)
                                  /\ ~\E v \in writes : v.key = w.key /\ Newer(v, w)}}

\* ... in their order, up to a limit, and whether there are more.
Page(s, limit) == {k \in List(s) : Cardinality({j \in List(s) : j < k}) < limit}

Truncated(s, limit) == Cardinality(List(s)) > limit

EpochsOf(s) == {e \in epochs : e.space = s}

NextSeq(s) ==
    IF EpochsOf(s) = {} THEN 0
    ELSE (CHOOSE e \in EpochsOf(s) : \A f \in EpochsOf(s) : f.seq <= e.seq).seq + 1

Tips(s) == {e.id : e \in {e \in EpochsOf(s) : \A f \in EpochsOf(s) : e.id \notin f.parents}}

-----------------------------------------------------------------------------
Event(r) == Request[r].event
Puts(r) == {k \in Written(r) : Ops[Event(r)][k] # Absent}
Dels(r) == Written(r) \ Puts(r)

InTransaction == {"read", "seq", "tips", "save", "persist", "commit"}
InFlight == {"lock"} \cup InTransaction

(***************************************************************************)
(* Returning rolls the transaction back unless it was committed, and drops *)
(* the guards and the call's locals.                                       *)
(***************************************************************************)
Reply(r, outcome) ==
    /\ pc' = [pc EXCEPT ![r] = "done"]
    /\ answer' = [answer EXCEPT ![r] = outcome]
    /\ conn' = IF conn = r THEN NoRequest ELSE conn
    /\ held' = [held EXCEPT ![r] = {}]
    /\ staged' = [staged EXCEPT ![r] = {}]
    /\ seqs' = [seqs EXCEPT ![r] = Nothing]
    /\ tips' = [tips EXCEPT ![r] = Nothing]
    /\ hidden' = [hidden EXCEPT ![r] = Nothing]

Goto(r, label) == pc' = [pc EXCEPT ![r] = label] /\ UNCHANGED answer

(***************************************************************************)
(* The replay cache answers before anything else is done, and remembers    *)
(* the invocation whatever becomes of it.                                  *)
(***************************************************************************)
Arrive(r) ==
    /\ pc[r] = "idle"
    /\ IF Event(r) \in seen
       THEN Reply(r, "duplicate") /\ UNCHANGED seen
       ELSE /\ seen' = seen \cup ({Event(r)} \cap Cached)
            /\ Goto(r, "lock")
            /\ UNCHANGED <<conn, locals>>
    /\ UNCHANGED <<rows, blobs>>

\* Mutant: no guard is waited for.
FreeAlways(r, k) == TRUE

Free(r, k) == \A q \in Requests \ {r} : k \notin held[q]

LockNext(r) ==
    /\ pc[r] = "lock"
    /\ \E k \in Written(r) \ held[r] :
          /\ \A j \in Written(r) \ held[r] : k <= j
          /\ Free(r, k)
          /\ held' = [held EXCEPT ![r] = @ \cup {k}]
    /\ UNCHANGED <<rows, blobs, seen, conn, pc, seqs, tips, hidden, staged, answer>>

\* Mutant: the transaction does not own the connection.
BeginShared(r) ==
    /\ pc[r] = "lock"
    /\ held[r] = Written(r)
    /\ Goto(r, "read")
    /\ UNCHANGED <<rows, blobs, seen, conn, locals>>

Begin(r) ==
    /\ pc[r] = "lock"
    /\ held[r] = Written(r)
    /\ SingleConnection => conn = NoRequest
    /\ conn' = IF SingleConnection THEN r ELSE conn
    /\ Goto(r, "read")
    /\ UNCHANGED <<rows, blobs, seen, locals>>

-----------------------------------------------------------------------------
(***************************************************************************)
(* The spaces an event is ordered in.  A delegation is ordered in those of *)
(* its spaces that are hosted, the ones it has hosted itself included; any *)
(* other event needs all of its spaces.                                    *)
(***************************************************************************)
NewSpaces(r) == IF Event(r) \in DOMAIN Hosts THEN Hosts[Event(r)] ELSE {}

SpacesFound(r) == Event(r) \in DOMAIN Hosts \/ Touches[Event(r)] \subseteq hosted

Ordered(r) == Touches[Event(r)] \cap (hosted \cup NewSpaces(r))

SeqsRead(r) == [s \in Ordered(r) |-> NextSeq(s)]
TipsRead(spaces) == [s \in spaces |-> Tips(s)]

Conditional(r) == Request[r].pre # "none"

(***************************************************************************)
(* The live values are read and the precondition is decided.  A            *)
(* conditional transaction reads everything else from the same snapshot.   *)
(***************************************************************************)
ReadCurrent(r) ==
    /\ pc[r] = "read"
    /\ IF \E k \in Written(r) : ~PreHolds(Request[r].pre, Current(k))
       THEN Reply(r, "precondition failed")
       ELSE IF Conditional(r) /\ ~SpacesFound(r)
       THEN Reply(r, "not found")
       ELSE IF Conditional(r)
       THEN /\ seqs' = [seqs EXCEPT ![r] = SeqsRead(r)]
            /\ tips' = [tips EXCEPT ![r] = TipsRead(Ordered(r))]
            /\ Goto(r, "save")
            /\ UNCHANGED <<conn, held, hidden, staged>>
       ELSE Goto(r, "seq") /\ UNCHANGED <<conn, locals>>
    /\ UNCHANGED <<rows, blobs, seen>>

ReadSeq(r) ==
    /\ pc[r] = "seq"
    /\ IF SpacesFound(r)
       THEN /\ seqs' = [seqs EXCEPT ![r] = SeqsRead(r)]
            /\ Goto(r, "tips")
            /\ UNCHANGED <<conn, held, tips, hidden, staged>>
       ELSE Reply(r, "not found")
    /\ UNCHANGED <<rows, blobs, seen>>

ReadTips(r) ==
    /\ pc[r] = "tips"
    /\ tips' = [tips EXCEPT ![r] = TipsRead(DOMAIN seqs[r])]
    /\ Goto(r, "save")
    /\ UNCHANGED <<rows, blobs, seen, conn, held, seqs, hidden, staged>>

(***************************************************************************)
(* invocation::save.  A recorded event changes nothing more; a deletion    *)
(* needs a write to hide, and an event has one kv_delete row per space.    *)
(* The first deletion that fails decides the answer.                       *)
(***************************************************************************)
\* Mutant: an event that is recorded is applied once more.
FreshAlways(r) == TRUE

Fresh(r) == Event(r) \notin recorded

NothingToHide(r) == \E k \in Dels(r) : WritesOf(k) = {}
DeletesCollide(r) == \E j, k \in Dels(r) : j # k /\ SpaceOf[j] = SpaceOf[k]

SaveFails(r) == Fresh(r) /\ (NothingToHide(r) \/ DeletesCollide(r))

Save(r) ==
    /\ pc[r] = "save"
    /\ IF SaveFails(r)
       THEN \/ NothingToHide(r) /\ Reply(r, "not found")
            \/ DeletesCollide(r) /\ Reply(r, "error")
       ELSE /\ hidden' = [hidden EXCEPT ![r] =
                             IF Fresh(r) THEN [k \in Dels(r) |-> Latest(k).event] ELSE Nothing]
            /\ staged' = [staged EXCEPT ![r] = Puts(r)]
            /\ Goto(r, "persist")
            /\ UNCHANGED <<conn, held, seqs, tips>>
    /\ UNCHANGED <<rows, blobs, seen>>

(***************************************************************************)
(* Blobs are stored one by one, outside the transaction but before it      *)
(* commits.                                                                *)
(***************************************************************************)
\* Mutant: the stages are dropped and nothing is stored.
PersistSkipped(r) ==
    /\ pc[r] = "persist"
    /\ Goto(r, "commit")
    /\ UNCHANGED <<rows, blobs, seen, conn, locals>>

Persist(r) ==
    /\ pc[r] = "persist"
    /\ IF staged[r] = {}
       THEN Goto(r, "commit") /\ UNCHANGED <<blobs, locals>>
       ELSE \E k \in staged[r] :
              /\ blobs' = blobs \cup {<<SpaceOf[k], Ops[Event(r)][k]>>}
              /\ staged' = [staged EXCEPT ![r] = @ \ {k}]
              /\ Goto(r, "persist")
              /\ UNCHANGED <<held, seqs, tips, hidden>>
    /\ UNCHANGED <<rows, seen, conn>>

(***************************************************************************)
(* An epoch's id hashes its event and its parents; ids are unrelated to    *)
(* the order of commits.                                                   *)
(***************************************************************************)
EpochIds == 1..MaxEpochs

NewIds(r) ==
    {ids \in [DOMAIN seqs[r] -> EpochIds \ {e.id : e \in epochs}] :
        \A s, t \in DOMAIN seqs[r] : s # t => ids[s] # ids[t]}

EpochExists(r) ==
    \E e \in epochs : e.event = Event(r) /\ e.space \in DOMAIN seqs[r] /\ e.parents = tips[r][e.space]

Commit(r) ==
    /\ pc[r] = "commit"
    /\ IF EpochExists(r)
       THEN Reply(r, "error") /\ UNCHANGED rows
       ELSE \E ids \in NewIds(r) :
              /\ epochs' = epochs \cup
                    {[space |-> s, id |-> ids[s], seq |-> seqs[r][s], parents |-> tips[r][s],
                      event |-> Event(r)] : s \in DOMAIN seqs[r]}
              /\ IF Fresh(r)
                 THEN /\ writes' = writes \cup
                            {[key |-> k, event |-> Event(r), value |-> Ops[Event(r)][k],
                              seq |-> seqs[r][SpaceOf[k]], epoch |-> ids[SpaceOf[k]]] :
                                k \in Puts(r)}
                      /\ deletes' = deletes \cup
                            {[key |-> k, event |-> Event(r), deleted |-> hidden[r][k]] :
                                k \in Dels(r)}
                 ELSE UNCHANGED <<writes, deletes>>
              /\ recorded' = recorded \cup {Event(r)}
              /\ hosted' = hosted \cup NewSpaces(r)
              /\ Reply(r, "ok")
    /\ UNCHANGED <<blobs, seen>>

(***************************************************************************)
(* A refused authorisation, a failed statement or a storage error; for a   *)
(* conditional transaction also a serialisation conflict.                  *)
(***************************************************************************)
Fail(r) ==
    /\ pc[r] \in InTransaction
    /\ \/ Reply(r, "error")
       \/ ~SingleConnection /\ Conditional(r) /\ Reply(r, "conflict")
    /\ UNCHANGED <<rows, blobs, seen>>

Restart ==
    /\ \E r \in Requests : pc[r] \in InFlight \/ (pc[r] = "idle" /\ Event(r) \in seen)
    /\ pc' = [r \in Requests |-> IF pc[r] \in InFlight THEN "done" ELSE pc[r]]
    /\ answer' = [r \in Requests |-> IF pc[r] \in InFlight THEN "crashed" ELSE answer[r]]
    /\ seen' = {}
    /\ conn' = NoRequest
    /\ held' = [r \in Requests |-> {}]
    /\ staged' = [r \in Requests |-> {}]
    /\ seqs' = [r \in Requests |-> Nothing]
    /\ tips' = [r \in Requests |-> Nothing]
    /\ hidden' = [r \in Requests |-> Nothing]
    /\ UNCHANGED <<rows, blobs>>

Finished == (\A r \in Requests : pc[r] = "done") /\ UNCHANGED vars

Serve(r) ==
    \/ Arrive(r) \/ LockNext(r) \/ Begin(r) \/ ReadCurrent(r) \/ ReadSeq(r) \/ ReadTips(r)
    \/ Save(r) \/ Persist(r) \/ Commit(r) \/ Fail(r)

Next ==
    \/ UNCHANGED load /\ ((\E r \in Requests : Serve(r)) \/ Restart)
    \/ Finished

Spec == Init /\ [][Next]_vars

-----------------------------------------------------------------------------
TypeOK ==
    /\ load \in Workloads
    /\ writes \subseteq [key : Keys, event : Events, value : Values, seq : Nat, epoch : EpochIds]
    /\ deletes \subseteq [key : Keys, event : Events, deleted : Events]
    /\ epochs \subseteq [space : Spaces, id : EpochIds, seq : Nat, parents : SUBSET EpochIds,
                         event : Events]
    /\ recorded \subseteq Events
    /\ hosted \subseteq Spaces
    /\ blobs \subseteq Spaces \X Values
    /\ seen \subseteq Cached
    /\ conn \in Requests \cup {NoRequest}
    /\ pc \in [Requests -> {"idle", "done"} \cup InFlight]
    /\ held \in [Requests -> SUBSET Keys]
    /\ staged \in [Requests -> SUBSET Keys]
    /\ DOMAIN seqs = Requests /\ DOMAIN tips = Requests /\ DOMAIN hidden = Requests
    /\ \A r \in Requests :
          /\ DOMAIN seqs[r] \subseteq Spaces /\ seqs[r] \in [DOMAIN seqs[r] -> Nat]
          /\ DOMAIN tips[r] \subseteq Spaces /\ tips[r] \in [DOMAIN tips[r] -> SUBSET EpochIds]
          /\ DOMAIN hidden[r] \subseteq Keys /\ hidden[r] \in [DOMAIN hidden[r] -> Events]

Store == INSTANCE KvStore WITH value <- [k \in Keys |-> Current(k)], applied <- recorded

(***************************************************************************)
(* The live values form a map to which every accepted event is applied     *)
(* once, at its commit, all of it, under its precondition: no update is    *)
(* lost to a concurrent one, no deletion uncovers an older version, no     *)
(* replay, failure or crash shows in part (invoke_with_options,            *)
(* get_kv_entity).                                                         *)
(***************************************************************************)
ImplementsKvStore == Store!Spec

(***************************************************************************)
(* A row never names a blob the block store does not have: blobs are       *)
(* stored before the commit and deletion is logical.                       *)
(***************************************************************************)
RowsHaveBlobs == \A w \in writes : <<SpaceOf[w.key], w.value>> \in blobs

(***************************************************************************)
(* The versions of a key are totally ordered by their sequence numbers     *)
(* alone: the guard of the key orders the reads of max(seq), whatever      *)
(* other keys of the space are written meanwhile.                          *)
(***************************************************************************)
VersionsOrdered ==
    \A v, w \in writes : v # w /\ v.key = w.key => v.seq # w.seq

(***************************************************************************)
(* On SQLite the epochs of a space form a line: one tip, and every epoch   *)
(* comes after its parents.                                                *)
(***************************************************************************)
HistoryIsLinear ==
    SingleConnection =>
    /\ \A s \in Spaces : Cardinality(Tips(s)) <= 1
    /\ \A e, f \in epochs : e.space = f.space /\ e.id \in f.parents => e.seq < f.seq

(***************************************************************************)
(* The history of a space begins with its hosting, and no accepted request *)
(* is missing from the history of a space it wrote to, whether the space   *)
(* was hosted before, meanwhile or never (transact).                       *)
(***************************************************************************)
OrderedWhereHosted ==
    /\ \A e \in epochs : e.space \in hosted
    /\ \A e \in recorded \cap Cached :
          Touches[e] \subseteq {f.space : f \in {f \in epochs : f.event = e}}

(***************************************************************************)
(* Listing and reading agree on every key, though they are different       *)
(* queries: a page is the first of the keys that can be read, and says     *)
(* whether there are more (list_bounded, get_kv_entity).                   *)
(***************************************************************************)
ListingExact ==
    \A s \in Spaces, limit \in 1..Cardinality(Keys) :
        LET live == {k \in Keys : SpaceOf[k] = s /\ Current(k) # Absent}
            page == Page(s, limit)
        IN  /\ page \subseteq live
            /\ Truncated(s, limit) <=> page # live
            /\ \A k \in live \ page, j \in page : j < k

(***************************************************************************)
(* What a committed row refers to exists: its blobs, its space and its     *)
(* place in the history of every space it wrote to.                        *)
(***************************************************************************)
RowsBacked == RowsHaveBlobs /\ OrderedWhereHosted

=============================================================================
