-------------------------- MODULE DelegationChain --------------------------
(***************************************************************************)
(* Registering, revoking, using and querying delegations in one node       *)
(* process: SpaceDatabase::{delegate, revoke, invoke_with_options,         *)
(* delegation_status} of tinycloud-core/src/db.rs with the validation of   *)
(* models/{delegation,invocation,revocation}.rs.                           *)
(*                                                                         *)
(* Every request first walks the proof chain of the delegations it cites,  *)
(* then takes one in-process guard per delegation of that chain, in hash   *)
(* order, and only then opens its transaction, validates and commits.      *)
(* Each SQL statement is a step of its own, because on PostgreSQL the      *)
(* transaction is READ COMMITTED: a statement sees what was committed      *)
(* before it.  On SQLite the pool has one connection, so a transaction     *)
(* excludes every other statement.                                         *)
(*                                                                         *)
(* The effects an invocation has on a space (epochs, KV rows, blobs) are   *)
(* the subject of module KvLedger; here a committed invocation is a member *)
(* of used.                                                                *)
(***************************************************************************)
EXTENDS ProofGraph

CONSTANTS
    Principals,          \* DIDs without fragment
    Capabilities,        \* (resource, ability, caveats) triples
    Content,             \* Content[d]: what the delegation with hash d says
    RootAuthority(_, _), \* is_root_authority(capability, principal)
    SpaceOwner(_, _),    \* the capability's resource is in a space of the principal
    Covers(_, _),        \* a parent capability supports a capability
    Controls(_, _, _, _),\* action, capability, target, delegator: the capability is a control
                         \* ability for the action on the target
    Requests,            \* HTTP requests served
    Request,             \* Request[r]: what the request asks
    Workloads,           \* sets of requests that come together, with the database engine that
                         \* serves them, the delegations registered before and the time that
                         \* may pass
    MaxClock,            \* bound on the clock
    NoRequest,           \* not a request
    NoDelegation         \* not a delegation

DelegationContent ==
    [delegator : Principals, delegatee : Principals,
     parents : SUBSET Delegations, caps : SUBSET Capabilities,
     notBefore : Nat, expiry : Nat, terminal : BOOLEAN]

RequestContent ==
    [kind : {"delegate", "revoke", "invoke", "status"},
     target : Delegations \cup {NoDelegation},
     cites : SUBSET Delegations, signer : Principals, caps : SUBSET Capabilities]

(***************************************************************************)
(* A capability of d that its delegator does not own is covered by one of  *)
(* a cited delegation of S that was made to that delegator, may be         *)
(* redelegated and is valid whenever d is.                                 *)
(***************************************************************************)
Grounded(S, d) ==
    \A c \in {c \in Content[d].caps : ~RootAuthority(c, Content[d].delegator)} :
        \E p \in Content[d].parents \cap S :
            /\ Content[p].delegatee = Content[d].delegator
            /\ ~Content[p].terminal
            /\ Content[d].expiry <= Content[p].expiry
            /\ Content[d].notBefore >= Content[p].notBefore
            /\ \E parent \in Content[p].caps : Covers(parent, c)

ASSUME ChainAssumption ==
    /\ Content \in [Delegations -> DelegationContent]
    /\ Request \in [Requests -> RequestContent]
    /\ \A r \in Requests : Request[r].kind # "invoke" => Request[r].target \in Delegations
    /\ \A r \in Requests : Request[r].kind = "delegate" =>
          Request[r].cites = Content[Request[r].target].parents
    /\ Workloads \subseteq [engine : {"sqlite", "postgres"}, requests : SUBSET Requests,
                            stored : SUBSET Delegations, until : 0..MaxClock]
    /\ \A w \in Workloads : \A d \in w.stored :
          Content[d].parents \subseteq w.stored /\ Grounded(w.stored, d)
    /\ MaxClock \in Nat
    /\ NoRequest \notin Requests
    /\ NoDelegation \notin Delegations

VARIABLES
    load,       \* the workload; never changes
    \* committed rows
    stored,     \* delegation rows (their parent_delegation rows follow from Content)
    revoked,    \* delegations some revocation row names
    used,       \* invocations recorded
    \* the process
    clock,      \* seconds
    registry,   \* revocation_chain_locks: hash -> the request that made the lock it points to
    conn,       \* SQLite: the request whose transaction owns the connection
    \* one request
    pc,         \* where the request is
    frontier,   \* the walk in progress
    visited,
    keys,       \* hashes it guards
    arcs,       \* locks it keeps alive: hash -> the request that made the lock
    held,       \* hashes whose guard it owns
    found,      \* the delegations its authority rests on, as first read
    todo,       \* those whose chain is still to be found unrevoked
    leaf,       \* the one being examined
    unseen,     \* nodes of its chain whose revocation is still to be looked up
    passed,     \* nodes found unrevoked
    now,        \* the time validation is done at
    answer,     \* outcome
    before      \* history: what was revoked when the request arrived

database == <<load, stored, revoked, used>>
walk == <<frontier, visited>>
guards == <<registry, keys, arcs, held>>
checks == <<found, todo, leaf, unseen, passed>>
vars == <<database, clock, conn, pc, walk, guards, checks, now, answer, before>>

Links == [d \in Delegations |-> IF d \in stored THEN Content[d].parents ELSE {}]

Validating == {"find", "next", "climb", "check", "commit"}
InFlight == {"keys", "lock"} \cup Validating

NoArcs == [d \in Delegations |-> NoRequest]
Unset == [r \in Requests |-> {}]

Init ==
    /\ load \in Workloads
    /\ stored = load.stored
    /\ revoked = {}
    /\ used = {}
    /\ clock = 0
    /\ registry = NoArcs
    /\ conn = NoRequest
    /\ pc = [r \in Requests |-> IF r \in load.requests THEN "idle" ELSE "done"]
    /\ frontier = Unset /\ visited = Unset /\ keys = Unset /\ held = Unset
    /\ found = Unset /\ todo = Unset /\ unseen = Unset /\ passed = Unset
    /\ leaf = [r \in Requests |-> NoDelegation]
    /\ arcs = [r \in Requests |-> NoArcs]
    /\ now = [r \in Requests |-> 0]
    /\ answer = [r \in Requests |-> "none"]
    /\ before = Unset

-----------------------------------------------------------------------------
(***************************************************************************)
(* A statement outside a transaction needs the pool's connection, of which *)
(* SQLite has one; a transaction already owns it.                          *)
(***************************************************************************)
SingleConnection == load.engine = "sqlite"

CanQuery(r) == SingleConnection => conn \in {NoRequest, r}

(***************************************************************************)
(* Returning drops the transaction (rolled back unless committed), the     *)
(* guards, the last references to their locks and the call's locals.       *)
(***************************************************************************)
Reply(r, outcome) ==
    /\ pc' = [pc EXCEPT ![r] = "done"]
    /\ answer' = [answer EXCEPT ![r] = outcome]
    /\ conn' = IF conn = r THEN NoRequest ELSE conn
    /\ arcs' = [arcs EXCEPT ![r] = NoArcs]
    /\ held' = [held EXCEPT ![r] = {}]
    /\ keys' = [keys EXCEPT ![r] = {}]
    /\ frontier' = [frontier EXCEPT ![r] = {}]
    /\ visited' = [visited EXCEPT ![r] = {}]
    /\ found' = [found EXCEPT ![r] = {}]
    /\ todo' = [todo EXCEPT ![r] = {}]
    /\ leaf' = [leaf EXCEPT ![r] = NoDelegation]
    /\ unseen' = [unseen EXCEPT ![r] = {}]
    /\ passed' = [passed EXCEPT ![r] = {}]
    /\ now' = [now EXCEPT ![r] = 0]
    /\ before' = [before EXCEPT ![r] = {}]
    /\ UNCHANGED registry

Goto(r, label) ==
    /\ pc' = [pc EXCEPT ![r] = label]
    /\ UNCHANGED <<answer, before>>

-----------------------------------------------------------------------------
(***************************************************************************)
(* Guards.  The walk that names them reads the tables before any guard is  *)
(* held; it starts from the cited delegations, and from the target of a    *)
(* revocation or a status query.                                           *)
(***************************************************************************)
\* Mutant: only the citations are guarded.
RootsCited(r) == Request[r].cites

Roots(r) ==
    IF Request[r].kind \in {"revoke", "status"}
    THEN Request[r].cites \cup {Request[r].target}
    ELSE Request[r].cites

LimitAnswer(r) == IF Request[r].kind = "status" THEN "unavailable" ELSE "refused"

Arrive(r) ==
    /\ pc[r] = "idle"
    /\ CanQuery(r)
    /\ LET q == Request[r] IN
       IF q.kind = "status" /\ (Cardinality(q.cites) > 1 \/ q.target \notin stored)
       THEN Reply(r, "notfound")
       ELSE IF ~WithinLimit(Roots(r))
       THEN Reply(r, LimitAnswer(r))
       ELSE /\ pc' = [pc EXCEPT ![r] = "keys"]
            /\ frontier' = [frontier EXCEPT ![r] = Roots(r)]
            /\ before' = [before EXCEPT ![r] = revoked]
            /\ UNCHANGED <<conn, visited, guards, checks, now, answer>>
    /\ UNCHANGED <<database, clock>>

WalkKeys(r) ==
    /\ pc[r] = "keys"
    /\ CanQuery(r)
    /\ \E d \in frontier[r] : \E rows \in ParentRows(Links, d, visited[r] \cup {d}) :
          IF WithinLimit(Known(frontier[r], visited[r], rows))
          THEN /\ visited' = [visited EXCEPT ![r] = @ \cup {d}]
               /\ frontier' = [frontier EXCEPT ![r] = Push(@, visited'[r], rows)]
               /\ Goto(r, "keys")
               /\ UNCHANGED <<conn, guards, checks, now>>
          ELSE Reply(r, LimitAnswer(r))
    /\ UNCHANGED <<database, clock>>

(***************************************************************************)
(* Under the registry mutex: drop entries whose lock nobody references,    *)
(* then share the lock a hash points to or make a new one.                 *)
(***************************************************************************)
Live(k) == registry[k] # NoRequest /\ \E q \in Requests : arcs[q][k] = registry[k]

\* Mutant: a weak entry is replaced without upgrading it.
LockForFresh(r, k) == r

LockFor(r, k) == IF Live(k) THEN registry[k] ELSE r

Register(r) ==
    /\ pc[r] = "keys"
    /\ frontier[r] = {}
    /\ keys' = [keys EXCEPT ![r] = visited[r]]
    /\ arcs' = [arcs EXCEPT ![r] =
                   [k \in Delegations |-> IF k \in visited[r] THEN LockFor(r, k) ELSE NoRequest]]
    /\ registry' = [k \in Delegations |->
                       IF k \in visited[r] THEN LockFor(r, k)
                       ELSE IF Live(k) THEN registry[k] ELSE NoRequest]
    /\ Goto(r, "lock")
    /\ UNCHANGED <<database, clock, conn, walk, held, checks, now>>

(***************************************************************************)
(* Guards are taken in hash order; each waits for the lock's other owner.  *)
(***************************************************************************)
Free(r, k) == \A q \in Requests \ {r} : k \in held[q] => arcs[q][k] # arcs[r][k]

\* Mutant: guards are taken in the order the walk found them.
LockAny(r) ==
    /\ pc[r] = "lock"
    /\ \E k \in keys[r] \ held[r] :
          /\ Free(r, k)
          /\ held' = [held EXCEPT ![r] = @ \cup {k}]
    /\ UNCHANGED <<database, clock, conn, pc, walk, registry, keys, arcs, checks, now, answer, before>>

LockNext(r) ==
    /\ pc[r] = "lock"
    /\ \E k \in keys[r] \ held[r] :
          /\ \A j \in keys[r] \ held[r] : k <= j
          /\ Free(r, k)
          /\ held' = [held EXCEPT ![r] = @ \cup {k}]
    /\ UNCHANGED <<database, clock, conn, pc, walk, registry, keys, arcs, checks, now, answer, before>>

(***************************************************************************)
(* A status query reads without a transaction.                             *)
(***************************************************************************)
Begin(r) ==
    /\ pc[r] = "lock"
    /\ held[r] = keys[r]
    /\ CanQuery(r)
    /\ conn' = IF SingleConnection /\ Request[r].kind # "status" THEN r ELSE conn
    /\ Goto(r, "find")
    /\ UNCHANGED <<database, clock, walk, guards, checks, now>>

-----------------------------------------------------------------------------
(***************************************************************************)
(* Validation, first statement: what the request is about and which        *)
(* delegations must be found unrevoked (todo).                             *)
(***************************************************************************)
InWindow(d, t) == Content[d].notBefore <= t /\ t < Content[d].expiry

Dependent(principal, caps) == {c \in caps : ~RootAuthority(c, principal)}

Examine(r, ds) ==
    /\ Goto(r, "next")
    /\ found' = [found EXCEPT ![r] = ds]
    /\ todo' = [todo EXCEPT ![r] = ds]
    /\ now' = [now EXCEPT ![r] = clock]
    /\ UNCHANGED <<conn, walk, guards, leaf, unseen, passed>>

Accept(r) ==
    /\ Goto(r, "commit")
    /\ UNCHANGED <<conn, walk, guards, checks, now>>

\* Mutant: the delegatee filter is missing.
FoundParentsAny(d) == Content[d].parents \cap stored

FoundParents(d) ==
    {p \in Content[d].parents \cap stored : Content[p].delegatee = Content[d].delegator}

FindDelegate(r) ==
    LET d == Request[r].target IN
    IF ~InWindow(d, clock) THEN Reply(r, "refused")
    ELSE IF Dependent(Content[d].delegator, Content[d].caps) = {} THEN Accept(r)
    ELSE IF FoundParents(d) = {} THEN Reply(r, "refused")
    ELSE Examine(r, FoundParents(d))

FindInvoke(r) ==
    LET q == Request[r] IN
    IF Dependent(q.signer, q.caps) = {} THEN Accept(r)
    ELSE IF \/ q.cites = {}
            \/ ~(q.cites \subseteq stored)
            \/ \E p \in q.cites : Content[p].delegatee # q.signer
    THEN Reply(r, "refused")
    ELSE Examine(r, q.cites)

(***************************************************************************)
(* control_proof_decision up to its chain check: no proof, or one current  *)
(* delegation to the signer.                                               *)
(***************************************************************************)
ProofUsable(r) ==
    /\ Cardinality(Request[r].cites) <= 1
    /\ \A p \in Request[r].cites :
          p \in stored /\ Content[p].delegatee = Request[r].signer /\ InWindow(p, clock)

FindRevoke(r) ==
    IF Request[r].target \notin stored \/ ~ProofUsable(r)
    THEN Reply(r, "refused")
    ELSE Examine(r, Request[r].cites)

FindStatus(r) ==
    IF ~ProofUsable(r) THEN Reply(r, "notfound") ELSE Examine(r, Request[r].cites)

Find(r) ==
    /\ pc[r] = "find"
    /\ CanQuery(r)
    /\ CASE Request[r].kind = "delegate" -> FindDelegate(r)
         [] Request[r].kind = "invoke" -> FindInvoke(r)
         [] Request[r].kind = "revoke" -> FindRevoke(r)
         [] Request[r].kind = "status" -> FindStatus(r)
    /\ UNCHANGED <<database, clock>>

(***************************************************************************)
(* The chain check of one delegation.  A parent or a queried delegation is *)
(* looked up first and then its ancestors; a control proof is looked up    *)
(* with its ancestors.                                                     *)
(***************************************************************************)
LooksUpLeaf(r) == Request[r].kind \in {"delegate", "invoke"} \/ answer[r] = "authorized"

RevokedAnswer(r) ==
    IF answer[r] = "authorized" THEN "revoked"
    ELSE IF Request[r].kind = "status" THEN "notfound" ELSE "refused"

Climb(r, d) ==
    /\ Goto(r, "climb")
    /\ leaf' = [leaf EXCEPT ![r] = d]
    /\ frontier' = [frontier EXCEPT ![r] = {d}]
    /\ visited' = [visited EXCEPT ![r] = {}]
    /\ passed' = [passed EXCEPT ![r] = IF LooksUpLeaf(r) THEN @ \cup {d} ELSE @]
    /\ UNCHANGED <<conn, guards, found, unseen, now>>

NextParent(r) ==
    /\ pc[r] = "next"
    /\ CanQuery(r)
    /\ \E d \in todo[r] :
          IF LooksUpLeaf(r) /\ d \in revoked
          THEN Reply(r, RevokedAnswer(r))
          ELSE Climb(r, d) /\ todo' = [todo EXCEPT ![r] = @ \ {d}]
    /\ UNCHANGED <<database, clock>>

\* Mutant: a status is told from the delegation alone.
AncestorsUnasked(r, nodes) ==
    IF answer[r] = "authorized" THEN {}
    ELSE IF LooksUpLeaf(r) THEN nodes \ {leaf[r]} ELSE nodes

AncestorsToCheck(r, nodes) == IF LooksUpLeaf(r) THEN nodes \ {leaf[r]} ELSE nodes

WalkChain(r) ==
    /\ pc[r] = "climb"
    /\ CanQuery(r)
    /\ \E d \in frontier[r] : \E rows \in ParentRows(Links, d, visited[r] \cup {d}) :
          IF WithinLimit(Known(frontier[r], visited[r], rows))
          THEN /\ visited' = [visited EXCEPT ![r] = @ \cup {d}]
               /\ frontier' = [frontier EXCEPT ![r] = Push(@, visited'[r], rows)]
               /\ Goto(r, IF frontier'[r] = {} THEN "check" ELSE "climb")
               /\ unseen' = [unseen EXCEPT ![r] = AncestorsToCheck(r, visited'[r])]
               /\ UNCHANGED <<conn, guards, found, todo, leaf, passed, now>>
          ELSE Reply(r, IF answer[r] = "authorized" THEN "unavailable" ELSE RevokedAnswer(r))
    /\ UNCHANGED <<database, clock>>

CheckAncestor(r) ==
    /\ pc[r] = "check"
    /\ CanQuery(r)
    /\ \E d \in unseen[r] :
          IF d \in revoked
          THEN Reply(r, RevokedAnswer(r))
          ELSE /\ unseen' = [unseen EXCEPT ![r] = @ \ {d}]
               /\ passed' = [passed EXCEPT ![r] = @ \cup {d}]
               /\ Goto(r, "check")
               /\ UNCHANGED <<conn, walk, guards, found, todo, leaf, now>>
    /\ UNCHANGED <<database, clock>>

(***************************************************************************)
(* The chain is clear.  An invocation also needs every delegation of it in *)
(* its validity window; a status query is answered.                        *)
(***************************************************************************)
StatusAnswer(d) ==
    IF clock >= Content[d].expiry THEN "expired"
    ELSE IF clock < Content[d].notBefore THEN "unavailable" ELSE "active"

ChainClear(r) ==
    /\ pc[r] = "check"
    /\ CanQuery(r)
    /\ unseen[r] = {}
    /\ IF answer[r] = "authorized"
       THEN Reply(r, StatusAnswer(Request[r].target))
       ELSE IF /\ Request[r].kind = "invoke"
               /\ \/ ~(visited[r] \subseteq stored)
                  \/ \E d \in visited[r] : ~InWindow(d, now[r])
       THEN Reply(r, "refused")
       ELSE /\ Goto(r, "next")
            /\ UNCHANGED <<conn, walk, guards, checks, now>>
    /\ UNCHANGED <<database, clock>>

-----------------------------------------------------------------------------
(***************************************************************************)
(* What the unrevoked delegations authorise.                               *)
(***************************************************************************)
SupportedBy(parents, caps) ==
    \A c \in caps : \E p \in parents : \E parent \in Content[p].caps : Covers(parent, c)

TimelyParents(d, parents) ==
    {p \in parents : /\ Content[d].expiry <= Content[p].expiry
                     /\ Content[d].notBefore >= Content[p].notBefore}

DelegateSupported(d, parents) ==
    /\ \A p \in parents : ~Content[p].terminal
    /\ TimelyParents(d, parents) # {}
    /\ SupportedBy(TimelyParents(d, parents), Dependent(Content[d].delegator, Content[d].caps))

(***************************************************************************)
(* The principal a control request speaks for: its signer, or the          *)
(* delegator of a proof that carries the control ability.                  *)
(***************************************************************************)
ControlPrincipals(r) ==
    LET q == Request[r] IN
    IF q.cites = {} THEN {q.signer}
    ELSE {Content[p].delegator :
             p \in {p \in q.cites : \E c \in Content[p].caps :
                       Controls(q.kind, c, q.target, Content[p].delegator)}}

PartyTo(d, principal) ==
    \/ principal \in {Content[d].delegator, Content[d].delegatee}
    \/ \E c \in Content[d].caps : SpaceOwner(c, principal)

ControlSupported(r) == \E x \in ControlPrincipals(r) : PartyTo(Request[r].target, x)

Supported(r) ==
    LET q == Request[r] IN
    CASE q.kind = "delegate" -> DelegateSupported(q.target, found[r])
      [] q.kind = "invoke" -> SupportedBy(found[r], Dependent(q.signer, q.caps))
      [] q.kind \in {"revoke", "status"} -> ControlSupported(r)

Authorize(r) ==
    /\ pc[r] = "next"
    /\ CanQuery(r)
    /\ todo[r] = {}
    /\ IF ~Supported(r)
       THEN Reply(r, RevokedAnswer(r))
       ELSE IF Request[r].kind = "status"
       THEN /\ answer' = [answer EXCEPT ![r] = "authorized"]
            /\ todo' = [todo EXCEPT ![r] = {Request[r].target}]
            /\ UNCHANGED <<conn, pc, walk, guards, found, leaf, unseen, passed, now, before>>
       ELSE Accept(r)
    /\ UNCHANGED <<database, clock>>

(***************************************************************************)
(* Inserting the rows and committing.  parent_delegation.parent references *)
(* delegation.id, so a citation of an unregistered delegation fails here.  *)
(***************************************************************************)
Save(r) ==
    CASE Request[r].kind = "delegate" ->
            stored' = stored \cup {Request[r].target} /\ UNCHANGED <<load, revoked, used>>
      [] Request[r].kind = "revoke" ->
            revoked' = revoked \cup {Request[r].target} /\ UNCHANGED <<load, stored, used>>
      [] Request[r].kind = "invoke" ->
            used' = used \cup {r} /\ UNCHANGED <<load, stored, revoked>>

Commit(r) ==
    /\ pc[r] = "commit"
    /\ IF Request[r].cites \subseteq stored
       THEN Save(r) /\ Reply(r, "ok")
       ELSE Reply(r, "refused") /\ UNCHANGED database
    /\ UNCHANGED clock

(***************************************************************************)
(* A statement fails, a signature does not verify or a space is missing:   *)
(* the request ends and its transaction is rolled back.                    *)
(***************************************************************************)
Fail(r) ==
    /\ pc[r] \in {"keys"} \cup Validating
    /\ Reply(r, "error")
    /\ UNCHANGED <<database, clock>>

(***************************************************************************)
(* The process stops and starts again: transactions, guards and the lock   *)
(* registry are gone, committed rows stay.                                 *)
(***************************************************************************)
Restart ==
    /\ \E r \in Requests : pc[r] \in InFlight
    /\ pc' = [r \in Requests |-> IF pc[r] \in InFlight THEN "done" ELSE pc[r]]
    /\ answer' = [r \in Requests |-> IF pc[r] \in InFlight THEN "crashed" ELSE answer[r]]
    /\ frontier' = Unset /\ visited' = Unset /\ keys' = Unset /\ held' = Unset
    /\ found' = Unset /\ todo' = Unset /\ unseen' = Unset /\ passed' = Unset
    /\ leaf' = [r \in Requests |-> NoDelegation]
    /\ arcs' = [r \in Requests |-> NoArcs]
    /\ now' = [r \in Requests |-> 0]
    /\ before' = Unset
    /\ registry' = NoArcs
    /\ conn' = NoRequest
    /\ UNCHANGED <<database, clock>>

Tick ==
    /\ clock < load.until
    /\ clock' = clock + 1
    /\ UNCHANGED <<database, conn, pc, walk, guards, checks, now, answer, before>>

Finished ==
    /\ \A r \in Requests : pc[r] = "done"
    /\ UNCHANGED vars

Serve(r) ==
    \/ Arrive(r) \/ WalkKeys(r) \/ Register(r) \/ LockNext(r) \/ Begin(r)
    \/ Find(r) \/ NextParent(r) \/ WalkChain(r) \/ CheckAncestor(r) \/ ChainClear(r)
    \/ Authorize(r) \/ Commit(r)

Next ==
    \/ \E r \in Requests : Serve(r) \/ Fail(r)
    \/ Restart
    \/ Tick
    \/ Finished

Spec == Init /\ [][Next]_vars

(***************************************************************************)
(* The runtime keeps polling every request task.                           *)
(***************************************************************************)
FairSpec == Spec /\ \A r \in Requests : WF_vars(Serve(r))

-----------------------------------------------------------------------------
(***************************************************************************)
(* The whole chain a request can meet, whatever part of it is stored, and  *)
(* the condition that no parent query on it has more rows than its LIMIT:  *)
(* a delegation cites few enough others for the nodes that may still be    *)
(* visited when the walk comes to it.                                      *)
(***************************************************************************)
ChainOf(r) == Chain([d \in Delegations |-> Content[d].parents], Roots(r))

Uncut ==
    \A r \in Requests : \A S \in SUBSET ChainOf(r) :
        WithinLimit(S) => \A d \in S : Cardinality(Content[d].parents) <= RowLimit(S)

-----------------------------------------------------------------------------
Hashes == SUBSET Delegations

Answers ==
    {"none", "ok", "refused", "notfound", "authorized", "revoked",
     "expired", "unavailable", "active", "error", "crashed"}

RowTypes ==
    /\ load \in Workloads
    /\ stored \in Hashes
    /\ revoked \in Hashes
    /\ used \in SUBSET Requests
    /\ clock \in 0..MaxClock
    /\ conn \in Requests \cup {NoRequest}

GuardTypes ==
    /\ registry \in [Delegations -> Requests \cup {NoRequest}]
    /\ keys \in [Requests -> Hashes]
    /\ arcs \in [Requests -> [Delegations -> Requests \cup {NoRequest}]]
    /\ held \in [Requests -> Hashes]

WalkTypes ==
    /\ frontier \in [Requests -> Hashes]
    /\ visited \in [Requests -> Hashes]

CheckTypes ==
    /\ found \in [Requests -> Hashes]
    /\ todo \in [Requests -> Hashes]
    /\ leaf \in [Requests -> Delegations \cup {NoDelegation}]
    /\ unseen \in [Requests -> Hashes]
    /\ passed \in [Requests -> Hashes]
    /\ now \in [Requests -> 0..MaxClock]

OutcomeTypes ==
    /\ pc \in [Requests -> {"idle", "done"} \cup InFlight]
    /\ answer \in [Requests -> Answers]
    /\ before \in [Requests -> Hashes]

TypeOK == RowTypes /\ GuardTypes /\ WalkTypes /\ CheckTypes /\ OutcomeTypes

(***************************************************************************)
(* Two requests never own the guard of the same delegation, although the   *)
(* registry only keeps weak references and forgets locks nobody holds or   *)
(* waits for (acquire_chain_guards).                                       *)
(***************************************************************************)
GuardsExclusive ==
    \A r, q \in Requests : r # q => held[r] \cap held[q] = {}

(***************************************************************************)
(* No chain of stored delegations hands on more than its first delegator   *)
(* owns, or for longer: every stored delegation is grounded in stored      *)
(* ones (delegation::validate and the foreign key of parent_delegation).   *)
(***************************************************************************)
AuthorityGrounded == \A d \in stored : Grounded(stored, d)

Commits(r) == pc[r] = "commit" /\ answer'[r] = "ok"

(***************************************************************************)
(* "Revocation ordering is enforced by the chain-scoped guards held        *)
(* through commit": when a delegation, an invocation or a revocation       *)
(* commits, nothing in the chain its authority rests on is revoked.        *)
(***************************************************************************)
RevocationOrdering ==
    [][\A r \in Requests : Commits(r) => Chain(Links, found[r]) \cap revoked = {}]_vars

(***************************************************************************)
(* A revocation that was committed when a request arrived is never missed  *)
(* by it.                                                                  *)
(***************************************************************************)
NoUseAfterRevocation ==
    [][\A r \in Requests : Commits(r) => Chain(Links, found[r]) \cap before[r] = {}]_vars

(***************************************************************************)
(* delegation_status answers "active" only while neither the delegation    *)
(* nor an ancestor of it is revoked, although it reads without a           *)
(* transaction.                                                            *)
(***************************************************************************)
ActiveAnswerIsCurrent ==
    [][\A r \in Requests :
          answer[r] # "active" /\ answer'[r] = "active"
          => Chain(Links, {Request[r].target}) \cap revoked = {}]_vars

(***************************************************************************)
(* Guards are taken in one order, so every request is answered.            *)
(***************************************************************************)
EveryRequestAnswered == <>(\A r \in Requests : pc[r] = "done")

=============================================================================
