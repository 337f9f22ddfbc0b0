---------------------------- MODULE ShareSession ----------------------------
(***************************************************************************)
(* E-mail shares: challenges, sessions and reads (share_email/), kept with *)
(* the delegations of the policy authority (policy_authority/database.rs). *)
(*                                                                         *)
(* An invitation, a challenge, a session and a read are requests about one *)
(* share: its policy and enforcement, the recipient it names and its       *)
(* source.  Each first admits the two authorities, with the status its     *)
(* node loaded, in a transaction that locks their rows on Postgres; a      *)
(* session and a read go on in the same transaction.  A status change, a   *)
(* descendant and an invocation use the store of the authority directly.   *)
(* On SQLite a transaction has the only connection.                        *)
(*                                                                         *)
(* A request reads the clock once, when it arrives.  What a transaction    *)
(* wrote is seen by others when it commits; the statements between the     *)
(* last lock and the commit are one step.                                  *)
(***************************************************************************)
EXTENDS PolicyAuthority, Sequences

CONSTANTS
    Requests,       \* also the cids of the roots and descendants they store
    Job,            \* Job[r]: what the request asks for
    Workloads,      \* requests that come together, the database and the material they
                    \* meet, and the bounds on restarts of nodes and on the clock
    Nodes,          \* node processes on one database
    Material,       \* versions of the authority material a node may load
    Rank,           \* Rank[c]: the order of the cids as text
    Trust,          \* the origin, audience and key the nodes are configured with
    Share,          \* the sender, recipient, source, action and end the policy names
    Skew,           \* clock_skew_seconds
    InviteTtl,      \* INVITATION_AUTHORIZATION_TTL
    ChallengeTtl,   \* CHALLENGE_TTL
    ReadTtl,        \* READ_JTI_TTL and MAX_READ_TTL_SECONDS
    ShareQuota,     \* SHARE_QUOTA
    Nobody          \* the holder of what is free

Cids == Authorities \cup Requests
Kinds == {"invite", "challenge", "session", "read", "status", "descend", "invoke"}
OfKind(kind) == {r \in Requests : Job[r].kind = kind}
Invitations == OfKind("invite")
Challenges == OfKind("challenge")
Presentations == OfKind("session")
Reads == OfKind("read")
StatusChanges == OfKind("status")
Descents == OfKind("descend")
Invocations == OfKind("invoke")
InviteJtis == {Job[r].jti : r \in Invitations}
Jtis == {Job[r].jti : r \in Reads}

ASSUME ShareAssumption ==
    /\ \A r \in Requests : Job[r].kind \in Kinds /\ Job[r].node \in Nodes
    /\ \A r \in Requests : Job[r].after \subseteq Requests
    /\ Workloads \subseteq
          [engine : {"sqlite", "postgres"}, requests : SUBSET Requests,
           material : [Nodes -> DOMAIN Material], restarts : Nat, time : Nat]
    /\ \A w \in Workloads : w.engine = "sqlite" => Cardinality({Job[r].node : r \in w.requests}) = 1
    /\ \A c, d \in Cids : Rank[c] \in Nat /\ (Rank[c] = Rank[d] => c = d)
    /\ \A n \in {Skew, InviteTtl, ChallengeTtl, ReadTtl, ShareQuota} : n \in Nat
    /\ Authorities \cap Requests = {} /\ Nobody \notin Requests

VARIABLES
    load,       \* the workload; it never changes
    clock,
    rows,       \* policy_delegation with policy_edge
    invites,    \* share_invitation_authorization_jti
    anon,       \* share_anonymous_challenge
    consumed,   \* policy_challenge: the challenges a root was issued for
    jtis,       \* share_policy_presentation_jti
    sessions,   \* share_session_handle
    reads,      \* share_holder_read_jti
    uses,       \* share_email_quota: uses of the share
    material,   \* material[n]: the version node n loaded, or Null if it could not start
    lock,       \* lock[c]: the transaction that locked the row
    conn,       \* the transaction that has the SQLite connection
    guard,      \* guard[n][c]: chain_locks of node n
    pc,         \* where a request is
    at,         \* when it arrived
    found,      \* whether the policy's row existed when it began
    draft,      \* the statuses it will store
    look,       \* cids it has still to visit, lock or guard
    answer,
    restarts,
    barred,     \* history: the delegations that were revoked when it arrived
    granted     \* history: the reads that were authorized

tables == <<rows, invites, anon, consumed, jtis, sessions, reads, uses>>
locks == <<lock, conn, guard>>
local == <<at, found, draft, look>>
vars == <<load, clock, tables, material, locks, pc, local, answer, restarts, barred, granted>>
background == <<load, clock, material, restarts, barred>>

Sqlite == load.engine = "sqlite"
ConnFree(r) == Sqlite => conn \in {Nobody, r}

Revoked(c) == rows[c] # Null /\ rows[c].status.revoked # Null

\* The delegations c rests on, itself included.
Ancestry(c) ==
    LET height == Cardinality(Descents) + 2
        up[n \in 0..height] ==
          IF n = 0 THEN {c}
          ELSE LET below == up[n - 1]
               IN  below \cup UNION {rows[d].parents : d \in {e \in below : rows[e] # Null}}
    IN  up[height]

\* sort() of a set of cids.
Sorted(S) ==
    CHOOSE s \in [1..Cardinality(S) -> S] :
        \A i, j \in DOMAIN s : i < j => Rank[s[i]] < Rank[s[j]]

Init ==
    /\ load \in Workloads
    /\ clock = 0
    /\ rows = [c \in Cids |-> Null]
    /\ invites = [j \in InviteJtis |-> Null]
    /\ anon = [r \in Challenges |-> Null]
    /\ consumed = {}
    /\ jtis = {}
    /\ sessions = [r \in Presentations |-> Null]
    /\ reads = [j \in Jtis |-> Null]
    /\ uses = 0
    /\ material = load.material
    /\ lock = [c \in Cids |-> Nobody]
    /\ conn = Nobody
    /\ guard = [n \in Nodes |-> [c \in Cids |-> Nobody]]
    /\ pc = [r \in Requests |-> IF r \in load.requests THEN "ready" ELSE "done"]
    /\ at = [r \in Requests |-> 0]
    /\ found = [r \in Requests |-> FALSE]
    /\ draft = [r \in Requests |-> [a \in Authorities |-> Null]]
    /\ look = [r \in Requests |-> <<>>]
    /\ answer = [r \in Requests |-> "none"]
    /\ restarts = 0
    /\ barred = [r \in Requests |-> {}]
    /\ granted = {}

-----------------------------------------------------------------------------
(* The end of a request: its transaction commits or rolls back, and with it go
   its locks, the connection and its guards. *)

ReleaseRows(S) ==
    /\ lock' = [c \in Cids |-> IF lock[c] \in S THEN Nobody ELSE lock[c]]
    /\ conn' = IF conn \in S THEN Nobody ELSE conn
    /\ UNCHANGED guard

ReleaseAll(S) ==
    /\ lock' = [c \in Cids |-> IF lock[c] \in S THEN Nobody ELSE lock[c]]
    /\ conn' = IF conn \in S THEN Nobody ELSE conn
    /\ guard' = [n \in Nodes |-> [c \in Cids |-> IF guard[n][c] \in S THEN Nobody ELSE guard[n][c]]]

Answer(r, result) ==
    /\ pc' = [pc EXCEPT ![r] = "done"]
    /\ answer' = [answer EXCEPT ![r] = result]
    /\ ReleaseAll({r})
    /\ UNCHANGED local

Deny(r) == Answer(r, "denied") /\ UNCHANGED <<tables, granted>>

Goto(r, label) ==
    /\ pc' = [pc EXCEPT ![r] = label]
    /\ UNCHANGED answer

\* The row with the status the transaction gave it.
RowIn(r, a) ==
    IF draft[r][a] = Null THEN rows[a]
    ELSE IF rows[a] = Null THEN AuthorityRow(a, draft[r][a])
    ELSE [rows[a] EXCEPT !.status = draft[r][a]]

WithDrafts(r) == [c \in Cids |-> IF c \in Authorities THEN RowIn(r, c) ELSE rows[c]]

-----------------------------------------------------------------------------
(* Requests about the share. *)

Scoped == Invitations \cup Challenges \cup Presentations \cup Reads

\* scope_from_request: the request is for this node.
InScope(r) == r \in Scoped => Job[r].audience = Trust.audience

\* verify_request of the data plane.
TimelyRead(r) ==
    /\ Job[r].issued <= clock /\ clock < Job[r].until
    /\ Job[r].until - Job[r].issued <= ReadTtl

\* What policy_session asks of the times of a presentation.
TimelyPresentation(r) ==
    /\ clock < Job[r].until
    /\ Job[r].issued <= clock + Skew
    /\ Job[r].issued < Job[r].until /\ Job[r].until - Job[r].issued <= ChallengeTtl

\* What is refused before the database is asked.
WellFormed(r) ==
    /\ InScope(r)
    /\ r \in Reads => TimelyRead(r)
    /\ r \in Presentations => TimelyPresentation(r)

\* A client names a challenge, a session or a delegation that it was given.  A
\* status change carries the time it was made.
Arrive(r) ==
    /\ pc[r] = "ready"
    /\ material[Job[r].node] # Null
    /\ \A q \in Job[r].after : answer[q] = "ok"
    /\ at' = [at EXCEPT ![r] = clock]
    /\ barred' = [barred EXCEPT ![r] = {c \in Cids : Revoked(c)}]
    /\ IF WellFormed(r)
       THEN Goto(r, "begin")
       ELSE /\ pc' = [pc EXCEPT ![r] = "done"]
            /\ answer' = [answer EXCEPT ![r] = "denied"]
    /\ UNCHANGED <<load, clock, material, restarts, tables, locks, found, draft, look, granted>>

\* policy_metadata: a share ends with its policy, or before it.
ShareEnd == Least({Authority["policy"].exp, Share.until})

\* policy_sender_recipient_and_expiry: the policy was admitted before, and the
\* share is not over.
KnownPolicy(r) == rows["policy"] # Null /\ at[r] < ShareEnd

\* enforcer_did_for: the presentation names the enforcer the material names.
EnforcerNamed(r) == Job[r].enforcer = Authority["enforcement"].enforcer

\* verify_sd_jwt and verify_session_admission: the credential says that the
\* holder has the address the share is for, until the share ends.
CredentialHolds(r) ==
    LET c == Job[r].credential
    IN  /\ c.subject = Job[r].holder /\ c.mail = Share.recipient
        /\ c.exp = ShareEnd
        /\ c.nb <= WholeSecond(at[r]) + Skew /\ WholeSecond(at[r]) < c.exp + Skew

\* enforce_holder_equation.
OneHolder(r) == {Job[r].binding.holder, Job[r].reader} = {Job[r].holder}

\* verify_holder_binding: the holder ties the credential to the challenge.
BindingHolds(r) ==
    LET b == Job[r].binding
    IN  /\ b.challenge = Job[r].challenge
        /\ b.issued <= WholeSecond(at[r]) + Skew /\ WholeSecond(at[r]) < b.exp + Skew
        /\ b.issued < b.exp /\ b.exp <= ShareEnd
        /\ OneHolder(r)

\* The first queries of authorize_read: the session is the holder's, for the
\* same scope, and not over.
OwnSession(r) ==
    LET session == sessions[Job[r].session]
    IN  /\ session # Null /\ at[r] < session.exp
        /\ session.holder = Job[r].holder /\ session.source = Job[r].source

\* policy_session before the bridge is entered: verify_session_admission.
Presentable(r) == KnownPolicy(r) /\ EnforcerNamed(r) /\ CredentialHolds(r) /\ BindingHolds(r)

\* A session looks at the policy and verifies what it was given, a read looks
\* for its session; then admit_verified_authority looks for the policy's row.
Begin(r) ==
    /\ r \in Scoped
    /\ pc[r] = "begin"
    /\ ConnFree(r)
    /\ IF /\ r \in Presentations => Presentable(r)
          /\ r \in Reads => OwnSession(r)
       THEN /\ Goto(r, "policy")
            /\ conn' = IF Sqlite THEN r ELSE conn
            /\ found' = [found EXCEPT ![r] = rows["policy"] # Null]
            /\ UNCHANGED <<tables, granted, lock, guard, at, draft, look>>
       ELSE Deny(r)
    /\ UNCHANGED background

\* The locks that another transaction holds are waited for, and so is a row
\* that another transaction is inserting.
Lockable(r, c) == lock[c] \in {Nobody, r}

\* admit_verified_authority_in_transaction: apply_status_in_transaction if the
\* row was found, else an insertion, which fails if the row exists by now.  The
\* rows of the two authorities are only ever inserted together.
Admissible(r, a, obs) ==
    IF found[r]
    THEN /\ Observable(obs, at[r])
         /\ rows[a].status = obs \/ ValidTransition(rows[a].status, obs)
    ELSE rows[a] = Null /\ FreshStatus(obs, at[r])

\* validate_attestation: the enforcer's runtime is attested, within the
\* enforcement.
Attested(r) ==
    LET until == Material[material[Job[r].node]].attested
    IN  at[r] < until /\ until <= Authority["enforcement"].exp

\* authorized_statement: the policy and the enforcement both allow what the share
\* is for.
Permitted == \A a \in Authorities : Share.action \in Authority[a].caps

\* validate_share_policy_state: the request is about what the share is about.
AboutShare(r) == Job[r].source = Share.source

\* The end of validate_scope_in_transaction: the enforcement is of this policy.
Paired ==
    LET policy == Authority["policy"]
        enforcement == Authority["enforcement"]
    IN  enforcement.issuer = policy.issuer /\ enforcement.caps = policy.caps

\* validate_scope_in_transaction for one of the authorities: admit it, then
\* validate_for_invocation_in_transaction.
Admit(r, a, next) ==
    /\ pc[r] = a
    /\ Lockable(r, a)
    /\ LET obs == Material[material[Job[r].node]][a]
       IN  IF /\ Admissible(r, a, obs) /\ Live(AuthorityRow(a, obs), at[r])
              /\ a = "policy" => AboutShare(r) /\ ValidPair
              /\ a = "enforcement" => Attested(r) /\ Paired /\ Permitted
           THEN /\ Goto(r, next)
                /\ draft' = [draft EXCEPT ![r][a] = obs]
                /\ lock' = IF Sqlite THEN lock ELSE [lock EXCEPT ![a] = r]
                /\ UNCHANGED <<tables, granted, conn, guard, at, found, look>>
           ELSE Deny(r)
    /\ UNCHANGED background

AdmitPolicy(r) == Admit(r, "policy", "enforcement")
AdmitEnforcement(r) == Admit(r, "enforcement", Job[r].kind)

\* authorize_invitation and policy_challenge: validate_scope commits what it
\* admitted ...
CommitScope(r) ==
    /\ pc[r] \in {"invite", "challenge"}
    /\ rows' = WithDrafts(r)
    /\ Goto(r, IF r \in Invitations THEN "reserve" ELSE "create")
    /\ ReleaseAll({r})
    /\ UNCHANGED <<background, local, granted, invites, anon, consumed, jtis, sessions, reads, uses>>

\* ... authorize_invitation then checks the sender and the recipient, issues
\* the receipt ...
InviteExpiry(now) == Least({now + InviteTtl, ShareEnd})

Receipt(r) == [issued |-> at[r], exp |-> InviteExpiry(at[r])]

\* validate_sender_for_policy.
SenderNamed(r) == Job[r].sender = Share.sender

Invitable(r) ==
    /\ SenderNamed(r) /\ Job[r].recipient = Share.recipient
    /\ KnownPolicy(r) /\ at[r] < InviteExpiry(at[r])

\* ... and reserve_invitation_authorization stores it under the jti the sender
\* chose.  What was stored under it before must be the same receipt.
SameReceipt(known, receipt, now) == known = receipt /\ now < known.exp

\* The ORM may report an insertion that found its jti taken as an error.
ReserveInvitation(r) ==
    /\ pc[r] = "reserve"
    /\ ConnFree(r)
    /\ LET known == invites[Job[r].jti]
       IN  \/ /\ Invitable(r)
              /\ known = Null \/ SameReceipt(known, Receipt(r), at[r])
              /\ invites' = [invites EXCEPT ![Job[r].jti] = IF known = Null THEN Receipt(r) ELSE known]
              /\ Answer(r, "ok")
              /\ UNCHANGED <<granted, rows, anon, consumed, jtis, sessions, reads, uses>>
           \/ /\ ~Invitable(r) \/ known # Null
              /\ Deny(r)
    /\ UNCHANGED background

\* increment_quota.
WithinQuota == uses + 1 <= ShareQuota

\* What policy_challenge gives out.
ChallengeOf(r) == [exp |-> at[r] + ChallengeTtl, used |-> FALSE]

\* ... and create_anonymous_challenge stores the challenge if the share is
\* within its quota.
CreateChallenge(r) ==
    /\ pc[r] = "create"
    /\ ConnFree(r)
    /\ IF WithinQuota
       THEN /\ anon' = [anon EXCEPT ![r] = ChallengeOf(r)]
            /\ uses' = uses + 1
            /\ Answer(r, "ok")
            /\ UNCHANGED <<granted, rows, invites, consumed, jtis, sessions, reads>>
       ELSE Deny(r)
    /\ UNCHANGED background

SessionTtlOf(r) == Authority["enforcement"].ttl

RootOf(r) == Root(at[r], SessionTtlOf(r), {Job[r].binding.exp, Job[r].credential.exp, ShareEnd})

\* establish_session after the scope: consume the challenge, reserve the two
\* replay keys, issue the root, store the session.  The authority sees the
\* whole second of the request.
Consumable(r) ==
    LET challenge == anon[Job[r].challenge]
    IN  challenge # Null /\ ~challenge.used /\ at[r] < challenge.exp

NotReplayed(r) ==
    /\ {Job[r].jti, Job[r].bind} \cap jtis = {}
    /\ Job[r].challenge \notin consumed

\* evaluate_exact_email_policy.
Evaluated(r, now) ==
    LET c == Job[r].credential
    IN  /\ c.mail = Share.recipient /\ Job[r].source = Share.source
        /\ now < ShareEnd
        /\ now < c.exp /\ ShareEnd <= c.exp

\* issue_root_in_transaction, of the bridge and of the authority.
Issuable(r) ==
    LET now == WholeSecond(at[r])
    IN  /\ Evaluated(r, now)
        /\ ValidPair /\ ValidChallenge(ChallengeState(now), now)
        /\ \A a \in Authorities : Live(RowIn(r, a), now)
        /\ ValidRoot(RootOf(r), RowIn(r, "policy").status, now, SessionTtlOf(r))

\* The session that is handed out for the root.
SessionOf(r) == [exp |-> RootOf(r).exp, holder |-> Job[r].holder, source |-> Job[r].source]

\* commit_session_body.
Storable(r) == at[r] < SessionOf(r).exp /\ SessionOf(r).exp <= at[r] + SessionTtl

NothingConsumed(r) == consumed

\* insert_challenge, with the root.
ConsumedWith(r) == consumed \cup {Job[r].challenge}

EstablishSession(r) ==
    /\ pc[r] = "session"
    /\ IF Consumable(r) /\ NotReplayed(r) /\ Issuable(r) /\ Storable(r)
       THEN /\ anon' = [anon EXCEPT ![Job[r].challenge].used = TRUE]
            /\ jtis' = jtis \cup {Job[r].jti, Job[r].bind}
            /\ consumed' = ConsumedWith(r)
            /\ rows' = [WithDrafts(r) EXCEPT ![r] = RootOf(r)]
            /\ sessions' = [sessions EXCEPT ![r] = SessionOf(r)]
            /\ Answer(r, "ok")
            /\ UNCHANGED <<invites, reads, uses, granted>>
       ELSE Deny(r)
    /\ UNCHANGED background

\* authorize_read after the scope: the chain of the session's root, of which
\* only the root is not yet locked ...
LockRoot(r) ==
    /\ pc[r] = "read"
    /\ Lockable(r, Job[r].session)
    /\ IF rows[Job[r].session] # Null /\ Live(rows[Job[r].session], at[r])
       THEN /\ Goto(r, "consume")
            /\ lock' = IF Sqlite THEN lock ELSE [lock EXCEPT ![Job[r].session] = r]
            /\ UNCHANGED <<tables, granted, conn, guard, local>>
       ELSE Deny(r)
    /\ UNCHANGED background

\* ... and consume_holder_read_jti_body.
ConsumeRead(r) ==
    /\ pc[r] = "consume"
    /\ LET session == sessions[Job[r].session]
       IN  IF session # Null /\ at[r] < session.exp /\ reads[Job[r].jti] = Null
           THEN /\ rows' = WithDrafts(r)
                /\ reads' = [reads EXCEPT ![Job[r].jti] = at[r] + ReadTtl]
                /\ granted' = granted \cup {r}
                /\ Goto(r, "serve")
                /\ ReleaseAll({r})
                /\ UNCHANGED local
                /\ UNCHANGED <<invites, anon, consumed, jtis, sessions, uses>>
           ELSE Deny(r)
    /\ UNCHANGED background

\* What get_exact and execute_named may bring: a value, or rows of one column;
\* text of a document's size or not.
Contents == [kind : {"kv", "sql"}, found : 0..2, text : BOOLEAN]

\* read_markdown of MarkdownKvAdapter ...
KvMarkdown(content) == content.found # 0 /\ content.text

\* ... and of MarkdownSqlAdapter.
SqlMarkdown(content) == content.found = 1 /\ content.text

\* HolderBoundDataPlane::read after authorize_read.
Fetched(content) == IF content.kind = "kv" THEN KvMarkdown(content) ELSE SqlMarkdown(content)

\* The document is fetched and the response signed, if there is such a document
\* and the invocation has not expired meanwhile.
Serve(r) ==
    /\ pc[r] = "serve"
    /\ \E content \in Contents :
          Answer(r, IF Fetched(content) /\ clock < Job[r].until THEN "ok" ELSE "denied")
    /\ UNCHANGED <<background, tables, granted>>

-----------------------------------------------------------------------------
(* Requests to the store of the authority. *)

\* acquire_chain_guards, in the order of the cids.
TakeGuard(r) ==
    /\ pc[r] = "guards"
    /\ look[r] # <<>>
    /\ guard[Job[r].node][Head(look[r])] = Nobody
    /\ guard' = [guard EXCEPT ![Job[r].node][Head(look[r])] = r]
    /\ look' = [look EXCEPT ![r] = Tail(@)]
    /\ UNCHANGED <<background, tables, lock, conn, pc, at, found, draft, answer, granted>>

StatusOf(r) == Status(Job[r].seq, at[r], at[r] + MaxAge, IF Job[r].revoke THEN at[r] ELSE Null)

\* set_status.
BeginStatus(r) ==
    /\ r \in StatusChanges
    /\ pc[r] = "begin"
    /\ Goto(r, "guards")
    /\ look' = [look EXCEPT ![r] = <<Job[r].cid>>]
    /\ UNCHANGED <<background, tables, locks, at, found, draft, granted>>

SetStatus(r) ==
    /\ r \in StatusChanges
    /\ pc[r] = "guards" /\ look[r] = <<>>
    /\ ConnFree(r) /\ Lockable(r, Job[r].cid)
    /\ LET row == rows[Job[r].cid]
       IN  IF row # Null /\ ValidTransition(row.status, StatusOf(r))
           THEN /\ rows' = [rows EXCEPT ![Job[r].cid].status = StatusOf(r)]
                /\ Answer(r, "ok")
                /\ UNCHANGED <<invites, anon, consumed, jtis, sessions, reads, uses, granted>>
           ELSE Deny(r)
    /\ UNCHANGED background

\* persist_descendant: ancestry_cids, before any guard is taken.
BeginDescend(r) ==
    /\ r \in Descents
    /\ pc[r] = "begin"
    /\ ConnFree(r)
    /\ Goto(r, "guards")
    /\ look' = [look EXCEPT ![r] = Sorted(Ancestry(Job[r].parent))]
    /\ UNCHANGED <<background, tables, locks, at, found, draft, granted>>

ChildOf(r) ==
    [parents |-> {Job[r].parent}, nb |-> Job[r].nb, exp |-> Job[r].exp, caps |-> Job[r].caps,
     depth |-> Job[r].depth, status |-> NewStatus(at[r])]

\* Under the guards: validate_descendant and validate_for_invocation of the
\* parent, which the locked rows are to confirm.
CheckDescend(r) ==
    /\ r \in Descents
    /\ pc[r] = "guards" /\ look[r] = <<>>
    /\ ConnFree(r)
    /\ LET parent == Job[r].parent
       IN  IF /\ rows[parent] # Null /\ parent \notin Authorities
              /\ ValidDescendant(ChildOf(r), rows[parent])
              /\ \A c \in Ancestry(parent) : Live(rows[c], at[r])
           THEN /\ Goto(r, "locks")
                /\ conn' = IF Sqlite THEN r ELSE conn
                /\ look' = [look EXCEPT ![r] = Sorted({c \in Cids : guard[Job[r].node][c] = r})]
                /\ UNCHANGED <<tables, granted, lock, guard, at, found, draft>>
           ELSE Deny(r)
    /\ UNCHANGED background

AncestorSeen(r, c) == TRUE

\* ensure_live_model of a row that is locked.
AncestorHolds(r, c) == Live(rows[c], at[r])

\* persist_descendant_atomic: lock and check the ancestors one by one ...
LockAncestor(r) ==
    /\ pc[r] = "locks"
    /\ look[r] # <<>>
    /\ Lockable(r, Head(look[r]))
    /\ IF AncestorHolds(r, Head(look[r]))
       THEN /\ lock' = IF Sqlite THEN lock ELSE [lock EXCEPT ![Head(look[r])] = r]
            /\ look' = [look EXCEPT ![r] = Tail(@)]
            /\ UNCHANGED <<tables, granted, conn, guard, pc, at, found, draft, answer>>
       ELSE Deny(r)
    /\ UNCHANGED background

\* validate_locked_ancestry: the chain is what was locked.
LockedAll(r) == Ancestry(Job[r].parent) = {c \in Cids : guard[Job[r].node][c] = r}

\* ... and store the descendant.
StoreDescendant(r) ==
    /\ pc[r] = "locks" /\ look[r] = <<>>
    /\ IF LockedAll(r)
       THEN /\ rows' = [rows EXCEPT ![r] = ChildOf(r)]
            /\ Answer(r, "ok")
            /\ UNCHANGED <<invites, anon, consumed, jtis, sessions, reads, uses, granted>>
       ELSE Deny(r)
    /\ UNCHANGED background

\* validate_for_invocation: the rows of the chain, one query after the other.
BeginInvoke(r) ==
    /\ r \in Invocations
    /\ pc[r] = "begin"
    /\ Goto(r, "walk")
    /\ look' = [look EXCEPT ![r] = <<Job[r].cid>>]
    /\ UNCHANGED <<background, tables, locks, at, found, draft, granted>>

LinkHolds(r, c) == rows[c] # Null /\ Live(rows[c], at[r])

Walk(r) ==
    /\ pc[r] = "walk"
    /\ look[r] # <<>>
    /\ ConnFree(r)
    /\ LET c == Head(look[r])
       IN  IF LinkHolds(r, c)
           THEN /\ look' = [look EXCEPT ![r] = Sorted(rows[c].parents) \o Tail(@)]
                /\ UNCHANGED <<tables, granted, locks, pc, at, found, draft, answer>>
           ELSE Deny(r)
    /\ UNCHANGED background

Invoked(r) ==
    /\ pc[r] = "walk" /\ look[r] = <<>>
    /\ Answer(r, "ok")
    /\ UNCHANGED <<background, tables, granted>>

-----------------------------------------------------------------------------
(* The database and the nodes. *)

\* The transaction that holds the row r waits for, if any.
WaitsOn(r) ==
    LET wanted ==
          CASE pc[r] \in Authorities -> {pc[r]}
            [] pc[r] = "read" -> {Job[r].session}
            [] pc[r] = "locks" /\ look[r] # <<>> -> {Head(look[r])}
            [] OTHER -> {}
    IN  {lock[c] : c \in wanted} \ {Nobody, r}

\* Postgres ends one of the transactions that wait for each other.
BreakDeadlock(r) ==
    /\ \E q \in WaitsOn(r) : r \in WaitsOn(q) \cup UNION {WaitsOn(p) : p \in WaitsOn(q)}
    /\ Deny(r)
    /\ UNCHANGED background

Kept(t) == IF t = Null \/ TextBefore(t, clock) THEN Null ELSE t

\* cleanup, every minute on every node.
Cleanup ==
    /\ ConnFree(Nobody)
    /\ invites' = [j \in InviteJtis |->
                  IF invites[j] = Null \/ MillisBefore(invites[j].exp, clock) THEN Null ELSE invites[j]]
    /\ anon' = [r \in DOMAIN anon |->
                  IF anon[r] = Null \/ TextBefore(anon[r].exp, clock) THEN Null ELSE anon[r]]
    /\ reads' = [j \in Jtis |-> Kept(reads[j])]
    /\ sessions' = [r \in DOMAIN sessions |->
                  IF sessions[r] = Null \/ TextBefore(sessions[r].exp, clock) THEN Null ELSE sessions[r]]
    /\ UNCHANGED <<background, rows, consumed, jtis, uses, locks, pc, local, answer, granted>>

\* load_statuses: an active and fresh status of each authority.
StatusesLoad(m) ==
    \A a \in Authorities :
        /\ m[a].revoked = Null
        /\ m[a].checked < m[a].fresh /\ m[a].fresh - m[a].checked <= MaxAge

\* verify_wrapper, of the material and of the policy: whoever is named as the
\* signer signed it.  Both are the sender's.
SignedBySender(m) == {m.signed, m.policySigned} = {m.sender}

\* The mapping of the share to the artifacts the material carries.
Mapped(m) == \A a \in Authorities : m.mapping[a] = a

\* validate_enrollment.
EnrollmentHolds(e) == e.enabled /\ e.version # 0 /\ e.kid = e.audience

\* validate_attestation, against the enrollment and the enforcement.
AttestationHolds(m) ==
    LET t == m.attestation
        e == m.enrollment
    IN  /\ t.origin = e.origin /\ t.audience = e.audience /\ t.version = e.version /\ t.key = e.key
        /\ t.enforcer = Authority["enforcement"].enforcer
        /\ Authority["enforcement"].nb < m.attested /\ m.attested <= Authority["enforcement"].exp

\* load_record.
Loadable(m) ==
    /\ SignedBySender(m) /\ Mapped(m) /\ StatusesLoad(m)
    /\ EnrollmentHolds(m.enrollment) /\ AttestationHolds(m)

\* validate_node_trust: the enrollment is this deployment's.
NodeTrusted(m) ==
    /\ m.enrollment.origin = Trust.origin /\ m.enrollment.audience = Trust.audience
    /\ m.enrollment.key = Trust.key

\* record_is_current, asked when the node starts.
Current(m) ==
    /\ \A a \in Authorities : clock < m[a].fresh
    /\ clock < m.attested

\* compose.
Started(v) ==
    IF Loadable(Material[v]) /\ NodeTrusted(Material[v]) /\ Current(Material[v]) THEN v ELSE Null

\* A node stops; its open transactions roll back and its clients get no
\* answer.  It loads the material that lies on its disk when it starts again, and
\* does not start with other material.
Restart(n) ==
    LET open == {r \in load.requests : Job[r].node = n /\ pc[r] \notin {"ready", "done"}}
    IN  /\ restarts < load.restarts
        /\ restarts' = restarts + 1
        /\ pc' = [r \in Requests |-> IF r \in open THEN "done" ELSE pc[r]]
        /\ answer' = [r \in Requests |-> IF r \in open THEN "lost" ELSE answer[r]]
        /\ ReleaseAll(open)
        /\ \E v \in DOMAIN Material : material' = [material EXCEPT ![n] = Started(v)]
        /\ UNCHANGED <<load, clock, tables, local, barred, granted>>

Tick ==
    /\ clock < load.time
    /\ clock' = clock + 1
    /\ UNCHANGED <<load, tables, material, locks, pc, local, answer, restarts, barred, granted>>

Step(r) ==
    \/ Begin(r) \/ AdmitPolicy(r) \/ AdmitEnforcement(r)
    \/ CommitScope(r) \/ ReserveInvitation(r) \/ CreateChallenge(r) \/ EstablishSession(r)
    \/ LockRoot(r) \/ ConsumeRead(r) \/ Serve(r)
    \/ TakeGuard(r) \/ BeginStatus(r) \/ SetStatus(r)
    \/ BeginDescend(r) \/ CheckDescend(r) \/ LockAncestor(r) \/ StoreDescendant(r)
    \/ BeginInvoke(r) \/ Walk(r) \/ Invoked(r)
    \/ BreakDeadlock(r)

Next ==
    \/ \E r \in load.requests : Arrive(r) \/ Step(r)
    \/ Cleanup
    \/ \E n \in Nodes : Restart(n)
    \/ Tick

Spec == Init /\ [][Next]_vars

\* The runtime is not idle while a request can go on, and Postgres looks for
\* deadlocks.  Clients need not send their requests.
FairSpec == Spec /\ WF_vars(\E r \in load.requests : Step(r))

-----------------------------------------------------------------------------
(* Properties. *)

Times == 0..(load.time + MaxAge)
StatusType ==
    [seq : Nat, checked : Times, fresh : Times, revoked : Times \cup {Null}]

TypeOK ==
    /\ load \in Workloads /\ clock \in 0..load.time /\ material \in [Nodes -> DOMAIN Material \cup {Null}]
    /\ \A c \in Cids : rows[c] # Null =>
          /\ rows[c].parents \subseteq Cids /\ rows[c].caps \subseteq Capabilities
          /\ rows[c].nb \in Nat /\ rows[c].exp \in Nat /\ rows[c].depth \in Nat
          /\ rows[c].status \in StatusType
    /\ \A j \in InviteJtis : invites[j] # Null => invites[j] \in [issued : Nat, exp : Nat]
    /\ consumed \subseteq Challenges
    /\ \A r \in Challenges : anon[r] # Null => anon[r] \in [exp : Nat, used : BOOLEAN]
    /\ \A r \in Presentations : sessions[r] # Null => sessions[r].exp \in Nat
    /\ reads \in [Jtis -> Nat \cup {Null}]
    /\ lock \in [Cids -> Requests \cup {Nobody}] /\ conn \in Requests \cup {Nobody}
    /\ guard \in [Nodes -> [Cids -> Requests \cup {Nobody}]]
    /\ uses \in 0..ShareQuota
    /\ at \in [Requests -> 0..load.time] /\ found \in [Requests -> BOOLEAN]
    /\ answer \in [Requests -> {"none", "ok", "denied", "lost"}]

\* A session is stored with all that backs it, or not at all: its root, of
\* which it has the expiry, and the challenge the root was issued for
\* (establish_session).
SessionsBacked ==
    \A r \in Presentations :
        /\ sessions[r] # Null => rows[r] # Null /\ sessions[r].exp = rows[r].exp
        /\ rows[r] # Null =>
              /\ Job[r].challenge \in consumed
              /\ {Job[r].jti, Job[r].bind} \subseteq jtis
              /\ \A a \in Authorities : rows[a] # Null

\* A challenge, a presentation and a holder binding each establish at most one
\* session, however often and on however many nodes they are presented
\* (consume_anonymous_challenge_in_transaction and the presentation table).
AdmittedOnce ==
    \A r, q \in Presentations :
        r # q /\ rows[r] # Null /\ rows[q] # Null =>
            /\ Job[r].challenge # Job[q].challenge
            /\ {Job[r].jti, Job[r].bind} \cap {Job[q].jti, Job[q].bind} = {}

\* Two receipts are never good at the same time under one jti: when one is
\* given out, any other has expired (reserve_invitation_authorization against
\* cleanup).
OneReceiptPerJti ==
    [][\A q \in Invitations : answer[q] # "ok" /\ answer'[q] = "ok" =>
          \A r \in Invitations \ {q} :
              Job[r].jti = Job[q].jti /\ at[r] # at[q] /\ answer[r] = "ok"
              => Second(clock) >= Second(InviteExpiry(at[r]))]_vars

\* A document is read only by the holder of a credential for the recipient of
\* the share, and only the source the share is about, whichever sessions and
\* credentials others hold (verify_session_admission, authorize_read).
HolderBound ==
    \A g \in granted :
        LET read == Job[g]
            presented == Job[read.session]
        IN  /\ read.holder = presented.credential.subject
            /\ presented.credential.mail = Share.recipient
            /\ read.holder = presented.reader /\ presented.reader = presented.binding.holder
            /\ read.source = Share.source

\* Once a revocation is stored, nothing that rests on the revoked delegation is
\* stored or read any more, not even by a request that looked at the clock
\* before the revocation was made (ensure_live_model under row locks).
RevocationFinal ==
    \A c \in Requests :
        \/ rows[c] = Null /\ rows'[c] # Null
        \/ \E g \in granted' \ granted : Job[g].session = c
        => \A d \in Ancestry(c)' : ~Revoked(d)

\* Whatever nodes and callers report, in whatever order, the stored status of
\* a delegation only moves forward and a revocation is never undone
\* (validate_status_transition).
StatusForward ==
    \A c \in Cids : rows[c] # Null /\ rows'[c] # Null /\ rows'[c].status # rows[c].status =>
        /\ rows[c].status.seq < rows'[c].status.seq
        /\ Revoked(c) => rows'[c].status.revoked = rows[c].status.revoked

\* A document is served twice under one jti only from the second on in which
\* the record of the first use expires: cleanup compares times as text and may
\* remove the record up to half a second early (verify_request against
\* consume_holder_read_jti_body and cleanup).
ServedOncePerJti ==
    [][\A q \in Reads : answer[q] # "ok" /\ answer'[q] = "ok" =>
          \A r \in Reads \ {q} :
              Job[r].jti = Job[q].jti /\ answer[r] = "ok"
              => Second(clock) >= Second(Least({at[r], at[q]}) + ReadTtl)]_vars

\* An invocation is not accepted if a delegation of its chain was revoked
\* before it arrived, although the chain is read row by row
\* (validate_for_invocation).
InvocationSound ==
    \A r \in Invocations :
        answer[r] = "ok" => Ancestry(Job[r].cid) \cap barred[r] = {}

\* A stored root or descendant grants no more, no deeper and no longer than
\* each delegation it rests on (validate_root, validate_descendant).
Attenuated ==
    \A r \in Requests : rows[r] # Null =>
        \A d \in Ancestry(r) \ {r} :
            /\ rows[r].caps \subseteq rows[d].caps
            /\ rows[d].nb <= rows[r].nb /\ rows[r].exp <= rows[d].exp
            /\ d \notin Authorities => rows[r].depth < rows[d].depth

\* A session is not cut short by the age of its own root's status: until the
\* session expires the root is live, unless it was revoked (NewStatus against
\* SESSION_TTL).
UsableUntilExpiry ==
    \A r \in Presentations :
        sessions[r] # Null /\ clock < sessions[r].exp /\ ~Revoked(r) => Live(rows[r], clock)

\* The tables of the authority, written by transactions of several steps on
\* several nodes, change as the reference store does, one method or transaction
\* at a time: "The production SeaORM store must preserve the same
\* single-transaction method boundary."
Kernel == INSTANCE AuthorityKernel
    WITH Sessions <- Requests, ChallengeIds <- Challenges, store <- rows, spent <- consumed

KernelRefined == Kernel!KernelSpec

\* A request that arrived is answered, whatever locks, guards and connections
\* the others hold.
EveryRequestAnswered ==
    <>[](\A r \in Requests : pc[r] \in {"ready", "done"})

\* Sessions are what they claim to be: backed, admitted once, read by their
\* holder, usable until they expire; and invocations rest on live chains.
SessionsSound ==
    /\ TypeOK /\ SessionsBacked /\ AdmittedOnce /\ HolderBound
    /\ Attenuated /\ UsableUntilExpiry /\ InvocationSound

\* A status only moves forward, and nothing undoes a
\* revocation or gets around it.
AuthorityForward == [][StatusForward /\ RevocationFinal]_vars

\* Every request is answered, and none twice under one jti.
AnsweredOnce == ServedOncePerJti /\ OneReceiptPerJti /\ EveryRequestAnswered

=============================================================================
