-------------------------- MODULE EncryptionNetwork -------------------------
(***************************************************************************)
(* The encryption networks of a node                                       *)
(* (tinycloud-core/src/encryption_network, routes/encryption.rs).          *)
(*                                                                         *)
(* A network is a key pair whose private half stays sealed in the node's   *)
(* database.  Requests create, revoke and look up networks and have a      *)
(* symmetric key that was wrapped to a network's public key wrapped again  *)
(* to a receiver.  No request runs in a transaction: each of its database  *)
(* operations is a step of its own, any of them may fail, and the node may *)
(* crash between two of them.  A native request comes through a route,     *)
(* whose invocation is authorised first; an envelope request calls the     *)
(* service with an invocation that it verifies itself.                     *)
(*                                                                         *)
(* What a request binds (its type, audience, hashes and so on) is          *)
(* abstracted to the set of bindings that fail, its `flaws`.               *)
(***************************************************************************)
EXTENDS Integers, Sequences

CONSTANTS
    Networks,   \* network ids
    Name,       \* Name[n]: the last segment of the id
    Slots,      \* bound: the requests of one instance are numbered within it
    Workloads,  \* what happens in one instance: the requests and budgets of faults
    Ttl,        \* DEFAULT_INVOCATION_TTL_SECONDS
    LastTime,   \* bound: the clock stops here
    None        \* no value

ASSUME WorkloadsAssumption ==
    \A w \in Workloads :
        /\ DOMAIN w.jobs \subseteq Slots
        /\ \A r \in DOMAIN w.jobs : w.jobs[r].net \in Networks

ASSUME NoneAssumption ==
    None \notin {"allowed", "revoked"} /\ None \notin Slots /\ None \notin Networks

VARIABLES
    load,       \* the workload
    budget,     \* how often each fault may still happen
    clock,      \* now, in seconds
    network,    \* encryption_network: state and key of each row
    member,     \* encryption_network_member: the networks that have their row
    ceremony,   \* encryption_ceremony: ceremony[r], the row a creation inserts
    nonces,     \* encryption_nonce: pairs of requester and nonce
    audit,      \* encryption_audit: the outcome kept for each request hash
    req,        \* req[r]: the state of a request's handler
    published,  \* history: the keys the node has given out for each network
    late        \* history: the requests sent when their network was revoked already

db == <<network, member, ceremony, nonces, audit>>
vars == <<load, budget, clock, network, member, ceremony, nonces, audit, req, published, late>>

-----------------------------------------------------------------------------
\* What a request of this instance asks for.
Requests == DOMAIN load.jobs
Job(r) == load.jobs[r]

NoRow == [state |-> "absent", key |-> None]
NoCeremony == [state |-> "absent", transcript |-> None]
Idle == [pc |-> "idle", key |-> None, why |-> None, at |-> None]

\* The request hash covers the invocation and the body hash it carries.
RequestHash(r) == Job(r).inv
Hashes == {RequestHash(r) : r \in Requests}

\* The checks of each entry point before its first database access, in order.
NativeDecryptChecks == <<"type", "audience", "target-node", "network", "capability">>
EnvelopeDecryptChecks ==
    <<"type", "audience", "target-node", "network", "signature", "capability", "owner">>
NativeAdminChecks ==
    <<"type", "audience", "target-node", "network", "action", "capability", "body-hash">>
EnvelopeAdminChecks ==
    <<"type", "audience", "target-node", "network", "action", "capability", "owner", "body-hash">>

\* The checks of a decryption once the network is known to be active.
VersionChecks == <<"alg">>
HashChecks == <<"base64", "receiver-hash", "key-hash", "body-hash">>

\* The refusals that are written to the audit table before they are answered.
Audited == {"audience", "target-node", "revoked", "state", "receiver-hash", "key-hash",
            "body-hash", "replay"}

FirstFlaw(r, checks) ==
    LET failing == SelectSeq(checks, LAMBDA c : c \in Job(r).flaws)
    IN  IF failing = <<>> THEN None ELSE Head(failing)

\* validate_invocation_time.
TimeFlaw(r) ==
    IF clock < Job(r).nbf THEN "not-yet-valid"
    ELSE IF Job(r).exp <= clock \/ Job(r).exp - clock > Ttl THEN "expired"
    ELSE None

\* One check, and the next if it finds nothing.
Then(flaw, next) == IF flaw # None THEN flaw ELSE next

-----------------------------------------------------------------------------
At(r, op, pc) == req[r].pc = pc /\ Job(r).op = op
Goto(r, pc) == req' = [req EXCEPT ![r].pc = pc]
Serve(r) == Goto(r, "served")
Refuse(r, why) == req' = [req EXCEPT ![r].pc = "refused", ![r].why = why]

\* A refused decryption is audited first when its refusal is of that kind.
Deny(r, why) ==
    IF why \in Audited THEN req' = [req EXCEPT ![r].pc = "deny", ![r].why = why]
    ELSE Refuse(r, why)

\* The node hands a network's public key to a client.
Publish(n, k) == published' = [published EXCEPT ![n] = @ \union {k}]

Fixed == UNCHANGED <<load, budget, clock, late>>

Init ==
    /\ load \in Workloads
    /\ budget = load.faults
    /\ clock = 0
    /\ network = [n \in Networks |-> NoRow]
    /\ member = {}
    /\ ceremony = [r \in Slots |-> NoCeremony]
    /\ nonces = {}
    /\ audit = [h \in Hashes |-> None]
    /\ req = [r \in Slots |-> Idle]
    /\ published = [n \in Networks |-> {}]
    /\ late = {}

\* Where the handler of a request begins.
Entry(r) ==
    CASE Job(r).op \in {"get", "well-known"} -> "read"
      [] Job(r).op = "find-by-name" -> "find"
      [] Job(r).api = "native" -> "auth"
      [] OTHER -> "check"

\* A client sends a request.  The key to decrypt was wrapped to a public key
\* the node gave out, unless the request's flaw is that it was not.
Send(r) ==
    /\ req[r].pc = "idle"
    /\ \E k \in IF Job(r).op = "decrypt" /\ "stray" \notin Job(r).flaws
                THEN published[Job(r).net] ELSE {None} :
           req' = [req EXCEPT ![r] = [pc |-> Entry(r), key |-> k, why |-> None, at |-> None]]
    /\ late' = IF network[Job(r).net].state = "revoked" THEN late \union {r} ELSE late
    /\ UNCHANGED <<load, budget, clock, db, published>>

\* verify_auth: the audience, then TinyCloud::invoke, which validates the time
\* and the chain and accepts an invocation it has recorded before.
Authorise(r) ==
    /\ req[r].pc = "auth"
    /\ LET why == IF "audience" \in Job(r).flaws THEN "audience"
                  ELSE IF ~Job(r).authorised \/ clock < Job(r).nbf \/ Job(r).exp <= clock
                       THEN "unauthorized" ELSE None
       IN  IF why # None THEN Refuse(r, why) ELSE Goto(r, "check")
    /\ UNCHANGED <<db, published>>
    /\ Fixed

NonceOf(r) == <<Job(r).who, Job(r).nonce>>
NonceFresh(r) == TRUE

\* consume_nonce: the primary key admits a pair once.
NonceUnused(r) == NonceOf(r) \notin nonces

ConsumeNonce(r) ==
    /\ NonceUnused(r)
    /\ nonces' = nonces \union {NonceOf(r)}

-----------------------------------------------------------------------------
(* Creation and revocation.                                                *)

\* What verify_network_admin_authorized and verify_network_admin_invocation
\* find wrong; only the second looks at the time and the signature itself.
AdminFlaw(r) ==
    IF Job(r).api = "native" THEN FirstFlaw(r, NativeAdminChecks)
    ELSE Then(FirstFlaw(r, EnvelopeAdminChecks), Then(TimeFlaw(r), FirstFlaw(r, <<"signature">>)))

AdminCheck(r) ==
    /\ req[r].pc = "check"
    /\ Job(r).op \in {"create", "revoke"}
    /\ \/ /\ AdminFlaw(r) # None
          /\ Refuse(r, AdminFlaw(r))
          /\ UNCHANGED nonces
       \/ /\ AdminFlaw(r) = None
          /\ ~NonceUnused(r)
          /\ Refuse(r, "replay")
          /\ UNCHANGED nonces
       \/ /\ AdminFlaw(r) = None
          /\ ConsumeNonce(r)
          /\ Goto(r, "find")
    /\ UNCHANGED <<network, member, ceremony, audit, published>>
    /\ Fixed

\* create_one_of_one_network rejects a duplicate up front.
CreateFind(r) ==
    /\ At(r, "create", "find")
    /\ IF network[Job(r).net].state # "absent" THEN Refuse(r, "already-exists")
       ELSE Goto(r, "ceremony")
    /\ UNCHANGED <<db, published>>
    /\ Fixed

\* The ceremony's id holds the time to the nanosecond: each creation has its own.
CreateCeremony(r) ==
    /\ At(r, "create", "ceremony")
    /\ ceremony' = [ceremony EXCEPT ![r].state = "started"]
    /\ Goto(r, "network")
    /\ UNCHANGED <<network, member, nonces, audit, published>>
    /\ Fixed

InsertReviving(n, k) ==
    network' = [network EXCEPT ![n].state = "active", ![n].key = IF @ = None THEN k ELSE @]

\* The insert of the row, with the key the backend generated for request k.
InsertNetwork(n, k) ==
    IF network[n].state = "absent"
    THEN network' = [network EXCEPT ![n] = [state |-> "active", key |-> k]]
    ELSE UNCHANGED network

\* The primary key refuses the row of a creation that another one overtook.
CreateNetwork(r) ==
    /\ At(r, "create", "network")
    /\ InsertNetwork(Job(r).net, r)
    /\ IF network' = network THEN Refuse(r, "db-error") ELSE Goto(r, "member")
    /\ UNCHANGED <<member, ceremony, nonces, audit, published>>
    /\ Fixed

CreateMember(r) ==
    /\ At(r, "create", "member")
    /\ member' = member \union {Job(r).net}
    /\ Goto(r, "complete")
    /\ UNCHANGED <<network, ceremony, nonces, audit, published>>
    /\ Fixed

\* The ceremony is completed with the hash of the public key, and the
\* descriptor answered from what the handler holds.
CreateComplete(r) ==
    /\ At(r, "create", "complete")
    /\ ceremony' = [ceremony EXCEPT ![r] = [state |-> "completed", transcript |-> r]]
    /\ Serve(r)
    /\ Publish(Job(r).net, r)
    /\ UNCHANGED <<network, member, nonces, audit>>
    /\ Fixed


\* revoke_network: a network that was never created is not found.
RevokeFind(r) ==
    /\ At(r, "revoke", "find")
    /\ IF network[Job(r).net].state = "absent" THEN Refuse(r, "not-found")
       ELSE Goto(r, "update")
    /\ UNCHANGED <<db, published>>
    /\ Fixed

\* The update sets the state and the time of the row that was read.
RevokeUpdate(r) ==
    /\ At(r, "revoke", "update")
    /\ network' = [network EXCEPT ![Job(r).net].state = "revoked"]
    /\ Serve(r)
    /\ UNCHANGED <<member, ceremony, nonces, audit, published>>
    /\ Fixed

-----------------------------------------------------------------------------
(* Lookup.                                                                 *)

\* get_network, and get_network_by_name with an owner: whatever the state.
GetNetwork(r) ==
    /\ req[r].pc = "read"
    /\ Job(r).op \in {"get", "well-known", "find-by-name"}
    /\ LET n == IF req[r].at = None THEN Job(r).net ELSE req[r].at
       IN  IF network[n].state = "absent"
           THEN Refuse(r, "not-found") /\ UNCHANGED published
           ELSE Serve(r) /\ Publish(n, network[n].key)
    /\ UNCHANGED db
    /\ Fixed

\* get_network_by_name without one: any active network of that name, which
\* get_network then reads.
FindByName(r) ==
    /\ At(r, "find-by-name", "find")
    /\ LET named == {n \in Networks : Name[n] = Name[Job(r).net] /\ network[n].state = "active"}
       IN  \/ named = {} /\ Refuse(r, "not-found")
           \/ \E n \in named : req' = [req EXCEPT ![r].pc = "read", ![r].at = n]
    /\ UNCHANGED <<db, published>>
    /\ Fixed

-----------------------------------------------------------------------------
(* Decryption.                                                             *)

DecryptCheck(r) ==
    /\ At(r, "decrypt", "check")
    /\ LET flaw == FirstFlaw(r, IF Job(r).api = "native" THEN NativeDecryptChecks
                                ELSE EnvelopeDecryptChecks)
       IN  IF flaw # None THEN Deny(r, flaw) ELSE Goto(r, "state")
    /\ UNCHANGED <<db, published>>
    /\ Fixed

\* The state of the descriptor.
StateFlaw(n) ==
    CASE network[n].state = "absent" -> "not-found"
      [] network[n].state = "revoked" -> "revoked"
      [] network[n].state = "active" -> None
      [] OTHER -> "state"

\* The descriptor is read; the checks that follow touch no table.
DecryptState(r) ==
    /\ At(r, "decrypt", "state")
    /\ LET flaw == Then(StateFlaw(Job(r).net),
                    Then(FirstFlaw(r, VersionChecks),
                         Then(TimeFlaw(r), FirstFlaw(r, HashChecks))))
       IN  IF flaw # None THEN Deny(r, flaw) ELSE Goto(r, "nonce")
    /\ UNCHANGED <<db, published>>
    /\ Fixed

DecryptNonce(r) ==
    /\ At(r, "decrypt", "nonce")
    /\ \/ ConsumeNonce(r) /\ Goto(r, "unwrap")
       \/ ~NonceUnused(r) /\ Deny(r, "replay") /\ UNCHANGED nonces
    /\ UNCHANGED <<network, member, ceremony, audit, published>>
    /\ Fixed

\* The row is read again for its sealed key, and the key unwrapped with it;
\* the state is not looked at a second time.
DecryptUnwrap(r) ==
    /\ At(r, "decrypt", "unwrap")
    /\ IF network[Job(r).net].key = req[r].key THEN Goto(r, "audit") ELSE Refuse(r, "backend")
    /\ UNCHANGED <<db, published>>
    /\ Fixed

\* record_audit: the first outcome of a request hash is kept.
Recorded(r, outcome) ==
    [audit EXCEPT ![RequestHash(r)] = IF @ = None THEN outcome ELSE @]

\* The response is signed, the decision recorded, the response returned.
DecryptAudit(r) ==
    /\ At(r, "decrypt", "audit")
    /\ audit' = Recorded(r, "allowed")
    /\ Serve(r)
    /\ UNCHANGED <<network, member, ceremony, nonces, published>>
    /\ Fixed

DecryptDeny(r) ==
    /\ At(r, "decrypt", "deny")
    /\ audit' = Recorded(r, req[r].why)
    /\ Refuse(r, req[r].why)
    /\ UNCHANGED <<network, member, ceremony, nonces, published>>
    /\ Fixed

-----------------------------------------------------------------------------
(* Faults and time.                                                        *)

Running(r) == req[r].pc \notin {"idle", "served", "refused", "lost"}

\* The steps of a handler that access a table first.
DbSteps == {"auth", "state", "nonce", "unwrap", "audit", "deny", "find", "ceremony", "network",
            "member", "complete", "update", "read"}

\* map_service_err for a database error: 500, whatever was written before.
ErrorReply(r) == Refuse(r, "db-error")

DbError(r) ==
    /\ budget.db > 0
    /\ budget' = [budget EXCEPT !.db = @ - 1]
    /\ \/ req[r].pc \in DbSteps
       \/ req[r].pc = "check" /\ Job(r).op \in {"create", "revoke"} /\ AdminFlaw(r) = None
    /\ ErrorReply(r)
    /\ UNCHANGED <<load, clock, db, published, late>>

\* The node dies and is started again; the tables stay, the requests are lost.
Crash ==
    /\ budget.crash > 0
    /\ budget' = [budget EXCEPT !.crash = @ - 1]
    /\ \E r \in Requests : Running(r)
    /\ req' = [r \in Slots |-> IF Running(r) THEN [req[r] EXCEPT !.pc = "lost"] ELSE req[r]]
    /\ UNCHANGED <<load, clock, db, published, late>>

Tick ==
    /\ budget.tick > 0
    /\ clock < LastTime
    /\ budget' = [budget EXCEPT !.tick = @ - 1]
    /\ clock' = clock + 1
    /\ UNCHANGED <<load, db, req, published, late>>

Handler(r) ==
    \/ Authorise(r)
    \/ AdminCheck(r)
    \/ CreateFind(r) \/ CreateCeremony(r) \/ CreateNetwork(r) \/ CreateMember(r)
    \/ CreateComplete(r)
    \/ RevokeFind(r) \/ RevokeUpdate(r)
    \/ GetNetwork(r) \/ FindByName(r)
    \/ DecryptCheck(r) \/ DecryptState(r) \/ DecryptNonce(r) \/ DecryptUnwrap(r)
    \/ DecryptAudit(r) \/ DecryptDeny(r)

Next ==
    \/ \E r \in Requests : Send(r) \/ Handler(r) \/ DbError(r)
    \/ Crash
    \/ Tick

Spec == Init /\ [][Next]_vars

\* The runtime polls every handler's task until it has answered.
FairSpec == Spec /\ \A r \in Slots : WF_vars(Handler(r))

-----------------------------------------------------------------------------
Verdicts == {"not-found", "already-exists", "db-error", "backend", "unauthorized",
             "expired", "not-yet-valid", "type", "network", "capability", "action", "signature",
             "owner", "alg", "base64"} \union Audited

Served(op) == {r \in Requests : At(r, op, "served")}

\* The state of the tables and handlers; a row has a state exactly when it has
\* the key one creation generated, and a member row belongs to a network row.
TypeOK ==
    /\ load \in Workloads
    /\ clock \in 0 .. LastTime
    /\ \A n \in Networks :
           \/ network[n] = NoRow
           \/ network[n].state \in {"active", "revoked"} /\ network[n].key \in Requests
    /\ member \subseteq {n \in Networks : network[n] # NoRow}
    /\ \A r \in Requests : ceremony[r].state \in {"absent", "started", "completed"}
    /\ nonces \subseteq {NonceOf(r) : r \in Requests}
    /\ \A h \in Hashes : audit[h] \in Audited \union {None, "allowed"}
    /\ \A r \in Requests : req[r].why \in Verdicts \union {None}
    /\ late \subseteq Requests

\* What a client wraps to a public key that the node once gave out for a
\* network can be unwrapped for as long as the node lives, whatever creations
\* of the same network raced: a decryption of it may be refused but never
\* fails to open (create_one_of_one_network, KeyBackend::unwrap).
PublishedKeyOpens ==
    /\ \A n \in Networks : published[n] \subseteq {network[n].key}
    /\ \A r \in Requests : At(r, "decrypt", "unwrap") /\ "stray" \notin Job(r).flaws
                              => network[Job(r).net].key = req[r].key

\* Of all the requests that carry one requester's nonce, whatever they ask
\* for and however they interleave, at most one is acted upon (consume_nonce).
NonceServesOnce ==
    \A r, s \in Served("create") \union Served("revoke") \union Served("decrypt") :
        NonceOf(r) = NonceOf(s) => r = s

\* A ceremony is only ever completed for a network that exists, with the key
\* whose hash is its transcript and with its member, across every crash and
\* failed write of a creation (create_one_of_one_network).
CompletedMeansCreated ==
    \A r \in Requests : ceremony[r].state = "completed" =>
        /\ Job(r).op = "create"
        /\ network[Job(r).net].key = ceremony[r].transcript
        /\ Job(r).net \in member

\* A request to decrypt that arrives when the network is revoked is never
\* served (decrypt, decrypt_authorized).
NoDecryptAfterRevocation == late \intersect Served("decrypt") = {}

\* Once a revocation is answered the network stays revoked: no creation, of
\* before or after, brings it back (revoke_network, create_one_of_one_network).
RevocationHolds ==
    \A r \in Served("revoke") : network[Job(r).net].state = "revoked"

\* No symmetric key leaves the node before a decision on its request hash is
\* in the audit table, even when a write of it fails (record_audit).
ReleasedIsAudited == \A r \in Served("decrypt") : audit[RequestHash(r)] # None

\* Every request the node receives is answered unless the node dies with it.
EveryRequestAnswered ==
    \A r \in Slots : Running(r) ~> req[r].pc \in {"served", "refused", "lost"}

\* A network is created whole, keeps the key it published, and once revoked
\* serves nothing more.
NetworksSound ==
    PublishedKeyOpens /\ CompletedMeansCreated /\ RevocationHolds /\ NoDecryptAfterRevocation

\* Every key released is accounted for, by a nonce of its own and in the audit
\* table.
ReleasesAccounted == NonceServesOnce /\ ReleasedIsAudited

=============================================================================
