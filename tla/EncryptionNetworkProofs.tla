----------------------- MODULE EncryptionNetworkProofs ----------------------
(***************************************************************************)
(* The safety of EncryptionNetwork, for every set of networks and every    *)
(* workload: any number of requests, database errors and crashes.          *)
(***************************************************************************)
EXTENDS EncryptionNetwork, TLAPS

\* First-order reasoning, unless a step names another prover.
USE Zenon

-----------------------------------------------------------------------------
(* The inductive invariant.                                                *)

Shapes ==
    /\ load \in Workloads
    /\ DOMAIN network = Networks
    /\ \A n \in Networks : DOMAIN network[n] = {"state", "key"}
    /\ DOMAIN ceremony = Slots
    /\ \A r \in Slots : DOMAIN ceremony[r] = {"state", "transcript"}
    /\ DOMAIN req = Slots
    /\ \A r \in Slots : DOMAIN req[r] = {"pc", "key", "why", "at"}
    /\ DOMAIN audit = Hashes
    /\ DOMAIN published = Networks

\* A request that has consumed its nonce and may still succeed.
Holds(r) ==
    \/ Job(r).op = "create" /\ req[r].pc \in {"find", "ceremony", "network", "member", "complete", "served"}
    \/ Job(r).op = "revoke" /\ req[r].pc \in {"find", "update", "served"}
    \/ Job(r).op = "decrypt" /\ req[r].pc \in {"unwrap", "audit", "served"}

NonceInv ==
    /\ \A r \in Requests : Holds(r) => NonceOf(r) \in nonces
    /\ \A r, s \in Requests : Holds(r) /\ Holds(s) /\ NonceOf(r) = NonceOf(s) => r = s

\* The row of network n holds the key k.
Has(n, k) == network[n].state # "absent" /\ network[n].key = k

CeremonyInv ==
    /\ \A r \in Requests : Job(r).op = "create" =>
           /\ req[r].pc \in {"member", "complete"} => Has(Job(r).net, r)
           /\ req[r].pc = "complete" => Job(r).net \in member
    /\ \A r \in Requests : ceremony[r].state = "completed" =>
           /\ Job(r).op = "create"
           /\ Has(Job(r).net, ceremony[r].transcript)
           /\ Job(r).net \in member

KeyInv ==
    /\ \A n \in Networks : \A k \in published[n] : Has(n, k)
    /\ \A r \in Requests :
           Job(r).op = "decrypt" /\ "stray" \notin Job(r).flaws /\ req[r].pc # "idle"
               => Has(Job(r).net, req[r].key)

LateInv ==
    \A r \in late :
        /\ r \in Requests
        /\ network[Job(r).net].state = "revoked"
        /\ Job(r).op = "decrypt" => req[r].pc \notin {"idle", "nonce", "unwrap", "audit", "served"}

IInv ==
    /\ Shapes
    /\ NonceInv
    /\ CeremonyInv
    /\ KeyInv
    /\ LateInv
    /\ RevocationHolds
    /\ ReleasedIsAudited

-----------------------------------------------------------------------------
(* What a step does, told by its effect on the tables and on the place of  *)
(* its request.                                                            *)

\* A step of request r leaves the other requests alone.
Only(r) ==
    /\ load' = load
    /\ DOMAIN req' = Slots
    /\ DOMAIN req'[r] = {"pc", "key", "why", "at"}
    /\ \A s \in Slots : s # r => req'[s] = req[s]

\* It goes on to the place p and keeps its key.
Moves(r, p) ==
    /\ Only(r)
    /\ late' = late
    /\ req'[r].pc = p
    /\ req'[r].key = req[r].key

\* It is refused, perhaps after its audit.
Refuses(r) ==
    /\ \E p \in {"refused", "deny"} : Moves(r, p)
    /\ req[r].pc # "idle"
    /\ UNCHANGED <<network, member, ceremony, nonces, published>>
    /\ DOMAIN audit' = DOMAIN audit
    /\ \A h \in Hashes : audit[h] # None => audit'[h] = audit[h]

\* It finds nothing wrong and writes nothing.
Passes(r) ==
    /\ UNCHANGED <<network, member, ceremony, nonces, audit, published>>
    /\ \/ req[r].pc = "auth" /\ Moves(r, "check")
       \/ At(r, "create", "find") /\ Moves(r, "ceremony")
       \/ At(r, "revoke", "find") /\ Moves(r, "update")
       \/ At(r, "find-by-name", "find") /\ Moves(r, "read")
       \/ At(r, "decrypt", "check") /\ Moves(r, "state")
       \/ At(r, "decrypt", "state") /\ Moves(r, "nonce") /\ network[Job(r).net].state # "revoked"
       \/ At(r, "decrypt", "unwrap") /\ Moves(r, "audit")

Consumes(r) ==
    /\ NonceOf(r) \notin nonces
    /\ nonces' = nonces \union {NonceOf(r)}
    /\ UNCHANGED <<network, member, ceremony, audit, published>>
    /\ \/ req[r].pc = "check" /\ Job(r).op \in {"create", "revoke"} /\ Moves(r, "find")
       \/ At(r, "decrypt", "nonce") /\ Moves(r, "unwrap")

Begins(r) ==
    /\ At(r, "create", "ceremony") /\ Moves(r, "network")
    /\ ceremony' = [ceremony EXCEPT ![r].state = "started"]
    /\ UNCHANGED <<network, member, nonces, audit, published>>

Inserts(r) ==
    /\ At(r, "create", "network") /\ Moves(r, "member")
    /\ network[Job(r).net].state = "absent"
    /\ network' = [network EXCEPT ![Job(r).net] = [state |-> "active", key |-> r]]
    /\ UNCHANGED <<member, ceremony, nonces, audit, published>>

Joins(r) ==
    /\ At(r, "create", "member") /\ Moves(r, "complete")
    /\ member' = member \union {Job(r).net}
    /\ UNCHANGED <<network, ceremony, nonces, audit, published>>

Completes(r) ==
    /\ At(r, "create", "complete") /\ Moves(r, "served")
    /\ ceremony' = [ceremony EXCEPT ![r] = [state |-> "completed", transcript |-> r]]
    /\ Publish(Job(r).net, r)
    /\ UNCHANGED <<network, member, nonces, audit>>

Revokes(r) ==
    /\ At(r, "revoke", "update") /\ Moves(r, "served")
    /\ network' = [network EXCEPT ![Job(r).net].state = "revoked"]
    /\ UNCHANGED <<member, ceremony, nonces, audit, published>>

\* It is given the key of a row.
Reads(r) ==
    /\ Job(r).op \in {"get", "well-known", "find-by-name"} /\ Moves(r, "served")
    /\ DOMAIN published' = Networks
    /\ \A n \in Networks : \A k \in published'[n] : k \in published[n] \/ Has(n, k)
    /\ UNCHANGED <<network, member, ceremony, nonces, audit>>

Releases(r) ==
    /\ At(r, "decrypt", "audit") /\ Moves(r, "served")
    /\ audit' = Recorded(r, "allowed")
    /\ UNCHANGED <<network, member, ceremony, nonces, published>>

\* A request is sent; the key it wants unwrapped was given out, unless it is stray.
Starts(r) ==
    /\ Only(r)
    /\ UNCHANGED <<network, member, ceremony, nonces, audit, published>>
    /\ late' = IF network[Job(r).net].state = "revoked" THEN late \union {r} ELSE late
    /\ req[r].pc = "idle"
    /\ \/ req'[r].pc \in {"read", "auth", "check"}
       \/ req'[r].pc = "find" /\ Job(r).op = "find-by-name"
    /\ Job(r).op = "decrypt" /\ "stray" \notin Job(r).flaws
          => req'[r].key \in published[Job(r).net]

\* Requests may be lost with the node, and nothing else happens.
Loses ==
    /\ UNCHANGED <<load, network, member, ceremony, nonces, audit, published, late>>
    /\ DOMAIN req' = Slots
    /\ \A s \in Slots :
          \/ req'[s] = req[s]
          \/ /\ req'[s].pc = "lost" /\ req[s].pc # "idle"
             /\ req'[s].key = req[s].key
             /\ DOMAIN req'[s] = {"pc", "key", "why", "at"}

Effect ==
    \/ \E r \in Requests :
          \/ Refuses(r) \/ Passes(r) \/ Consumes(r) \/ Begins(r) \/ Inserts(r) \/ Joins(r)
          \/ Completes(r) \/ Revokes(r) \/ Reads(r) \/ Releases(r) \/ Starts(r)
    \/ Loses

-----------------------------------------------------------------------------
LEMMA RequestsInSlots ==
    ASSUME Shapes
    PROVE  Requests \subseteq Slots /\ \A r \in Requests : Job(r).net \in Networks
  BY WorkloadsAssumption DEF Shapes, Requests, Job

LEMMA GotoMoves ==
    ASSUME Shapes, NEW r \in Slots, NEW p, Goto(r, p), Fixed
    PROVE  Moves(r, p)
  BY DEF Goto, Fixed, Moves, Only, Shapes

LEMMA RefuseMoves ==
    ASSUME Shapes, NEW r \in Slots, NEW why, Refuse(r, why), load' = load, late' = late
    PROVE  Moves(r, "refused")
  BY DEF Refuse, Moves, Only, Shapes

LEMMA DenyMoves ==
    ASSUME Shapes, NEW r \in Slots, NEW why, Deny(r, why), Fixed
    PROVE  \E p \in {"refused", "deny"} : Moves(r, p)
  <1>1. CASE Refuse(r, why)
    BY <1>1, RefuseMoves DEF Fixed
  <1>2. CASE req' = [req EXCEPT ![r].pc = "deny", ![r].why = why]
    <2>1. Moves(r, "deny")
      BY <1>2 DEF Fixed, Moves, Only, Shapes
    <2> QED
      BY <2>1
  <1> QED
    BY <1>1, <1>2 DEF Deny

\* A refusal that writes nothing.
LEMMA PlainRefusal ==
    ASSUME NEW r, \E p \in {"refused", "deny"} : Moves(r, p), req[r].pc # "idle",
           UNCHANGED <<network, member, ceremony, nonces, audit, published>>
    PROVE  Refuses(r)
  BY DEF Refuses

\* The handlers of creation and revocation.
LEMMA AdminEffect ==
    ASSUME Shapes, NEW r \in Requests,
           \/ Authorise(r) \/ AdminCheck(r) \/ CreateFind(r) \/ CreateCeremony(r)
           \/ CreateNetwork(r) \/ CreateMember(r) \/ CreateComplete(r)
           \/ RevokeFind(r) \/ RevokeUpdate(r)
    PROVE  Effect
  <1>0. r \in Slots /\ Job(r).net \in Networks
    BY RequestsInSlots
  <1>1. CASE Authorise(r)
    <2>1. \/ \E why : Refuse(r, why)
          \/ Goto(r, "check")
      BY <1>1 DEF Authorise
    <2>2. Fixed /\ UNCHANGED <<network, member, ceremony, nonces, audit, published>> /\ req[r].pc = "auth"
      BY <1>1 DEF Authorise, db
    <2>3. Refuses(r) \/ Passes(r)
      BY <1>0, <2>1, <2>2, GotoMoves, RefuseMoves, PlainRefusal DEF Passes, Fixed
    <2> QED
      BY <2>3 DEF Effect
  <1>2. CASE AdminCheck(r)
    <2>1. \/ \E why : Refuse(r, why) /\ UNCHANGED nonces
          \/ Goto(r, "find") /\ NonceOf(r) \notin nonces /\ nonces' = nonces \union {NonceOf(r)}
      BY <1>2 DEF AdminCheck, ConsumeNonce, NonceUnused
    <2>2. /\ Fixed /\ UNCHANGED <<network, member, ceremony, audit, published>>
          /\ req[r].pc = "check" /\ Job(r).op \in {"create", "revoke"}
      BY <1>2 DEF AdminCheck
    <2>3. Refuses(r) \/ Consumes(r)
      BY <1>0, <2>1, <2>2, GotoMoves, RefuseMoves, PlainRefusal DEF Consumes, Fixed
    <2> QED
      BY <2>3 DEF Effect
  <1>3. CASE CreateFind(r)
    <2>1. \/ \E why : Refuse(r, why)
          \/ Goto(r, "ceremony")
      BY <1>3 DEF CreateFind
    <2>2. /\ Fixed /\ UNCHANGED <<network, member, ceremony, nonces, audit, published>>
          /\ At(r, "create", "find")
      BY <1>3 DEF CreateFind, db
    <2>3. Refuses(r) \/ Passes(r)
      BY <1>0, <2>1, <2>2, GotoMoves, RefuseMoves, PlainRefusal DEF Passes, Fixed, At
    <2> QED
      BY <2>3 DEF Effect
  <1>4. CASE CreateCeremony(r)
    <2>1. Begins(r)
      BY <1>0, <1>4, GotoMoves DEF CreateCeremony, Begins
    <2> QED
      BY <2>1 DEF Effect
  <1>5. CASE CreateNetwork(r)
    <2>1. /\ At(r, "create", "network") /\ Fixed
          /\ UNCHANGED <<member, ceremony, nonces, audit, published>>
      BY <1>5 DEF CreateNetwork
    <2>2. \/ network' = network /\ Refuse(r, "db-error")
          \/ network' # network /\ Goto(r, "member")
      BY <1>5 DEF CreateNetwork
    <2>3. network' # network =>
             /\ network[Job(r).net].state = "absent"
             /\ network' = [network EXCEPT ![Job(r).net] = [state |-> "active", key |-> r]]
      BY <1>5 DEF CreateNetwork, InsertNetwork
    <2>4. Refuses(r) \/ Inserts(r)
      BY <1>0, <2>1, <2>2, <2>3, GotoMoves, RefuseMoves, PlainRefusal DEF Inserts, Fixed, At
    <2> QED
      BY <2>4 DEF Effect
  <1>6. CASE CreateMember(r)
    <2>1. Joins(r)
      BY <1>0, <1>6, GotoMoves DEF CreateMember, Joins
    <2> QED
      BY <2>1 DEF Effect
  <1>7. CASE CreateComplete(r)
    <2>1. Completes(r)
      BY <1>0, <1>7, GotoMoves DEF CreateComplete, Serve, Completes
    <2> QED
      BY <2>1 DEF Effect
  <1>8. CASE RevokeFind(r)
    <2>1. \/ \E why : Refuse(r, why)
          \/ Goto(r, "update")
      BY <1>8 DEF RevokeFind
    <2>2. /\ Fixed /\ UNCHANGED <<network, member, ceremony, nonces, audit, published>>
          /\ At(r, "revoke", "find")
      BY <1>8 DEF RevokeFind, db
    <2>3. Refuses(r) \/ Passes(r)
      BY <1>0, <2>1, <2>2, GotoMoves, RefuseMoves, PlainRefusal DEF Passes, Fixed, At
    <2> QED
      BY <2>3 DEF Effect
  <1>9. CASE RevokeUpdate(r)
    <2>1. Revokes(r)
      BY <1>0, <1>9, GotoMoves DEF RevokeUpdate, Serve, Revokes
    <2> QED
      BY <2>1 DEF Effect
  <1> QED
    BY <1>1, <1>2, <1>3, <1>4, <1>5, <1>6, <1>7, <1>8, <1>9

\* The handlers of lookups.
LEMMA LookupEffect ==
    ASSUME Shapes, NEW r \in Requests, GetNetwork(r) \/ FindByName(r)
    PROVE  Effect
  <1>0. r \in Slots
    BY RequestsInSlots
  <1>1. CASE GetNetwork(r)
    <2> DEFINE n == IF req[r].at = None THEN Job(r).net ELSE req[r].at
    <2>1. /\ req[r].pc = "read" /\ Job(r).op \in {"get", "well-known", "find-by-name"}
          /\ Fixed /\ UNCHANGED <<network, member, ceremony, nonces, audit>>
      BY <1>1 DEF GetNetwork, db
    <2>2. \/ Refuse(r, "not-found") /\ UNCHANGED published
          \/ network[n].state # "absent" /\ Goto(r, "served") /\ Publish(n, network[n].key)
      BY <1>1 DEF GetNetwork, Serve
    <2> HIDE DEF n
    <2>3. ASSUME network[n].state # "absent", Publish(n, network[n].key)
          PROVE  /\ DOMAIN published' = Networks
                 /\ \A m \in Networks : \A k \in published'[m] : k \in published[m] \/ Has(m, k)
      BY <2>3 DEF Publish, Shapes, Has
    <2>4. Refuses(r) \/ Reads(r)
      BY <1>0, <2>1, <2>2, <2>3, GotoMoves, RefuseMoves, PlainRefusal DEF Reads, Fixed
    <2> QED
      BY <2>4 DEF Effect
  <1>2. CASE FindByName(r)
    <2>1. /\ At(r, "find-by-name", "find")
          /\ Fixed /\ UNCHANGED <<network, member, ceremony, nonces, audit, published>>
      BY <1>2 DEF FindByName, db
    <2>2. \/ Refuse(r, "not-found")
          \/ \E n : req' = [req EXCEPT ![r].pc = "read", ![r].at = n]
      BY <1>2 DEF FindByName
    <2>3. ASSUME NEW n, req' = [req EXCEPT ![r].pc = "read", ![r].at = n] PROVE Moves(r, "read")
      BY <1>0, <2>1, <2>3 DEF Fixed, Moves, Only, Shapes
    <2>4. Refuses(r) \/ Passes(r)
      BY <1>0, <2>1, <2>2, <2>3, RefuseMoves, PlainRefusal DEF Passes, Fixed, At
    <2> QED
      BY <2>4 DEF Effect
  <1> QED
    BY <1>1, <1>2

\* A network that is revoked stops a decryption at its state.
LEMMA RevokedIsFlaw ==
    ASSUME NEW n, network[n].state = "revoked", NEW next
    PROVE  Then(StateFlaw(n), next) # None
  <1>1. StateFlaw(n) = "revoked"
    BY DEF StateFlaw
  <1> QED
    BY <1>1, NoneAssumption DEF Then

\* The handlers of decryptions.
LEMMA DecryptEffect ==
    ASSUME Shapes, NEW r \in Requests,
           \/ DecryptCheck(r) \/ DecryptState(r) \/ DecryptNonce(r) \/ DecryptUnwrap(r)
           \/ DecryptAudit(r) \/ DecryptDeny(r)
    PROVE  Effect
  <1>0. r \in Slots
    BY RequestsInSlots
  <1>1. CASE DecryptCheck(r)
    <2>1. /\ At(r, "decrypt", "check")
          /\ Fixed /\ UNCHANGED <<network, member, ceremony, nonces, audit, published>>
      BY <1>1 DEF DecryptCheck, db
    <2>2. \/ \E why : Deny(r, why)
          \/ Goto(r, "state")
      BY <1>1 DEF DecryptCheck
    <2>3. Refuses(r) \/ Passes(r)
      BY <1>0, <2>1, <2>2, GotoMoves, DenyMoves, PlainRefusal DEF Passes, At
    <2> QED
      BY <2>3 DEF Effect
  <1>2. CASE DecryptState(r)
    <2>1. /\ At(r, "decrypt", "state")
          /\ Fixed /\ UNCHANGED <<network, member, ceremony, nonces, audit, published>>
      BY <1>2 DEF DecryptState, db
    <2> DEFINE next == Then(FirstFlaw(r, VersionChecks), Then(TimeFlaw(r), FirstFlaw(r, HashChecks)))
               flaw == Then(StateFlaw(Job(r).net), next)
    <2>2. \/ Deny(r, flaw)
          \/ flaw = None /\ Goto(r, "nonce")
      BY <1>2 DEF DecryptState
    <2> HIDE DEF next
    <2>3. network[Job(r).net].state = "revoked" => flaw # None
      BY RevokedIsFlaw
    <2> HIDE DEF flaw
    <2>4. Refuses(r) \/ Passes(r)
      BY <1>0, <2>1, <2>2, <2>3, GotoMoves, DenyMoves, PlainRefusal DEF Passes, At
    <2> QED
      BY <2>4 DEF Effect
  <1>3. CASE DecryptNonce(r)
    <2>1. /\ At(r, "decrypt", "nonce")
          /\ Fixed /\ UNCHANGED <<network, member, ceremony, audit, published>>
      BY <1>3 DEF DecryptNonce
    <2>2. \/ Deny(r, "replay") /\ UNCHANGED nonces
          \/ Goto(r, "unwrap") /\ NonceOf(r) \notin nonces /\ nonces' = nonces \union {NonceOf(r)}
      BY <1>3 DEF DecryptNonce, ConsumeNonce, NonceUnused
    <2>3. Refuses(r) \/ Consumes(r)
      BY <1>0, <2>1, <2>2, GotoMoves, DenyMoves, PlainRefusal DEF Consumes, At
    <2> QED
      BY <2>3 DEF Effect
  <1>4. CASE DecryptUnwrap(r)
    <2>1. /\ At(r, "decrypt", "unwrap")
          /\ Fixed /\ UNCHANGED <<network, member, ceremony, nonces, audit, published>>
      BY <1>4 DEF DecryptUnwrap, db
    <2>2. Refuse(r, "backend") \/ Goto(r, "audit")
      BY <1>4 DEF DecryptUnwrap
    <2>3. Refuses(r) \/ Passes(r)
      BY <1>0, <2>1, <2>2, GotoMoves, RefuseMoves, PlainRefusal DEF Passes, Fixed, At
    <2> QED
      BY <2>3 DEF Effect
  <1>5. CASE DecryptAudit(r)
    <2>1. Releases(r)
      BY <1>0, <1>5, GotoMoves DEF DecryptAudit, Serve, Releases
    <2> QED
      BY <2>1 DEF Effect
  <1>6. CASE DecryptDeny(r)
    <2>1. /\ At(r, "decrypt", "deny") /\ Refuse(r, req[r].why)
          /\ Fixed /\ UNCHANGED <<network, member, ceremony, nonces, published>>
          /\ audit' = Recorded(r, req[r].why)
      BY <1>6 DEF DecryptDeny
    <2>2. DOMAIN audit' = DOMAIN audit /\ \A h \in Hashes : audit[h] # None => audit'[h] = audit[h]
      BY <2>1 DEF Recorded, Shapes
    <2>3. Moves(r, "refused")
      BY <1>0, <2>1, RefuseMoves DEF Fixed
    <2>4. Refuses(r)
      BY <2>1, <2>2, <2>3 DEF Refuses, At
    <2> QED
      BY <2>4 DEF Effect
  <1> QED
    BY <1>1, <1>2, <1>3, <1>4, <1>5, <1>6

\* Clients, failures and time.
LEMMA OutsideEffect ==
    ASSUME Shapes,
           \/ \E r \in Requests : Send(r) \/ DbError(r)
           \/ Crash \/ Tick \/ UNCHANGED vars
    PROVE  Effect
  <1>1. ASSUME NEW r \in Requests, Send(r) PROVE Effect
    <2>0. r \in Slots
      BY RequestsInSlots
    <2>1. PICK k \in IF Job(r).op = "decrypt" /\ "stray" \notin Job(r).flaws
                     THEN published[Job(r).net] ELSE {None} :
                 req' = [req EXCEPT ![r] = [pc |-> Entry(r), key |-> k, why |-> None, at |-> None]]
      BY <1>1 DEF Send
    <2>2. req'[r] = [pc |-> Entry(r), key |-> k, why |-> None, at |-> None]
      BY <2>0, <2>1 DEF Shapes
    <2>3. \/ Entry(r) \in {"read", "auth", "check"}
          \/ Entry(r) = "find" /\ Job(r).op = "find-by-name"
      BY SMT DEF Entry
    <2>4. DOMAIN req' = Slots /\ \A s \in Slots : s # r => req'[s] = req[s]
      BY <2>1 DEF Shapes
    <2>5. /\ UNCHANGED <<load, network, member, ceremony, nonces, audit, published>>
          /\ req[r].pc = "idle"
          /\ late' = IF network[Job(r).net].state = "revoked" THEN late \union {r} ELSE late
      BY <1>1 DEF Send, db
    <2>6. Only(r)
      BY <2>2, <2>4, <2>5 DEF Only
    <2>7. Starts(r)
      BY <2>1, <2>2, <2>3, <2>5, <2>6, SMT DEF Starts
    <2> QED
      BY <2>7 DEF Effect
  <1>2. ASSUME NEW r \in Requests, DbError(r) PROVE Effect
    <2>0. r \in Slots
      BY RequestsInSlots
    <2>1. /\ Refuse(r, "db-error") /\ req[r].pc # "idle"
          /\ UNCHANGED <<load, late, network, member, ceremony, nonces, audit, published>>
      BY <1>2 DEF DbError, DbSteps, ErrorReply, db
    <2>2. Refuses(r)
      BY <2>0, <2>1, RefuseMoves, PlainRefusal
    <2> QED
      BY <2>2 DEF Effect
  <1>3. CASE Crash
    <2>1. Loses
      BY <1>3 DEF Crash, Loses, Shapes, Running, db
    <2> QED
      BY <2>1 DEF Effect
  <1>4. CASE Tick \/ UNCHANGED vars
    <2>1. Loses
      BY <1>4 DEF Tick, Loses, Shapes, vars, db
    <2> QED
      BY <2>1 DEF Effect
  <1> QED
    BY <1>1, <1>2, <1>3, <1>4

LEMMA NextEffect ==
    ASSUME Shapes, [Next]_vars
    PROVE  Effect
  <1>1. ASSUME NEW r \in Requests, Handler(r) PROVE Effect
    BY <1>1, AdminEffect, LookupEffect, DecryptEffect DEF Handler
  <1> QED
    BY <1>1, OutsideEffect DEF Next

-----------------------------------------------------------------------------
(* Every effect keeps the invariant.                                       *)

\* The row of network n holds the key k after the step.
HasNext(n, k) == network'[n].state # "absent" /\ network'[n].key = k

\* A step is of one request, or a loss.
LEMMA OneRequest ==
    ASSUME Effect
    PROVE  Loses \/ \E r \in Requests : Only(r)
  <1>1. ASSUME NEW r \in Requests,
               \/ Refuses(r) \/ Passes(r) \/ Consumes(r) \/ Begins(r) \/ Inserts(r) \/ Joins(r)
               \/ Completes(r) \/ Revokes(r) \/ Reads(r) \/ Releases(r) \/ Starts(r)
        PROVE  Only(r)
    BY <1>1 DEF Refuses, Passes, Consumes, Begins, Inserts, Joins, Completes, Revokes, Reads,
                Releases, Starts, Moves
  <1> QED
    BY <1>1 DEF Effect

\* The workload stays; no step takes a row away, changes its key or undoes its
\* revocation (InsertNetwork, RevokeUpdate).
LEMMA RowsOnlyForward ==
    ASSUME Shapes, Effect
    PROVE  /\ load' = load
           /\ \A n \in Networks : network[n].state # "absent" =>
                  network'[n].state # "absent" /\ network'[n].key = network[n].key
           /\ \A n \in Networks : network[n].state = "revoked" => network'[n].state = "revoked"
  <1>1. load' = load
    BY OneRequest DEF Only, Loses
  <1>2. CASE UNCHANGED network
    BY <1>1, <1>2
  <1>3. ASSUME NEW r \in Requests, Inserts(r) \/ Revokes(r)
        PROVE  /\ \A n \in Networks : network[n].state # "absent" =>
                      network'[n].state # "absent" /\ network'[n].key = network[n].key
               /\ \A n \in Networks : network[n].state = "revoked" => network'[n].state = "revoked"
    <2>1. Job(r).net \in Networks
      BY RequestsInSlots
    <2>2. CASE Inserts(r)
      BY <2>1, <2>2 DEF Inserts, Shapes
    <2>3. CASE Revokes(r)
      BY <2>1, <2>3 DEF Revokes, Shapes
    <2> QED
      BY <1>3, <2>2, <2>3
  <1>4. UNCHANGED network \/ \E r \in Requests : Inserts(r) \/ Revokes(r)
    BY DEF Effect, Refuses, Passes, Consumes, Begins, Joins, Completes, Reads, Releases, Starts, Loses
  <1> QED
    BY <1>1, <1>2, <1>3, <1>4

\* The tables and handlers keep their shapes.
LEMMA ShapesStep ==
    ASSUME Shapes, Effect
    PROVE  Shapes'
  <1>0. load' = load
    BY RowsOnlyForward
  <1>1. DOMAIN req' = Slots /\ \A r \in Slots : DOMAIN req'[r] = {"pc", "key", "why", "at"}
    <2>1. ASSUME NEW r \in Requests, Only(r)
          PROVE  DOMAIN req' = Slots /\ \A s \in Slots : DOMAIN req'[s] = {"pc", "key", "why", "at"}
      BY <2>1 DEF Only, Shapes
    <2>2. CASE Loses
      BY <2>2 DEF Loses, Shapes
    <2> QED
      BY <2>1, <2>2, OneRequest
  <1>2. DOMAIN network' = Networks /\ \A n \in Networks : DOMAIN network'[n] = {"state", "key"}
    <2>1. CASE UNCHANGED network
      BY <2>1 DEF Shapes
    <2>2. ASSUME NEW r \in Requests, Inserts(r)
          PROVE  DOMAIN network' = Networks /\ \A n \in Networks : DOMAIN network'[n] = {"state", "key"}
      BY <2>2 DEF Inserts, Shapes
    <2>3. ASSUME NEW r \in Requests, Revokes(r)
          PROVE  DOMAIN network' = Networks /\ \A n \in Networks : DOMAIN network'[n] = {"state", "key"}
      BY <2>3 DEF Revokes, Shapes
    <2>4. UNCHANGED network \/ \E r \in Requests : Inserts(r) \/ Revokes(r)
      BY DEF Effect, Refuses, Passes, Consumes, Begins, Joins, Completes, Reads, Releases, Starts, Loses
    <2> QED
      BY <2>1, <2>2, <2>3, <2>4
  <1>3. DOMAIN ceremony' = Slots /\ \A r \in Slots : DOMAIN ceremony'[r] = {"state", "transcript"}
    <2>1. CASE UNCHANGED ceremony
      BY <2>1 DEF Shapes
    <2>2. ASSUME NEW r \in Requests, Begins(r)
          PROVE  /\ DOMAIN ceremony' = Slots
                 /\ \A s \in Slots : DOMAIN ceremony'[s] = {"state", "transcript"}
      BY <2>2 DEF Begins, Shapes
    <2>3. ASSUME NEW r \in Requests, Completes(r)
          PROVE  /\ DOMAIN ceremony' = Slots
                 /\ \A s \in Slots : DOMAIN ceremony'[s] = {"state", "transcript"}
      BY <2>3 DEF Completes, Shapes
    <2>4. UNCHANGED ceremony \/ \E r \in Requests : Begins(r) \/ Completes(r)
      BY DEF Effect, Refuses, Passes, Consumes, Inserts, Joins, Revokes, Reads, Releases, Starts, Loses
    <2> QED
      BY <2>1, <2>2, <2>3, <2>4
  <1>4. DOMAIN audit' = Hashes
    <2>1. ASSUME NEW r \in Requests, Releases(r) PROVE DOMAIN audit' = DOMAIN audit
      BY <2>1 DEF Releases, Recorded
    <2>2. DOMAIN audit' = DOMAIN audit \/ \E r \in Requests : Releases(r)
      BY DEF Effect, Refuses, Passes, Consumes, Begins, Inserts, Joins, Completes, Revokes, Reads,
             Starts, Loses
    <2> QED
      BY <2>1, <2>2 DEF Shapes
  <1>5. DOMAIN published' = Networks
    <2>1. ASSUME NEW r \in Requests, Completes(r) PROVE DOMAIN published' = Networks
      BY <2>1 DEF Completes, Publish, Shapes
    <2>2. \/ UNCHANGED published \/ DOMAIN published' = Networks
          \/ \E r \in Requests : Completes(r)
      BY DEF Effect, Refuses, Passes, Consumes, Begins, Inserts, Joins, Revokes, Reads, Releases,
             Starts, Loses
    <2> QED
      BY <2>1, <2>2 DEF Shapes
  <1>6. Hashes' = Hashes
    BY <1>0 DEF Hashes, RequestHash, Requests, Job
  <1> QED
    BY <1>0, <1>1, <1>2, <1>3, <1>4, <1>5, <1>6 DEF Shapes

\* A nonce is consumed before its request can succeed, and by one request only
\* (consume_nonce).
LEMMA NonceStep ==
    ASSUME Shapes, NonceInv, Effect
    PROVE  NonceInv'
  <1>0. load' = load /\ Requests \subseteq Slots
    BY RowsOnlyForward, RequestsInSlots
  <1>1. ASSUME nonces \subseteq nonces', \A s \in Requests : Holds(s)' => Holds(s)
        PROVE  NonceInv'
    BY <1>0, <1>1 DEF NonceInv, NonceOf, Requests, Job
  <1>2. ASSUME NEW r \in Requests, Only(r), NEW s \in Requests, s # r
        PROVE  Holds(s)' <=> Holds(s)
    BY <1>0, <1>2 DEF Only, Holds, Job
  <1>3. ASSUME NEW r \in Requests, Only(r), Holds(r)' => Holds(r), nonces' = nonces
        PROVE  NonceInv'
    <2>1. \A s \in Requests : Holds(s)' => Holds(s)
      BY <1>2, <1>3
    <2> QED
      BY <1>1, <1>3, <2>1
  <1>4. ASSUME NEW r \in Requests,
               \/ Refuses(r) \/ Passes(r) \/ Begins(r) \/ Inserts(r) \/ Joins(r) \/ Completes(r)
               \/ Revokes(r) \/ Reads(r) \/ Releases(r) \/ Starts(r)
        PROVE  NonceInv'
    <2>1. Only(r) /\ nonces' = nonces
      BY <1>4 DEF Refuses, Passes, Begins, Inserts, Joins, Completes, Revokes, Reads, Releases,
                  Starts, Moves
    <2>2. \/ req'[r].pc \in {"refused", "deny", "read", "auth", "check", "state", "nonce"}
          \/ Job(r).op \in {"get", "well-known", "find-by-name"}
          \/ /\ Job(r).op = "create"
             /\ req[r].pc \in {"find", "ceremony", "network", "member", "complete"}
          \/ Job(r).op = "revoke" /\ req[r].pc \in {"find", "update"}
          \/ Job(r).op = "decrypt" /\ req[r].pc \in {"unwrap", "audit"}
      BY <1>4 DEF Refuses, Passes, Begins, Inserts, Joins, Completes, Revokes, Reads, Releases,
                  Starts, Moves, At
    <2>3. Holds(r)' => Holds(r)
      BY <1>0, <2>2 DEF Holds, Job
    <2> QED
      BY <1>3, <2>1, <2>3
  <1>5. ASSUME NEW r \in Requests, Consumes(r) PROVE NonceInv'
    <2>1. Only(r) /\ NonceOf(r) \notin nonces /\ nonces' = nonces \union {NonceOf(r)}
      BY <1>5 DEF Consumes, Moves
    <2>2. \A s \in Requests : s # r /\ Holds(s)' => Holds(s) /\ NonceOf(s) \in nonces
      BY <1>2, <2>1 DEF NonceInv
    <2>3. \A s \in Requests : Holds(s)' => NonceOf(s) \in nonces'
      BY <2>1, <2>2
    <2>4. \A s, t \in Requests : Holds(s)' /\ Holds(t)' /\ NonceOf(s) = NonceOf(t) => s = t
      BY <2>1, <2>2 DEF NonceInv
    <2>5. Requests' = Requests /\ \A s \in Requests : NonceOf(s)' = NonceOf(s)
      BY <1>0 DEF Requests, NonceOf, Job
    <2> QED
      BY <2>3, <2>4, <2>5 DEF NonceInv
  <1>6. CASE Loses
    <2>1. \A s \in Requests : Holds(s)' => Holds(s)
      BY <1>0, <1>6 DEF Loses, Holds, Job
    <2>2. nonces' = nonces
      BY <1>6 DEF Loses
    <2> QED
      BY <1>1, <2>1, <2>2
  <1> QED
    BY <1>4, <1>5, <1>6 DEF Effect

\* A creation completes its ceremony last, on the row and the member it wrote
\* (create_one_of_one_network).
LEMMA CeremonyStep ==
    ASSUME Shapes, CeremonyInv, Effect
    PROVE  CeremonyInv'
  <1>0. load' = load /\ Requests \subseteq Slots /\ \A r \in Requests : Job(r).net \in Networks
    BY RowsOnlyForward, RequestsInSlots
  <1>1. \A n \in Networks : \A k : Has(n, k) => HasNext(n, k)
    BY RowsOnlyForward DEF Has, HasNext
  <1>2. ASSUME member \subseteq member',
               \A r \in Requests : ceremony'[r].state = "completed" => ceremony'[r] = ceremony[r],
               \A r \in Requests : Job(r).op = "create" /\ req'[r].pc \in {"member", "complete"} =>
                                      req'[r].pc = req[r].pc
        PROVE  CeremonyInv'
    <2>1. ASSUME NEW r \in Requests, Job(r).op = "create"
          PROVE  /\ req'[r].pc \in {"member", "complete"} => HasNext(Job(r).net, r)
                 /\ req'[r].pc = "complete" => Job(r).net \in member'
      BY <1>0, <1>1, <1>2, <2>1 DEF CeremonyInv
    <2>2. ASSUME NEW r \in Requests, ceremony'[r].state = "completed"
          PROVE  /\ Job(r).op = "create"
                 /\ HasNext(Job(r).net, ceremony'[r].transcript)
                 /\ Job(r).net \in member'
      <3>1. ceremony[r].state = "completed" /\ ceremony'[r].transcript = ceremony[r].transcript
        BY <1>2, <2>2
      <3>2. HasNext(Job(r).net, ceremony[r].transcript)
        BY <1>0, <1>1, <3>1 DEF CeremonyInv
      <3> QED
        BY <1>2, <3>1, <3>2 DEF CeremonyInv
    <2> QED
      BY <1>0, <2>1, <2>2 DEF CeremonyInv, Has, HasNext, Requests, Job
  <1>3. ASSUME NEW r \in Requests,
               \/ Refuses(r) \/ Passes(r) \/ Consumes(r) \/ Revokes(r) \/ Reads(r) \/ Releases(r)
               \/ Starts(r)
        PROVE  CeremonyInv'
    <2>1. /\ UNCHANGED <<member, ceremony>> /\ Only(r)
          /\ req'[r].pc \notin {"member", "complete"}
      BY <1>3 DEF Refuses, Passes, Consumes, Revokes, Reads, Releases, Starts, Moves
    <2> QED
      BY <1>0, <1>2, <2>1 DEF Only
  <1>4. ASSUME NEW r \in Requests, Begins(r) PROVE CeremonyInv'
    <2>1. Only(r) /\ req'[r].pc = "network" /\ UNCHANGED member
      BY <1>4 DEF Begins, Moves
    <2>2. \A s \in Requests : ceremony'[s].state = "completed" => ceremony'[s] = ceremony[s]
      BY <1>0, <1>4 DEF Begins, Shapes
    <2> QED
      BY <1>0, <1>2, <2>1, <2>2 DEF Only
  <1>5. ASSUME NEW r \in Requests, Inserts(r) PROVE CeremonyInv'
    <2>1. Only(r) /\ req'[r].pc = "member" /\ UNCHANGED <<member, ceremony>>
      BY <1>5 DEF Inserts, Moves
    <2>2. HasNext(Job(r).net, r)
      BY <1>0, <1>5 DEF Inserts, HasNext, Shapes
    <2>3. ASSUME NEW s \in Requests, Job(s).op = "create"
          PROVE  /\ req'[s].pc \in {"member", "complete"} => HasNext(Job(s).net, s)
                 /\ req'[s].pc = "complete" => Job(s).net \in member'
      BY <1>0, <1>1, <2>1, <2>2, <2>3 DEF CeremonyInv, Only
    <2>4. ASSUME NEW s \in Requests, ceremony[s].state = "completed"
          PROVE  /\ Job(s).op = "create"
                 /\ HasNext(Job(s).net, ceremony[s].transcript)
                 /\ Job(s).net \in member'
      BY <1>0, <1>1, <2>1, <2>4 DEF CeremonyInv
    <2> QED
      BY <1>0, <2>1, <2>3, <2>4 DEF CeremonyInv, Has, HasNext, Requests, Job
  <1>6. ASSUME NEW r \in Requests, Joins(r) PROVE CeremonyInv'
    <2>1. /\ Only(r) /\ req[r].pc = "member" /\ req'[r].pc = "complete" /\ Job(r).op = "create"
          /\ ceremony' = ceremony /\ member' = member \union {Job(r).net}
      BY <1>6 DEF Joins, Moves, At
    <2>2. HasNext(Job(r).net, r)
      BY <1>0, <1>1, <2>1 DEF CeremonyInv
    <2>3. ASSUME NEW s \in Requests, Job(s).op = "create"
          PROVE  /\ req'[s].pc \in {"member", "complete"} => HasNext(Job(s).net, s)
                 /\ req'[s].pc = "complete" => Job(s).net \in member'
      BY <1>0, <1>1, <2>1, <2>2, <2>3 DEF CeremonyInv, Only
    <2>4. ASSUME NEW s \in Requests, ceremony[s].state = "completed"
          PROVE  /\ Job(s).op = "create"
                 /\ HasNext(Job(s).net, ceremony[s].transcript)
                 /\ Job(s).net \in member'
      BY <1>0, <1>1, <2>1, <2>4 DEF CeremonyInv
    <2> QED
      BY <1>0, <2>1, <2>3, <2>4 DEF CeremonyInv, Has, HasNext, Requests, Job
  <1>7. ASSUME NEW r \in Requests, Completes(r) PROVE CeremonyInv'
    <2>1. /\ Only(r) /\ req[r].pc = "complete" /\ req'[r].pc = "served" /\ Job(r).op = "create"
          /\ member' = member
      BY <1>7 DEF Completes, Moves, At
    <2>2. HasNext(Job(r).net, r) /\ Job(r).net \in member
      BY <1>0, <1>1, <2>1 DEF CeremonyInv
    <2>3. ASSUME NEW s \in Requests, Job(s).op = "create"
          PROVE  /\ req'[s].pc \in {"member", "complete"} => HasNext(Job(s).net, s)
                 /\ req'[s].pc = "complete" => Job(s).net \in member'
      BY <1>0, <1>1, <2>1, <2>3 DEF CeremonyInv, Only
    <2>4. /\ ceremony'[r].transcript = r
          /\ \A s \in Requests : s # r => ceremony'[s] = ceremony[s]
      BY <1>0, <1>7 DEF Completes, Shapes
    <2>5. ASSUME NEW s \in Requests, ceremony'[s].state = "completed"
          PROVE  /\ Job(s).op = "create"
                 /\ \E k : k = ceremony'[s].transcript /\ HasNext(Job(s).net, k)
                 /\ Job(s).net \in member'
      BY <1>0, <1>1, <2>1, <2>2, <2>4, <2>5 DEF CeremonyInv
    <2> QED
      BY <1>0, <2>1, <2>3, <2>5 DEF CeremonyInv, Has, HasNext, Requests, Job
  <1>8. CASE Loses
    BY <1>0, <1>2, <1>8 DEF Loses
  <1> QED
    BY <1>3, <1>4, <1>5, <1>6, <1>7, <1>8 DEF Effect

\* The key of a row is the one every client was given.
LEMMA KeyStep ==
    ASSUME Shapes, CeremonyInv, KeyInv, Effect
    PROVE  KeyInv'
  <1>0. load' = load /\ Requests \subseteq Slots /\ \A r \in Requests : Job(r).net \in Networks
    BY RowsOnlyForward, RequestsInSlots
  <1>1. \A n \in Networks : \A k : Has(n, k) => HasNext(n, k)
    BY RowsOnlyForward DEF Has, HasNext
  <1>2. ASSUME \A n \in Networks : \A k \in published'[n] : k \in published[n] \/ Has(n, k),
               \A s \in Requests :
                  \/ req'[s].pc = "idle"
                  \/ req[s].pc # "idle" /\ req'[s].key = req[s].key
                  \/ Job(s).op = "decrypt" /\ "stray" \notin Job(s).flaws
                        => req'[s].key \in published[Job(s).net]
        PROVE  KeyInv'
    <2>1. ASSUME NEW n \in Networks, NEW k \in published'[n] PROVE HasNext(n, k)
      BY <1>1, <1>2, <2>1 DEF KeyInv
    <2>2. ASSUME NEW s \in Requests, Job(s).op = "decrypt", "stray" \notin Job(s).flaws,
                 req'[s].pc # "idle"
          PROVE  \E k : k = req'[s].key /\ HasNext(Job(s).net, k)
      BY <1>0, <1>1, <1>2, <2>2 DEF KeyInv
    <2> QED
      BY <1>0, <2>1, <2>2 DEF KeyInv, Has, HasNext, Requests, Job
  <1>3. ASSUME NEW r \in Requests,
               \/ Refuses(r) \/ Passes(r) \/ Consumes(r) \/ Begins(r) \/ Inserts(r) \/ Joins(r)
               \/ Revokes(r) \/ Releases(r)
        PROVE  KeyInv'
    <2>1. Only(r) /\ req'[r].key = req[r].key /\ req[r].pc # "idle" /\ published' = published
      BY <1>3 DEF Refuses, Passes, Consumes, Begins, Inserts, Joins, Revokes, Releases, Moves, At
    <2> QED
      BY <1>0, <1>2, <2>1 DEF Only
  <1>4. ASSUME NEW r \in Requests, Reads(r) PROVE KeyInv'
    <2>1. /\ Only(r) /\ req'[r].key = req[r].key /\ Job(r).op # "decrypt"
          /\ \A n \in Networks : \A k \in published'[n] : k \in published[n] \/ Has(n, k)
      BY <1>4 DEF Reads, Moves
    <2> QED
      BY <1>0, <1>2, <2>1 DEF Only
  <1>5. ASSUME NEW r \in Requests, Completes(r) PROVE KeyInv'
    <2>1. /\ Only(r) /\ req'[r].key = req[r].key /\ req[r].pc = "complete" /\ Job(r).op = "create"
          /\ published' = [published EXCEPT ![Job(r).net] = @ \union {r}]
      BY <1>5 DEF Completes, Moves, At, Publish
    <2>2. Has(Job(r).net, r)
      BY <2>1 DEF CeremonyInv
    <2>3. \A n \in Networks : \A k \in published'[n] : k \in published[n] \/ Has(n, k)
      BY <1>0, <2>1, <2>2 DEF Shapes
    <2> QED
      BY <1>0, <1>2, <2>1, <2>3 DEF Only
  <1>6. ASSUME NEW r \in Requests, Starts(r) PROVE KeyInv'
    <2>1. /\ Only(r) /\ published' = published
          /\ Job(r).op = "decrypt" /\ "stray" \notin Job(r).flaws
                => req'[r].key \in published[Job(r).net]
      BY <1>6 DEF Starts
    <2> QED
      BY <1>0, <1>2, <2>1 DEF Only
  <1>7. CASE Loses
    BY <1>0, <1>2, <1>7 DEF Loses
  <1> QED
    BY <1>3, <1>4, <1>5, <1>6, <1>7 DEF Effect

\* A decryption sent after the revocation does not get past the state check.
LEMMA LateStep ==
    ASSUME Shapes, LateInv, Effect
    PROVE  LateInv'
  <1>0. load' = load /\ Requests \subseteq Slots /\ \A r \in Requests : Job(r).net \in Networks
    BY RowsOnlyForward, RequestsInSlots
  <1> DEFINE Past == {"idle", "nonce", "unwrap", "audit", "served"}
  <1>1. ASSUME \A s \in late' : /\ s \in Requests
                                /\ s \in late \/ network[Job(s).net].state = "revoked"
                                /\ Job(s).op = "decrypt" =>
                                      \/ req'[s].pc \notin Past
                                      \/ s \in late /\ req'[s].pc = req[s].pc
        PROVE  LateInv'
    <2>1. ASSUME NEW s \in late'
          PROVE  /\ s \in Requests /\ network'[Job(s).net].state = "revoked"
                 /\ Job(s).op = "decrypt" => req'[s].pc \notin Past
      <3>1. s \in Requests /\ network[Job(s).net].state = "revoked"
        BY <1>1, <2>1 DEF LateInv
      <3>2. network'[Job(s).net].state = "revoked"
        BY <1>0, <3>1, RowsOnlyForward
      <3>3. Job(s).op = "decrypt" => req'[s].pc \notin Past
        BY <1>1, <2>1 DEF LateInv
      <3> QED
        BY <3>1, <3>2, <3>3
    <2> QED
      BY <1>0, <2>1 DEF LateInv, Requests, Job
  <1>2. ASSUME NEW r \in Requests,
               \/ Refuses(r) \/ Passes(r) \/ Consumes(r) \/ Begins(r) \/ Inserts(r) \/ Joins(r)
               \/ Completes(r) \/ Revokes(r) \/ Reads(r) \/ Releases(r)
        PROVE  LateInv'
    <2>1. /\ Only(r) /\ late' = late
          /\ \/ req'[r].pc \notin Past
             \/ Job(r).op # "decrypt"
             \/ req[r].pc \in Past
             \/ network[Job(r).net].state # "revoked"
      BY <1>2 DEF Refuses, Passes, Consumes, Begins, Inserts, Joins, Completes, Revokes, Reads,
                  Releases, Moves, At
    <2>2. r \in late /\ Job(r).op = "decrypt" => req'[r].pc \notin Past
      BY <2>1 DEF LateInv
    <2> QED
      BY <1>0, <1>1, <2>1, <2>2 DEF Only, LateInv
  <1>3. ASSUME NEW r \in Requests, Starts(r) PROVE LateInv'
    <2>1. /\ Only(r) /\ req'[r].pc \notin Past
          /\ \A s \in late' : s \in late \/ (s = r /\ network[Job(r).net].state = "revoked")
      BY <1>3 DEF Starts
    <2> QED
      BY <1>0, <1>1, <2>1 DEF Only, LateInv
  <1>4. CASE Loses
    BY <1>0, <1>1, <1>4 DEF Loses, LateInv
  <1> QED
    BY <1>2, <1>3, <1>4 DEF Effect

\* An answered revocation holds.
LEMMA RevocationStep ==
    ASSUME Shapes, RevocationHolds, Effect
    PROVE  RevocationHolds'
  <1>0. load' = load /\ Requests \subseteq Slots /\ \A r \in Requests : Job(r).net \in Networks
    BY RowsOnlyForward, RequestsInSlots
  <1>1. ASSUME NEW s \in Requests, Job(s).op = "revoke", req'[s].pc = "served"
        PROVE  req[s].pc = "served" \/ Revokes(s)
    <2>1. ASSUME NEW r \in Requests,
                 \/ Refuses(r) \/ Passes(r) \/ Consumes(r) \/ Begins(r) \/ Inserts(r) \/ Joins(r)
                 \/ Completes(r) \/ Reads(r) \/ Releases(r) \/ Starts(r)
          PROVE  Only(r) /\ (req'[r].pc # "served" \/ Job(r).op # "revoke")
      BY <2>1 DEF Refuses, Passes, Consumes, Begins, Inserts, Joins, Completes, Reads, Releases,
                  Starts, Moves, At
    <2>2. ASSUME NEW r \in Requests, Only(r), r # s PROVE req'[s] = req[s]
      BY <1>0, <2>2 DEF Only
    <2>3. ASSUME NEW r \in Requests, Revokes(r) PROVE Only(r)
      BY <2>3 DEF Revokes, Moves
    <2>4. CASE Loses
      BY <1>0, <1>1, <2>4 DEF Loses
    <2> QED
      BY <1>1, <2>1, <2>2, <2>3, <2>4 DEF Effect
  <1>2. ASSUME NEW s \in Requests, Revokes(s) PROVE network'[Job(s).net].state = "revoked"
    BY <1>0, <1>2 DEF Revokes, Shapes
  <1>3. ASSUME NEW s \in Requests, Job(s).op = "revoke", req'[s].pc = "served"
        PROVE  network'[Job(s).net].state = "revoked"
    BY <1>0, <1>1, <1>2, <1>3, RowsOnlyForward DEF RevocationHolds, Served, At
  <1> QED
    BY <1>0, <1>3 DEF RevocationHolds, Served, At, Requests, Job

\* A released key is audited.
LEMMA AuditStep ==
    ASSUME Shapes, ReleasedIsAudited, Effect
    PROVE  ReleasedIsAudited'
  <1>0. load' = load /\ Requests \subseteq Slots
    BY RowsOnlyForward, RequestsInSlots
  <1>1. ASSUME NEW s \in Requests, Job(s).op = "decrypt", req'[s].pc = "served"
        PROVE  req[s].pc = "served" \/ Releases(s)
    <2>1. ASSUME NEW r \in Requests,
                 \/ Refuses(r) \/ Passes(r) \/ Consumes(r) \/ Begins(r) \/ Inserts(r) \/ Joins(r)
                 \/ Completes(r) \/ Revokes(r) \/ Reads(r) \/ Starts(r)
          PROVE  Only(r) /\ (req'[r].pc # "served" \/ Job(r).op # "decrypt")
      BY <2>1 DEF Refuses, Passes, Consumes, Begins, Inserts, Joins, Completes, Revokes, Reads,
                  Starts, Moves, At
    <2>2. ASSUME NEW r \in Requests, Only(r), r # s PROVE req'[s] = req[s]
      BY <1>0, <2>2 DEF Only
    <2>3. ASSUME NEW r \in Requests, Releases(r) PROVE Only(r)
      BY <2>3 DEF Releases, Moves
    <2>4. CASE Loses
      BY <1>0, <1>1, <2>4 DEF Loses
    <2> QED
      BY <1>1, <2>1, <2>2, <2>3, <2>4 DEF Effect
  <1>2. \A s \in Requests : RequestHash(s) \in Hashes
    BY DEF Hashes
  <1>3. ASSUME NEW r \in Requests, Releases(r)
        PROVE  /\ audit'[RequestHash(r)] # None
               /\ \A h \in Hashes : audit[h] # None => audit'[h] # None
    BY <1>2, <1>3, NoneAssumption DEF Releases, Recorded, Shapes
  <1>4. \/ \A h \in Hashes : audit[h] # None => audit'[h] # None
        \/ \E r \in Requests : Releases(r)
    BY DEF Effect, Refuses, Passes, Consumes, Begins, Inserts, Joins, Completes, Revokes, Reads,
           Starts, Loses
  <1>5. ASSUME NEW s \in Requests, Job(s).op = "decrypt", req'[s].pc = "served"
        PROVE  audit'[RequestHash(s)] # None
    <2>1. CASE Releases(s)
      BY <1>3, <2>1
    <2>2. CASE req[s].pc = "served"
      <3>1. audit[RequestHash(s)] # None
        BY <1>5, <2>2 DEF ReleasedIsAudited, Served, At
      <3> QED
        BY <1>2, <1>3, <1>4, <3>1
    <2> QED
      BY <1>1, <1>5, <2>1, <2>2
  <1> QED
    BY <1>0, <1>5 DEF ReleasedIsAudited, Served, At, Requests, Job, RequestHash

-----------------------------------------------------------------------------
LEMMA InitHolds == Init => IInv
  <1> SUFFICES ASSUME Init PROVE IInv
    OBVIOUS
  <1>1. Shapes
    BY DEF Init, Shapes, NoRow, NoCeremony, Idle
  <1>2. \A r \in Requests : req[r].pc = "idle" /\ ceremony[r].state = "absent"
    BY <1>1, RequestsInSlots DEF Init, Idle, NoCeremony
  <1>3. NonceInv /\ CeremonyInv
    BY <1>2 DEF NonceInv, Holds, CeremonyInv
  <1>4. KeyInv /\ LateInv
    BY <1>2 DEF Init, KeyInv, LateInv
  <1>5. RevocationHolds /\ ReleasedIsAudited
    BY <1>2 DEF RevocationHolds, ReleasedIsAudited, Served, At
  <1> QED
    BY <1>1, <1>3, <1>4, <1>5 DEF IInv

LEMMA Invariance == Spec => []IInv
  <1>1. IInv /\ [Next]_vars => IInv'
    BY NextEffect, ShapesStep, NonceStep, CeremonyStep, KeyStep, LateStep, RevocationStep,
       AuditStep
    DEF IInv
  <1> QED
    BY <1>1, InitHolds, PTL DEF Spec

\* A nonce of a requester serves one request at most (consume_nonce).
THEOREM NoncesServeOnce == Spec => []NonceServesOnce
  <1>1. IInv => NonceServesOnce
    BY DEF IInv, NonceInv, Holds, NonceServesOnce, Served, At
  <1> QED
    BY <1>1, Invariance, PTL

\* A completed ceremony belongs to a network that exists with its key and its
\* member, whatever crashed or failed (create_one_of_one_network).
THEOREM CompletionSound == Spec => []CompletedMeansCreated
  <1>1. IInv => CompletedMeansCreated
    BY DEF IInv, CeremonyInv, Has, CompletedMeansCreated
  <1> QED
    BY <1>1, Invariance, PTL

\* Every public key given out is the one whose private half is sealed in the
\* row, and what was wrapped to it opens (KeyBackend::unwrap).
THEOREM PublishedKeysOpen == Spec => []PublishedKeyOpens
  <1>1. IInv => PublishedKeyOpens
    BY DEF IInv, Shapes, KeyInv, Has, PublishedKeyOpens, At
  <1> QED
    BY <1>1, Invariance, PTL

\* An answered revocation is final, and no decryption sent after it took
\* effect is served (revoke_network, decrypt_authorized).
THEOREM RevocationFinal == Spec => [](RevocationHolds /\ NoDecryptAfterRevocation)
  <1>1. IInv => RevocationHolds /\ NoDecryptAfterRevocation
    BY DEF IInv, LateInv, NoDecryptAfterRevocation, Served, At
  <1> QED
    BY <1>1, Invariance, PTL

\* No key is released without a decision in the audit table (record_audit).
THEOREM ReleaseAudited == Spec => []ReleasedIsAudited
  <1>1. IInv => ReleasedIsAudited
    BY DEF IInv
  <1> QED
    BY <1>1, Invariance, PTL

\* A network is created whole, keeps its published key, and once revoked serves
\* nothing more (EncryptionNetworkService).
THEOREM NetworksAreSound == Spec => []NetworksSound
  <1>1. PublishedKeyOpens /\ CompletedMeansCreated /\ (RevocationHolds /\ NoDecryptAfterRevocation)
            => NetworksSound
    BY DEF NetworksSound
  <1> QED
    BY <1>1, PublishedKeysOpen, CompletionSound, RevocationFinal, PTL

\* Every released key has a nonce of its own and a decision in the audit table
\* (decrypt_authorized).
THEOREM ReleasesAreAccounted == Spec => []ReleasesAccounted
  <1>1. NonceServesOnce /\ ReleasedIsAudited => ReleasesAccounted
    BY DEF ReleasesAccounted
  <1> QED
    BY <1>1, NoncesServeOnce, ReleaseAudited, PTL

=============================================================================
