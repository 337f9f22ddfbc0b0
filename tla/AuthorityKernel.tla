-------------------------- MODULE AuthorityKernel --------------------------
(***************************************************************************)
(* What the store of the policy authority promises: the in-memory          *)
(* reference store (MemoryAuthorityStore and AuthorityKernel in            *)
(* policy_authority/mod.rs), of which the code says that the production    *)
(* store must preserve the same single-transaction method boundary.        *)
(*                                                                         *)
(* A method runs under the mutex of the store, so it is one step.  The     *)
(* share admits what it observed of the two authorities in the transaction *)
(* that stores a root, so a step is any number of observations followed by *)
(* at most one root or descendant.  A row stands for the artifact, its     *)
(* edges and its status, which a method writes together.                   *)
(***************************************************************************)
EXTENDS PolicyAuthority

CONSTANTS
    Sessions,       \* cids of roots and descendants
    ChallengeIds

VARIABLES
    store,          \* artifacts, edges and statuses
    spent           \* the challenges with a consumed_at

kernelVars == <<store, spent>>
StoredCids == Authorities \cup Sessions

Statuses == [seq : Nat, checked : Nat, fresh : Nat, revoked : Nat \cup {Null}]
Rows ==
    [parents : SUBSET StoredCids, nb : Nat, exp : Nat, caps : SUBSET Capabilities, depth : Nat,
     status : Statuses]

KernelInit ==
    /\ store = [c \in StoredCids |-> Null]
    /\ spent = {}

\* ensure_live_in_memory.
LiveInMemory(row, now) ==
    /\ row # Null
    /\ Live(row, now)
    /\ row.status.revoked # Null => row.status.revoked <= row.status.checked

\* The delegations c rests on in a store, itself included: what
\* walk_memory_edges visits.
Walked(rows, c) ==
    LET up[n \in 0..Cardinality(StoredCids)] ==
          IF n = 0 THEN {c}
          ELSE LET below == up[n - 1]
               IN  below \cup UNION {rows[d].parents : d \in {e \in below : rows[e] # Null}}
    IN  up[Cardinality(StoredCids)]

\* insert_verified_authority: the first status is taken as it is given.
Inserted(a, row) == row = AuthorityRow(a, row.status)

\* set_status.
StatusSet(previous, row) ==
    /\ row = [previous EXCEPT !.status = row.status]
    /\ ValidTransition(previous.status, row.status)

\* The store of a step after its observations, before a root or a descendant.
Observed == [c \in StoredCids |-> IF c \in Sessions /\ store[c] = Null THEN Null ELSE store'[c]]

Observations ==
    /\ store' \in [StoredCids -> Rows \cup {Null}]
    /\ \A c \in StoredCids : Observed[c] # store[c] =>
          IF store[c] = Null THEN c \in Authorities /\ Inserted(c, Observed[c])
          ELSE Observed[c] # Null /\ StatusSet(store[c], Observed[c])

\* issue_root.
IssueRoot(c, challenge) ==
    LET root == store'[c]
        now == root.status.checked
    IN  /\ store[c] = Null /\ root # Null
        /\ challenge \notin spent
        /\ \A a \in Authorities : LiveInMemory(Observed[a], now)
        /\ root.parents = Authorities
        /\ ValidRoot(root, Observed["policy"].status, now, Authority["enforcement"].ttl)
        /\ root.status = NewStatus(now)
        /\ store' = [Observed EXCEPT ![c] = root]
        /\ spent' = spent \cup {challenge}

\* persist_descendant.
PersistDescendant(c, parent) ==
    LET child == store'[c]
        now == child.status.checked
    IN  /\ store[c] = Null /\ child # Null
        /\ child.parents = {parent}
        /\ Observed[parent] # Null
        /\ ValidDescendant(child, Observed[parent])
        /\ \A d \in Walked(Observed, parent) : LiveInMemory(Observed[d], now)
        /\ child.status = NewStatus(now)
        /\ store' = [Observed EXCEPT ![c] = child]
        /\ UNCHANGED spent

KernelNext ==
    /\ Observations
    /\ \/ store' = Observed /\ UNCHANGED spent
       \/ \E c \in Sessions, challenge \in ChallengeIds : IssueRoot(c, challenge)
       \/ \E c, parent \in Sessions : PersistDescendant(c, parent)

KernelSpec == KernelInit /\ [][KernelNext]_kernelVars

-----------------------------------------------------------------------------
(* What follows for whoever uses the store. *)

\* A stored root or descendant rests on delegations that are stored, and grants
\* no more, no longer and no deeper than each of them (validate_root,
\* validate_descendant).
EdgesAttenuate ==
    \A c \in Sessions : store[c] # Null =>
        \A p \in store[c].parents :
            /\ store[p] # Null
            /\ store[c].caps \subseteq store[p].caps
            /\ store[p].nb <= store[c].nb /\ store[c].exp <= store[p].exp
            /\ p \in Sessions => store[c].depth < store[p].depth

\* What is stored stays as it is but for its status, which only moves forward
\* and from which a revocation never goes away (set_status).
HistoryKept ==
    /\ spent \subseteq spent'
    /\ \A c \in StoredCids : store[c] # Null =>
          /\ store'[c] # Null
          /\ store'[c].parents = store[c].parents /\ store'[c].caps = store[c].caps
          /\ store'[c].exp = store[c].exp
          /\ store[c].status.seq <= store'[c].status.seq
          /\ store[c].status.revoked # Null => store'[c].status.revoked = store[c].status.revoked

=============================================================================
