------------------------- MODULE MCDelegationChain -------------------------
(***************************************************************************)
(* Instances of DelegationChain.  The owner of a space delegates to Ann    *)
(* (2), Ann to Bob (3), Bob to Cho (1); delegation 4 is a control session  *)
(* of the owner's, held by a session key; delegation 5 is a terminal grant *)
(* from Ann to Bob, which delegation 7 hands on; delegation 6 cites a      *)
(* grant that was not made to its delegator and outlives the one that was. *)
(* Hash order differs from citation order.  No walk on these chains is cut *)
(* short, although there are more delegations than a walk may visit.       *)
(***************************************************************************)
EXTENDS DelegationChain

CONSTANTS owner, ann, bob, cho, key

MCDelegations == 1..7
MCPrincipals == {owner, ann, bob, cho, key}
MCCapabilities == {"write", "read", "control"}

Grant(from, to, parents, caps, expiry, terminal) ==
    [delegator |-> from, delegatee |-> to, parents |-> parents, caps |-> caps,
     notBefore |-> 0, expiry |-> expiry, terminal |-> terminal]

MCContent ==
    [d \in MCDelegations |->
        CASE d = 2 -> Grant(owner, ann, {}, {"write"}, 9, FALSE)
          [] d = 3 -> Grant(ann, bob, {2}, {"write"}, 1, FALSE)
          [] d = 1 -> Grant(bob, cho, {3}, {"read"}, 1, FALSE)
          [] d = 4 -> Grant(owner, key, {}, {"control"}, 9, FALSE)
          [] d = 5 -> Grant(ann, bob, {2}, {"read"}, 9, TRUE)
          [] d = 6 -> Grant(bob, cho, {2, 3}, {"write"}, 9, FALSE)
          [] d = 7 -> Grant(bob, cho, {5}, {"read"}, 9, FALSE)]

\* The owner is the root of every capability of the space.
MCRootAuthority(c, p) == p = owner
MCSpaceOwner(c, p) == p = owner
MCCovers(parent, c) == parent = c \/ (parent = "write" /\ c = "read")
MCControls(action, c, target, delegator) == c = "control"

Ask(kind, target, cites, signer, caps) ==
    [kind |-> kind, target |-> target, cites |-> cites, signer |-> signer, caps |-> caps]

\* The requests a run draws from.
AllRequests ==
    [register3 |-> Ask("delegate", 3, {2}, ann, {}),
     register6 |-> Ask("delegate", 6, {2, 3}, bob, {}),
     register7 |-> Ask("delegate", 7, {5}, bob, {}),
     revoke2 |-> Ask("revoke", 2, {}, owner, {}),
     sessionRevoke2 |-> Ask("revoke", 2, {4}, key, {}),
     revoke4 |-> Ask("revoke", 4, {}, owner, {}),
     bobWrites |-> Ask("invoke", NoDelegation, {3}, bob, {"write"}),
     status3 |-> Ask("status", 3, {4}, key, {})]

MCRequests == DOMAIN AllRequests
MCRequest == AllRequests

Work(engine, requests, registered, until) ==
    [engine |-> engine, requests |-> requests, stored |-> registered, until |-> until]

\* On SQLite a chain is built, revoked and used, and a terminal grant is
\* handed on; on PostgreSQL the chain is there before, and a revocation through
\* a control session races the use of the chain, the revocation of the session
\* and a status query.
MCWorkloads ==
    {Work("sqlite", {"register3", "register6", "revoke2"}, {2}, 1),
     Work("sqlite", {"register3", "revoke2", "bobWrites"}, {2}, 1),
     Work("sqlite", {"register6", "revoke2", "bobWrites"}, {2, 3}, 1),
     Work("sqlite", {"register7", "revoke2"}, {2, 5}, 0),
     Work("postgres", {"bobWrites", "sessionRevoke2", "revoke4"}, {2, 3, 4}, 0),
     Work("postgres", {"bobWrites", "sessionRevoke2", "status3"}, {2, 3, 4}, 0),
     Work("postgres", {"sessionRevoke2", "revoke4", "status3"}, {2, 3, 4}, 0)}

ASSUME NoQueryCut == Uncut

=============================================================================
