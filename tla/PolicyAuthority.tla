-------------------------- MODULE PolicyAuthority --------------------------
(***************************************************************************)
(* The decisions of the policy authority (policy_authority/): when a       *)
(* stored delegation is live, which status may replace another, and what a *)
(* session root or a descendant must satisfy to be stored.                 *)
(*                                                                         *)
(* A share rests on two authorities, the policy and its enforcement; a     *)
(* session root has both as parents and a descendant has one parent.  The  *)
(* identities, digests and facts that must be equal are checked by the     *)
(* code against the artifacts themselves and are equal here; capabilities  *)
(* are sets.  The row of a delegation stands for the row with its edges,   *)
(* which are written in the same transaction and never change.             *)
(*                                                                         *)
(* Time is counted in half seconds.  The authority works with whole        *)
(* seconds, and so do the artifacts it signs.                              *)
(***************************************************************************)
EXTENDS Naturals, FiniteSets

CONSTANTS
    MaxAge,         \* MAX_STATUS_AGE_SECONDS
    SessionTtl,     \* SESSION_TTL
    Authority,      \* Authority[a]: validity, capabilities and depth of policy and enforcement
    Null            \* no row, no time

Authorities == {"policy", "enforcement"}
Capabilities == UNION {Authority[a].caps : a \in Authorities}

ASSUME AuthorityAssumption ==
    /\ MaxAge \in Nat /\ MaxAge % 2 = 0 /\ SessionTtl \in Nat /\ SessionTtl % 2 = 0
    /\ SessionTtl <= MaxAge
    /\ DOMAIN Authority = Authorities
    /\ \A a \in Authorities :
          /\ Authority[a].nb \in Nat /\ Authority[a].exp \in Nat
          /\ IsFiniteSet(Authority[a].caps)
          /\ Authority[a].depth \in Nat /\ Authority[a].ttl \in Nat
    /\ Null \notin Nat

Second(t) == t \div 2

\* authority_timestamp_value: the nanoseconds are dropped.
WholeSecond(t) == 2 * Second(t)

\* Timestamps are compared as RFC 3339 text, in which "10.5Z" precedes "10Z".
TextBefore(t, u) == Second(t) < Second(u) \/ (Second(t) = Second(u) /\ t > u)

\* ... and a time written with three digits precedes every time of its second.
MillisBefore(t, u) == Second(t) <= Second(u)

Least(S) == CHOOSE n \in S : \A m \in S : n <= m

Status(seq, checked, fresh, revoked) ==
    [seq |-> seq, checked |-> checked, fresh |-> fresh, revoked |-> revoked]

\* The status persist_root_in_transaction and persist_descendant_atomic store.
NewStatus(now) == Status(0, now, now + MaxAge, Null)

FreshStatus(st, now) ==
    st.checked <= now /\ now - st.checked <= MaxAge /\ now < st.fresh

\* ensure_live_model.
Live(row, now) ==
    /\ row.nb <= now /\ now < row.exp
    /\ FreshStatus(row.status, now)
    /\ row.status.fresh - row.status.checked <= MaxAge
    /\ row.status.revoked # Null => now < row.status.revoked

\* validate_status_transition.
ValidTransition(previous, next) ==
    /\ previous.seq < next.seq
    /\ previous.checked <= next.checked
    /\ previous.revoked # Null => next.revoked = previous.revoked
    /\ next.revoked # Null => previous.checked <= next.revoked /\ next.revoked <= next.checked

\* The first lines of apply_status_in_transaction.
Observable(obs, now) == FreshStatus(obs, now) /\ obs.fresh - obs.checked <= MaxAge

AuthorityRow(a, status) ==
    [parents |-> {}, nb |-> Authority[a].nb, exp |-> Authority[a].exp,
     caps |-> Authority[a].caps, depth |-> Authority[a].depth, status |-> status]

\* validate_authority_pair: one owner issued both for the same capabilities, and
\* a session lasts no longer and is delegated no deeper than the policy allows.
ValidPair ==
    LET policy == Authority["policy"]
        enforcement == Authority["enforcement"]
    IN  /\ policy.issuer = enforcement.issuer /\ policy.caps = enforcement.caps
        /\ enforcement.ttl \in 1..SessionTtl /\ enforcement.ttl <= policy.ttl
        /\ policy.mode = "terminal" => enforcement.depth = 0

\* The expiry of a root: the least of the bounds issue_root_in_transaction of
\* the bridge takes, those the session was admitted with among them, without its
\* fraction of a second.
RootExpiry(now, ttl, bounds) ==
    WholeSecond(Least({now + SessionTtl, now + ttl, Authority["enforcement"].exp} \cup bounds))

RootCheckedLate(now, ttl, bounds) ==
    [parents |-> Authorities, nb |-> WholeSecond(now), exp |-> RootExpiry(now, ttl, bounds),
     caps |-> Authority["enforcement"].caps, depth |-> Authority["enforcement"].depth,
     status |-> NewStatus(now)]

Root(now, ttl, bounds) ==
    [parents |-> Authorities, nb |-> WholeSecond(now), exp |-> RootExpiry(now, ttl, bounds),
     caps |-> Authority["enforcement"].caps, depth |-> Authority["enforcement"].depth,
     status |-> NewStatus(WholeSecond(now))]

\* The challenge the authority keeps, opened when the root is issued.
ChallengeState(now) == [issued |-> now, exp |-> now + SessionTtl]

\* validate_challenge.
ValidChallenge(challenge, now) ==
    /\ challenge.issued < challenge.exp /\ challenge.exp - challenge.issued <= SessionTtl
    /\ challenge.issued <= now /\ now < challenge.exp

\* validate_root, with now the whole second the request arrived in: the age of
\* the policy's status, the containment of capabilities, and the times.
ValidRoot(root, policyStatus, now, ttl) ==
    /\ policyStatus.checked <= now /\ now - policyStatus.checked <= MaxAge
    /\ \A a \in Authorities :
          /\ root.caps \subseteq Authority[a].caps
          /\ Authority[a].nb <= root.nb
          /\ root.exp <= Authority[a].exp
    /\ root.depth = Authority["enforcement"].depth
    /\ now <= root.nb /\ root.nb < root.exp
    /\ root.exp <= now + SessionTtl /\ root.exp <= root.nb + ttl

\* validate_descendant; a delegation of depth 0 is terminal.
ValidDescendant(child, parent) ==
    /\ parent.depth # 0 /\ child.depth + 1 = parent.depth
    /\ child.caps \subseteq parent.caps
    /\ parent.nb < child.nb /\ child.exp < parent.exp /\ child.nb < child.exp

=============================================================================
