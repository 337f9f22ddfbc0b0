--------------------------- MODULE AccountListing ---------------------------
(***************************************************************************)
(* The listings of delegations: the account query, with a status for each  *)
(* record, served in pages (POST /delegations/query), and the listings of  *)
(* one space that an invocation of capabilities/read returns.              *)
(***************************************************************************)
EXTENDS GrantStore, SequencesExt

CONSTANTS
    Keys        \* DIDs that are session keys (did:key); the others are accounts (did:pkh)

(***************************************************************************)
(* The account of a query, and the session keys that list for it.          *)
(***************************************************************************)
ListsAccount(row, principal) ==
    /\ row.ability = "delegation/list"
    /\ row.resource.service = "delegation"
    /\ row.resource.path \in {None, <<>>}
    /\ row.resource.fragment = None
    /\ row.resource.space.owner = principal

\* The principal a query may ask about, if the invocation is of the right form.
account_query_principal(i, principal) ==
    /\ \A r \in i.rows : ListsAccount(r, principal)
    /\ principal \notin Keys
    /\ \/ i.parents = {} /\ i.invoker = principal
       \/ \E p \in i.parents :
             i.parents = {p} /\ \E d \in Chain(Links, {p}) : Content(d).from = principal

controls_account(d, principal) == \E r \in Content(d).rows : ListsAccount(r, principal)

account_session_dids(principal) ==
    LET closed(S) == \A d \in stored :
            Content(d).from \in S \cup {principal} /\ Content(d).to \in Keys /\ controls_account(d, principal)
                => Content(d).to \in S
    IN {principal} \cup {k \in Keys : \A S \in SUBSET Keys : closed(S) => k \in S}

(***************************************************************************)
(* The status of a record.                                                 *)
(***************************************************************************)
\* Mutant: the window of the record itself is looked at, not its ancestors'.
LifecycleOwn(d) ==
    IF d \in revoked THEN "revoked"
    ELSE IF Chain(Links, {d}) \cap revoked # {} THEN "ancestor_revoked"
    ELSE IF now >= Content(d).expiry THEN "expired" ELSE "active"

lifecycle(d) ==
    IF d \in revoked THEN "revoked"
    ELSE IF Chain(Links, {d}) \cap revoked # {} THEN "ancestor_revoked"
    ELSE IF \E a \in Chain(Links, {d}) : now >= Content(a).expiry THEN "expired"
    ELSE IF \E a \in Chain(Links, {d}) : now < Content(a).notBefore THEN "pending"
    ELSE "active"

StatusMatches(status, wanted) ==
    \/ wanted \in {None, status}
    \/ wanted = "revoked" /\ status = "ancestor_revoked"

DirectionMatches(d, dids, direction) ==
    CASE direction = "granted" -> Content(d).from \in dids
      [] direction = "received" -> Content(d).from \notin dids
      [] OTHER -> TRUE

InSpace(d, space) == \E r \in Content(d).rows : r.resource.space = space

(***************************************************************************)
(* A page: the records newest first, after the cursor, at most limit of    *)
(* them; the cursor of the next page is the last record of this one.       *)
(***************************************************************************)
Related(principal) ==
    LET dids == account_session_dids(principal) IN
    {d \in stored : Content(d).from \in dids \/ Content(d).to \in dids}

View(q) ==
    {d \in Related(q.principal) :
        /\ DirectionMatches(d, account_session_dids(q.principal), q.direction)
        /\ q.space = None \/ InSpace(d, q.space)
        /\ StatusMatches(lifecycle(d), q.status)}

Newer(a, b) ==
    Content(a).issued > Content(b).issued \/ (Content(a).issued = Content(b).issued /\ a < b)

Records(q) == SetToSortSeq(View(q), Newer)

CursorFound(q, cursor) == cursor = None \/ cursor \in View(q)

After(records, cursor) ==
    IF cursor = None THEN records
    ELSE SubSeq(records, 1 + CHOOSE i \in DOMAIN records : records[i] = cursor, Len(records))

Page(q, cursor) ==
    LET rest == After(Records(q), cursor) IN
    [items |-> SubSeq(rest, 1, IF Len(rest) > q.limit THEN q.limit ELSE Len(rest)),
     cursor |-> IF Len(rest) > q.limit THEN rest[q.limit] ELSE None]

(***************************************************************************)
(* The listings of a space.  The direction filter is about the account the *)
(* caller's key stands for: the account met on the way up by any one       *)
(* delegation to each key, or the key itself when the way ends.            *)
(***************************************************************************)
get_valid_delegations(space) == {d \in stored : d \notin revoked /\ InWindow(d) /\ InSpace(d, space)}

resolve_pkh_did(did) ==
    IF did \notin Keys THEN {did}
    ELSE LET to(k) == {d \in stored : Content(d).to = k}
             closed(S) == did \in S /\ \A k \in S : \A d \in to(k) :
                 Content(d).from \in Keys => Content(d).from \in S
             above == {k \in Keys : \A S \in SUBSET Keys : closed(S) => k \in S}
         IN UNION {{Content(d).from : d \in to(k)} \ Keys : k \in above}
                \cup (IF \E k \in above : to(k) = {} THEN {did} ELSE {})

get_filtered_delegations(space, account, f) ==
    {d \in get_valid_delegations(space) :
        /\ f.direction = "created" => Content(d).from = account
        /\ f.direction = "received" => Content(d).to = account
        /\ f.path # None => \E r \in Content(d).rows :
                                r.resource.path # None /\ StartsWith(r.resource.path, f.path)
        /\ f.actions # {} => \E r \in Content(d).rows : r.ability \in f.actions}

\* get_delegation_chain goes on with d: stored, not itself revoked, in its
\* window when the listing began, with a row of the space.
ContinuesChain(d, space, time) ==
    /\ d \in stored /\ d \notin revoked
    /\ Content(d).notBefore <= time /\ time < Content(d).expiry
    /\ InSpace(d, space)

=============================================================================
