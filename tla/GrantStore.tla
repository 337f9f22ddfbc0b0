----------------------------- MODULE GrantStore -----------------------------
(***************************************************************************)
(* The grants a node knows, with what they grant: delegations and their    *)
(* ability rows, registered one after the other and revoked, and the       *)
(* capabilities of a policy, each narrower than the one before.            *)
(*                                                                         *)
(* A registration and a revocation are one step here; DelegationChain      *)
(* models how they interleave.  What this module adds is the content: the  *)
(* checks of delegation::validate and invocation::validate on resources,   *)
(* abilities and caveats.                                                  *)
(***************************************************************************)
EXTENDS ProofGraph, CapabilityAlgebra

CONSTANTS
    Workloads   \* the days considered: grants, raw policy capabilities, requests
                \* and the last second of the day (load.last, a bound on the clock)

VARIABLES
    load,       \* the workload of this behaviour; never changes
    stored,     \* delegation rows, with their ability and parent rows
    revoked,    \* delegations some revocation row names
    now,        \* seconds
    caps        \* the policy capabilities admitted so far, widest first

grantVars == <<load, stored, revoked, now, caps>>

\* What a row and a policy capability are made of.
RowOK(r) == r.ability \in Actions /\ (r.resource.path = None \/ r.resource.path \in Seq(Characters))
CapabilityOK(c) == c.actions \subseteq Actions /\ c.path \in Seq(Characters)

ASSUME WorkloadAssumption ==
    \A w \in Workloads :
        /\ \A d \in Delegations :
              w.grants[d].parents \subseteq Delegations /\ \A r \in w.grants[d].rows : RowOK(r)
        /\ \A i \in w.invocations :
              i.parents \subseteq Delegations /\ \A r \in i.rows : RowOK(r)
        /\ \A raw \in w.raws : CapabilityOK(raw)

Content(d) == load.grants[d]

Links == [d \in Delegations |-> IF d \in stored THEN Content(d).parents ELSE {}]

InWindow(d) == Content(d).notBefore <= now /\ now < Content(d).expiry

\* The principal owns the space the row is about.
RootAuthority(row, principal) == row.resource.space.owner = principal

Dependent(rows, principal) == {r \in rows : ~RootAuthority(r, principal)}

\* Neither the delegation nor an ancestor of it is revoked.
Unrevoked(d) == Chain(Links, {d}) \cap revoked = {}

(***************************************************************************)
(* delegation::validate.                                                   *)
(***************************************************************************)
Cited(d) == {p \in Content(d).parents \cap stored : Content(p).to = Content(d).from}

WithinWindowOf(p, d) ==
    Content(d).expiry <= Content(p).expiry /\ Content(d).notBefore >= Content(p).notBefore

\* Mutant: the parent's ability is not looked at.
SupportsAnyAbility(parents, row) ==
    \E p \in parents : \E q \in Content(p).rows :
        extends(row.resource, q.resource) /\ caveats_contain_child(q.caveats, row.caveats)

Supported(parents, row) == \E p \in parents : \E q \in Content(p).rows : Supports(q, row)

validate(d) ==
    LET dependent == Dependent(Content(d).rows, Content(d).from) IN
    dependent # {} =>
        /\ Cited(d) # {}
        /\ \A p \in Cited(d) : Unrevoked(p) /\ ~Content(p).terminal
        /\ \A r \in dependent : Supported({p \in Cited(d) : WithinWindowOf(p, d)}, r)

\* process: the signature is good and the time is right, the authority is
\* there, and every cited delegation is (a foreign key).
Registers(d) == InWindow(d) /\ validate(d) /\ Content(d).parents \subseteq stored

(***************************************************************************)
(* invocation::validate.                                                   *)
(***************************************************************************)
Accepts(parents, rows, invoker) ==
    LET dependent == Dependent(rows, invoker) IN
    dependent # {} =>
        /\ parents # {}
        /\ parents \subseteq stored
        /\ \A p \in parents : Content(p).to = invoker
        /\ \A p \in parents : Unrevoked(p) /\ \A d \in Chain(Links, {p}) : InWindow(d)
        /\ \A r \in dependent : Supported(parents, r)

-----------------------------------------------------------------------------
GrantInit ==
    /\ load \in Workloads
    /\ stored = {}
    /\ revoked = {}
    /\ now = 0
    /\ caps = <<>>

Register(d) ==
    /\ d \in {x \in Delegations \ stored : Registers(x)}
    /\ stored' = stored \cup {d}
    /\ UNCHANGED <<load, revoked, now, caps>>

Revoke(d) ==
    /\ d \in stored
    /\ revoked' = revoked \cup {d}
    /\ UNCHANGED <<load, stored, now, caps>>

\* A capability is admitted below the last one.
Admits(raw) == Parses(raw) /\ (caps # <<>> => contains(caps[Len(caps)], parse(raw)))

Attenuate(raw) ==
    /\ Admits(raw)
    /\ caps' = Append(caps, parse(raw))
    /\ UNCHANGED <<load, stored, revoked, now>>

Tick ==
    /\ now < load.last
    /\ now' = now + 1
    /\ UNCHANGED <<load, stored, revoked, caps>>

GrantNext ==
    \/ \E d \in Delegations : Register(d) \/ Revoke(d)
    \/ \E raw \in load.raws : Attenuate(raw)
    \/ Tick

GrantSpec == GrantInit /\ [][GrantNext]_grantVars

-----------------------------------------------------------------------------
(***************************************************************************)
(* Whatever invocation::validate would accept now rests on the owner of    *)
(* the space: each of its rows is the invoker's own, or is contained in a  *)
(* row that the owner of that row's space granted, by a delegation of the  *)
(* cited chain that is neither revoked nor outside its window.  Each       *)
(* registration compared a row with its direct parents only.               *)
(***************************************************************************)
RestsOnOwner(parents, row) ==
    \E a \in Chain(Links, parents) :
        /\ a \notin revoked
        /\ InWindow(a)
        /\ \E r \in Content(a).rows : RootAuthority(r, Content(a).from) /\ Supports(r, row)

RootedAuthority ==
    \A i \in load.invocations :
        Accepts(i.parents, i.rows, i.invoker) =>
            \A r \in Dependent(i.rows, i.invoker) : RestsOnOwner(i.parents, r)

(***************************************************************************)
(* Each policy capability is contained in every earlier one, although      *)
(* PolicyCapability::contains compared it with the last one only.          *)
(***************************************************************************)
Attenuates == \A i, j \in DOMAIN caps : i < j => contains(caps[i], caps[j])

(***************************************************************************)
(* Authority only narrows: it comes from an owner, and a policy stays      *)
(* within the one above it (delegation validate, PolicyCapability contains).*)
(***************************************************************************)
AuthorityNarrows == RootedAuthority /\ Attenuates

=============================================================================
