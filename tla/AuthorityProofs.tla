--------------------------- MODULE AuthorityProofs --------------------------
(***************************************************************************)
(* Where authority comes from, for every graph and every store.            *)
(*                                                                         *)
(* The walk.  The ancestor walk of models/revocation.rs is right for every *)
(* set of delegations, every graph and every limit.                        *)
(*                                                                         *)
(* Containment.  It is checked one step at a time, and holds from end to   *)
(* end.  A capability of a policy is compared with the one before it, a    *)
(* row of a delegation with the rows of its direct parents.  That the      *)
(* result is contained in the first one, or rests on the owner of the      *)
(* space, needs that each relation is transitive: the closure of actions,  *)
(* the paths, the caveats with their statements and pinned parameters.     *)
(*                                                                         *)
(* The store of the policy authority, whatever artifacts, challenges and   *)
(* status observations reach it.                                           *)
(***************************************************************************)
EXTENDS ChainTraversal, GrantStore, AuthorityKernel, FiniteSetTheorems, TLAPS

\* First-order reasoning, unless a step names another prover.
USE Zenon

-----------------------------------------------------------------------------
(***************************************************************************)
(* The strengthening: nothing known is outside the chain, the roots are    *)
(* known, and the parents of a visited node are known unless a query was   *)
(* cut short.  What is known stays within the limit until the walk gives   *)
(* up.                                                                     *)
(***************************************************************************)
Seen == visited \cup frontier

InsideChain == Seen \subseteq Chain(links, roots)

RootsSeen == roots \subseteq Seen

ParentsSeen ==
    result # "LimitExceeded" /\ ~cut => \A d \in visited : links[d] \subseteq Seen

NothingLeft == result = "ok" => frontier = {}

SeenWithinLimit == result # "LimitExceeded" => WithinLimit(Seen)

GaveUpOnLongChain == result = "LimitExceeded" => ~WithinLimit(Chain(links, roots))

WalkInv ==
    /\ TypeOK
    /\ InsideChain
    /\ RootsSeen
    /\ ParentsSeen
    /\ NothingLeft
    /\ SeenWithinLimit
    /\ GaveUpOnLongChain

-----------------------------------------------------------------------------
(***************************************************************************)
(* A chain contains its roots and the parents of its members, is contained *)
(* in every closed set that contains the roots, and is finite.             *)
(***************************************************************************)
LEMMA ChainHasRoots ==
    ASSUME NEW lt \in LinkTable, NEW rs \in SUBSET Delegations
    PROVE  rs \subseteq Chain(lt, rs)
BY DEF Chain

LEMMA ChainClosed ==
    ASSUME NEW lt \in LinkTable, NEW rs \in SUBSET Delegations, NEW d \in Chain(lt, rs)
    PROVE  lt[d] \subseteq Chain(lt, rs)
<1>1. d \in Delegations /\ lt[d] \subseteq Delegations
  BY DEF Chain, LinkTable
<1>2. ASSUME NEW p \in lt[d], NEW T \in SUBSET Delegations,
             rs \subseteq T, AncestorClosed(lt, T)
      PROVE  p \in T
  <2>1. d \in T
    BY <1>2 DEF Chain
  <2> QED
    BY <1>2, <2>1 DEF AncestorClosed
<1> QED
  BY <1>1, <1>2 DEF Chain

LEMMA ChainLeast ==
    ASSUME NEW lt \in LinkTable, NEW rs \in SUBSET Delegations,
           NEW T \in SUBSET Delegations, rs \subseteq T, AncestorClosed(lt, T)
    PROVE  Chain(lt, rs) \subseteq T
BY DEF Chain

(***************************************************************************)
(* A set that exceeds the limit makes every chain around it exceed it.     *)
(***************************************************************************)
LEMMA LimitMonotone ==
    ASSUME NEW S, NEW T \in SUBSET Delegations, S \subseteq T, ~WithinLimit(S)
    PROVE  ~WithinLimit(T)
<1>1. IsFiniteSet(T)
  BY GraphAssumption, FS_Subset
<1>2. Cardinality(S) <= Cardinality(T) /\ IsFiniteSet(S)
  BY <1>1, FS_Subset
<1>3. Cardinality(S) \in Nat /\ Cardinality(T) \in Nat
  BY <1>1, <1>2, FS_CardinalityType
<1> QED
  BY <1>2, <1>3, GraphAssumption, SMT DEF WithinLimit

LEMMA RowsAreParents ==
    ASSUME NEW lt \in LinkTable, NEW d \in Delegations, NEW S, NEW rows \in ParentRows(lt, d, S)
    PROVE  rows \subseteq lt[d]
BY DEF ParentRows

-----------------------------------------------------------------------------
LEMMA InitWalk == Init => WalkInv
<1> SUFFICES ASSUME Init PROVE WalkInv
  OBVIOUS
<1>1. links \in LinkTable /\ roots \in SUBSET Delegations /\ Seen = roots
  BY DEF Init, Seen
<1>2. TypeOK
  BY <1>1 DEF Init, TypeOK
<1>3. InsideChain /\ RootsSeen
  BY <1>1, ChainHasRoots DEF InsideChain, RootsSeen
<1>4. ParentsSeen /\ NothingLeft
  BY DEF Init, ParentsSeen, NothingLeft
<1>5. SeenWithinLimit
  BY <1>1 DEF Init, SeenWithinLimit
<1>6. GaveUpOnLongChain
  <2>1. Chain(links, roots) \in SUBSET Delegations
    BY DEF Chain
  <2> QED
    BY <1>1, <2>1, ChainHasRoots, LimitMonotone DEF Init, GaveUpOnLongChain
<1> QED
  BY <1>2, <1>3, <1>4, <1>5, <1>6 DEF WalkInv

LEMMA VisitWalk ==
    ASSUME WalkInv, NEW d \in Delegations, Visit(d)
    PROVE  WalkInv'
<1> USE DEF WalkInv
<1>1. PICK rows \in ParentRows(links, d, visited \cup {d}) :
         /\ cut' = (cut \/ rows # links[d])
         /\ visited' = visited \cup {d}
         /\ IF WithinLimit(Known(frontier, visited, rows))
            THEN /\ frontier' = Push(frontier, visited', rows)
                 /\ UNCHANGED result
            ELSE /\ result' = "LimitExceeded"
                 /\ UNCHANGED frontier
  BY DEF Visit
<1>2. /\ result = "running" /\ d \in frontier
      /\ UNCHANGED <<links, roots>>
  BY DEF Visit
<1>3. links \in LinkTable /\ roots \in SUBSET Delegations
  BY DEF TypeOK
<1>4. rows \subseteq links[d] /\ links[d] \subseteq Delegations
  BY <1>3, RowsAreParents DEF LinkTable
<1>5. Known(frontier, visited, rows) \subseteq Chain(links, roots)
  <2>1. d \in Chain(links, roots) /\ Seen \subseteq Chain(links, roots)
    BY <1>2 DEF InsideChain, Seen
  <2>2. links[d] \subseteq Chain(links, roots)
    BY <1>3, <2>1, ChainClosed
  <2> QED
    BY <1>4, <2>1, <2>2 DEF Known, Seen
<1>6. Chain(links, roots) \in SUBSET Delegations
  BY DEF Chain
<1>7. CASE WithinLimit(Known(frontier, visited, rows))
  <2>1. frontier' = (frontier \cup rows) \ visited' /\ result' = "running"
    BY <1>1, <1>2, <1>7 DEF Push
  <2>2. Seen' = Known(frontier, visited, rows)
    BY <1>1, <1>2, <2>1 DEF Seen, Known
  <2>3. TypeOK'
    BY <1>1, <1>2, <1>4, <2>1 DEF TypeOK
  <2>4. InsideChain' /\ RootsSeen'
    BY <1>2, <1>5, <2>2 DEF InsideChain, RootsSeen, Known, Seen
  <2>5. ParentsSeen'
    <3> SUFFICES ASSUME ~cut', NEW e \in visited' PROVE links[e] \subseteq Seen'
      BY <1>2 DEF ParentsSeen
    <3>1. ~cut /\ rows = links[d]
      BY <1>1 DEF TypeOK
    <3>2. CASE e = d
      BY <2>2, <3>1, <3>2 DEF Known
    <3>3. CASE e # d
      <4>1. links[e] \subseteq Seen
        BY <1>1, <1>2, <3>1, <3>3 DEF ParentsSeen
      <4> QED
        BY <2>2, <4>1 DEF Known, Seen
    <3> QED
      BY <3>2, <3>3
  <2>6. NothingLeft' /\ GaveUpOnLongChain'
    BY <2>1 DEF NothingLeft, GaveUpOnLongChain
  <2>7. SeenWithinLimit'
    BY <1>7, <2>2 DEF SeenWithinLimit, WithinLimit
  <2> QED
    BY <2>3, <2>4, <2>5, <2>6, <2>7
<1>8. CASE ~WithinLimit(Known(frontier, visited, rows))
  <2>1. frontier' = frontier /\ result' = "LimitExceeded"
    BY <1>1, <1>8
  <2>2. Seen' = Seen
    BY <1>1, <1>2, <2>1 DEF Seen
  <2>3. TypeOK'
    BY <1>1, <1>2, <2>1 DEF TypeOK
  <2>4. InsideChain' /\ RootsSeen'
    BY <1>2, <2>2 DEF InsideChain, RootsSeen
  <2>5. ParentsSeen' /\ NothingLeft' /\ SeenWithinLimit'
    BY <2>1 DEF ParentsSeen, NothingLeft, SeenWithinLimit
  <2>6. ~WithinLimit(Chain(links, roots))
    BY <1>5, <1>6, <1>8, LimitMonotone
  <2>7. GaveUpOnLongChain'
    BY <1>2, <2>6 DEF GaveUpOnLongChain, WithinLimit
  <2> QED
    BY <2>3, <2>4, <2>5, <2>7
<1> QED
  BY <1>7, <1>8

LEMMA StepWalk == WalkInv /\ [Next]_vars => WalkInv'
<1> SUFFICES ASSUME WalkInv, [Next]_vars PROVE WalkInv'
  OBVIOUS
<1> USE DEF WalkInv
<1>1. ASSUME NEW d \in Delegations, Visit(d) PROVE WalkInv'
  BY <1>1, VisitWalk
<1>2. CASE Return
  <2>1. TypeOK'
    BY <1>2 DEF Return, TypeOK
  <2>2. Seen' = Seen
    BY <1>2 DEF Return, Seen
  <2>3. InsideChain' /\ RootsSeen'
    BY <1>2, <2>2 DEF Return, InsideChain, RootsSeen
  <2>4. ParentsSeen' /\ NothingLeft' /\ SeenWithinLimit' /\ GaveUpOnLongChain'
    BY <1>2, <2>2 DEF Return, ParentsSeen, NothingLeft, SeenWithinLimit, GaveUpOnLongChain,
                      WithinLimit
  <2> QED
    BY <2>1, <2>3, <2>4
<1>3. CASE UNCHANGED vars
  BY <1>3 DEF vars, TypeOK, Seen, InsideChain, RootsSeen, ParentsSeen, NothingLeft,
              SeenWithinLimit, GaveUpOnLongChain, WithinLimit
<1> QED
  BY <1>1, <1>2, <1>3 DEF Next, Finished

(***************************************************************************)
(* The strengthening holds throughout every call.                          *)
(***************************************************************************)
THEOREM WalkInvariant == Spec => []WalkInv
BY InitWalk, StepWalk, PTL DEF Spec

(***************************************************************************)
(* The variables of a call keep their types.                               *)
(***************************************************************************)
THEOREM TypeCorrect == Spec => []TypeOK
<1>1. WalkInv => TypeOK
  BY DEF WalkInv
<1> QED
  BY <1>1, WalkInvariant, PTL

(***************************************************************************)
(* ancestor_chain_ids_for_roots returns the chain of its roots, no more    *)
(* and no less, whenever no parent query was cut by its LIMIT.             *)
(***************************************************************************)
THEOREM WalkExact == Spec => []ExactUnlessCut
<1>1. WalkInv => ExactUnlessCut
  <2> SUFFICES ASSUME WalkInv, result = "ok", ~cut
               PROVE  visited = Chain(links, roots)
    BY DEF ExactUnlessCut
  <2> USE DEF WalkInv
  <2>1. Seen = visited
    BY DEF NothingLeft, Seen
  <2>2. roots \subseteq visited /\ AncestorClosed(links, visited)
    BY <2>1 DEF RootsSeen, ParentsSeen, AncestorClosed
  <2>3. Chain(links, roots) \subseteq visited
    BY <2>2, ChainLeast DEF TypeOK
  <2> QED
    BY <2>1, <2>3 DEF InsideChain
<1> QED
  BY <1>1, WalkInvariant, PTL

(***************************************************************************)
(* It reports LimitExceeded only for a chain of more than                  *)
(* MAX_CHAIN_TRAVERSAL_NODES delegations and never returns more.           *)
(***************************************************************************)
THEOREM WalkLimit == Spec => []LimitIsExact
<1>1. WalkInv => LimitIsExact
  <2> SUFFICES ASSUME WalkInv PROVE LimitIsExact
    OBVIOUS
  <2> USE DEF WalkInv
  <2>1. result = "ok" => Seen = visited
    BY DEF NothingLeft, Seen
  <2>2. Cardinality(Chain(links, roots)) \in Nat
    <3>1. Chain(links, roots) \in SUBSET Delegations
      BY DEF Chain
    <3> QED
      BY <3>1, GraphAssumption, FS_Subset, FS_CardinalityType
  <2> QED
    BY <2>1, <2>2, GraphAssumption, SMT
    DEF LimitIsExact, GaveUpOnLongChain, SeenWithinLimit, WithinLimit
<1> QED
  BY <1>1, WalkInvariant, PTL

(***************************************************************************)
(* Both facts about ancestor_chain_ids_for_roots together.                 *)
(***************************************************************************)
THEOREM WalkCorrect == Spec => []WalkSound
<1>1. ExactUnlessCut /\ LimitIsExact => WalkSound
  BY DEF WalkSound
<1> QED
  BY <1>1, WalkExact, WalkLimit, PTL

-----------------------------------------------------------------------------
(***************************************************************************)
(* Abilities.  An action in the expansion of another brings its own        *)
(* expansion along.                                                        *)
(***************************************************************************)
LEMMA ExpansionTransitive ==
    ASSUME NEW h \in Actions, NEW m \in Actions, resolve_alias(m) \in Expansion[h]
    PROVE  Expansion[m] \subseteq Expansion[h]
  BY DEF Expansion

\* What confers an ability that confers another confers that one too.
LEMMA AbilityTransitive ==
    ASSUME NEW h \in Actions, NEW m \in Actions, NEW r,
           ability_matches(h, m), ability_matches(m, r)
    PROVE  ability_matches(h, r)
  BY ExpansionTransitive DEF ability_matches

-----------------------------------------------------------------------------
\* Prefixes compose.
LEMMA StartsWithTransitive ==
    ASSUME NEW a \in Seq(Characters), NEW b \in Seq(Characters), NEW c \in Seq(Characters),
           StartsWith(b, a), StartsWith(c, b)
    PROVE  StartsWith(c, a)
  BY SMT DEF StartsWith

\* Paths of a policy.
LEMMA PathTransitive ==
    ASSUME NEW s, NEW a \in Seq(Characters), NEW b \in Seq(Characters), NEW c \in Seq(Characters),
           path_contains(s, a, b), path_contains(s, b, c)
    PROVE  path_contains(s, a, c)
  <1>1. CASE a = b \/ b = c
    BY <1>1
  <1>2. CASE a # b /\ b # c
    <2>1. StartsWith(b, a) /\ StartsWith(c, b) /\ Len(b) > Len(a) /\ Len(c) > Len(b) /\ EndsInSlash(a) /\ s # "sql"
      BY <1>2 DEF path_contains
    <2>2. StartsWith(c, a)
      BY <2>1, StartsWithTransitive
    <2>3. Len(c) > Len(a)
      BY <2>1, SMT
    <2> QED
      BY <2>1, <2>2, <2>3 DEF path_contains
  <1> QED
    BY <1>1, <1>2

\* Paths of resources.
LEMMA ExtendsPathTransitive ==
    ASSUME NEW a, NEW b, NEW c,
           a = None \/ a \in Seq(Characters), b = None \/ b \in Seq(Characters), c = None \/ c \in Seq(Characters),
           ExtendsPath(b, a), ExtendsPath(c, b)
    PROVE  ExtendsPath(c, a)
  <1>1. CASE a = None
    BY <1>1 DEF ExtendsPath
  <1>2. CASE a # None
    <2>1. /\ b # None /\ c # None
          /\ a \in Seq(Characters) /\ b \in Seq(Characters) /\ c \in Seq(Characters)
          /\ StartsWith(b, a) /\ StartsWith(c, b)
      BY <1>2 DEF ExtendsPath
    <2>2. StartsWith(c, a)
      BY <2>1, StartsWithTransitive
    <2>3. ASSUME ~EndsInSlash(a), Len(c) > Len(a) PROVE c[Len(a) + 1] = "/"
      <3>1. Len(a) \in Nat /\ Len(b) \in Nat /\ Len(c) \in Nat /\ Len(a) <= Len(b)
        BY <2>1, SMT DEF StartsWith
      <3>2. CASE Len(b) > Len(a)
        <4>1. b[Len(a) + 1] = "/"
          BY <3>2, <2>1, <2>3, <1>2 DEF ExtendsPath
        <4>2. Len(a) + 1 \in 1..Len(b)
          BY <3>1, <3>2, SMT
        <4> QED
          BY <4>1, <4>2, <2>1 DEF StartsWith
      <3>3. CASE Len(b) = Len(a)
        <4>1. ~EndsInSlash(b)
          BY <3>1, <3>3, <2>1, <2>3, SMT DEF EndsInSlash, StartsWith
        <4> QED
          BY <4>1, <3>3, <2>1, <2>3 DEF ExtendsPath
      <3> QED
        BY <3>1, <3>2, <3>3, SMT
    <2> QED
      BY <2>1, <2>2, <2>3 DEF ExtendsPath
  <1> QED
    BY <1>1, <1>2

-----------------------------------------------------------------------------
\* Pins of a statement survive two narrowings.
LEMMA PinsTransitive ==
    ASSUME NEW a, NEW b, NEW c, PinsKept(a, b), PinsKept(b, c)
    PROVE  PinsKept(a, c)
  <1> SUFFICES ASSUME NEW i \in DOMAIN a.fixed
               PROVE  Pinned(c, a.fixed[i].index, a.fixed[i].value)
    BY DEF PinsKept
  <1>1. PICK k \in DOMAIN b.fixed :
            b.fixed[k] = [index |-> a.fixed[i].index, value |-> a.fixed[i].value]
    BY DEF PinsKept, Pinned
  <1>2. Pinned(c, b.fixed[k].index, b.fixed[k].value)
    BY DEF PinsKept
  <1>3. b.fixed[k].index = a.fixed[i].index /\ b.fixed[k].value = a.fixed[i].value
    BY <1>1, SMT
  <1> QED
    BY <1>2, <1>3

\* Constrained-statements caveats.
LEMMA CaveatTransitive ==
    ASSUME NEW a, NEW b, NEW c, CaveatContains(a, b), CaveatContains(b, c)
    PROVE  CaveatContains(a, c)
  <1>1. a.readOnly /\ c.readOnly
    BY DEF CaveatContains
  <1>2. ASSUME NEW i \in DOMAIN c.statements
        PROVE  \E s \in {a.statements[j] : j \in DOMAIN a.statements} :
                  /\ Named(a, c.statements[i].name, s)
                  /\ s.sql = c.statements[i].sql
                  /\ PinsKept(s, c.statements[i])
    <2>1. PICK t \in {b.statements[j] : j \in DOMAIN b.statements} :
                  /\ Named(b, c.statements[i].name, t)
                  /\ t.sql = c.statements[i].sql
                  /\ PinsKept(t, c.statements[i])
      BY <1>2 DEF CaveatContains
    <2>2. PICK j \in DOMAIN b.statements : t = b.statements[j]
      BY <2>1
    <2>3. t.name = c.statements[i].name
      BY <2>1 DEF Named
    <2>4. PICK s \in {a.statements[k] : k \in DOMAIN a.statements} :
                  /\ Named(a, t.name, s)
                  /\ s.sql = t.sql
                  /\ PinsKept(s, t)
      BY <2>2 DEF CaveatContains
    <2>5. PinsKept(s, c.statements[i])
      BY <2>1, <2>4, PinsTransitive
    <2> QED
      BY <2>1, <2>3, <2>4, <2>5
  <1> QED
    BY <1>1, <1>2 DEF CaveatContains

\* Caveats of ability rows.
LEMMA RowCaveatsTransitive ==
    ASSUME NEW a, NEW b, NEW c, caveats_contain_child(a, b), caveats_contain_child(b, c)
    PROVE  caveats_contain_child(a, c)
  <1>1. CASE a.sql # None
    <2>1. b.sql # None /\ CaveatContains(a.sql, b.sql)
      BY <1>1 DEF caveats_contain_child
    <2>2. c.sql # None /\ CaveatContains(b.sql, c.sql)
      BY <2>1 DEF caveats_contain_child
    <2> QED
      BY <1>1, <2>1, <2>2, CaveatTransitive DEF caveats_contain_child
  <1>2. CASE a.sql = None
    BY <1>2 DEF caveats_contain_child
  <1> QED
    BY <1>1, <1>2

\* Ability rows as a whole.
LEMMA SupportsTransitive ==
    ASSUME NEW a, NEW b, NEW c, RowOK(a), RowOK(b), RowOK(c), Supports(a, b), Supports(b, c)
    PROVE  Supports(a, c)
  <1>1. ability_matches(a.ability, c.ability)
    BY AbilityTransitive DEF Supports, RowOK
  <1>2. caveats_contain_child(a.caveats, c.caveats)
    BY RowCaveatsTransitive DEF Supports
  <1>3. ExtendsPath(c.resource.path, a.resource.path)
    BY ExtendsPathTransitive DEF Supports, extends, RowOK
  <1>4. extends(c.resource, a.resource)
    BY <1>3 DEF Supports, extends
  <1> QED
    BY <1>1, <1>2, <1>4 DEF Supports

\* Capabilities of a policy.
LEMMA ContainsTransitive ==
    ASSUME NEW a, NEW b, NEW c, CapabilityOK(a), CapabilityOK(b), CapabilityOK(c),
           contains(a, b), contains(b, c)
    PROVE  contains(a, c)
  <1>1. path_contains(a.service, a.path, c.path)
    BY PathTransitive DEF contains, CapabilityOK
  <1>2. ASSUME NEW x \in c.actions PROVE resolve_alias(x) \in expand_actions(a.actions)
    <2>1. PICK m \in b.actions : resolve_alias(x) \in Expansion[m]
      BY <1>2 DEF contains, expand_actions
    <2>2. PICK h \in a.actions : resolve_alias(m) \in Expansion[h]
      BY DEF contains, expand_actions
    <2>3. resolve_alias(x) \in Expansion[h]
      BY <2>1, <2>2, ExpansionTransitive DEF CapabilityOK
    <2> QED
      BY <2>3 DEF expand_actions
  <1>3. a.caveats # None =>
            c.caveats # None /\ (a.service = "sql" => CaveatContains(a.caveats, c.caveats))
    BY CaveatTransitive, SMT DEF contains
  <1>4. a.service = c.service /\ a.space = c.space
    BY DEF contains
  <1> QED
    BY <1>1, <1>2, <1>3, <1>4 DEF contains

-----------------------------------------------------------------------------
(***************************************************************************)
(* Every capability of a policy is well formed and contained in the        *)
(* earlier ones.  Parsing keeps the actions and a path of characters.      *)
(***************************************************************************)
CapsOK ==
    /\ load \in Workloads
    /\ \E S : caps \in Seq(S)
    /\ \A i \in DOMAIN caps : CapabilityOK(caps[i])
    /\ Attenuates

LEMMA ParseOK ==
    ASSUME NEW raw, CapabilityOK(raw)
    PROVE  CapabilityOK(parse(raw))
  <1>1. parse(raw).actions = raw.actions /\ parse(raw).path = Normal(raw.path)
    BY DEF parse
  <1>2. raw.path \in Seq(Characters)
    BY DEF CapabilityOK
  <1>3. \A x \in DOMAIN Decoded : Decoded[x] \in Characters
    BY CharacterAssumption DEF Decoded
  <1>4. Normal(raw.path) \in [1..Len(raw.path) -> Characters]
    BY <1>2, <1>3, SMT DEF Normal
  <1>5. Normal(raw.path) \in Seq(Characters)
    BY <1>2, <1>4, SMT
  <1> QED
    BY <1>1, <1>5 DEF CapabilityOK

(***************************************************************************)
(* However many times a policy is narrowed, every capability of it is      *)
(* contained in every earlier one: PolicyCapability::contains, checked     *)
(* against the last one only, is enough.                                   *)
(***************************************************************************)
THEOREM PolicyAttenuates == GrantSpec => []Attenuates
  <1>1. GrantInit => CapsOK
    BY SMT DEF GrantInit, CapsOK, Attenuates
  <1>2. CapsOK /\ [GrantNext]_grantVars => CapsOK'
    <2> SUFFICES ASSUME CapsOK, [GrantNext]_grantVars PROVE CapsOK'
      OBVIOUS
    <2>1. CASE UNCHANGED <<load, caps>>
      BY <2>1 DEF CapsOK, Attenuates
    <2>2. ASSUME NEW raw \in load.raws, Attenuate(raw) PROVE CapsOK'
      <3> DEFINE new == parse(raw)
      <3>1. CapabilityOK(new)
        BY ParseOK, WorkloadAssumption DEF CapsOK
      <3>2. load' = load /\ caps' = Append(caps, new)
        BY <2>2 DEF Attenuate
      <3>3. PICK S : caps \in Seq(S)
        BY DEF CapsOK
      <3> HIDE DEF new
      <3>4. /\ Len(caps) \in Nat /\ DOMAIN caps = 1..Len(caps)
            /\ DOMAIN caps' = 1..(Len(caps) + 1)
            /\ \A i \in 1..Len(caps) : caps'[i] = caps[i]
            /\ caps'[Len(caps) + 1] = new
        <4>1. caps \in Seq(S \cup {new}) /\ new \in S \cup {new}
          BY <3>3, SMT
        <4> QED
          BY <4>1, <3>2, SMT
      <3>5. caps' \in Seq(S \cup {new})
        BY <3>2, <3>3, SMT
      <3>6. \A i \in DOMAIN caps' : CapabilityOK(caps'[i])
        BY <3>1, <3>4, SMT DEF CapsOK
      <3>7. ASSUME NEW i \in DOMAIN caps', NEW j \in DOMAIN caps', i < j
            PROVE  contains(caps'[i], caps'[j])
        <4>1. CASE j <= Len(caps)
          BY <4>1, <3>4, <3>7, SMT DEF CapsOK, Attenuates
        <4>2. CASE j = Len(caps) + 1
          <5>1. i \in 1..Len(caps) /\ Len(caps) \in 1..Len(caps)
            BY <3>4, <3>7, <4>2, SMT
          <5>2. contains(caps[Len(caps)], new)
            <6>1. caps # <<>>
              BY <5>1, <3>4, SMT
            <6> QED
              BY <6>1, <2>2 DEF Attenuate, Admits, new
          <5>3. CASE i = Len(caps)
            BY <5>2, <5>3, <3>4, <4>2, SMT
          <5>4. CASE i < Len(caps)
            <6>1. contains(caps[i], caps[Len(caps)])
              BY <5>1, <5>4, <3>4 DEF CapsOK, Attenuates
            <6>2. CapabilityOK(caps[i]) /\ CapabilityOK(caps[Len(caps)])
              BY <5>1, <3>4 DEF CapsOK
            <6>3. contains(caps[i], new)
              BY <6>1, <6>2, <5>2, <3>1, ContainsTransitive
            <6> QED
              BY <6>3, <5>1, <3>4, <4>2
          <5> QED
            BY <5>1, <5>3, <5>4, <3>4, SMT
        <4> QED
          BY <4>1, <4>2, <3>4, <3>7, SMT
      <3>8. load' \in Workloads
        BY <3>2 DEF CapsOK
      <3> QED
        BY <3>5, <3>6, <3>7, <3>8 DEF CapsOK, Attenuates
    <2>3. ASSUME NEW d \in Delegations, Register(d) \/ Revoke(d) PROVE CapsOK'
      BY <2>1, <2>3 DEF Register, Revoke
    <2>4. CASE Tick
      BY <2>1, <2>4 DEF Tick
    <2>5. CASE UNCHANGED grantVars
      BY <2>1, <2>5 DEF grantVars
    <2> QED
      BY <2>2, <2>3, <2>4, <2>5 DEF GrantNext
  <1>3. CapsOK => Attenuates
    BY DEF CapsOK
  <1> QED
    BY <1>1, <1>2, <1>3, PTL DEF GrantSpec

-----------------------------------------------------------------------------
(***************************************************************************)
(* Chains.  They grow with the links, and hold the chains of their         *)
(* members' parents.                                                       *)
(***************************************************************************)
LEMMA ChainGrows ==
    ASSUME NEW m, NEW n, NEW X, NEW Y,
           \A d \in Delegations : m[d] \subseteq n[d],
           \A T \in SUBSET Delegations : Y \subseteq T /\ AncestorClosed(n, T) => X \subseteq T
    PROVE  Chain(m, X) \subseteq Chain(n, Y)
  BY DEF Chain, AncestorClosed

\* A delegation is in its own chain.
LEMMA InOwnChain ==
    ASSUME NEW m, NEW d \in Delegations
    PROVE  d \in Chain(m, {d})
  BY DEF Chain

(***************************************************************************)
(* The inductive invariant: parents of stored delegations are stored, and  *)
(* every row of a stored delegation is, or is contained in, a row that the *)
(* owner of its space granted within the chain.                            *)
(***************************************************************************)
Granted(d, row) ==
    \E a \in Chain(Links, {d}) : \E q \in Content(a).rows :
        RootAuthority(q, Content(a).from) /\ (q = row \/ Supports(q, row))

Grounded ==
    /\ load \in Workloads
    /\ stored \subseteq Delegations
    /\ \A d \in stored : Content(d).parents \subseteq stored
    /\ \A d \in stored : \A row \in Content(d).rows : Granted(d, row)

\* What the checks compare is well formed.
LEMMA GrantsOK ==
    ASSUME load \in Workloads
    PROVE  /\ \A d \in Delegations : Content(d).parents \subseteq Delegations
           /\ \A d \in Delegations : \A r \in Content(d).rows : RowOK(r)
           /\ \A i \in load.invocations : i.parents \subseteq Delegations /\ \A r \in i.rows : RowOK(r)
  BY WorkloadAssumption DEF Content

\* Members of a chain are delegations.
LEMMA ChainType == \A m, X : Chain(m, X) \subseteq Delegations
  BY DEF Chain

\* A row supported by one that is granted is granted.
LEMMA GrantedBelow ==
    ASSUME load \in Workloads, NEW p \in Delegations, NEW q, NEW row, RowOK(q), RowOK(row),
           Granted(p, q), Supports(q, row)
    PROVE  \E a \in Chain(Links, {p}) : \E o \in Content(a).rows :
               RootAuthority(o, Content(a).from) /\ Supports(o, row)
  <1>1. PICK a \in Chain(Links, {p}) : \E o \in Content(a).rows :
            RootAuthority(o, Content(a).from) /\ (o = q \/ Supports(o, q))
    BY DEF Granted
  <1>2. PICK o \in Content(a).rows : RootAuthority(o, Content(a).from) /\ (o = q \/ Supports(o, q))
    BY <1>1
  <1>3. RowOK(o)
    BY <1>1, <1>2, GrantsOK, ChainType
  <1>4. Supports(o, row)
    BY <1>2, <1>3, SupportsTransitive
  <1> QED
    BY <1>1, <1>2, <1>4

\* A registration keeps the invariant.
LEMMA RegisterGrounded ==
    ASSUME Grounded, NEW d \in Delegations, Register(d)
    PROVE  Grounded'
  <1>1. /\ load' = load /\ stored' = stored \cup {d}
        /\ d \notin stored /\ validate(d) /\ Content(d).parents \subseteq stored
    BY DEF Register, Registers
  <1>2. \A x : Content(x)' = Content(x)
    BY <1>1 DEF Content
  <1>3. /\ \A x \in Delegations : Links[x] \subseteq Links'[x]
        /\ Links'[d] = Content(d).parents
    BY <1>1, <1>2 DEF Links
  <1>4. ASSUME NEW x \in stored, NEW row \in Content(x).rows PROVE Granted(x, row)'
    <2>1. Granted(x, row)
      BY <1>4 DEF Grounded
    <2>2. Chain(Links, {x}) \subseteq Chain(Links', {x})
      BY <1>3, ChainGrows
    <2> QED
      BY <2>1, <2>2, <1>2 DEF Granted, RootAuthority
  <1>5. ASSUME NEW row \in Content(d).rows PROVE Granted(d, row)'
    <2>1. CASE RootAuthority(row, Content(d).from)
      <3>1. d \in Chain(Links', {d})
        BY InOwnChain
      <3> QED
        BY <3>1, <2>1, <1>2, <1>5 DEF Granted, RootAuthority
    <2>2. CASE ~RootAuthority(row, Content(d).from)
      <3>1. PICK p \in Content(d).parents \cap stored : \E q \in Content(p).rows : Supports(q, row)
        BY <2>2, <1>1, <1>5 DEF validate, Dependent, Supported, Cited
      <3>2. PICK q \in Content(p).rows : Supports(q, row)
        BY <3>1
      <3>3. Granted(p, q)
        BY <3>1, <3>2 DEF Grounded
      <3>4. RowOK(q) /\ RowOK(row) /\ p \in Delegations
        BY <1>5, <3>1, <3>2, GrantsOK DEF Grounded
      <3>5. PICK a \in Chain(Links, {p}) : \E o \in Content(a).rows :
                RootAuthority(o, Content(a).from) /\ Supports(o, row)
        BY <3>2, <3>3, <3>4, GrantedBelow DEF Grounded
      <3>6. Chain(Links, {p}) \subseteq Chain(Links', {d})
        <4>1. ASSUME NEW T \in SUBSET Delegations, {d} \subseteq T, AncestorClosed(Links', T)
              PROVE  {p} \subseteq T
          BY <4>1, <1>3, <3>1 DEF AncestorClosed
        <4> QED
          BY <4>1, <1>3, ChainGrows
      <3> QED
        BY <3>5, <3>6, <1>2 DEF Granted, RootAuthority
    <2> QED
      BY <2>1, <2>2
  <1>6. \A x \in stored' : \A row \in Content(x)'.rows : Granted(x, row)'
    BY <1>1, <1>2, <1>4, <1>5
  <1>7. \A x \in stored' : Content(x)'.parents \subseteq stored'
    BY <1>1, <1>2 DEF Grounded
  <1> QED
    BY <1>1, <1>6, <1>7 DEF Grounded

\* The invariant is enough: an accepted invocation rests on the owner.
LEMMA GroundedIsRooted == ASSUME Grounded PROVE RootedAuthority
  <1> SUFFICES ASSUME NEW i \in load.invocations, Accepts(i.parents, i.rows, i.invoker),
                      NEW row \in Dependent(i.rows, i.invoker)
               PROVE  RestsOnOwner(i.parents, row)
    BY DEF RootedAuthority
  <1>1. /\ i.parents \subseteq stored
        /\ \A p \in i.parents : Unrevoked(p) /\ \A d \in Chain(Links, {p}) : InWindow(d)
        /\ Supported(i.parents, row)
    BY DEF Accepts
  <1>2. PICK p \in i.parents : \E q \in Content(p).rows : Supports(q, row)
    BY <1>1 DEF Supported
  <1>3. PICK q \in Content(p).rows : Supports(q, row)
    BY <1>2
  <1>4. Granted(p, q)
    BY <1>1, <1>2, <1>3 DEF Grounded
  <1>5. RowOK(q) /\ RowOK(row) /\ p \in Delegations
    BY <1>1, <1>2, <1>3, GrantsOK DEF Grounded, Dependent
  <1>6. PICK a \in Chain(Links, {p}) : \E o \in Content(a).rows :
            RootAuthority(o, Content(a).from) /\ Supports(o, row)
    BY <1>3, <1>4, <1>5, GrantedBelow DEF Grounded
  <1>7. a \notin revoked /\ InWindow(a)
    BY <1>1, <1>2, <1>6 DEF Unrevoked
  <1>8. Chain(Links, {p}) \subseteq Chain(Links, i.parents)
    BY <1>2, ChainGrows, SMT
  <1> QED
    BY <1>6, <1>7, <1>8 DEF RestsOnOwner

(***************************************************************************)
(* Whatever is registered, revoked or expires, an invocation that          *)
(* invocation::validate accepts rests on grants of the owner of the space, *)
(* although each registration looked one step up.                          *)
(***************************************************************************)
THEOREM AuthorityIsRooted == GrantSpec => []RootedAuthority
  <1>1. GrantInit => Grounded
    BY DEF GrantInit, Grounded
  <1>2. Grounded /\ [GrantNext]_grantVars => Grounded'
    <2> SUFFICES ASSUME Grounded, [GrantNext]_grantVars PROVE Grounded'
      OBVIOUS
    <2>1. CASE UNCHANGED <<load, stored>>
      <3>1. \A x : Content(x)' = Content(x)
        BY <2>1 DEF Content
      <3>2. Links' = Links
        BY <2>1, <3>1 DEF Links
      <3>3. \A x, row : Granted(x, row)' = Granted(x, row)
        BY <3>1, <3>2 DEF Granted, RootAuthority
      <3> QED
        BY <2>1, <3>1, <3>3 DEF Grounded
    <2>2. ASSUME NEW d \in Delegations, Register(d) PROVE Grounded'
      BY <2>2, RegisterGrounded
    <2>3. ASSUME NEW d \in Delegations, Revoke(d) PROVE Grounded'
      BY <2>1, <2>3 DEF Revoke
    <2>4. ASSUME NEW raw \in load.raws, Attenuate(raw) PROVE Grounded'
      BY <2>1, <2>4 DEF Attenuate
    <2>5. CASE Tick
      BY <2>1, <2>5 DEF Tick
    <2>6. CASE UNCHANGED grantVars
      BY <2>1, <2>6 DEF grantVars
    <2> QED
      BY <2>2, <2>3, <2>4, <2>5, <2>6 DEF GrantNext
  <1> QED
    BY <1>1, <1>2, GroundedIsRooted, PTL DEF GrantSpec

(***************************************************************************)
(* What a grant or a policy holds was held by everything it rests on       *)
(* (delegation validate, PolicyCapability contains).                       *)
(***************************************************************************)
THEOREM AuthorityOnlyNarrows == GrantSpec => []AuthorityNarrows
  <1>1. RootedAuthority /\ Attenuates => AuthorityNarrows
    BY DEF AuthorityNarrows
  <1> QED
    BY <1>1, PolicyAttenuates, AuthorityIsRooted, PTL

-----------------------------------------------------------------------------

\* The cids of sessions are not those of the two authorities: a cid is a digest.
CidsDistinct == Sessions \cap Authorities = {}

\* The inductive invariant: rows are rows, and the row of an authority says of
\* its capabilities and times what its artifact says.
KernelInv ==
    /\ store \in [StoredCids -> Rows \cup {Null}]
    /\ \A a \in Authorities : store[a] # Null =>
          /\ store[a].caps = Authority[a].caps
          /\ store[a].nb = Authority[a].nb /\ store[a].exp = Authority[a].exp
    /\ EdgesAttenuate

\* An observation changes nothing of a stored row but its status, which moves
\* forward; the observed store is a store.
LEMMA ObservationsKeep ==
    ASSUME KernelInv, Observations
    PROVE  /\ Observed \in [StoredCids -> Rows \cup {Null}]
           /\ \A c \in StoredCids : store[c] # Null =>
                /\ Observed[c] # Null /\ Observed[c] = store'[c]
                /\ Observed[c].parents = store[c].parents /\ Observed[c].caps = store[c].caps
                /\ Observed[c].nb = store[c].nb /\ Observed[c].exp = store[c].exp
                /\ Observed[c].depth = store[c].depth
                /\ store[c].status.seq <= Observed[c].status.seq
                /\ store[c].status.revoked # Null =>
                      Observed[c].status.revoked = store[c].status.revoked
           /\ \A a \in Authorities : Observed[a] # Null =>
                /\ Observed[a].caps = Authority[a].caps
                /\ Observed[a].nb = Authority[a].nb /\ Observed[a].exp = Authority[a].exp
           /\ \A c \in Sessions : store[c] = Null => Observed[c] = Null
<1>1. Observed \in [StoredCids -> Rows \cup {Null}]
  BY DEF Observations, Observed
<1>2. ASSUME NEW c \in StoredCids, store[c] # Null
      PROVE  /\ Observed[c] # Null /\ Observed[c] = store'[c]
             /\ Observed[c].parents = store[c].parents /\ Observed[c].caps = store[c].caps
             /\ Observed[c].nb = store[c].nb /\ Observed[c].exp = store[c].exp
             /\ Observed[c].depth = store[c].depth
             /\ store[c].status.seq <= Observed[c].status.seq
             /\ store[c].status.revoked # Null =>
                   Observed[c].status.revoked = store[c].status.revoked
  <2>1. Observed[c] = store'[c]
    BY <1>2 DEF Observed
  <2>2. store[c] \in Rows
    BY <1>2 DEF KernelInv
  <2>3. CASE Observed[c] = store[c]
    BY <2>1, <2>2, <2>3, <1>2, SMT DEF Rows, Statuses
  <2>4. CASE Observed[c] # store[c]
    <3>1. Observed[c] # Null /\ StatusSet(store[c], Observed[c])
      BY <1>2, <2>4 DEF Observations
    <3>2. Observed[c] \in Rows
      BY <1>1, <3>1
    <3>3. /\ Observed[c].parents = store[c].parents /\ Observed[c].caps = store[c].caps
          /\ Observed[c].nb = store[c].nb /\ Observed[c].exp = store[c].exp
          /\ Observed[c].depth = store[c].depth
      BY <2>2, <3>1, <3>2 DEF StatusSet, Rows
    <3>4. ValidTransition(store[c].status, Observed[c].status)
      BY <3>1 DEF StatusSet
    <3>5. /\ store[c].status.seq <= Observed[c].status.seq
          /\ store[c].status.revoked # Null => Observed[c].status.revoked = store[c].status.revoked
      <4>1. store[c].status \in Statuses /\ Observed[c].status \in Statuses
        BY <2>2, <3>2 DEF Rows
      <4> QED
        BY <3>4, <4>1, SMT DEF ValidTransition, Statuses
    <3> QED
      BY <2>1, <3>1, <3>3, <3>5
  <2> QED
    BY <2>3, <2>4
<1>3. ASSUME NEW a \in Authorities, Observed[a] # Null
      PROVE  /\ Observed[a].caps = Authority[a].caps
             /\ Observed[a].nb = Authority[a].nb /\ Observed[a].exp = Authority[a].exp
  <2>0. a \in StoredCids
    BY DEF StoredCids
  <2>1. CASE store[a] # Null
    BY <2>0, <2>1, <1>2 DEF KernelInv
  <2>2. CASE store[a] = Null
    <3>1. Inserted(a, Observed[a])
      BY <2>0, <2>2, <1>3 DEF Observations
    <3> QED
      BY <3>1, SMT DEF Inserted, AuthorityRow
  <2> QED
    BY <2>1, <2>2
<1>4. ASSUME NEW c \in Sessions, store[c] = Null
      PROVE  Observed[c] = Null
  BY <1>4 DEF Observed, StoredCids
<1> QED
  BY <1>1, <1>2, <1>3, <1>4

\* The observations of a step keep the invariant: no edge changes.
LEMMA ObservedAttenuates ==
    ASSUME KernelInv, Observations,
           NEW c \in Sessions, Observed[c] # Null,
           NEW p \in Observed[c].parents
    PROVE  /\ p \in StoredCids /\ Observed[p] # Null
           /\ Observed[c].caps \subseteq Observed[p].caps
           /\ Observed[p].nb <= Observed[c].nb /\ Observed[c].exp <= Observed[p].exp
           /\ p \in Sessions => Observed[c].depth < Observed[p].depth
<1>1. c \in StoredCids /\ store[c] # Null
  BY ObservationsKeep DEF StoredCids
<1>2. store[c] \in Rows /\ Observed[c].parents = store[c].parents
  BY <1>1, ObservationsKeep DEF KernelInv
<1>3. p \in store[c].parents /\ p \in StoredCids
  BY <1>2 DEF Rows
<1>4. /\ store[p] # Null
      /\ store[c].caps \subseteq store[p].caps
      /\ store[p].nb <= store[c].nb /\ store[c].exp <= store[p].exp
      /\ p \in Sessions => store[c].depth < store[p].depth
  BY <1>1, <1>3 DEF KernelInv, EdgesAttenuate
<1>5. ASSUME NEW d \in StoredCids, store[d] # Null
      PROVE  /\ Observed[d] # Null /\ Observed[d].caps = store[d].caps
             /\ Observed[d].nb = store[d].nb /\ Observed[d].exp = store[d].exp
             /\ Observed[d].depth = store[d].depth
  BY <1>5, ObservationsKeep
<1> QED
  BY <1>1, <1>3, <1>4, <1>5

\* A step keeps the invariant.
LEMMA KernelStep ==
    ASSUME CidsDistinct, KernelInv, [KernelNext]_kernelVars
    PROVE  KernelInv'
<1>1. CASE UNCHANGED kernelVars
  BY <1>1 DEF kernelVars, KernelInv, EdgesAttenuate
<1>2. CASE Observations /\ store' = Observed
  <2>1. EdgesAttenuate'
    BY <1>2, ObservedAttenuates DEF EdgesAttenuate
  <2> QED
    BY <1>2, <2>1, ObservationsKeep DEF KernelInv
<1>3. ASSUME Observations, NEW c \in Sessions, NEW challenge \in ChallengeIds,
             IssueRoot(c, challenge)
      PROVE  KernelInv'
  <2>0. c \in StoredCids /\ c \notin Authorities /\ Observed[c] = Null
    BY <1>3, ObservationsKeep DEF CidsDistinct, StoredCids, IssueRoot
  <2>1. store' \in [StoredCids -> Rows \cup {Null}]
    BY <1>3 DEF Observations
  <2>2. \A d \in StoredCids \ {c} : store'[d] = Observed[d]
    BY <1>3, ObservationsKeep DEF IssueRoot
  <2>3. \A a \in Authorities : a \in StoredCids \ {c}
    BY <2>0 DEF StoredCids
  <2>4. \A a \in Authorities : store'[a] # Null /\ LiveInMemory(Observed[a], store'[c].status.checked)
    BY <1>3, <2>2, <2>3 DEF IssueRoot, LiveInMemory
  <2>5. \A a \in Authorities :
            /\ store'[a].caps = Authority[a].caps
            /\ store'[a].nb = Authority[a].nb /\ store'[a].exp = Authority[a].exp
    <3>1. \A a \in Authorities : Observed[a] # Null =>
             /\ Observed[a].caps = Authority[a].caps
             /\ Observed[a].nb = Authority[a].nb /\ Observed[a].exp = Authority[a].exp
      BY <1>3, ObservationsKeep
    <3>2. \A a \in Authorities : store'[a] = Observed[a] /\ Observed[a] # Null
      BY <2>2, <2>3, <2>4
    <3> QED
      BY <3>1, <3>2
  <2>6. /\ store'[c].parents = Authorities
        /\ \A a \in Authorities :
              /\ store'[c].caps \subseteq Authority[a].caps
              /\ Authority[a].nb <= store'[c].nb /\ store'[c].exp <= Authority[a].exp
    BY <1>3 DEF IssueRoot, ValidRoot
  <2>7. ASSUME NEW d \in Sessions, store'[d] # Null, NEW p \in store'[d].parents
        PROVE  /\ store'[p] # Null
               /\ store'[d].caps \subseteq store'[p].caps
               /\ store'[p].nb <= store'[d].nb /\ store'[d].exp <= store'[p].exp
               /\ p \in Sessions => store'[d].depth < store'[p].depth
    <3>1. CASE d = c
      BY <2>7, <3>1, <2>4, <2>5, <2>6 DEF CidsDistinct
    <3>2. CASE d # c
      <4>1. store'[d] = Observed[d]
        BY <2>2, <3>2 DEF StoredCids
      <4>2. Observed[p] # Null /\ p \in StoredCids
        BY <1>3, <2>7, <4>1, ObservedAttenuates
      <4>3. store'[p] = Observed[p]
        BY <2>0, <2>2, <4>2
      <4> QED
        BY <1>3, <2>7, <4>1, <4>3, ObservedAttenuates
    <3> QED
      BY <3>1, <3>2
  <2> QED
    BY <2>1, <2>4, <2>5, <2>7 DEF KernelInv, EdgesAttenuate
<1>4. ASSUME Observations, NEW c \in Sessions, NEW parent \in Sessions,
             PersistDescendant(c, parent)
      PROVE  KernelInv'
  <2>0. c \in StoredCids /\ c \notin Authorities /\ Observed[c] = Null /\ parent \in StoredCids
    BY <1>4, ObservationsKeep DEF CidsDistinct, StoredCids, PersistDescendant
  <2>1. store' \in [StoredCids -> Rows \cup {Null}]
    BY <1>4 DEF Observations
  <2>2. \A d \in StoredCids \ {c} : store'[d] = Observed[d]
    BY <1>4, ObservationsKeep DEF PersistDescendant
  <2>3. parent # c /\ store'[parent] # Null /\ store'[parent] = Observed[parent]
    BY <1>4, <2>0, <2>2 DEF PersistDescendant
  <2>4. store'[c].parents = {parent} /\ ValidDescendant(store'[c], store'[parent])
    BY <1>4, <2>3 DEF PersistDescendant
  <2>5. store'[c] \in Rows /\ store'[parent] \in Rows
    BY <1>4, <2>0, <2>1, <2>3 DEF PersistDescendant
  <2>6. /\ store'[c].caps \subseteq store'[parent].caps
        /\ store'[parent].nb <= store'[c].nb /\ store'[c].exp <= store'[parent].exp
        /\ store'[c].depth < store'[parent].depth
    BY <2>4, <2>5, SMT DEF ValidDescendant, Rows
  <2>7. ASSUME NEW d \in Sessions, store'[d] # Null, NEW p \in store'[d].parents
        PROVE  /\ store'[p] # Null
               /\ store'[d].caps \subseteq store'[p].caps
               /\ store'[p].nb <= store'[d].nb /\ store'[d].exp <= store'[p].exp
               /\ p \in Sessions => store'[d].depth < store'[p].depth
    <3>1. CASE d = c
      BY <2>7, <3>1, <2>3, <2>4, <2>6
    <3>2. CASE d # c
      <4>1. store'[d] = Observed[d]
        BY <2>2, <3>2 DEF StoredCids
      <4>2. Observed[p] # Null /\ p \in StoredCids
        BY <1>4, <2>7, <4>1, ObservedAttenuates
      <4>3. store'[p] = Observed[p]
        BY <2>0, <2>2, <4>2
      <4> QED
        BY <1>4, <2>7, <4>1, <4>3, ObservedAttenuates
    <3> QED
      BY <3>1, <3>2
  <2>8. \A a \in Authorities : store'[a] # Null =>
            /\ store'[a].caps = Authority[a].caps
            /\ store'[a].nb = Authority[a].nb /\ store'[a].exp = Authority[a].exp
    BY <1>4, <2>0, <2>2, ObservationsKeep, SMT DEF StoredCids
  <2> QED
    BY <2>1, <2>7, <2>8 DEF KernelInv, EdgesAttenuate
<1> QED
  BY <1>1, <1>2, <1>3, <1>4 DEF KernelNext

\* Every delegation the store holds rests on stored delegations and attenuates
\* them, for any number of delegations, challenges and observations
\* (issue_root, persist_descendant).
THEOREM KernelAttenuates ==
    ASSUME CidsDistinct
    PROVE  KernelSpec => []EdgesAttenuate
<1>1. KernelInit => KernelInv
  BY DEF KernelInit, KernelInv, EdgesAttenuate, StoredCids
<1>2. KernelInv /\ [KernelNext]_kernelVars => KernelInv'
  BY KernelStep
<1>3. KernelInv => EdgesAttenuate
  BY DEF KernelInv
<1> QED
  BY <1>1, <1>2, <1>3, PTL DEF KernelSpec

\* Nothing that is stored is lost or rewritten, no status goes back and no
\* revocation is undone, whatever is observed and in whatever order (set_status,
\* issue_root, persist_descendant).
THEOREM KernelKeepsHistory ==
    ASSUME CidsDistinct
    PROVE  KernelSpec => [][HistoryKept]_kernelVars
<1>1. KernelInit => KernelInv
  BY DEF KernelInit, KernelInv, EdgesAttenuate, StoredCids
<1>2. KernelInv /\ [KernelNext]_kernelVars => KernelInv'
  BY KernelStep
<1>3. ASSUME KernelInv, KernelNext
      PROVE  HistoryKept
  <2>1. Observations
    BY <1>3 DEF KernelNext
  <2>2. spent \subseteq spent'
    BY <1>3 DEF KernelNext, IssueRoot, PersistDescendant
  <2>3. \A c \in StoredCids : store[c] # Null =>
           /\ Observed[c] = store'[c] /\ Observed[c] # Null
           /\ Observed[c].parents = store[c].parents /\ Observed[c].caps = store[c].caps
           /\ Observed[c].nb = store[c].nb /\ Observed[c].exp = store[c].exp
           /\ store[c].status.seq <= Observed[c].status.seq
           /\ store[c].status.revoked # Null =>
                 Observed[c].status.revoked = store[c].status.revoked
    BY <1>3, <2>1, ObservationsKeep
  <2> QED
    BY <2>2, <2>3 DEF HistoryKept
<1>4. KernelInv /\ [KernelNext]_kernelVars => [HistoryKept]_kernelVars
  BY <1>3
<1> QED
  BY <1>1, <1>2, <1>4, PTL DEF KernelSpec
=============================================================================
