--------------------------- MODULE ChainTraversal ---------------------------
(***************************************************************************)
(* ancestor_chain_ids_for_roots of models/revocation.rs: the walk over     *)
(* parent_delegation that every revocation check and every set of chain    *)
(* guards is computed with.  One behaviour is one call on an arbitrary     *)
(* link table from an arbitrary set of roots.  Delegations that cite each  *)
(* other in a circle are included: a citation is a content hash, so the    *)
(* node cannot write them, but the walk does not rely on it.               *)
(***************************************************************************)
EXTENDS ProofGraph

VARIABLES
    links,      \* the parent_delegation rows the call reads
    roots,      \* its argument
    frontier,   \* nodes still to be popped
    visited,    \* nodes popped (the returned list, in some order)
    cut,        \* some row query had more rows than its LIMIT returned
    result      \* "running", "ok" or "LimitExceeded"

vars == <<links, roots, frontier, visited, cut, result>>

\* Nobody cites itself; it would be a row the walk has always seen.
CitesOthers(lt) == \A d \in Delegations : d \notin lt[d]

Init ==
    /\ links \in {lt \in LinkTable : CitesOthers(lt)}
    /\ roots \in SUBSET Delegations
    /\ frontier = roots
    /\ visited = {}
    /\ cut = FALSE
    /\ result = IF WithinLimit(roots) THEN "running" ELSE "LimitExceeded"

\* Mutant: a parent is pushed although it was popped before.
VisitAgain(d) ==
    /\ result = "running"
    /\ d \in frontier
    /\ \E rows \in ParentRows(links, d, visited \cup {d}) :
          /\ cut' = (cut \/ rows # links[d])
          /\ visited' = visited \cup {d}
          /\ IF WithinLimit(Known(frontier, visited, rows))
             THEN /\ frontier' = (frontier \ {d}) \cup rows
                  /\ UNCHANGED result
             ELSE /\ result' = "LimitExceeded"
                  /\ UNCHANGED frontier
    /\ UNCHANGED <<links, roots>>

(***************************************************************************)
(* One iteration of the loop.                                              *)
(***************************************************************************)
Visit(d) ==
    /\ result = "running"
    /\ d \in frontier
    /\ \E rows \in ParentRows(links, d, visited \cup {d}) :
          /\ cut' = (cut \/ rows # links[d])
          /\ visited' = visited \cup {d}
          /\ IF WithinLimit(Known(frontier, visited, rows))
             THEN /\ frontier' = Push(frontier, visited', rows)
                  /\ UNCHANGED result
             ELSE /\ result' = "LimitExceeded"
                  /\ UNCHANGED frontier
    /\ UNCHANGED <<links, roots>>

Return ==
    /\ result = "running"
    /\ frontier = {}
    /\ result' = "ok"
    /\ UNCHANGED <<links, roots, frontier, visited, cut>>

Finished == result # "running" /\ UNCHANGED vars

Next == Return \/ Finished \/ \E d \in Delegations : Visit(d)

Spec == Init /\ [][Next]_vars /\ WF_vars(Next)

-----------------------------------------------------------------------------
TypeOK ==
    /\ links \in LinkTable
    /\ roots \in SUBSET Delegations
    /\ frontier \in SUBSET Delegations
    /\ visited \in SUBSET Delegations
    /\ cut \in BOOLEAN
    /\ result \in {"running", "ok", "LimitExceeded"}

(***************************************************************************)
(* A call that returns a list returns the whole chain and nothing else, as *)
(* long as no row query was cut short by its LIMIT.                        *)
(***************************************************************************)
ExactUnlessCut == result = "ok" /\ ~cut => visited = Chain(links, roots)

(***************************************************************************)
(* The call gives up only on chains that really exceed the limit, and the  *)
(* list it returns never does.                                             *)
(***************************************************************************)
LimitIsExact ==
    /\ result = "LimitExceeded" => Cardinality(Chain(links, roots)) > MaxChainNodes
    /\ result = "ok" => Cardinality(visited) <= MaxChainNodes

(***************************************************************************)
(* The loop ends, also where delegations cite each other in a circle: a    *)
(* node that was popped is not expanded again (visited.insert).            *)
(***************************************************************************)
Terminates == <>(result # "running")

(***************************************************************************)
(* The walk returns the chain and nothing else, and gives up exactly on    *)
(* chains that are too long (ancestor_chain_ids_for_roots).                *)
(***************************************************************************)
WalkSound == ExactUnlessCut /\ LimitIsExact

=============================================================================
