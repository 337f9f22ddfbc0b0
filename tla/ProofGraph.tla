----------------------------- MODULE ProofGraph -----------------------------
(***************************************************************************)
(* Delegations cite the delegations they derive from.  The citations of    *)
(* the stored delegations are the rows of table parent_delegation, here a  *)
(* function links: links[d] is the set of parents stored for d.            *)
(*                                                                         *)
(* This module holds what the rest of the development says about that      *)
(* graph: the reference notion of a proof chain, and one iteration of the  *)
(* bounded walk by which models/revocation.rs computes it.                 *)
(***************************************************************************)
EXTENDS Integers, FiniteSets

CONSTANTS
    Delegations,    \* content hashes; integers, because guards are taken in hash order
    MaxChainNodes   \* MAX_CHAIN_TRAVERSAL_NODES

ASSUME GraphAssumption ==
    /\ Delegations \subseteq Nat
    /\ IsFiniteSet(Delegations)
    /\ MaxChainNodes \in Nat \ {0}

LinkTable == [Delegations -> SUBSET Delegations]

(***************************************************************************)
(* Reference: the chain of a set of roots is the least set that contains   *)
(* them and every stored parent of its members.                            *)
(***************************************************************************)
AncestorClosed(links, T) == \A d \in T : links[d] \subseteq T

Chain(links, roots) ==
    {x \in Delegations :
        \A T \in SUBSET Delegations :
            roots \subseteq T /\ AncestorClosed(links, T) => x \in T}

(***************************************************************************)
(* The parent query of one iteration.  It asks for at most one row more    *)
(* than the nodes that may still be visited, and without an order: when    *)
(* there are more rows than that, any of them may be the ones returned.    *)
(***************************************************************************)
RowLimit(visited) == MaxChainNodes - Cardinality(visited) + 1

ParentRows(links, d, visited) ==
    IF Cardinality(links[d]) <= RowLimit(visited)
    THEN {links[d]}
    ELSE {rows \in SUBSET links[d] : Cardinality(rows) = RowLimit(visited)}

(***************************************************************************)
(* Nodes known to the walk after d is popped and rows are pushed.  The     *)
(* walk gives up (LimitExceeded) when they are more than MaxChainNodes.    *)
(***************************************************************************)
Known(frontier, visited, rows) == frontier \cup visited \cup rows

WithinLimit(nodes) == Cardinality(nodes) <= MaxChainNodes

(***************************************************************************)
(* The frontier after that: a node already visited is not pushed again.    *)
(***************************************************************************)
\* Mutant: only the new rows are kept.
PushReplacing(frontier, visited, rows) == rows \ visited

Push(frontier, visited, rows) == (frontier \cup rows) \ visited

=============================================================================
