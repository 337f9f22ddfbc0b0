----------------------------- MODULE KvRequests -----------------------------
(***************************************************************************)
(* The key-value operations a node is asked for: the vocabulary shared by  *)
(* KvStore, what the service promises, and KvLedger, what the code does.   *)
(***************************************************************************)
EXTENDS Integers, FiniteSets

CONSTANTS
    Keys,       \* (space, path) pairs; integers, because guards are taken in key order
    Values,     \* content hashes
    Absent,     \* no live value
    Events,     \* signed invocations, delegations and revocations
    Ops,        \* Ops[e]: the keys the event writes or deletes, with what it leaves there
    Requests,   \* HTTP requests
    Request     \* Request[r]: its event, and the precondition of its headers

(***************************************************************************)
(* A precondition comes with exactly one written key (kv_invoke_options).  *)
(***************************************************************************)
ASSUME KvAssumption ==
    /\ Keys \subseteq Nat
    /\ IsFiniteSet(Keys)
    /\ Absent \notin Values
    /\ {"none", "absent"} \cap Values = {}
    /\ \A e \in Events : DOMAIN Ops[e] \subseteq Keys
    /\ \A e \in Events : \A k \in DOMAIN Ops[e] : Ops[e][k] \in Values \cup {Absent}
    /\ Request \in [Requests -> [event : Events, pre : {"none", "absent"} \cup Values]]
    /\ \A r \in Requests :
          Request[r].pre # "none" => Cardinality(DOMAIN Ops[Request[r].event]) = 1

Written(r) == DOMAIN Ops[Request[r].event]

(***************************************************************************)
(* kv_precondition_matches: If-None-Match: * asks for "absent", If-Match   *)
(* for a content.                                                          *)
(***************************************************************************)
PreHolds(pre, current) ==
    CASE pre = "none" -> TRUE
      [] pre = "absent" -> current = Absent
      [] OTHER -> current = pre

=============================================================================
