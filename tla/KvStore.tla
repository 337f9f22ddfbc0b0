------------------------------ MODULE KvStore ------------------------------
(***************************************************************************)
(* What the key-value service of a space promises: a map from keys to      *)
(* contents.  An accepted request applies all the operations of its event  *)
(* at once, only if its precondition holds at that moment, and an event is *)
(* applied at most once however often it is presented.                     *)
(***************************************************************************)
EXTENDS KvRequests

VARIABLES
    value,      \* the map
    applied     \* events applied

Init ==
    /\ value = [k \in Keys |-> Absent]
    /\ applied = {}

Apply(r) ==
    LET e == Request[r].event IN
    /\ e \notin applied
    /\ \A k \in Written(r) : PreHolds(Request[r].pre, value[k])
    /\ value' = [k \in Keys |-> IF k \in Written(r) THEN Ops[e][k] ELSE value[k]]
    /\ applied' = applied \cup {e}

Next == \E r \in Requests : Apply(r)

Spec == Init /\ [][Next]_<<value, applied>>

=============================================================================
