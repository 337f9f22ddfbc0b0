----------------------- MODULE DelegationChainProofs -----------------------
(***************************************************************************)
(* Proofs about DelegationChain for every set of delegations and requests, *)
(* on SQLite and PostgreSQL: facts about its operators, types, no          *)
(* authority from nothing, no use of what was revoked when the request     *)
(* arrived, one owner of a guard at a time, and that nothing commits on a  *)
(* chain of which any part is revoked at that moment: on SQLite because a  *)
(* transaction owns the only connection, on PostgreSQL by the guards.      *)
(***************************************************************************)
EXTENDS DelegationChain, TLAPS

\* First-order reasoning, unless a step names another prover.
USE Zenon

-----------------------------------------------------------------------------
(***************************************************************************)
(* Facts about the operators of the model.                                 *)
(***************************************************************************)
LEMMA ContentType ==
    ASSUME NEW d \in Delegations
    PROVE  Content[d] \in DelegationContent
BY ChainAssumption

LEMMA RequestType ==
    ASSUME NEW r \in Requests
    PROVE  /\ Request[r] \in RequestContent
           /\ Request[r].kind \in {"delegate", "revoke", "invoke", "status"}
           /\ Request[r].cites \in SUBSET Delegations
           /\ Request[r].kind # "invoke" => Request[r].target \in Delegations
<1>1. Request[r] \in RequestContent
  BY ChainAssumption
<1> QED
  BY <1>1, ChainAssumption DEF RequestContent

LEMMA RowsType ==
    ASSUME TypeOK, NEW d \in Delegations, NEW S, NEW rows \in ParentRows(Links, d, S)
    PROVE  rows \subseteq Delegations
<1>1. Links[d] \subseteq Delegations
  BY ContentType DEF Links, DelegationContent
<1> QED
  BY <1>1 DEF ParentRows

LEMMA RootsType ==
    ASSUME NEW r \in Requests
    PROVE  Roots(r) \subseteq Delegations
BY RequestType DEF Roots

LEMMA AnswerTypes ==
    ASSUME NEW r \in Requests
    PROVE  /\ LimitAnswer(r) \in Answers
           /\ RevokedAnswer(r) \in Answers
           /\ \A d : StatusAnswer(d) \in Answers
BY DEF LimitAnswer, RevokedAnswer, StatusAnswer, Answers

-----------------------------------------------------------------------------
(***************************************************************************)
(* Types.  Only requests that write get as far as the commit.              *)
(***************************************************************************)
WritersCommit == \A r \in Requests : pc[r] = "commit" => Request[r].kind # "status"

Typed == TypeOK /\ WritersCommit

LEMMA TypedInit == Init => Typed
<1> SUFFICES ASSUME Init PROVE Typed
  OBVIOUS
<1>1. TypeOK
  BY ChainAssumption, SMT
  DEF Init, TypeOK, RowTypes, GuardTypes, WalkTypes, CheckTypes, OutcomeTypes,
      Unset, NoArcs, Hashes, Answers, InFlight, Validating
<1>2. WritersCommit
  BY DEF Init, WritersCommit
<1> QED
  BY <1>1, <1>2 DEF Typed

(***************************************************************************)
(* Returning an answer keeps the types, whatever is committed with it.     *)
(***************************************************************************)
LEMMA TypedReply ==
    ASSUME Typed, NEW r \in Requests, NEW outcome \in Answers, Reply(r, outcome),
           stored' \in Hashes, revoked' \in Hashes, used' \in SUBSET Requests,
           UNCHANGED <<load, clock>>
    PROVE  Typed'
<1> USE DEF Typed, TypeOK
<1>1. RowTypes'
  BY DEF RowTypes, Reply
<1>2. GuardTypes'
  BY DEF GuardTypes, Reply, Hashes, NoArcs
<1>3. WalkTypes'
  BY DEF WalkTypes, Reply, Hashes
<1>4. CheckTypes'
  <2>1. 0 \in 0..MaxClock
    BY ChainAssumption, SMT
  <2> QED
    BY <2>1 DEF CheckTypes, Reply, Hashes
<1>5. OutcomeTypes'
  BY DEF OutcomeTypes, Reply, Hashes
<1>6. WritersCommit'
  BY DEF OutcomeTypes, WritersCommit, Reply
<1> QED
  BY <1>1, <1>2, <1>3, <1>4, <1>5, <1>6

(***************************************************************************)
(* So does going on to another step that is not the commit.                *)
(***************************************************************************)
LEMMA TypedGoto ==
    ASSUME Typed, NEW r \in Requests, NEW label \in InFlight, Goto(r, label),
           label = "commit" => Request[r].kind # "status"
    PROVE  OutcomeTypes' /\ WritersCommit'
BY DEF Typed, TypeOK, OutcomeTypes, WritersCommit, Goto

-----------------------------------------------------------------------------
LEMMA TypedArrive ==
    ASSUME Typed, NEW r \in Requests, Arrive(r)
    PROVE  Typed'
<1> USE DEF Typed, TypeOK
<1>1. UNCHANGED <<database, clock>>
  BY DEF Arrive
<1>2. ASSUME NEW outcome \in Answers, Reply(r, outcome) PROVE Typed'
  BY <1>1, <1>2, TypedReply DEF RowTypes, database
<1>3. CASE /\ pc' = [pc EXCEPT ![r] = "keys"]
           /\ frontier' = [frontier EXCEPT ![r] = Roots(r)]
           /\ before' = [before EXCEPT ![r] = revoked]
           /\ UNCHANGED <<conn, visited, guards, checks, now, answer>>
  <2>1. RowTypes' /\ GuardTypes' /\ CheckTypes'
    BY <1>1, <1>3 DEF RowTypes, GuardTypes, CheckTypes, database, guards, checks
  <2>2. WalkTypes'
    BY <1>3, RootsType DEF WalkTypes, Hashes
  <2>3. OutcomeTypes' /\ WritersCommit'
    BY <1>3 DEF OutcomeTypes, WritersCommit, RowTypes, InFlight
  <2> QED
    BY <2>1, <2>2, <2>3
<1>4. "notfound" \in Answers /\ LimitAnswer(r) \in Answers
  BY AnswerTypes DEF Answers
<1> QED
  BY <1>2, <1>3, <1>4 DEF Arrive

LEMMA TypedWalkKeys ==
    ASSUME Typed, NEW r \in Requests, WalkKeys(r)
    PROVE  Typed'
<1> USE DEF Typed, TypeOK
<1>1. UNCHANGED <<database, clock>>
  BY DEF WalkKeys
<1>2. PICK d \in frontier[r] : \E rows \in ParentRows(Links, d, visited[r] \cup {d}) :
          IF WithinLimit(Known(frontier[r], visited[r], rows))
          THEN /\ visited' = [visited EXCEPT ![r] = @ \cup {d}]
               /\ frontier' = [frontier EXCEPT ![r] = Push(@, visited'[r], rows)]
               /\ Goto(r, "keys")
               /\ UNCHANGED <<conn, guards, checks, now>>
          ELSE Reply(r, LimitAnswer(r))
  BY Zenon DEF WalkKeys
<1>3. d \in Delegations
  BY DEF WalkTypes, Hashes
<1>4. CASE Reply(r, LimitAnswer(r))
  BY <1>1, <1>4, TypedReply, AnswerTypes DEF RowTypes, database
<1>5. ASSUME NEW rows \in ParentRows(Links, d, visited[r] \cup {d}),
             visited' = [visited EXCEPT ![r] = @ \cup {d}],
             frontier' = [frontier EXCEPT ![r] = Push(@, visited'[r], rows)],
             Goto(r, "keys"),
             UNCHANGED <<conn, guards, checks, now>>
      PROVE  Typed'
  <2>1. rows \subseteq Delegations
    BY <1>3, RowsType
  <2>2. RowTypes' /\ GuardTypes' /\ CheckTypes'
    BY <1>1, <1>5 DEF RowTypes, GuardTypes, CheckTypes, database, guards, checks
  <2>3. WalkTypes'
    BY <1>3, <1>5, <2>1 DEF WalkTypes, Hashes, Push
  <2>4. OutcomeTypes' /\ WritersCommit'
    BY <1>5, TypedGoto DEF InFlight
  <2> QED
    BY <2>2, <2>3, <2>4
<1> QED
  BY <1>2, <1>4, <1>5

LEMMA TypedRegister ==
    ASSUME Typed, NEW r \in Requests, Register(r)
    PROVE  Typed'
<1> USE DEF Typed, TypeOK
<1>1. RowTypes' /\ WalkTypes' /\ CheckTypes'
  BY DEF Register, RowTypes, WalkTypes, CheckTypes, database, walk, checks
<1>2. GuardTypes'
  BY DEF Register, GuardTypes, WalkTypes, Hashes, LockFor
<1>3. OutcomeTypes' /\ WritersCommit'
  BY TypedGoto DEF Register, InFlight
<1> QED
  BY <1>1, <1>2, <1>3

LEMMA TypedLockNext ==
    ASSUME Typed, NEW r \in Requests, LockNext(r)
    PROVE  Typed'
<1> USE DEF Typed, TypeOK
<1>1. RowTypes' /\ WalkTypes' /\ CheckTypes' /\ OutcomeTypes' /\ WritersCommit'
  BY DEF LockNext, RowTypes, WalkTypes, CheckTypes, OutcomeTypes, WritersCommit,
         database, walk, checks
<1>2. GuardTypes'
  BY SMT DEF LockNext, GuardTypes, Hashes
<1> QED
  BY <1>1, <1>2

LEMMA TypedBegin ==
    ASSUME Typed, NEW r \in Requests, Begin(r)
    PROVE  Typed'
<1> USE DEF Typed, TypeOK
<1>1. RowTypes' /\ GuardTypes' /\ WalkTypes' /\ CheckTypes'
  BY DEF Begin, RowTypes, GuardTypes, WalkTypes, CheckTypes, database, guards, walk, checks
<1>2. OutcomeTypes' /\ WritersCommit'
  BY TypedGoto DEF Begin, InFlight, Validating
<1> QED
  BY <1>1, <1>2

(***************************************************************************)
(* The two ways validation goes on, and the way it ends.                   *)
(***************************************************************************)
LEMMA TypedExamine ==
    ASSUME Typed, NEW r \in Requests, NEW ds \in Hashes, Examine(r, ds),
           UNCHANGED <<database, clock>>
    PROVE  Typed'
<1> USE DEF Typed, TypeOK
<1>1. RowTypes' /\ GuardTypes' /\ WalkTypes'
  BY DEF Examine, RowTypes, GuardTypes, WalkTypes, database, guards, walk
<1>2. CheckTypes'
  BY DEF Examine, CheckTypes, RowTypes
<1>3. OutcomeTypes' /\ WritersCommit'
  BY TypedGoto DEF Examine, InFlight, Validating
<1> QED
  BY <1>1, <1>2, <1>3

LEMMA TypedAccept ==
    ASSUME Typed, NEW r \in Requests, Accept(r), Request[r].kind # "status",
           UNCHANGED <<database, clock>>
    PROVE  Typed'
<1> USE DEF Typed, TypeOK
<1>1. RowTypes' /\ GuardTypes' /\ WalkTypes' /\ CheckTypes'
  BY DEF Accept, RowTypes, GuardTypes, WalkTypes, CheckTypes, database, guards, walk, checks
<1>2. OutcomeTypes' /\ WritersCommit'
  BY TypedGoto DEF Accept, InFlight, Validating
<1> QED
  BY <1>1, <1>2

LEMMA TypedEnd ==
    ASSUME Typed, NEW r \in Requests, NEW outcome \in Answers, Reply(r, outcome),
           UNCHANGED <<database, clock>>
    PROVE  Typed'
BY TypedReply DEF Typed, TypeOK, RowTypes, database

LEMMA TypedFind ==
    ASSUME Typed, NEW r \in Requests, Find(r)
    PROVE  Typed'
<1>1. UNCHANGED <<database, clock>>
  BY DEF Find
<1>2. "refused" \in Answers /\ "notfound" \in Answers
  BY DEF Answers
<1>3. Request[r].cites \in Hashes
  BY RequestType DEF Hashes
<1>4. ASSUME NEW d PROVE FoundParents(d) \in Hashes
  BY DEF FoundParents, Typed, TypeOK, RowTypes, Hashes
<1>5. CASE Request[r].kind = "delegate" /\ FindDelegate(r)
  BY <1>1, <1>2, <1>4, <1>5, TypedEnd, TypedAccept, TypedExamine DEF FindDelegate
<1>6. CASE Request[r].kind = "invoke" /\ FindInvoke(r)
  BY <1>1, <1>2, <1>3, <1>6, TypedEnd, TypedAccept, TypedExamine DEF FindInvoke
<1>7. CASE Request[r].kind = "revoke" /\ FindRevoke(r)
  BY <1>1, <1>2, <1>3, <1>7, TypedEnd, TypedExamine DEF FindRevoke
<1>8. CASE Request[r].kind = "status" /\ FindStatus(r)
  BY <1>1, <1>2, <1>3, <1>8, TypedEnd, TypedExamine DEF FindStatus
<1> QED
  BY Zenon, <1>5, <1>6, <1>7, <1>8, RequestType DEF Find

LEMMA TypedNextParent ==
    ASSUME Typed, NEW r \in Requests, NextParent(r)
    PROVE  Typed'
<1>1. UNCHANGED <<database, clock>>
  BY DEF NextParent
<1>2. CASE Reply(r, RevokedAnswer(r))
  BY <1>1, <1>2, TypedEnd, AnswerTypes
<1>3. ASSUME NEW d \in todo[r], Climb(r, d), todo' = [todo EXCEPT ![r] = @ \ {d}]
      PROVE  Typed'
  <2> USE DEF Typed, TypeOK
  <2>1. d \in Delegations
    BY <1>3 DEF CheckTypes, Hashes
  <2>2. RowTypes' /\ GuardTypes'
    BY <1>1, <1>3 DEF Climb, RowTypes, GuardTypes, database, guards
  <2>3. WalkTypes'
    BY <1>3, <2>1 DEF Climb, WalkTypes, Hashes
  <2>4. CheckTypes'
    BY <1>3, <2>1 DEF Climb, CheckTypes, Hashes
  <2>5. OutcomeTypes' /\ WritersCommit'
    BY <1>3, TypedGoto DEF Climb, InFlight, Validating
  <2> QED
    BY <2>2, <2>3, <2>4, <2>5
<1> QED
  BY <1>2, <1>3 DEF NextParent

LEMMA TypedWalkChain ==
    ASSUME Typed, NEW r \in Requests, WalkChain(r)
    PROVE  Typed'
<1> USE DEF Typed, TypeOK
<1>1. UNCHANGED <<database, clock>>
  BY DEF WalkChain
<1>2. ASSUME NEW outcome \in Answers, Reply(r, outcome) PROVE Typed'
  BY <1>1, <1>2, TypedEnd
<1>3. ASSUME NEW d \in frontier[r],
             NEW rows \in ParentRows(Links, d, visited[r] \cup {d}),
             visited' = [visited EXCEPT ![r] = @ \cup {d}],
             frontier' = [frontier EXCEPT ![r] = Push(@, visited'[r], rows)],
             Goto(r, IF frontier'[r] = {} THEN "check" ELSE "climb"),
             unseen' = [unseen EXCEPT ![r] = AncestorsToCheck(r, visited'[r])],
             UNCHANGED <<conn, guards, found, todo, leaf, passed, now>>
      PROVE  Typed'
  <2>1. d \in Delegations
    BY DEF WalkTypes, Hashes
  <2>2. rows \subseteq Delegations
    BY <2>1, RowsType
  <2>3. RowTypes' /\ GuardTypes'
    BY <1>1, <1>3 DEF RowTypes, GuardTypes, database, guards
  <2>4. WalkTypes'
    BY <1>3, <2>1, <2>2 DEF WalkTypes, Hashes, Push
  <2>5. CheckTypes'
    <3>1. AncestorsToCheck(r, visited'[r]) \in Hashes
      BY <2>4 DEF WalkTypes, AncestorsToCheck, Hashes
    <3> QED
      BY <1>3, <3>1 DEF CheckTypes
  <2>6. OutcomeTypes' /\ WritersCommit'
    BY <1>3, TypedGoto DEF InFlight, Validating
  <2> QED
    BY <2>3, <2>4, <2>5, <2>6
<1>4. "unavailable" \in Answers /\ RevokedAnswer(r) \in Answers
  BY AnswerTypes DEF Answers
<1> QED
  BY <1>2, <1>3, <1>4 DEF WalkChain

LEMMA TypedCheckAncestor ==
    ASSUME Typed, NEW r \in Requests, CheckAncestor(r)
    PROVE  Typed'
<1>1. UNCHANGED <<database, clock>>
  BY DEF CheckAncestor
<1>2. CASE Reply(r, RevokedAnswer(r))
  BY <1>1, <1>2, TypedEnd, AnswerTypes
<1>3. ASSUME NEW d \in unseen[r],
             unseen' = [unseen EXCEPT ![r] = @ \ {d}],
             passed' = [passed EXCEPT ![r] = @ \cup {d}],
             Goto(r, "check"),
             UNCHANGED <<conn, walk, guards, found, todo, leaf, now>>
      PROVE  Typed'
  <2> USE DEF Typed, TypeOK
  <2>1. RowTypes' /\ GuardTypes' /\ WalkTypes'
    BY <1>1, <1>3 DEF RowTypes, GuardTypes, WalkTypes, database, guards, walk
  <2>2. CheckTypes'
    BY <1>3 DEF CheckTypes, Hashes
  <2>3. OutcomeTypes' /\ WritersCommit'
    BY <1>3, TypedGoto DEF InFlight, Validating
  <2> QED
    BY <2>1, <2>2, <2>3
<1> QED
  BY <1>2, <1>3 DEF CheckAncestor

LEMMA TypedChainClear ==
    ASSUME Typed, NEW r \in Requests, ChainClear(r)
    PROVE  Typed'
<1>1. UNCHANGED <<database, clock>>
  BY DEF ChainClear
<1>2. ASSUME NEW outcome \in Answers, Reply(r, outcome) PROVE Typed'
  BY <1>1, <1>2, TypedEnd
<1>3. CASE Goto(r, "next") /\ UNCHANGED <<conn, walk, guards, checks, now>>
  <2> USE DEF Typed, TypeOK
  <2>1. RowTypes' /\ GuardTypes' /\ WalkTypes' /\ CheckTypes'
    BY <1>1, <1>3 DEF RowTypes, GuardTypes, WalkTypes, CheckTypes, database, guards, walk, checks
  <2>2. OutcomeTypes' /\ WritersCommit'
    BY <1>3, TypedGoto DEF InFlight, Validating
  <2> QED
    BY <2>1, <2>2
<1>4. "refused" \in Answers /\ StatusAnswer(Request[r].target) \in Answers
  BY AnswerTypes DEF Answers
<1> QED
  BY <1>2, <1>3, <1>4 DEF ChainClear

LEMMA TypedAuthorize ==
    ASSUME Typed, NEW r \in Requests, Authorize(r)
    PROVE  Typed'
<1>1. UNCHANGED <<database, clock>>
  BY DEF Authorize
<1>2. CASE Reply(r, RevokedAnswer(r))
  BY <1>1, <1>2, TypedEnd, AnswerTypes
<1>3. CASE /\ Request[r].kind = "status"
           /\ answer' = [answer EXCEPT ![r] = "authorized"]
           /\ todo' = [todo EXCEPT ![r] = {Request[r].target}]
           /\ UNCHANGED <<conn, pc, walk, guards, found, leaf, unseen, passed, now, before>>
  <2> USE DEF Typed, TypeOK
  <2>1. RowTypes' /\ GuardTypes' /\ WalkTypes'
    BY <1>1, <1>3 DEF RowTypes, GuardTypes, WalkTypes, database, guards, walk
  <2>2. CheckTypes'
    BY <1>3, RequestType DEF CheckTypes, Hashes
  <2>3. OutcomeTypes' /\ WritersCommit'
    BY <1>3 DEF OutcomeTypes, WritersCommit, Answers
  <2> QED
    BY <2>1, <2>2, <2>3
<1>4. CASE Request[r].kind # "status" /\ Accept(r)
  BY <1>1, <1>4, TypedAccept
<1> QED
  BY <1>2, <1>3, <1>4 DEF Authorize

LEMMA TypedCommit ==
    ASSUME Typed, NEW r \in Requests, Commit(r)
    PROVE  Typed'
<1>1. "ok" \in Answers /\ "refused" \in Answers
  BY DEF Answers
<1>2. UNCHANGED clock
  BY DEF Commit
<1>3. CASE Save(r) /\ Reply(r, "ok")
  <2>1. Request[r].kind \in {"delegate", "revoke", "invoke"}
    BY RequestType DEF Commit, Typed, WritersCommit
  <2>2. stored' \in Hashes /\ revoked' \in Hashes /\ used' \in SUBSET Requests
    <3>1. CASE Request[r].kind = "delegate"
      <4>1. stored' = stored \cup {Request[r].target} /\ UNCHANGED <<revoked, used>>
        BY <1>3, <3>1 DEF Save
      <4> QED
        BY <4>1, <3>1, RequestType DEF Typed, TypeOK, RowTypes, Hashes
    <3>2. CASE Request[r].kind = "revoke"
      <4>1. revoked' = revoked \cup {Request[r].target} /\ UNCHANGED <<stored, used>>
        BY <1>3, <3>2 DEF Save
      <4> QED
        BY <4>1, <3>2, RequestType DEF Typed, TypeOK, RowTypes, Hashes
    <3>3. CASE Request[r].kind = "invoke"
      <4>1. used' = used \cup {r} /\ UNCHANGED <<stored, revoked>>
        BY <1>3, <3>3 DEF Save
      <4> QED
        BY <4>1 DEF Typed, TypeOK, RowTypes, Hashes
    <3> QED
      BY <2>1, <3>1, <3>2, <3>3
  <2>3. UNCHANGED load
    BY ZenonT(30), <1>3, <2>1 DEF Save
  <2> QED
    BY <1>1, <1>2, <1>3, <2>2, <2>3, TypedReply
<1>4. CASE Reply(r, "refused") /\ UNCHANGED database
  BY <1>1, <1>2, <1>4, TypedEnd
<1> QED
  BY <1>3, <1>4 DEF Commit

LEMMA TypedFail ==
    ASSUME Typed, NEW r \in Requests, Fail(r)
    PROVE  Typed'
<1>1. "error" \in Answers
  BY DEF Answers
<1> QED
  BY <1>1, TypedEnd DEF Fail

LEMMA TypedRestart ==
    ASSUME Typed, Restart
    PROVE  Typed'
<1> USE DEF Typed, TypeOK
<1>1. RowTypes' /\ GuardTypes' /\ WalkTypes'
  BY ZenonT(30) DEF Restart, RowTypes, GuardTypes, WalkTypes, Unset, NoArcs, Hashes, database
<1>2. CheckTypes'
  <2>1. 0 \in 0..MaxClock
    BY ChainAssumption, SMT
  <2> QED
    BY <2>1 DEF Restart, CheckTypes, Unset, Hashes
<1>3. OutcomeTypes' /\ WritersCommit'
  BY Zenon DEF Restart, OutcomeTypes, WritersCommit, Unset, Hashes, Answers
<1> QED
  BY <1>1, <1>2, <1>3

LEMMA TypedTick ==
    ASSUME Typed, Tick
    PROVE  Typed'
<1> USE DEF Typed, TypeOK
<1>1. clock \in 0..MaxClock /\ clock < load.until => clock + 1 \in 0..MaxClock
  <2>1. load.until \in 0..MaxClock
    BY ChainAssumption DEF RowTypes
  <2> QED
    BY <2>1, ChainAssumption, SMT
<1>2. RowTypes'
  BY <1>1 DEF Tick, RowTypes, database
<1>3. GuardTypes' /\ WalkTypes' /\ CheckTypes' /\ OutcomeTypes' /\ WritersCommit'
  BY DEF Tick, GuardTypes, WalkTypes, CheckTypes, OutcomeTypes, WritersCommit,
         guards, walk, checks
<1> QED
  BY <1>2, <1>3

LEMMA TypedStutter ==
    ASSUME Typed, UNCHANGED vars
    PROVE  Typed'
BY DEF Typed, TypeOK, RowTypes, GuardTypes, WalkTypes, CheckTypes, OutcomeTypes, WritersCommit,
       vars, database, walk, guards, checks

LEMMA TypedStep == Typed /\ [Next]_vars => Typed'
<1> SUFFICES ASSUME Typed, [Next]_vars PROVE Typed'
  OBVIOUS
<1>1. ASSUME NEW r \in Requests, Serve(r) PROVE Typed'
  BY <1>1, TypedArrive, TypedWalkKeys, TypedRegister, TypedLockNext, TypedBegin, TypedFind,
     TypedNextParent, TypedWalkChain, TypedCheckAncestor, TypedChainClear, TypedAuthorize,
     TypedCommit
  DEF Serve
<1> QED
  BY <1>1, TypedFail, TypedRestart, TypedTick, TypedStutter DEF Next, Finished

(***************************************************************************)
(* Every variable keeps its type, and a status query never gets as far as  *)
(* a commit.                                                               *)
(***************************************************************************)
THEOREM TypesHold == Spec => []Typed
BY TypedInit, TypedStep, PTL DEF Spec

(***************************************************************************)
(* The type invariant of the four operations of SpaceDatabase.             *)
(***************************************************************************)
THEOREM TypeCorrect == Spec => []TypeOK
<1>1. Typed => TypeOK
  BY DEF Typed
<1> QED
  BY <1>1, TypesHold, PTL
(***************************************************************************)
(* The steps of validation in which the chains of found are looked up.     *)
(***************************************************************************)
Examining == {"next", "climb", "check"}

-----------------------------------------------------------------------------
(***************************************************************************)
(* Authority.  While a delegation is validated, what it rests on are       *)
(* stored parents made to its delegator; when it is about to be committed  *)
(* it is grounded in what is stored.  Rows are never removed, so neither   *)
(* can be undone by other requests.                                        *)
(***************************************************************************)
Delegates(r) == Request[r].kind = "delegate"

RestsOnParents ==
    \A r \in Requests :
        Delegates(r) /\ pc[r] \in Examining => found[r] \subseteq FoundParents(Request[r].target)

CommitsGrounded ==
    \A r \in Requests : Delegates(r) /\ pc[r] = "commit" => Grounded(stored, Request[r].target)

AuthorityInv == AuthorityGrounded /\ RestsOnParents /\ CommitsGrounded

LEMMA GroundedMonotone ==
    ASSUME NEW S, NEW T, S \subseteq T, NEW d, Grounded(S, d)
    PROVE  Grounded(T, d)
BY DEF Grounded

LEMMA AuthorityInit == Init => AuthorityInv
<1> SUFFICES ASSUME Init PROVE AuthorityInv
  OBVIOUS
<1>1. AuthorityGrounded
  <2>1. load \in Workloads /\ stored = load.stored
    BY DEF Init
  <2> QED
    BY <2>1, ChainAssumption DEF AuthorityGrounded
<1>2. \A r \in Requests : pc[r] \in {"idle", "done"}
  BY DEF Init
<1> QED
  BY <1>1, <1>2 DEF AuthorityInv, RestsOnParents, CommitsGrounded, Examining

(***************************************************************************)
(* A step that stores nothing, and brings no delegation to its examination *)
(* or its commit.                                                          *)
(***************************************************************************)
Keeps(r) ==
    /\ pc'[r] \in Examining => pc[r] \in Examining /\ found'[r] = found[r]
    /\ pc'[r] # "commit"

Aside(r) == \A q \in Requests : q # r => pc'[q] = pc[q] /\ found'[q] = found[q]

LEMMA AuthorityFrame ==
    ASSUME AuthorityInv, NEW r \in Requests, Aside(r), stored \subseteq stored',
           AuthorityGrounded',
           Delegates(r) => \/ Keeps(r)
                           \/ pc'[r] \in Examining /\ found'[r] \subseteq FoundParents(Request[r].target)
                           \/ pc'[r] = "commit" /\ Grounded(stored, Request[r].target)
    PROVE  AuthorityInv'
<1> USE DEF AuthorityInv
<1>1. \A d : FoundParents(d) \subseteq FoundParents(d)'
  BY DEF FoundParents
<1>2. RestsOnParents'
  BY <1>1 DEF RestsOnParents, Aside, Keeps, Examining, Delegates
<1>3. CommitsGrounded'
  BY GroundedMonotone DEF CommitsGrounded, Aside, Keeps, Examining, Delegates
<1> QED
  BY <1>2, <1>3

LEMMA GroundedFrame ==
    ASSUME AuthorityInv, UNCHANGED database
    PROVE  stored \subseteq stored' /\ AuthorityGrounded'
BY DEF AuthorityInv, AuthorityGrounded, Grounded, database

LEMMA AuthorityReply ==
    ASSUME Typed, AuthorityInv, NEW r \in Requests, NEW outcome, Reply(r, outcome),
           stored \subseteq stored', AuthorityGrounded'
    PROVE  AuthorityInv'
<1>1. Aside(r) /\ Keeps(r)
  BY DEF Reply, Aside, Keeps, Examining, Typed, TypeOK, OutcomeTypes, CheckTypes
<1> QED
  BY <1>1, AuthorityFrame

LEMMA AuthorityGoto ==
    ASSUME Typed, AuthorityInv, NEW r \in Requests, NEW label, label # "commit",
           pc' = [pc EXCEPT ![r] = label], UNCHANGED <<found, database>>,
           label \in Examining => pc[r] \in Examining
    PROVE  AuthorityInv'
<1>1. Aside(r) /\ Keeps(r)
  BY DEF Aside, Keeps, Typed, TypeOK, OutcomeTypes
<1> QED
  BY <1>1, AuthorityFrame, GroundedFrame

LEMMA AuthorityFind ==
    ASSUME Typed, AuthorityInv, NEW r \in Requests, Find(r)
    PROVE  AuthorityInv'
<1>1. UNCHANGED database
  BY DEF Find
<1>2. ASSUME NEW outcome, Reply(r, outcome) PROVE AuthorityInv'
  BY <1>1, <1>2, AuthorityReply, GroundedFrame
<1>3. ASSUME NEW ds, Examine(r, ds), Delegates(r) => ds \subseteq FoundParents(Request[r].target)
      PROVE  AuthorityInv'
  <2>1. Aside(r) /\ pc'[r] \in Examining /\ found'[r] = ds
    BY <1>3 DEF Examine, Goto, Aside, Examining, Typed, TypeOK, OutcomeTypes, CheckTypes
  <2> QED
    BY <1>1, <1>3, <2>1, AuthorityFrame, GroundedFrame
<1>4. ASSUME Accept(r), Delegates(r) => Grounded(stored, Request[r].target)
      PROVE  AuthorityInv'
  <2>1. Aside(r) /\ pc'[r] = "commit"
    BY <1>4 DEF Accept, Goto, checks, Aside, Typed, TypeOK, OutcomeTypes
  <2> QED
    BY <1>1, <1>4, <2>1, AuthorityFrame, GroundedFrame
<1>5. CASE Delegates(r)
  <2>1. FindDelegate(r)
    BY <1>5 DEF Find, Delegates
  <2>2. CASE Dependent(Content[Request[r].target].delegator, Content[Request[r].target].caps) = {}
    <3>1. Grounded(stored, Request[r].target)
      BY <2>2 DEF Dependent, Grounded
    <3> QED
      BY <1>2, <1>4, <2>1, <2>2, <3>1 DEF FindDelegate
  <2> QED
    BY <1>2, <1>3, <2>1, <2>2 DEF FindDelegate
<1>6. CASE ~Delegates(r)
  <2>1. FindInvoke(r) \/ FindRevoke(r) \/ FindStatus(r)
    BY ZenonT(30), <1>6, RequestType DEF Find, Delegates
  <2> QED
    BY <1>2, <1>3, <1>4, <1>6, <2>1 DEF FindInvoke, FindRevoke, FindStatus
<1> QED
  BY <1>5, <1>6

(***************************************************************************)
(* The heart of it: delegation::validate accepts only what the parents it  *)
(* found cover, capability by capability and for the whole validity.       *)
(***************************************************************************)
LEMMA SupportedIsGrounded ==
    ASSUME NEW d \in Delegations, NEW S \in SUBSET FoundParents(d), DelegateSupported(d, S)
    PROVE  Grounded(stored, d)
<1> SUFFICES ASSUME NEW c \in Content[d].caps, ~RootAuthority(c, Content[d].delegator)
             PROVE  \E p \in Content[d].parents \cap stored :
                       /\ Content[p].delegatee = Content[d].delegator
                       /\ ~Content[p].terminal
                       /\ Content[d].expiry <= Content[p].expiry
                       /\ Content[d].notBefore >= Content[p].notBefore
                       /\ \E parent \in Content[p].caps : Covers(parent, c)
  BY DEF Grounded
<1>1. PICK p \in TimelyParents(d, S) : \E parent \in Content[p].caps : Covers(parent, c)
  BY DEF DelegateSupported, SupportedBy, Dependent
<1> QED
  BY <1>1 DEF DelegateSupported, TimelyParents, FoundParents

LEMMA AuthorityAuthorize ==
    ASSUME Typed, AuthorityInv, NEW r \in Requests, Authorize(r)
    PROVE  AuthorityInv'
<1>1. UNCHANGED database /\ pc[r] = "next"
  BY DEF Authorize
<1>2. ASSUME NEW outcome, Reply(r, outcome) PROVE AuthorityInv'
  BY <1>1, <1>2, AuthorityReply, GroundedFrame
<1>3. CASE UNCHANGED <<pc, found>>
  <2>1. Aside(r) /\ Keeps(r)
    BY <1>1, <1>3 DEF Aside, Keeps
  <2> QED
    BY <1>1, <2>1, AuthorityFrame, GroundedFrame
<1>4. CASE Supported(r) /\ Accept(r)
  <2>1. Aside(r) /\ pc'[r] = "commit"
    BY <1>4 DEF Accept, Goto, checks, Aside, Typed, TypeOK, OutcomeTypes
  <2>2. ASSUME Delegates(r) PROVE Grounded(stored, Request[r].target)
    <3>1. found[r] \subseteq FoundParents(Request[r].target)
      BY <1>1, <2>2 DEF AuthorityInv, RestsOnParents, Examining
    <3>2. DelegateSupported(Request[r].target, found[r])
      BY <1>4, <2>2 DEF Supported, Delegates
    <3>3. Request[r].target \in Delegations
      BY <2>2, RequestType DEF Delegates
    <3> QED
      BY <3>1, <3>2, <3>3, SupportedIsGrounded
  <2> QED
    BY <1>1, <2>1, <2>2, AuthorityFrame, GroundedFrame
<1> QED
  BY <1>2, <1>3, <1>4 DEF Authorize

LEMMA AuthorityCommit ==
    ASSUME Typed, AuthorityInv, NEW r \in Requests, Commit(r)
    PROVE  AuthorityInv'
<1>1. CASE Save(r) /\ Reply(r, "ok")
  <2>1. CASE Delegates(r)
    <3>1. stored' = stored \cup {Request[r].target}
      BY <1>1, <2>1 DEF Save, Delegates
    <3>2. Grounded(stored, Request[r].target)
      BY <2>1 DEF Commit, AuthorityInv, CommitsGrounded
    <3>3. \A d \in stored' : Grounded(stored, d)
      BY <3>1, <3>2 DEF AuthorityInv, AuthorityGrounded
    <3>4. \A d \in stored' : Grounded(stored', d)
      BY <3>1, <3>3, GroundedMonotone
    <3>5. AuthorityGrounded'
      BY <3>4 DEF AuthorityGrounded, Grounded
    <3> QED
      BY <1>1, <3>1, <3>5, AuthorityReply
  <2>2. CASE ~Delegates(r)
    <3>1. Request[r].kind = "revoke" \/ Request[r].kind = "invoke"
      BY <2>2, RequestType DEF Commit, Typed, WritersCommit, Delegates
    <3>2. UNCHANGED stored
      BY Zenon, <1>1, <3>1 DEF Save
    <3>3. stored \subseteq stored' /\ AuthorityGrounded'
      BY <3>2 DEF AuthorityInv, AuthorityGrounded, Grounded
    <3> QED
      BY <1>1, <3>3, AuthorityReply
  <2> QED
    BY <2>1, <2>2
<1>2. CASE Reply(r, "refused") /\ UNCHANGED database
  BY <1>2, AuthorityReply, GroundedFrame
<1> QED
  BY <1>1, <1>2 DEF Commit

LEMMA AuthorityServe ==
    ASSUME Typed, AuthorityInv, NEW r \in Requests, Serve(r)
    PROVE  AuthorityInv'
<1>1. ASSUME UNCHANGED database, NEW outcome, Reply(r, outcome) PROVE AuthorityInv'
  BY <1>1, AuthorityReply, GroundedFrame
<1>2. ASSUME NEW label, Goto(r, label), label # "commit", UNCHANGED <<found, database>>,
             label \in Examining => pc[r] \in Examining
      PROVE  AuthorityInv'
  BY Zenon, <1>2, AuthorityGoto DEF Goto
<1>3. CASE Arrive(r)
  <2>1. CASE pc' = [pc EXCEPT ![r] = "keys"] /\ UNCHANGED checks
    BY ZenonT(30), <1>3, <2>1, AuthorityGoto DEF Arrive, checks, Examining
  <2> QED
    BY <1>1, <1>3, <2>1 DEF Arrive
<1>4. CASE WalkKeys(r)
  <2>1. CASE Goto(r, "keys") /\ UNCHANGED checks
    BY <1>2, <1>4, <2>1 DEF WalkKeys, checks, Examining
  <2> QED
    BY <1>1, <1>4, <2>1 DEF WalkKeys
<1>5. CASE Register(r)
  BY <1>2, <1>5 DEF Register, checks, Examining
<1>6. CASE LockNext(r)
  <2>1. UNCHANGED <<pc, found, database>>
    BY Zenon, <1>6 DEF LockNext, checks
  <2>2. Aside(r) /\ Keeps(r)
    BY <1>6, <2>1 DEF LockNext, Aside, Keeps, Examining
  <2> QED
    BY Zenon, <2>1, <2>2, AuthorityFrame, GroundedFrame
<1>7. CASE Begin(r)
  BY <1>2, <1>7 DEF Begin, checks, Examining
<1>8. CASE NextParent(r)
  <2>1. ASSUME NEW d, Climb(r, d) PROVE AuthorityInv'
    BY <1>2, <1>8, <2>1 DEF NextParent, Climb, Examining
  <2> QED
    BY <1>1, <1>8, <2>1 DEF NextParent
<1>9. CASE WalkChain(r)
  <2>1. ASSUME NEW label \in {"climb", "check"}, Goto(r, label), UNCHANGED found
        PROVE  AuthorityInv'
    BY <1>2, <1>9, <2>1 DEF WalkChain, Examining
  <2> QED
    BY ZenonT(30), <1>1, <1>9, <2>1 DEF WalkChain
<1>10. CASE CheckAncestor(r)
  <2>1. CASE Goto(r, "check") /\ UNCHANGED found
    BY <1>2, <1>10, <2>1 DEF CheckAncestor, Examining
  <2> QED
    BY <1>1, <1>10, <2>1 DEF CheckAncestor
<1>11. CASE ChainClear(r)
  <2>1. CASE Goto(r, "next") /\ UNCHANGED checks
    BY <1>2, <1>11, <2>1 DEF ChainClear, checks, Examining
  <2> QED
    BY <1>1, <1>11, <2>1 DEF ChainClear
<1> QED
  BY <1>3, <1>4, <1>5, <1>6, <1>7, <1>8, <1>9, <1>10, <1>11, AuthorityFind, AuthorityAuthorize,
     AuthorityCommit
  DEF Serve

LEMMA AuthorityStep == Typed /\ AuthorityInv /\ [Next]_vars => AuthorityInv'
<1> SUFFICES ASSUME Typed, AuthorityInv, [Next]_vars PROVE AuthorityInv'
  OBVIOUS
<1>1. ASSUME NEW r \in Requests, Fail(r) PROVE AuthorityInv'
  BY <1>1, AuthorityReply, GroundedFrame DEF Fail
<1>2. CASE Restart
  <2>1. UNCHANGED database
    BY <1>2 DEF Restart
  <2>2. \A r \in Requests : pc'[r] \notin Examining /\ pc'[r] # "commit"
    BY <1>2 DEF Restart, InFlight, Validating, Examining
  <2> QED
    BY <2>1, <2>2, GroundedFrame DEF AuthorityInv, RestsOnParents, CommitsGrounded
<1>3. CASE UNCHANGED <<database, pc, found>>
  <2>1. AuthorityGrounded'
    BY <1>3, GroundedFrame
  <2>2. RestsOnParents' /\ CommitsGrounded'
    BY Zenon, <1>3 DEF AuthorityInv, RestsOnParents, CommitsGrounded, Delegates, FoundParents, Grounded,
                database
  <2> QED
    BY <2>1, <2>2 DEF AuthorityInv
<1>4. Tick \/ UNCHANGED vars => UNCHANGED <<database, pc, found>>
  BY DEF Tick, vars, checks
<1> QED
  BY <1>1, <1>2, <1>3, <1>4, AuthorityServe DEF Next, Finished

(***************************************************************************)
(* delegation::validate and the tables' keys: whatever is registered,      *)
(* revoked, used or queried concurrently, with crashes and failures, no    *)
(* stored delegation grants what its delegator neither owns nor was given. *)
(***************************************************************************)
THEOREM AuthorityIsGrounded == Spec => []AuthorityGrounded
<1>1. AuthorityInv => AuthorityGrounded
  BY DEF AuthorityInv
<1>2. Init => AuthorityInv
  BY AuthorityInit
<1>3. Typed /\ AuthorityInv /\ [Next]_vars => AuthorityInv'
  BY AuthorityStep
<1> QED
  BY <1>1, <1>2, <1>3, TypesHold, PTL DEF Spec

-----------------------------------------------------------------------------
(***************************************************************************)
(* A walk in progress gets all the parents of the node it pops next.  That *)
(* this holds throughout when no query of a request's chain is cut short   *)
(* is the last section's subject.                                          *)
(***************************************************************************)
Walking == {"keys", "climb"}

RowsWhole ==
    \A r \in Requests : pc[r] \in Walking =>
        \A d \in frontier[r] \cap stored :
            \A rows \in ParentRows(Links, d, visited[r] \cup {d}) : rows = Content[d].parents

Closed(T) == \A d \in T : Content[d].parents \subseteq T

LEMMA ChainInClosed ==
    ASSUME NEW T \in SUBSET Delegations, Closed(T), NEW R \in SUBSET T
    PROVE  Chain(Links, R) \subseteq T
<1>1. AncestorClosed(Links, T)
  BY DEF Closed, AncestorClosed, Links
<1> QED
  BY <1>1 DEF Chain

-----------------------------------------------------------------------------
(***************************************************************************)
(* The invariant of a request that writes, step by step.  Writers are the  *)
(* requests other than status queries.  Before validation it has passed    *)
(* nothing; between two chain checks what it passed is closed under        *)
(* citation and holds every delegation done with; during one, only the     *)
(* chain of the leaf may be missing from it.                               *)
(***************************************************************************)
Writer(r) == Request[r].kind # "status"

StoredClosed == Closed(stored)

EarlyClear(r) ==
    pc[r] \in {"idle", "keys", "lock", "find", "done"} => passed[r] = {} /\ found[r] = {}

NextClear(r) ==
    pc[r] = "next" => found[r] \ todo[r] \subseteq passed[r] /\ Closed(passed[r])

ClimbClear(r) ==
    pc[r] = "climb" =>
        /\ leaf[r] \in visited[r] \cup frontier[r]
        /\ visited[r] \cup frontier[r] \subseteq stored
        /\ LooksUpLeaf(r) => leaf[r] \in passed[r]
        /\ \A d \in visited[r] : Content[d].parents \subseteq visited[r] \cup frontier[r]
        /\ \A d \in passed[r] \ {leaf[r]} : Content[d].parents \subseteq passed[r]
        /\ found[r] \ todo[r] \subseteq passed[r] \cup {leaf[r]}

CheckClear(r) ==
    pc[r] = "check" =>
        /\ leaf[r] \in visited[r]
        /\ Closed(visited[r])
        /\ unseen[r] \subseteq visited[r]
        /\ visited[r] \subseteq passed[r] \cup unseen[r]
        /\ \A d \in passed[r] : Content[d].parents \subseteq passed[r] \cup visited[r]
        /\ found[r] \ todo[r] \subseteq passed[r] \cup {leaf[r]}

CommitClear(r) == pc[r] = "commit" => found[r] \subseteq passed[r] /\ Closed(passed[r])

TodoStored(r) == pc[r] \in Examining => todo[r] \subseteq stored

RequestClear(r) ==
    /\ EarlyClear(r) /\ NextClear(r) /\ ClimbClear(r) /\ CheckClear(r) /\ CommitClear(r)
    /\ TodoStored(r)

ChainsClear == \A r \in Requests : Writer(r) => RequestClear(r)

ClearInv == StoredClosed /\ ChainsClear

(***************************************************************************)
(* Other requests only add to stored, which keeps all of this.             *)
(***************************************************************************)
Locals(r) ==
    <<pc[r], frontier[r], visited[r], found[r], todo[r], leaf[r], unseen[r], passed[r], answer[r]>>

LEMMA ClearAside ==
    ASSUME NEW r \in Requests, RequestClear(r), UNCHANGED Locals(r), stored \subseteq stored'
    PROVE  RequestClear(r)'
<1> USE DEF RequestClear, Locals
<1>1. EarlyClear(r)' /\ NextClear(r)' /\ CheckClear(r)' /\ CommitClear(r)' /\ TodoStored(r)'
  BY DEF EarlyClear, NextClear, CheckClear, CommitClear, TodoStored, Closed
<1>2. ClimbClear(r)'
  BY DEF ClimbClear, LooksUpLeaf
<1> QED
  BY <1>1, <1>2

LEMMA ClearFrame ==
    ASSUME ClearInv, NEW r \in Requests, stored \subseteq stored', StoredClosed',
           \A q \in Requests : q # r => UNCHANGED Locals(q),
           Writer(r) => RequestClear(r)'
    PROVE  ClearInv'
<1> SUFFICES ASSUME NEW q \in Requests, Writer(q) PROVE RequestClear(q)'
  BY DEF ClearInv, ChainsClear, Writer
<1> QED
  BY ClearAside DEF ClearInv, ChainsClear

LEMMA ClearInit == Init => ClearInv
<1> SUFFICES ASSUME Init PROVE ClearInv
  OBVIOUS
<1>1. StoredClosed
  BY ChainAssumption DEF Init, StoredClosed, Closed
<1>2. ChainsClear
  BY DEF Init, ChainsClear, RequestClear, EarlyClear, NextClear, ClimbClear, CheckClear,
         CommitClear, TodoStored, Unset, Examining
<1> QED
  BY <1>1, <1>2 DEF ClearInv

LEMMA ClearReply ==
    ASSUME Typed, ClearInv, NEW r \in Requests, NEW outcome, Reply(r, outcome),
           stored \subseteq stored', StoredClosed'
    PROVE  ClearInv'
<1> USE DEF Typed, TypeOK, WalkTypes, CheckTypes, OutcomeTypes
<1>1. \A q \in Requests : q # r => UNCHANGED Locals(q)
  BY DEF Reply, Locals
<1>2. pc'[r] = "done" /\ passed'[r] = {} /\ found'[r] = {}
  BY DEF Reply
<1>3. RequestClear(r)'
  BY <1>2 DEF RequestClear, EarlyClear, NextClear, ClimbClear, CheckClear, CommitClear,
              TodoStored, Examining
<1> QED
  BY <1>1, <1>3, ClearFrame

LEMMA ClosedFrame ==
    ASSUME ClearInv, UNCHANGED database
    PROVE  stored \subseteq stored' /\ StoredClosed'
BY DEF ClearInv, StoredClosed, Closed, database

LEMMA ClearEnd ==
    ASSUME Typed, ClearInv, UNCHANGED database, NEW r \in Requests, NEW outcome, Reply(r, outcome)
    PROVE  ClearInv'
BY ClosedFrame, ClearReply

(***************************************************************************)
(* Up to the first statement of validation nothing is passed.              *)
(***************************************************************************)
LEMMA ClearEarly ==
    ASSUME Typed, ClearInv, UNCHANGED <<database, checks, answer>>, NEW r \in Requests,
           \A q \in Requests : q # r => UNCHANGED <<frontier[q], visited[q]>>,
           NEW label \in {"keys", "lock", "find"}, pc' = [pc EXCEPT ![r] = label],
           pc[r] \in {"idle", "keys", "lock", "find"}
    PROVE  ClearInv'
<1>1. \A q \in Requests : q # r => UNCHANGED Locals(q)
  BY DEF Locals, checks, Typed, TypeOK, OutcomeTypes
<1>2. pc'[r] = label
  BY DEF Typed, TypeOK, OutcomeTypes
<1>3. ASSUME Writer(r) PROVE RequestClear(r)'
  <2>1. EarlyClear(r)
    BY <1>3 DEF ClearInv, ChainsClear, RequestClear
  <2> QED
    BY <1>2, <2>1 DEF RequestClear, EarlyClear, NextClear, ClimbClear, CheckClear, CommitClear,
                      TodoStored, Examining, checks
<1> QED
  BY <1>1, <1>3, ClosedFrame, ClearFrame

LEMMA ClearAccept ==
    ASSUME Typed, ClearInv, UNCHANGED database, NEW r \in Requests, Accept(r),
           Writer(r) => found[r] \subseteq passed[r] /\ Closed(passed[r])
    PROVE  ClearInv'
<1>1. \A q \in Requests : q # r => UNCHANGED Locals(q)
  BY DEF Accept, Goto, Locals, walk, checks, Typed, TypeOK, OutcomeTypes
<1>2. pc'[r] = "commit" /\ UNCHANGED <<found, passed>>
  BY DEF Accept, Goto, checks, Typed, TypeOK, OutcomeTypes
<1>3. ASSUME Writer(r) PROVE RequestClear(r)'
  BY <1>2, <1>3 DEF RequestClear, EarlyClear, NextClear, ClimbClear, CheckClear, CommitClear,
                    TodoStored, Examining, Closed
<1> QED
  BY <1>1, <1>3, ClosedFrame, ClearFrame

LEMMA ClearExamine ==
    ASSUME Typed, ClearInv, UNCHANGED database, NEW r \in Requests, NEW ds, Examine(r, ds),
           pc[r] = "find", Writer(r) => ds \subseteq stored
    PROVE  ClearInv'
<1> USE DEF Typed, TypeOK, OutcomeTypes, CheckTypes
<1>1. \A q \in Requests : q # r => UNCHANGED Locals(q)
  BY DEF Examine, Goto, Locals, walk
<1>2. pc'[r] = "next" /\ found'[r] = ds /\ todo'[r] = ds /\ UNCHANGED <<stored, passed>>
  BY DEF Examine, Goto, database
<1>3. ASSUME Writer(r) PROVE RequestClear(r)'
  <2>1. passed[r] = {}
    BY <1>3 DEF ClearInv, ChainsClear, RequestClear, EarlyClear
  <2> QED
    BY <1>2, <1>3, <2>1 DEF RequestClear, EarlyClear, NextClear, ClimbClear, CheckClear,
                            CommitClear, TodoStored, Examining, Closed
<1> QED
  BY <1>1, <1>3, ClosedFrame, ClearFrame

LEMMA ClearFind ==
    ASSUME Typed, ClearInv, NEW r \in Requests, Find(r)
    PROVE  ClearInv'
<1>1. UNCHANGED database /\ pc[r] = "find"
  BY DEF Find
<1>2. ASSUME NEW outcome, Reply(r, outcome) PROVE ClearInv'
  BY <1>1, <1>2, ClearEnd
<1>3. ASSUME NEW ds, Examine(r, ds), Writer(r) => ds \subseteq stored PROVE ClearInv'
  BY <1>1, <1>3, ClearExamine
<1>4. ASSUME Accept(r) PROVE ClearInv'
  <2>1. ASSUME Writer(r) PROVE found[r] = {} /\ passed[r] = {}
    BY <1>1, <2>1 DEF ClearInv, ChainsClear, RequestClear, EarlyClear
  <2> QED
    BY <1>1, <1>4, <2>1, ClearAccept DEF Closed
<1>5. CASE FindDelegate(r)
  <2>1. FoundParents(Request[r].target) \subseteq stored
    BY DEF FoundParents
  <2> QED
    BY <1>2, <1>3, <1>4, <1>5, <2>1 DEF FindDelegate
<1>6. CASE FindInvoke(r)
  BY <1>2, <1>3, <1>4, <1>6 DEF FindInvoke
<1>7. CASE FindRevoke(r)
  <2>1. ProofUsable(r) => Request[r].cites \subseteq stored
    BY DEF ProofUsable
  <2> QED
    BY <1>2, <1>3, <1>7, <2>1 DEF FindRevoke
<1>8. CASE FindStatus(r)
  <2>1. ProofUsable(r) => Request[r].cites \subseteq stored
    BY DEF ProofUsable
  <2> QED
    BY <1>2, <1>3, <1>8, <2>1 DEF FindStatus
<1> QED
  BY Zenon, <1>5, <1>6, <1>7, <1>8, RequestType DEF Find

(***************************************************************************)
(* The check of one chain.                                                 *)
(***************************************************************************)
LEMMA ClearNextParent ==
    ASSUME Typed, ClearInv, NEW r \in Requests, NextParent(r)
    PROVE  ClearInv'
<1> USE DEF Typed, TypeOK, OutcomeTypes, CheckTypes, WalkTypes
<1>1. UNCHANGED database /\ pc[r] = "next"
  BY DEF NextParent
<1>2. CASE Reply(r, RevokedAnswer(r))
  BY <1>1, <1>2, ClearEnd
<1>3. ASSUME NEW d \in todo[r], Climb(r, d), todo' = [todo EXCEPT ![r] = @ \ {d}]
      PROVE  ClearInv'
  <2>1. \A q \in Requests : q # r => UNCHANGED Locals(q)
    BY <1>3 DEF Climb, Goto, Locals
  <2>2. /\ pc'[r] = "climb" /\ leaf'[r] = d /\ frontier'[r] = {d} /\ visited'[r] = {}
        /\ todo'[r] = todo[r] \ {d} /\ UNCHANGED <<stored, found, answer>>
        /\ passed'[r] = IF LooksUpLeaf(r) THEN passed[r] \cup {d} ELSE passed[r]
    BY <1>1, <1>3 DEF Climb, Goto, database
  <2>3. LooksUpLeaf(r)' = LooksUpLeaf(r)
    BY <2>2 DEF LooksUpLeaf
  <2>4. ASSUME Writer(r) PROVE RequestClear(r)'
    <3>1. NextClear(r) /\ TodoStored(r)
      BY <2>4 DEF ClearInv, ChainsClear, RequestClear
    <3>2. d \in stored /\ todo'[r] \subseteq stored
      BY <1>1, <1>3, <2>2, <3>1 DEF TodoStored, Examining
    <3>3. ClimbClear(r)'
      BY <1>1, <2>2, <2>3, <3>1, <3>2 DEF NextClear, ClimbClear, Closed
    <3> QED
      BY <2>2, <3>2, <3>3 DEF RequestClear, EarlyClear, NextClear, CheckClear, CommitClear,
                              TodoStored
  <2> QED
    BY <1>1, <2>1, <2>4, ClosedFrame, ClearFrame
<1> QED
  BY <1>2, <1>3 DEF NextParent

LEMMA ClearWalkChain ==
    ASSUME RowsWhole, Typed, ClearInv, NEW r \in Requests, WalkChain(r)
    PROVE  ClearInv'
<1> USE DEF Typed, TypeOK, OutcomeTypes, CheckTypes, WalkTypes
<1>1. UNCHANGED database /\ pc[r] = "climb"
  BY DEF WalkChain
<1> DEFINE Step(d, rows) ==
        IF WithinLimit(Known(frontier[r], visited[r], rows))
        THEN /\ visited' = [visited EXCEPT ![r] = @ \cup {d}]
             /\ frontier' = [frontier EXCEPT ![r] = Push(@, visited'[r], rows)]
             /\ Goto(r, IF frontier'[r] = {} THEN "check" ELSE "climb")
             /\ unseen' = [unseen EXCEPT ![r] = AncestorsToCheck(r, visited'[r])]
             /\ UNCHANGED <<conn, guards, found, todo, leaf, passed, now>>
        ELSE Reply(r, IF answer[r] = "authorized" THEN "unavailable" ELSE RevokedAnswer(r))
<1>0. PICK d \in frontier[r] : \E rows \in ParentRows(Links, d, visited[r] \cup {d}) : Step(d, rows)
  BY Zenon DEF WalkChain
<1>2. PICK rows \in ParentRows(Links, d, visited[r] \cup {d}) : Step(d, rows)
  BY <1>0
<1>3. CASE ~WithinLimit(Known(frontier[r], visited[r], rows))
  BY <1>1, <1>2, <1>3, ClearEnd
<1>4. CASE WithinLimit(Known(frontier[r], visited[r], rows))
  <2>1. \A q \in Requests : q # r => UNCHANGED Locals(q)
    <3>1. \A q \in Requests : q # r => visited'[q] = visited[q] /\ frontier'[q] = frontier[q]
      BY <1>2, <1>4
    <3>2. \A q \in Requests : q # r => pc'[q] = pc[q] /\ unseen'[q] = unseen[q]
      BY <1>2, <1>4 DEF Goto
    <3>3. UNCHANGED <<found, todo, leaf, passed, answer>>
      BY <1>2, <1>4 DEF Goto
    <3> QED
      BY <3>1, <3>2, <3>3 DEF Locals
  <2>2. /\ visited'[r] = visited[r] \cup {d}
        /\ frontier'[r] = (frontier[r] \cup rows) \ visited'[r]
        /\ pc'[r] = IF frontier'[r] = {} THEN "check" ELSE "climb"
        /\ unseen'[r] = AncestorsToCheck(r, visited'[r])
        /\ UNCHANGED <<stored, found, todo, leaf, passed, answer>>
    BY <1>1, <1>2, <1>4 DEF Goto, Push, database
  <2>3. ASSUME Writer(r) PROVE RequestClear(r)'
    <3>1. ClimbClear(r) /\ TodoStored(r) /\ StoredClosed
      BY <2>3 DEF ClearInv, ChainsClear, RequestClear
    <3>2. d \in stored /\ visited[r] \cup {d} \in SUBSET Delegations
      BY <1>1, <3>1 DEF ClimbClear, Hashes
    <3>3. rows = Content[d].parents
      BY <1>1, <3>2 DEF RowsWhole, Walking
    <3>4. rows \subseteq stored
      BY <3>1, <3>2, <3>3 DEF StoredClosed, Closed
    <3>5. /\ leaf[r] \in visited'[r] \cup frontier'[r]
          /\ visited'[r] \cup frontier'[r] \subseteq stored
          /\ \A e \in visited'[r] : Content[e].parents \subseteq visited'[r] \cup frontier'[r]
      BY ZenonT(30), <1>1, <2>2, <3>1, <3>2, <3>3, <3>4 DEF ClimbClear
    <3>6. LooksUpLeaf(r)' = LooksUpLeaf(r)
      BY ZenonT(30), <2>2 DEF LooksUpLeaf
    <3>7. ClimbClear(r)'
      BY ZenonT(30), <1>1, <2>2, <3>1, <3>5, <3>6 DEF ClimbClear
    <3>8. CheckClear(r)'
      <4> SUFFICES ASSUME pc'[r] = "check"
                   PROVE  /\ leaf[r] \in visited'[r]
                          /\ Closed(visited'[r])
                          /\ unseen'[r] \subseteq visited'[r]
                          /\ visited'[r] \subseteq passed[r] \cup unseen'[r]
                          /\ \A e \in passed[r] : Content[e].parents \subseteq passed[r] \cup visited'[r]
                          /\ found[r] \ todo[r] \subseteq passed[r] \cup {leaf[r]}
        BY ZenonT(30), <2>2 DEF CheckClear, Closed
      <4>1. frontier'[r] = {}
        BY <2>2
      <4>2. leaf[r] \in visited'[r] /\ Closed(visited'[r])
        BY <3>5, <4>1 DEF Closed
      <4>3. unseen'[r] \subseteq visited'[r] /\ visited'[r] \subseteq passed[r] \cup unseen'[r]
        BY <1>1, <2>2, <3>1 DEF ClimbClear, AncestorsToCheck
      <4>4. \A e \in passed[r] : Content[e].parents \subseteq passed[r] \cup visited'[r]
        BY <1>1, <3>1, <4>2 DEF ClimbClear, Closed
      <4> QED
        BY <1>1, <3>1, <4>2, <4>3, <4>4 DEF ClimbClear
    <3> QED
      BY <1>1, <2>2, <3>1, <3>7, <3>8 DEF RequestClear, EarlyClear, NextClear, CommitClear,
                                          TodoStored, Examining
  <2> QED
    BY <1>1, <2>1, <2>3, ClosedFrame, ClearFrame
<1> QED
  BY <1>3, <1>4

LEMMA ClearCheckAncestor ==
    ASSUME Typed, ClearInv, NEW r \in Requests, CheckAncestor(r)
    PROVE  ClearInv'
<1> USE DEF Typed, TypeOK, OutcomeTypes, CheckTypes
<1>1. UNCHANGED database /\ pc[r] = "check"
  BY DEF CheckAncestor
<1>2. CASE Reply(r, RevokedAnswer(r))
  BY <1>1, <1>2, ClearEnd
<1>3. ASSUME NEW d \in unseen[r], unseen' = [unseen EXCEPT ![r] = @ \ {d}],
             passed' = [passed EXCEPT ![r] = @ \cup {d}], Goto(r, "check"),
             UNCHANGED <<walk, found, todo, leaf>>
      PROVE  ClearInv'
  <2>1. \A q \in Requests : q # r => UNCHANGED Locals(q)
    BY <1>3 DEF Goto, Locals, walk
  <2>2. /\ pc'[r] = "check" /\ unseen'[r] = unseen[r] \ {d} /\ passed'[r] = passed[r] \cup {d}
        /\ UNCHANGED <<stored, visited, found, todo, leaf>>
    BY <1>1, <1>3 DEF Goto, walk, database
  <2>3. ASSUME Writer(r) PROVE RequestClear(r)'
    <3>1. CheckClear(r) /\ TodoStored(r)
      BY <2>3 DEF ClearInv, ChainsClear, RequestClear
    <3>2. CheckClear(r)'
      BY ZenonT(30), <1>1, <1>3, <2>2, <3>1 DEF CheckClear, Closed
    <3> QED
      BY <1>1, <2>2, <3>1, <3>2 DEF RequestClear, EarlyClear, NextClear, ClimbClear,
                                    CommitClear, TodoStored, Examining
  <2> QED
    BY <1>1, <2>1, <2>3, ClosedFrame, ClearFrame
<1> QED
  BY <1>2, <1>3 DEF CheckAncestor

LEMMA ClearChainClear ==
    ASSUME Typed, ClearInv, NEW r \in Requests, ChainClear(r)
    PROVE  ClearInv'
<1> USE DEF Typed, TypeOK, OutcomeTypes
<1>1. UNCHANGED database /\ pc[r] = "check" /\ unseen[r] = {}
  BY ZenonT(30) DEF ChainClear
<1>2. ASSUME NEW outcome, Reply(r, outcome) PROVE ClearInv'
  BY Zenon, <1>1, <1>2, ClearEnd
<1>3. CASE Goto(r, "next") /\ UNCHANGED <<walk, checks>>
  <2>1. \A q \in Requests : q # r => UNCHANGED Locals(q)
    BY <1>3 DEF Goto, Locals, walk, checks
  <2>2. pc'[r] = "next" /\ UNCHANGED <<stored, found, todo, passed>>
    BY <1>1, <1>3 DEF Goto, checks, database
  <2>3. ASSUME Writer(r) PROVE RequestClear(r)'
    <3>1. CheckClear(r) /\ TodoStored(r)
      BY <2>3 DEF ClearInv, ChainsClear, RequestClear
    <3>2. visited[r] \subseteq passed[r] /\ leaf[r] \in passed[r]
      BY <1>1, <3>1 DEF CheckClear
    <3>3. Closed(passed[r]) /\ found[r] \ todo[r] \subseteq passed[r]
      BY <1>1, <3>1, <3>2 DEF CheckClear, Closed
    <3> QED
      BY <1>1, <2>2, <3>1, <3>3 DEF RequestClear, EarlyClear, NextClear, ClimbClear, CheckClear,
                                    CommitClear, TodoStored, Examining, Closed
  <2> QED
    BY <1>1, <2>1, <2>3, ClosedFrame, ClearFrame
<1> QED
  BY ZenonT(30), <1>2, <1>3 DEF ChainClear

LEMMA ClearAuthorize ==
    ASSUME Typed, ClearInv, NEW r \in Requests, Authorize(r)
    PROVE  ClearInv'
<1>1. UNCHANGED database /\ pc[r] = "next" /\ todo[r] = {}
  BY DEF Authorize
<1>2. CASE Reply(r, RevokedAnswer(r))
  BY <1>1, <1>2, ClearEnd
<1>3. CASE /\ ~Writer(r)
           /\ answer' = [answer EXCEPT ![r] = "authorized"]
           /\ todo' = [todo EXCEPT ![r] = {Request[r].target}]
           /\ UNCHANGED <<pc, walk, found, leaf, unseen, passed>>
  <2>1. \A q \in Requests : q # r => UNCHANGED Locals(q)
    BY <1>3 DEF Locals, walk, Typed, TypeOK, OutcomeTypes, CheckTypes
  <2> QED
    BY <1>1, <1>3, <2>1, ClosedFrame, ClearFrame
<1>4. CASE Accept(r)
  <2>1. ASSUME Writer(r) PROVE found[r] \subseteq passed[r] /\ Closed(passed[r])
    BY <1>1, <2>1 DEF ClearInv, ChainsClear, RequestClear, NextClear
  <2> QED
    BY <1>1, <1>4, <2>1, ClearAccept
<1> QED
  BY <1>2, <1>3, <1>4 DEF Authorize, Writer

(***************************************************************************)
(* The foreign key of parent_delegation keeps stored closed.               *)
(***************************************************************************)
LEMMA ClearCommit ==
    ASSUME Typed, ClearInv, NEW r \in Requests, Commit(r)
    PROVE  ClearInv'
<1>1. CASE Save(r) /\ Reply(r, "ok") /\ Request[r].cites \subseteq stored
  <2>1. CASE Request[r].kind = "delegate"
    <3>1. stored' = stored \cup {Request[r].target}
      BY <1>1, <2>1 DEF Save
    <3>2. Content[Request[r].target].parents \subseteq stored
      BY <1>1, <2>1, ChainAssumption
    <3>3. StoredClosed'
      BY <3>1, <3>2 DEF ClearInv, StoredClosed, Closed
    <3> QED
      BY <1>1, <3>1, <3>3, ClearReply
  <2>2. CASE Request[r].kind # "delegate"
    <3>1. Request[r].kind = "revoke" \/ Request[r].kind = "invoke"
      BY <2>2, RequestType DEF Commit, Typed, WritersCommit
    <3>2. UNCHANGED stored
      BY ZenonT(30), <1>1, <3>1 DEF Save
    <3>3. stored \subseteq stored' /\ StoredClosed'
      BY <3>2 DEF ClearInv, StoredClosed, Closed
    <3> QED
      BY <1>1, <3>3, ClearReply
  <2> QED
    BY <2>1, <2>2
<1>2. CASE Reply(r, "refused") /\ UNCHANGED database
  BY <1>2, ClearEnd
<1> QED
  BY <1>1, <1>2 DEF Commit

LEMMA ClearServe ==
    ASSUME RowsWhole, Typed, ClearInv, NEW r \in Requests, Serve(r)
    PROVE  ClearInv'
<1> USE DEF Typed, TypeOK, OutcomeTypes, WalkTypes
<1>1. CASE Arrive(r)
  <2>1. CASE /\ pc' = [pc EXCEPT ![r] = "keys"]
             /\ frontier' = [frontier EXCEPT ![r] = Roots(r)]
             /\ UNCHANGED <<visited, checks, answer>>
    <3>1. \A q \in Requests : q # r => UNCHANGED <<frontier[q], visited[q]>>
      BY <2>1
    <3> QED
      BY Zenon, <1>1, <2>1, <3>1, ClearEarly DEF Arrive
  <2>2. UNCHANGED database
    BY Zenon, <1>1 DEF Arrive
  <2> QED
    BY Zenon, <1>1, <2>1, <2>2, ClearEnd DEF Arrive
<1>2. CASE WalkKeys(r)
  <2>1. UNCHANGED database /\ pc[r] = "keys"
    BY <1>2 DEF WalkKeys
  <2>2. ASSUME NEW d, NEW rows, visited' = [visited EXCEPT ![r] = @ \cup {d}],
               frontier' = [frontier EXCEPT ![r] = Push(@, visited'[r], rows)],
               Goto(r, "keys"), UNCHANGED checks
        PROVE  ClearInv'
    <3>1. \A q \in Requests : q # r => UNCHANGED <<frontier[q], visited[q]>>
      BY <2>2
    <3> QED
      BY Zenon, <2>1, <2>2, <3>1, ClearEarly DEF Goto
  <2> QED
    BY <1>2, <2>1, <2>2, ClearEnd DEF WalkKeys
<1>3. CASE Register(r)
  BY ZenonT(30), <1>3, ClearEarly DEF Register, Goto, walk
<1>4. CASE LockNext(r)
  <2>1. UNCHANGED <<database, checks, answer, frontier, visited>> /\ pc' = [pc EXCEPT ![r] = "lock"]
    BY ZenonT(30), <1>4 DEF LockNext, walk
  <2> QED
    BY Zenon, <1>4, <2>1, ClearEarly DEF LockNext
<1>5. CASE Begin(r)
  BY Zenon, <1>5, ClearEarly DEF Begin, Goto, walk
<1> QED
  BY <1>1, <1>2, <1>3, <1>4, <1>5, ClearFind, ClearNextParent, ClearWalkChain,
     ClearCheckAncestor, ClearChainClear, ClearAuthorize, ClearCommit
  DEF Serve

LEMMA ClearStep == RowsWhole /\ Typed /\ ClearInv /\ [Next]_vars => ClearInv'
<1> SUFFICES ASSUME RowsWhole, Typed, ClearInv, [Next]_vars PROVE ClearInv'
  OBVIOUS
<1>1. ASSUME NEW r \in Requests, Fail(r) PROVE ClearInv'
  BY <1>1, ClearEnd DEF Fail
<1>2. CASE Restart
  <2>1. UNCHANGED database
    BY <1>2 DEF Restart
  <2>2. \A r \in Requests : pc'[r] \in {"idle", "done"} /\ passed'[r] = {} /\ found'[r] = {}
    BY <1>2 DEF Restart, Unset, Typed, TypeOK, OutcomeTypes
  <2>3. ChainsClear'
    BY <2>2 DEF ChainsClear, RequestClear, EarlyClear, NextClear, ClimbClear, CheckClear,
                CommitClear, TodoStored, Examining
  <2> QED
    BY <2>1, <2>3, ClosedFrame DEF ClearInv
<1>3. CASE UNCHANGED <<database, pc, walk, checks, answer>>
  <2>1. \A r \in Requests : UNCHANGED Locals(r)
    BY <1>3 DEF Locals, walk, checks
  <2>2. stored \subseteq stored' /\ StoredClosed'
    BY <1>3, ClosedFrame
  <2>3. ChainsClear'
    BY <2>1, <2>2, ClearAside DEF ClearInv, ChainsClear, Writer
  <2> QED
    BY <2>2, <2>3 DEF ClearInv
<1>4. Tick \/ UNCHANGED vars => UNCHANGED <<database, pc, walk, checks, answer>>
  BY DEF Tick, vars
<1> QED
  BY <1>1, <1>2, <1>3, <1>4, ClearServe DEF Next, Finished

-----------------------------------------------------------------------------
(***************************************************************************)
(* What is passed was not revoked.  Revocations are never undone, so what  *)
(* was revoked at a request's arrival is among them at every lookup.       *)
(***************************************************************************)
HistoryInv ==
    \A r \in Requests : Writer(r) => before[r] \subseteq revoked /\ passed[r] \cap before[r] = {}

(***************************************************************************)
(* How a step of r touches passed and before.                              *)
(***************************************************************************)
Others(r) == \A q \in Requests : q # r => UNCHANGED <<pc[q], passed[q], before[q]>>

Forgets(r) ==
    /\ passed'[r] = {} /\ before'[r] = {} /\ pc'[r] \notin Validating
    /\ conn' = IF conn = r THEN NoRequest ELSE conn
    /\ revoked \subseteq revoked'
    /\ UNCHANGED revoked \/ Commit(r)

Arrives(r) ==
    /\ pc[r] = "idle" /\ pc'[r] = "keys"
    /\ before'[r] = revoked /\ UNCHANGED <<revoked, passed, conn>>

Passes(r) ==
    /\ UNCHANGED <<revoked, before>>
    /\ passed'[r] \subseteq passed[r] \cup (Delegations \ revoked)
    /\ pc'[r] \in Validating => pc[r] \in Validating \/ Begin(r)
    /\ conn' = conn \/ Begin(r)

LEMMA ReplyForgets ==
    ASSUME Typed, NEW r \in Requests, NEW outcome, Reply(r, outcome), revoked \subseteq revoked',
           UNCHANGED revoked \/ Commit(r)
    PROVE  Others(r) /\ Forgets(r)
BY DEF Reply, Others, Forgets, Validating, Typed, TypeOK, OutcomeTypes, CheckTypes

LEMMA QuietPasses ==
    ASSUME Typed, NEW r \in Requests, NEW label, pc' = [pc EXCEPT ![r] = label],
           UNCHANGED <<database, before, passed, conn>>,
           label \in Validating => pc[r] \in Validating
    PROVE  Others(r) /\ Passes(r)
BY DEF Others, Passes, database, Typed, TypeOK, OutcomeTypes

LEMMA HistoryFind ==
    ASSUME Typed, NEW r \in Requests, Find(r)
    PROVE  Others(r) /\ (Forgets(r) \/ Passes(r))
<1>1. UNCHANGED database /\ pc[r] = "find"
  BY DEF Find
<1>2. ASSUME NEW outcome, Reply(r, outcome) PROVE Others(r) /\ Forgets(r)
  BY <1>1, <1>2, ReplyForgets DEF database
<1>3. ASSUME NEW ds, Examine(r, ds) PROVE Others(r) /\ Passes(r)
  BY Zenon, <1>1, <1>3, QuietPasses DEF Examine, Goto, Validating
<1>4. ASSUME Accept(r) PROVE Others(r) /\ Passes(r)
  BY Zenon, <1>1, <1>4, QuietPasses DEF Accept, Goto, checks, Validating
<1>5. FindDelegate(r) \/ FindInvoke(r) \/ FindRevoke(r) \/ FindStatus(r)
  BY Zenon, RequestType DEF Find
<1> QED
  BY Zenon, <1>2, <1>3, <1>4, <1>5 DEF FindDelegate, FindInvoke, FindRevoke, FindStatus

LEMMA HistoryCommit ==
    ASSUME Typed, NEW r \in Requests, Commit(r)
    PROVE  Others(r) /\ Forgets(r)
<1>1. revoked \subseteq revoked'
  <2>1. Request[r].kind \in {"delegate", "revoke", "invoke"}
    BY RequestType DEF Commit, Typed, WritersCommit
  <2>2. Save(r) => revoked \subseteq revoked'
    BY Zenon, <2>1 DEF Save
  <2> QED
    BY <2>2 DEF Commit, database
<1> QED
  BY <1>1, ReplyForgets DEF Commit

LEMMA HistorySteps ==
    ASSUME Typed, NEW r \in Requests, Serve(r)
    PROVE  Others(r) /\ (Forgets(r) \/ Arrives(r) \/ Passes(r))
<1> USE DEF Typed, TypeOK, OutcomeTypes, CheckTypes, Hashes
<1>1. ASSUME NEW outcome, Reply(r, outcome), UNCHANGED database PROVE Others(r) /\ Forgets(r)
  BY <1>1, ReplyForgets DEF database
<1>2. CASE Arrive(r)
  <2>1. CASE /\ pc' = [pc EXCEPT ![r] = "keys"]
             /\ before' = [before EXCEPT ![r] = revoked]
             /\ UNCHANGED <<conn, checks>>
    BY ZenonT(30), <1>2, <2>1 DEF Arrive, Others, Arrives, checks, database
  <2> QED
    BY ZenonT(30), <1>1, <1>2, <2>1 DEF Arrive
<1>3. CASE WalkKeys(r)
  <2>1. CASE Goto(r, "keys") /\ UNCHANGED <<conn, checks>>
    BY Zenon, <1>3, <2>1, QuietPasses DEF WalkKeys, Goto, checks, Validating
  <2> QED
    BY <1>1, <1>3, <2>1 DEF WalkKeys
<1>4. CASE Register(r)
  BY Zenon, <1>4, QuietPasses DEF Register, Goto, checks, Validating
<1>5. CASE LockNext(r)
  <2>1. pc' = [pc EXCEPT ![r] = "lock"] /\ UNCHANGED <<database, before, passed, conn>>
    BY <1>5 DEF LockNext, checks
  <2> QED
    BY Zenon, <2>1, QuietPasses DEF Validating
<1>6. CASE Begin(r)
  BY Zenon, <1>6 DEF Begin, Goto, Others, Passes, checks, database
<1>7. CASE NextParent(r)
  <2>1. UNCHANGED database /\ pc[r] = "next"
    BY <1>7 DEF NextParent
  <2>2. ASSUME NEW d \in todo[r], ~(LooksUpLeaf(r) /\ d \in revoked), Climb(r, d)
        PROVE  Others(r) /\ Passes(r)
    <3>1. /\ pc' = [pc EXCEPT ![r] = "climb"] /\ UNCHANGED <<before, conn>>
          /\ passed' = [passed EXCEPT ![r] = IF LooksUpLeaf(r) THEN @ \cup {d} ELSE @]
      BY <2>2 DEF Climb, Goto
    <3> QED
      BY <2>1, <2>2, <3>1 DEF Others, Passes, Validating, database
  <2> QED
    BY <1>1, <1>7, <2>1, <2>2 DEF NextParent
<1>8. CASE WalkChain(r)
  <2>1. ASSUME NEW label \in {"climb", "check"}, Goto(r, label), UNCHANGED <<conn, passed>>
        PROVE  Others(r) /\ Passes(r)
    BY ZenonT(30), <1>8, <2>1, QuietPasses DEF WalkChain, Goto, Validating
  <2> QED
    BY <1>1, <1>8, <2>1 DEF WalkChain
<1>9. CASE CheckAncestor(r)
  <2>1. UNCHANGED database /\ pc[r] = "check"
    BY <1>9 DEF CheckAncestor
  <2>2. ASSUME NEW d \in unseen[r], d \notin revoked, Goto(r, "check"), UNCHANGED conn,
               passed' = [passed EXCEPT ![r] = @ \cup {d}]
        PROVE  Others(r) /\ Passes(r)
    BY <2>1, <2>2 DEF Goto, Others, Passes, Validating, database
  <2> QED
    BY <1>1, <1>9, <2>1, <2>2 DEF CheckAncestor
<1>10. CASE ChainClear(r)
  <2>1. CASE Goto(r, "next") /\ UNCHANGED <<conn, checks>>
    BY ZenonT(30), <1>10, <2>1, QuietPasses DEF ChainClear, Goto, checks, Validating
  <2> QED
    BY ZenonT(30), <1>1, <1>10, <2>1 DEF ChainClear
<1>11. CASE Authorize(r)
  <2>1. CASE UNCHANGED <<conn, pc, passed, before>>
    BY ZenonT(30), <1>11, <2>1 DEF Authorize, Others, Passes, database
  <2>2. CASE Accept(r)
    BY Zenon, <1>11, <2>2, QuietPasses DEF Authorize, Accept, Goto, checks, Validating
  <2> QED
    BY ZenonT(30), <1>1, <1>11, <2>1, <2>2 DEF Authorize
<1> QED
  BY <1>2, <1>3, <1>4, <1>5, <1>6, <1>7, <1>8, <1>9, <1>10, <1>11, HistoryFind, HistoryCommit
  DEF Serve

LEMMA HistoryInit == Init => HistoryInv
BY DEF Init, HistoryInv, Unset

LEMMA HistoryStep == Typed /\ ClearInv /\ HistoryInv /\ [Next]_vars => HistoryInv'
<1> SUFFICES ASSUME Typed, ClearInv, HistoryInv, [Next]_vars PROVE HistoryInv'
  OBVIOUS
<1>1. ASSUME NEW r \in Requests, Others(r), Forgets(r) PROVE HistoryInv'
  BY <1>1 DEF HistoryInv, Writer, Others, Forgets
<1>2. ASSUME NEW r \in Requests, Others(r), Arrives(r) PROVE HistoryInv'
  <2>1. Writer(r) => passed[r] = {}
    BY <1>2 DEF Arrives, ClearInv, ChainsClear, RequestClear, EarlyClear
  <2> QED
    BY <1>2, <2>1 DEF HistoryInv, Writer, Others, Arrives
<1>3. ASSUME NEW r \in Requests, Others(r), Passes(r) PROVE HistoryInv'
  BY <1>3 DEF HistoryInv, Writer, Others, Passes
<1>4. ASSUME NEW r \in Requests, Fail(r) PROVE HistoryInv'
  BY <1>1, <1>4, ReplyForgets DEF Fail, database
<1>5. CASE Restart
  BY ZenonT(30), <1>5 DEF Restart, HistoryInv, Writer, Unset, database
<1>6. CASE Tick \/ UNCHANGED vars
  BY <1>6 DEF Tick, vars, checks, database, HistoryInv, Writer
<1> QED
  BY <1>1, <1>2, <1>3, <1>4, <1>5, <1>6, HistorySteps DEF Next, Finished

LEMMA CommitsOnClearChain ==
    ASSUME Typed, ClearInv, NEW r \in Requests, Commits(r)
    PROVE  Writer(r) /\ Chain(Links, found[r]) \subseteq passed[r]
<1>1. Writer(r)
  BY DEF Commits, Typed, WritersCommit, Writer
<1>2. found[r] \subseteq passed[r] /\ Closed(passed[r]) /\ passed[r] \subseteq Delegations
  BY Zenon, <1>1 DEF Commits, ClearInv, ChainsClear, RequestClear, CommitClear, Typed, TypeOK,
              CheckTypes, Hashes
<1> QED
  BY <1>1, <1>2, ChainInClosed

-----------------------------------------------------------------------------
(***************************************************************************)
(* Guards.  A request keeps a lock alive for exactly the hashes it guards, *)
(* and as long as it does, the registry points to that very lock: whoever  *)
(* asks for the hash meanwhile shares it.                                  *)
(***************************************************************************)
Guarding == {"lock"} \cup Validating

ArcsMatchKeys ==
    \A r \in Requests : \A k \in Delegations : arcs[r][k] # NoRequest <=> k \in keys[r]

ArcsRegistered ==
    \A r \in Requests : \A k \in keys[r] : arcs[r][k] = registry[k]

HeldAreKeys == \A r \in Requests : held[r] \subseteq keys[r]

KeysWhileGuarding == \A r \in Requests : pc[r] \notin Guarding => keys[r] = {}

LockInv ==
    /\ ArcsMatchKeys
    /\ ArcsRegistered
    /\ HeldAreKeys
    /\ KeysWhileGuarding
    /\ GuardsExclusive

LEMMA LockInit == Init => LockInv
<1> SUFFICES ASSUME Init PROVE LockInv
  OBVIOUS
<1>1. \A r \in Requests : keys[r] = {} /\ held[r] = {} /\ arcs[r] = NoArcs
  BY DEF Init, Unset
<1>2. ArcsMatchKeys
  BY <1>1 DEF ArcsMatchKeys, NoArcs
<1>3. ArcsRegistered /\ HeldAreKeys /\ KeysWhileGuarding /\ GuardsExclusive
  BY <1>1 DEF ArcsRegistered, HeldAreKeys, KeysWhileGuarding, GuardsExclusive
<1> QED
  BY <1>2, <1>3 DEF LockInv

LEMMA LockReply ==
    ASSUME Typed, LockInv, NEW r \in Requests, NEW outcome, Reply(r, outcome)
    PROVE  LockInv'
<1> USE DEF Typed, TypeOK, GuardTypes, OutcomeTypes, Hashes, LockInv
<1>1. ArcsMatchKeys'
  BY DEF Reply, ArcsMatchKeys, NoArcs
<1>2. ArcsRegistered'
  BY DEF Reply, ArcsRegistered
<1>3. HeldAreKeys'
  BY DEF Reply, HeldAreKeys
<1>4. KeysWhileGuarding'
  BY DEF Reply, KeysWhileGuarding
<1>5. GuardsExclusive'
  BY DEF Reply, GuardsExclusive
<1> QED
  BY <1>1, <1>2, <1>3, <1>4, <1>5

LEMMA LockFrame ==
    ASSUME LockInv, UNCHANGED guards,
           \A q \in Requests : pc[q] \in Guarding => pc'[q] \in Guarding
    PROVE  LockInv'
BY SMT DEF LockInv, guards, ArcsMatchKeys, ArcsRegistered, HeldAreKeys, KeysWhileGuarding,
       GuardsExclusive

LEMMA LockRegister ==
    ASSUME Typed, LockInv, NEW r \in Requests, Register(r)
    PROVE  LockInv'
<1> DEFINE taken == [k \in Delegations |-> IF k \in visited[r] THEN LockFor(r, k) ELSE NoRequest]
<1>t. /\ DOMAIN keys = Requests /\ DOMAIN arcs = Requests /\ DOMAIN pc = Requests
      /\ visited[r] \subseteq Delegations
      /\ \A q \in Requests : keys[q] \subseteq Delegations
  BY DEF Typed, TypeOK, GuardTypes, WalkTypes, OutcomeTypes, Hashes
<1>i. ArcsMatchKeys /\ ArcsRegistered /\ HeldAreKeys /\ KeysWhileGuarding /\ GuardsExclusive
  BY DEF LockInv
<1>1. /\ keys' = [keys EXCEPT ![r] = visited[r]]
      /\ arcs' = [arcs EXCEPT ![r] = taken]
      /\ registry' = [k \in Delegations |->
                         IF k \in visited[r] THEN LockFor(r, k)
                         ELSE IF Live(k) THEN registry[k] ELSE NoRequest]
      /\ pc' = [pc EXCEPT ![r] = "lock"]
      /\ held' = held
      /\ pc[r] = "keys"
  BY DEF Register, Goto
<1>2. keys[r] = {} /\ held[r] = {}
  BY <1>i, <1>1 DEF KeysWhileGuarding, HeldAreKeys, Guarding, Validating
<1>3. \A k \in Delegations : LockFor(r, k) # NoRequest
  BY ChainAssumption DEF LockFor, Live
<1>4. \A q \in Requests : \A k \in keys[q] : Live(k)
  BY <1>t, <1>i DEF ArcsMatchKeys, ArcsRegistered, Live
<1>5. \A q \in Requests : \A k \in keys[q] : registry'[k] = registry[k]
  BY <1>t, <1>1, <1>4 DEF LockFor
<1> HIDE DEF taken
<1>6. /\ keys'[r] = visited[r] /\ arcs'[r] = taken /\ pc'[r] = "lock"
      /\ \A q \in Requests : q # r => keys'[q] = keys[q] /\ arcs'[q] = arcs[q] /\ pc'[q] = pc[q]
  BY <1>t, <1>1
<1>7. ArcsMatchKeys'
  <2>1. \A k \in Delegations : taken[k] # NoRequest <=> k \in visited[r]
    BY <1>3 DEF taken
  <2> QED
    BY <1>i, <1>6, <2>1, SMT DEF ArcsMatchKeys
<1>8. ArcsRegistered'
  <2> SUFFICES ASSUME NEW q \in Requests, NEW k \in keys'[q] PROVE arcs'[q][k] = registry'[k]
    BY DEF ArcsRegistered
  <2>1. CASE q = r
    <3>1. k \in visited[r] /\ k \in Delegations
      BY <1>t, <1>6, <2>1
    <3>2. taken[k] = LockFor(r, k) /\ registry'[k] = LockFor(r, k)
      BY <1>1, <3>1 DEF taken
    <3> QED
      BY <1>6, <2>1, <3>2
  <2>2. CASE q # r
    <3>1. k \in keys[q] /\ arcs'[q] = arcs[q]
      BY <1>6, <2>2
    <3> QED
      BY <1>i, <1>5, <3>1 DEF ArcsRegistered
  <2> QED
    BY <2>1, <2>2
<1>9. HeldAreKeys'
  BY <1>i, <1>1, <1>2, <1>6 DEF HeldAreKeys
<1>10. KeysWhileGuarding'
  BY <1>i, <1>6 DEF KeysWhileGuarding, Guarding
<1>11. GuardsExclusive'
  BY <1>i, <1>1 DEF GuardsExclusive
<1> QED
  BY <1>7, <1>8, <1>9, <1>10, <1>11 DEF LockInv

(***************************************************************************)
(* A free lock is one no other request holds: any other request that       *)
(* guards the hash shares the lock.                                        *)
(***************************************************************************)
LEMMA LockLockNext ==
    ASSUME Typed, LockInv, NEW r \in Requests, LockNext(r)
    PROVE  LockInv'
<1> USE DEF Typed, TypeOK, GuardTypes, OutcomeTypes, Hashes, LockInv
<1>1. PICK k \in keys[r] \ held[r] : Free(r, k) /\ held' = [held EXCEPT ![r] = @ \cup {k}]
  BY Zenon DEF LockNext
<1>2. UNCHANGED <<pc, registry, keys, arcs>>
  BY DEF LockNext
<1>3. \A q \in Requests \ {r} : k \notin held[q]
  BY <1>1 DEF Free, HeldAreKeys, ArcsRegistered
<1>4. GuardsExclusive'
  BY <1>1, <1>3, SMT DEF GuardsExclusive
<1>5. ArcsMatchKeys' /\ ArcsRegistered' /\ KeysWhileGuarding'
  BY <1>2 DEF ArcsMatchKeys, ArcsRegistered, KeysWhileGuarding
<1>6. HeldAreKeys'
  BY <1>1, <1>2 DEF HeldAreKeys
<1> QED
  BY <1>4, <1>5, <1>6

LEMMA LockRestart ==
    ASSUME Typed, Restart
    PROVE  LockInv'
<1>1. keys' = Unset /\ held' = Unset /\ arcs' = [r \in Requests |-> NoArcs]
  BY DEF Restart
<1> QED
  BY <1>1 DEF LockInv, ArcsMatchKeys, ArcsRegistered, HeldAreKeys, KeysWhileGuarding,
              GuardsExclusive, Unset, NoArcs

(***************************************************************************)
(* Every other step of a request returns, or goes on without touching the  *)
(* guards and without leaving the steps they are held for.                 *)
(***************************************************************************)
Proceeds(r) ==
    /\ UNCHANGED guards
    /\ pc[r] \in Guarding => pc'[r] \in Guarding
    /\ \A q \in Requests : q # r => pc'[q] = pc[q]

Returns(r) == \E outcome \in Answers : Reply(r, outcome)

LEMMA GotoProceeds ==
    ASSUME Typed, NEW r \in Requests, NEW label, Goto(r, label), UNCHANGED guards,
           label \in Guarding \/ pc[r] \notin Guarding
    PROVE  Proceeds(r)
BY DEF Typed, TypeOK, OutcomeTypes, Goto, Proceeds

LEMMA FindSteps ==
    ASSUME Typed, NEW r \in Requests, Find(r)
    PROVE  Returns(r) \/ Proceeds(r)
<1>1. ASSUME NEW ds, Examine(r, ds) PROVE Proceeds(r)
  BY <1>1, GotoProceeds DEF Examine, Guarding, Validating
<1>2. ASSUME Accept(r) PROVE Proceeds(r)
  BY <1>2, GotoProceeds DEF Accept, Guarding, Validating
<1>3. "refused" \in Answers /\ "notfound" \in Answers
  BY DEF Answers
<1>4. FindDelegate(r) \/ FindInvoke(r) \/ FindRevoke(r) \/ FindStatus(r)
  BY Zenon, RequestType DEF Find
<1>5. CASE FindDelegate(r)
  BY <1>1, <1>2, <1>3, <1>5 DEF FindDelegate, Returns
<1>6. CASE FindInvoke(r)
  BY <1>1, <1>2, <1>3, <1>6 DEF FindInvoke, Returns
<1>7. CASE FindRevoke(r)
  BY <1>1, <1>3, <1>7 DEF FindRevoke, Returns
<1>8. CASE FindStatus(r)
  BY <1>1, <1>3, <1>8 DEF FindStatus, Returns
<1> QED
  BY <1>4, <1>5, <1>6, <1>7, <1>8

LEMMA OtherSteps ==
    ASSUME Typed, NEW r \in Requests, Serve(r), ~Register(r), ~LockNext(r)
    PROVE  Returns(r) \/ Proceeds(r)
<1>1. "ok" \in Answers /\ "refused" \in Answers /\ "notfound" \in Answers /\ "unavailable" \in Answers
  BY DEF Answers
<1>2. CASE Arrive(r)
  <2>1. CASE /\ pc' = [pc EXCEPT ![r] = "keys"]
             /\ UNCHANGED guards
    BY <1>2, <2>1 DEF Arrive, Proceeds, Guarding, Validating, Typed, TypeOK, OutcomeTypes
  <2> QED
    BY <1>1, <1>2, <2>1, AnswerTypes DEF Arrive, Returns
<1>3. CASE WalkKeys(r)
  <2>1. CASE Goto(r, "keys") /\ UNCHANGED guards
    BY <1>3, <2>1, GotoProceeds DEF WalkKeys, Guarding, Validating
  <2> QED
    BY <1>3, <2>1, AnswerTypes DEF WalkKeys, Returns
<1>4. CASE Begin(r)
  BY <1>4, GotoProceeds DEF Begin, Guarding, Validating
<1>5. CASE Find(r)
  BY <1>5, FindSteps
<1>6. CASE NextParent(r)
  <2>1. ASSUME NEW d, Climb(r, d) PROVE Proceeds(r)
    BY <2>1, GotoProceeds DEF Climb, Guarding, Validating
  <2> QED
    BY <1>6, <2>1, AnswerTypes DEF NextParent, Returns
<1>7. CASE WalkChain(r)
  <2>1. ASSUME NEW label \in {"climb", "check"}, Goto(r, label), UNCHANGED guards PROVE Proceeds(r)
    BY <2>1, GotoProceeds DEF Guarding, Validating
  <2> QED
    BY <1>1, <1>7, <2>1, AnswerTypes DEF WalkChain, Returns
<1>8. CASE CheckAncestor(r)
  <2>1. CASE Goto(r, "check") /\ UNCHANGED guards
    BY <2>1, GotoProceeds DEF Guarding, Validating
  <2> QED
    BY <1>8, <2>1, AnswerTypes DEF CheckAncestor, Returns
<1>9. CASE ChainClear(r)
  <2>1. CASE Goto(r, "next") /\ UNCHANGED guards
    BY <2>1, GotoProceeds DEF Guarding, Validating
  <2> QED
    BY <1>1, <1>9, <2>1, AnswerTypes DEF ChainClear, Returns
<1>10. CASE Authorize(r)
  <2>1. CASE UNCHANGED <<pc, guards>>
    BY <2>1 DEF Proceeds
  <2>2. CASE Accept(r)
    BY <2>2, GotoProceeds DEF Accept, Guarding, Validating
  <2> QED
    BY <1>10, <2>1, <2>2, AnswerTypes DEF Authorize, Returns
<1>11. CASE Commit(r)
  BY <1>1, <1>11 DEF Commit, Returns
<1> QED
  BY <1>2, <1>3, <1>4, <1>5, <1>6, <1>7, <1>8, <1>9, <1>10, <1>11 DEF Serve

LEMMA LockStep == Typed /\ LockInv /\ [Next]_vars => LockInv'
<1> SUFFICES ASSUME Typed, LockInv, [Next]_vars PROVE LockInv'
  OBVIOUS
<1>1. ASSUME NEW r \in Requests, Serve(r) PROVE LockInv'
  <2>1. CASE Register(r)
    BY <2>1, LockRegister
  <2>2. CASE LockNext(r)
    BY <2>2, LockLockNext
  <2>3. CASE Returns(r)
    BY <2>3, LockReply DEF Returns
  <2>4. CASE Proceeds(r)
    BY <2>4, LockFrame DEF Proceeds
  <2> QED
    BY <1>1, <2>1, <2>2, <2>3, <2>4, OtherSteps
<1>2. ASSUME NEW r \in Requests, Fail(r) PROVE LockInv'
  BY <1>2, LockReply DEF Fail
<1>3. CASE Tick
  BY <1>3, LockFrame DEF Tick
<1>4. CASE UNCHANGED vars
  BY <1>4, LockFrame DEF vars
<1> QED
  BY <1>1, <1>2, <1>3, <1>4, LockRestart DEF Next, Finished

(***************************************************************************)
(* acquire_chain_guards: the guard of a delegation has one owner at a      *)
(* time, for any number of requests, although the registry only keeps weak *)
(* references and forgets locks nobody refers to.                          *)
(***************************************************************************)
THEOREM GuardExclusion == Spec => []GuardsExclusive
<1>1. LockInv => GuardsExclusive
  BY DEF LockInv
<1>2. Init => LockInv
  BY LockInit
<1>3. Typed /\ LockInv /\ [Next]_vars => LockInv'
  BY LockStep
<1> QED
  BY <1>1, <1>2, <1>3, TypesHold, PTL DEF Spec

-----------------------------------------------------------------------------
(***************************************************************************)
(* SQLite.  A request that validates owns the only connection, so nothing  *)
(* is revoked between its first lookup and its commit.                     *)
(***************************************************************************)
AllSqlite == \A w \in Workloads : w.engine = "sqlite"

OwnsConnection == \A r \in Requests : Writer(r) /\ pc[r] \in Validating => conn = r

PassedCurrent ==
    \A r \in Requests : Writer(r) /\ pc[r] \in Validating => passed[r] \cap revoked = {}

SqliteInv == OwnsConnection /\ PassedCurrent

LEMMA SqliteInit == Init => SqliteInv
BY DEF Init, SqliteInv, OwnsConnection, PassedCurrent, Validating

(***************************************************************************)
(* Returning gives up a connection only its owner has; only the owner of   *)
(* the connection commits.                                                 *)
(***************************************************************************)
LEMMA SqliteReply ==
    ASSUME Typed, SqliteInv, NEW r \in Requests, Others(r), Forgets(r)
    PROVE  SqliteInv'
<1> USE DEF SqliteInv
<1>1. OwnsConnection'
  BY DEF OwnsConnection, Writer, Others, Forgets
<1>2. PassedCurrent'
  <2>1. CASE UNCHANGED revoked
    BY <2>1 DEF PassedCurrent, Writer, Others, Forgets
  <2>2. CASE Commit(r)
    <3>1. Writer(r) /\ pc[r] \in Validating
      BY <2>2 DEF Commit, Typed, WritersCommit, Writer, Validating
    <3>2. \A q \in Requests : q # r /\ Writer(q) => pc[q] \notin Validating
      BY <3>1 DEF OwnsConnection
    <3> QED
      BY <3>2 DEF PassedCurrent, Writer, Others, Forgets
  <2> QED
    BY <2>1, <2>2 DEF Forgets
<1> QED
  BY <1>1, <1>2

LEMMA SqliteBegin ==
    ASSUME AllSqlite, Typed, ClearInv, SqliteInv, NEW r \in Requests, Begin(r)
    PROVE  SqliteInv'
<1> USE DEF Typed, TypeOK, OutcomeTypes
<1>0. SingleConnection
  BY DEF AllSqlite, SingleConnection, RowTypes
<1>1. conn \in {NoRequest, r} /\ conn' = IF Writer(r) THEN r ELSE conn
  BY <1>0 DEF Begin, CanQuery, Writer
<1>2. pc' = [pc EXCEPT ![r] = "find"] /\ pc[r] = "lock" /\ UNCHANGED <<revoked, passed>>
  BY DEF Begin, Goto, checks, database
<1>3. \A q \in Requests : q # r /\ Writer(q) => pc[q] \notin Validating
  BY <1>1, ChainAssumption DEF SqliteInv, OwnsConnection
<1>4. Writer(r) => passed[r] = {}
  BY <1>2 DEF ClearInv, ChainsClear, RequestClear, EarlyClear
<1>5. OwnsConnection'
  BY <1>1, <1>2, <1>3 DEF OwnsConnection, Writer
<1>6. PassedCurrent'
  BY <1>2, <1>3, <1>4 DEF PassedCurrent, Writer
<1> QED
  BY <1>5, <1>6 DEF SqliteInv

LEMMA SqliteServe ==
    ASSUME AllSqlite, Typed, ClearInv, SqliteInv, NEW r \in Requests, Serve(r)
    PROVE  SqliteInv'
<1>1. Others(r) /\ (Forgets(r) \/ Arrives(r) \/ Passes(r))
  BY HistorySteps
<1>2. CASE Begin(r)
  BY <1>2, SqliteBegin
<1>3. CASE Arrives(r)
  BY <1>1, <1>3 DEF SqliteInv, OwnsConnection, PassedCurrent, Writer, Others, Arrives, Validating
<1>4. CASE Passes(r) /\ ~Begin(r)
  BY <1>1, <1>4 DEF SqliteInv, OwnsConnection, PassedCurrent, Writer, Others, Passes
<1> QED
  BY <1>1, <1>2, <1>3, <1>4, SqliteReply

LEMMA SqliteStep ==
    AllSqlite /\ Typed /\ ClearInv /\ SqliteInv /\ [Next]_vars => SqliteInv'
<1> SUFFICES ASSUME AllSqlite, Typed, ClearInv, SqliteInv, [Next]_vars PROVE SqliteInv'
  OBVIOUS
<1>1. ASSUME NEW r \in Requests, Fail(r) PROVE SqliteInv'
  BY <1>1, SqliteReply, ReplyForgets DEF Fail, database
<1>2. CASE Restart
  <2>1. \A r \in Requests : pc'[r] \notin Validating
    BY <1>2 DEF Restart, InFlight, Validating
  <2> QED
    BY <2>1 DEF SqliteInv, OwnsConnection, PassedCurrent
<1>3. CASE Tick \/ UNCHANGED vars
  BY <1>3 DEF Tick, vars, checks, database, SqliteInv, OwnsConnection, PassedCurrent, Writer
<1> QED
  BY <1>1, <1>2, <1>3, SqliteServe DEF Next, Finished

-----------------------------------------------------------------------------
(***************************************************************************)
(* PostgreSQL, where statements of other requests run between those of a   *)
(* transaction: a request guards every delegation its authority can rest   *)
(* on, and a revocation guards what it revokes.  This needs the cited      *)
(* delegations to be registered before the walk that names the guards.     *)
(***************************************************************************)
InitiallyStored == {d \in Delegations : \A w \in Workloads : d \in w.stored}

CitesRegistered == \A r \in Requests : Writer(r) => Request[r].cites \subseteq InitiallyStored

(***************************************************************************)
(* The delegations whose chain is fixed, among those r guards.             *)
(***************************************************************************)
Fence(r) == keys[r] \cap InitiallyStored

LEMMA InitialClosed == \A d \in InitiallyStored : d \in Delegations /\ Content[d].parents \subseteq InitiallyStored
<1> SUFFICES ASSUME NEW d \in InitiallyStored PROVE Content[d].parents \subseteq InitiallyStored
  BY DEF InitiallyStored
<1>1. Content[d].parents \subseteq Delegations
  BY ChainAssumption DEF InitiallyStored, DelegationContent
<1>2. ASSUME NEW w \in Workloads PROVE Content[d].parents \subseteq w.stored
  BY ChainAssumption DEF InitiallyStored
<1> QED
  BY <1>1, <1>2 DEF InitiallyStored

RegisteredStay == InitiallyStored \subseteq stored

(***************************************************************************)
(* The walk that names the guards leaves no registered parent out; the     *)
(* guards are then all held, and validation stays inside them.             *)
(***************************************************************************)
Walked(r) ==
    /\ pc[r] = "idle" => visited[r] = {}
    /\ pc[r] = "keys" =>
          /\ Roots(r) \subseteq visited[r] \cup frontier[r]
          /\ \A d \in visited[r] \cap InitiallyStored :
                Content[d].parents \subseteq visited[r] \cup frontier[r]

Fenced(r) ==
    pc[r] \in Guarding => Roots(r) \subseteq keys[r] /\ Closed(Fence(r))

HoldsAll(r) == pc[r] \in Validating => held[r] = keys[r]

Inside(r) ==
    /\ pc[r] \in Validating => found[r] \cup passed[r] \subseteq Fence(r)
    /\ pc[r] \in Examining => todo[r] \subseteq Fence(r)
    /\ pc[r] = "climb" => visited[r] \cup frontier[r] \subseteq Fence(r)
    /\ pc[r] = "check" => unseen[r] \subseteq Fence(r)

RequestFenced(r) == Walked(r) /\ Fenced(r) /\ HoldsAll(r) /\ Inside(r)

FenceInv == RegisteredStay /\ \A r \in Requests : Writer(r) => RequestFenced(r)

FenceLocals(r) ==
    <<pc[r], frontier[r], visited[r], keys[r], held[r], found[r], todo[r], unseen[r], passed[r]>>

LEMMA FenceFrame ==
    ASSUME FenceInv, NEW r \in Requests, stored \subseteq stored',
           \A q \in Requests : q # r => UNCHANGED FenceLocals(q),
           Writer(r) => RequestFenced(r)'
    PROVE  FenceInv'
<1>1. ASSUME NEW q \in Requests, Writer(q), q # r PROVE RequestFenced(q)'
  <2>1. UNCHANGED FenceLocals(q) /\ RequestFenced(q)
    BY <1>1 DEF FenceInv
  <2> QED
    BY <2>1 DEF RequestFenced, FenceLocals, Walked, Fenced, HoldsAll, Inside, Fence, Closed, Roots
<1> QED
  BY <1>1 DEF FenceInv, RegisteredStay, Writer

LEMMA FenceInit == Init => FenceInv
<1> SUFFICES ASSUME Init PROVE FenceInv
  OBVIOUS
<1>1. RegisteredStay
  BY DEF Init, RegisteredStay, InitiallyStored
<1>2. \A r \in Requests : pc[r] \in {"idle", "done"} /\ visited[r] = {}
  BY DEF Init, Unset
<1> QED
  BY <1>1, <1>2 DEF FenceInv, RequestFenced, Walked, Fenced, HoldsAll, Inside, Guarding,
                    Validating, Examining

LEMMA FenceReply ==
    ASSUME Typed, FenceInv, NEW r \in Requests, NEW outcome, Reply(r, outcome),
           stored \subseteq stored'
    PROVE  FenceInv'
<1> USE DEF Typed, TypeOK, GuardTypes, WalkTypes, CheckTypes, OutcomeTypes
<1>1. \A q \in Requests : q # r => UNCHANGED FenceLocals(q)
  BY DEF Reply, FenceLocals
<1>2. pc'[r] = "done"
  BY DEF Reply
<1>3. RequestFenced(r)'
  BY <1>2 DEF RequestFenced, Walked, Fenced, HoldsAll, Inside, Guarding, Validating, Examining
<1> QED
  BY <1>1, <1>3, FenceFrame

LEMMA FenceEnd ==
    ASSUME Typed, FenceInv, UNCHANGED database, NEW r \in Requests, NEW outcome, Reply(r, outcome)
    PROVE  FenceInv'
BY FenceReply DEF database

-----------------------------------------------------------------------------
LEMMA FenceArrive ==
    ASSUME Typed, FenceInv, ClearInv, NEW r \in Requests, Arrive(r)
    PROVE  FenceInv'
<1> USE DEF Typed, TypeOK, WalkTypes, CheckTypes, OutcomeTypes
<1>1. UNCHANGED database
  BY DEF Arrive
<1>2. CASE /\ pc' = [pc EXCEPT ![r] = "keys"]
           /\ frontier' = [frontier EXCEPT ![r] = Roots(r)]
           /\ UNCHANGED <<visited, guards, checks>>
  <2>1. \A q \in Requests : q # r => UNCHANGED FenceLocals(q)
    BY <1>2 DEF FenceLocals, guards, checks
  <2>2. pc'[r] = "keys" /\ frontier'[r] = Roots(r) /\ visited'[r] = visited[r]
    BY <1>2
  <2>3. ASSUME Writer(r) PROVE RequestFenced(r)'
    <3>1. Walked(r)'
      BY <2>2, <2>3 DEF Walked, Roots, Arrive, FenceInv, RequestFenced
    <3> QED
      BY <2>2, <3>1 DEF RequestFenced, Fenced, HoldsAll, Inside, Guarding, Validating, Examining
  <2> QED
    BY <1>1, <2>1, <2>3, FenceFrame DEF database
<1> QED
  BY <1>1, <1>2, FenceEnd DEF Arrive

LEMMA FenceWalkKeys ==
    ASSUME RowsWhole, Typed, FenceInv, NEW r \in Requests, WalkKeys(r)
    PROVE  FenceInv'
<1> USE DEF Typed, TypeOK, WalkTypes, CheckTypes, OutcomeTypes
<1>1. UNCHANGED database /\ pc[r] = "keys"
  BY DEF WalkKeys
<1>2. CASE Reply(r, LimitAnswer(r))
  BY <1>1, <1>2, FenceEnd
<1>3. ASSUME NEW d \in frontier[r], NEW rows \in ParentRows(Links, d, visited[r] \cup {d}),
             visited' = [visited EXCEPT ![r] = @ \cup {d}],
             frontier' = [frontier EXCEPT ![r] = Push(@, visited'[r], rows)],
             Goto(r, "keys"), UNCHANGED <<guards, checks>>
      PROVE  FenceInv'
  <2>1. \A q \in Requests : q # r => UNCHANGED FenceLocals(q)
    BY <1>3 DEF FenceLocals, Goto, guards, checks
  <2>2. /\ pc'[r] = "keys" /\ visited'[r] = visited[r] \cup {d}
        /\ frontier'[r] = (frontier[r] \cup rows) \ visited'[r]
    BY <1>3 DEF Goto, Push
  <2>3. ASSUME Writer(r) PROVE RequestFenced(r)'
    <3>1. Walked(r)
      BY <2>3 DEF FenceInv, RequestFenced
    <3>2. ASSUME d \in InitiallyStored PROVE rows = Content[d].parents
      <4>1. d \in stored /\ visited[r] \cup {d} \in SUBSET Delegations
        BY <3>2, InitialClosed DEF FenceInv, RegisteredStay, Hashes
      <4> QED
        BY <1>1, <4>1 DEF RowsWhole, Walking
    <3>3. Walked(r)'
      BY <1>1, <2>2, <3>1, <3>2 DEF Walked, Roots
    <3> QED
      BY <2>2, <3>3 DEF RequestFenced, Fenced, HoldsAll, Inside, Guarding, Validating, Examining
  <2> QED
    BY <1>1, <2>1, <2>3, FenceFrame DEF database
<1> QED
  BY <1>2, <1>3 DEF WalkKeys

LEMMA FenceRegister ==
    ASSUME Typed, FenceInv, NEW r \in Requests, Register(r)
    PROVE  FenceInv'
<1> USE DEF Typed, TypeOK, GuardTypes, OutcomeTypes
<1>1. UNCHANGED <<database, walk, held, checks>> /\ pc[r] = "keys" /\ frontier[r] = {}
  BY DEF Register
<1>2. keys' = [keys EXCEPT ![r] = visited[r]] /\ pc' = [pc EXCEPT ![r] = "lock"]
  BY DEF Register, Goto
<1>3. \A q \in Requests : q # r => UNCHANGED FenceLocals(q)
  BY <1>1, <1>2 DEF FenceLocals, walk, checks
<1>4. ASSUME Writer(r) PROVE RequestFenced(r)'
  <2>1. Walked(r)
    BY <1>4 DEF FenceInv, RequestFenced
  <2>2. keys'[r] = visited[r] /\ pc'[r] = "lock"
    BY <1>2
  <2>3. Fenced(r)'
    BY <1>1, <2>1, <2>2, InitialClosed DEF Walked, Fenced, Fence, Closed, Roots
  <2> QED
    BY <2>2, <2>3 DEF RequestFenced, Walked, HoldsAll, Inside, Validating, Examining
<1> QED
  BY <1>1, <1>3, <1>4, FenceFrame DEF database

LEMMA FenceLockNext ==
    ASSUME Typed, FenceInv, NEW r \in Requests, LockNext(r)
    PROVE  FenceInv'
<1> USE DEF Typed, TypeOK, GuardTypes, OutcomeTypes
<1>1. UNCHANGED <<database, pc, walk, keys, checks>> /\ pc[r] = "lock"
  BY DEF LockNext
<1>2. \A q \in Requests : q # r => held'[q] = held[q]
  BY DEF LockNext
<1>3. \A q \in Requests : q # r => UNCHANGED FenceLocals(q)
  BY <1>1, <1>2 DEF FenceLocals, walk, checks
<1>4. ASSUME Writer(r) PROVE RequestFenced(r)'
  <2>1. Fenced(r)
    BY <1>4 DEF FenceInv, RequestFenced
  <2> QED
    BY <1>1, <2>1 DEF RequestFenced, Walked, Fenced, HoldsAll, Inside, Fence, Closed, Roots,
                      Validating, Examining
<1> QED
  BY <1>1, <1>3, <1>4, FenceFrame DEF database

LEMMA FenceBegin ==
    ASSUME Typed, FenceInv, ClearInv, NEW r \in Requests, Begin(r)
    PROVE  FenceInv'
<1> USE DEF Typed, TypeOK, OutcomeTypes
<1>1. UNCHANGED <<database, walk, guards, checks>> /\ pc[r] = "lock" /\ held[r] = keys[r]
  BY DEF Begin
<1>2. pc' = [pc EXCEPT ![r] = "find"]
  BY DEF Begin, Goto
<1>3. \A q \in Requests : q # r => UNCHANGED FenceLocals(q)
  BY <1>1, <1>2 DEF FenceLocals, walk, guards, checks
<1>4. ASSUME Writer(r) PROVE RequestFenced(r)'
  <2>1. Fenced(r) /\ EarlyClear(r)
    BY <1>4 DEF FenceInv, RequestFenced, ClearInv, ChainsClear, RequestClear
  <2>2. pc'[r] = "find" /\ UNCHANGED <<keys, held, found, passed>>
    BY <1>1, <1>2 DEF guards, checks
  <2>3. Fenced(r)' /\ HoldsAll(r)'
    BY <1>1, <2>1, <2>2 DEF Fenced, HoldsAll, Fence, Closed, Roots, Guarding
  <2> QED
    BY <1>1, <2>1, <2>2, <2>3 DEF RequestFenced, Walked, Inside, EarlyClear, Examining
<1> QED
  BY <1>1, <1>3, <1>4, FenceFrame DEF database

(***************************************************************************)
(* Validation changes no guard; it is enough to see that it stays inside.  *)
(***************************************************************************)
LEMMA FenceValidate ==
    ASSUME Typed, FenceInv, NEW r \in Requests, UNCHANGED <<database, guards>>,
           NEW label \in Validating, pc[r] \in Validating, pc' = [pc EXCEPT ![r] = label],
           \A q \in Requests : q # r =>
               UNCHANGED <<frontier[q], visited[q], found[q], todo[q], unseen[q], passed[q]>>,
           Writer(r) => Inside(r)'
    PROVE  FenceInv'
<1> USE DEF Typed, TypeOK, OutcomeTypes
<1>1. \A q \in Requests : q # r => UNCHANGED FenceLocals(q)
  BY DEF FenceLocals, guards
<1>2. ASSUME Writer(r) PROVE RequestFenced(r)'
  <2>1. Fenced(r) /\ HoldsAll(r)
    BY <1>2 DEF FenceInv, RequestFenced
  <2>2. pc'[r] = label /\ label # "idle" /\ label # "keys" /\ UNCHANGED <<keys, held>>
    BY DEF Validating, guards
  <2>3. Fenced(r)' /\ HoldsAll(r)'
    BY ZenonT(30), <2>1, <2>2 DEF Fenced, HoldsAll, Fence, Closed, Roots, Guarding
  <2> QED
    BY <1>2, <2>2, <2>3 DEF RequestFenced, Walked
<1> QED
  BY <1>1, <1>2, FenceFrame DEF database

LEMMA CitesInFence ==
    ASSUME CitesRegistered, FenceInv, NEW r \in Requests, Writer(r), pc[r] \in Validating
    PROVE  Request[r].cites \subseteq Fence(r) /\ Closed(Fence(r)) /\ Inside(r)
<1>1. Fenced(r) /\ Inside(r)
  BY DEF FenceInv, RequestFenced
<1>2. Request[r].cites \subseteq Roots(r)
  BY DEF Roots
<1> QED
  BY <1>1, <1>2 DEF Fenced, Fence, Guarding, CitesRegistered

LEMMA FenceFind ==
    ASSUME CitesRegistered, Typed, FenceInv, ClearInv, NEW r \in Requests, Find(r)
    PROVE  FenceInv'
<1> USE DEF Typed, TypeOK, OutcomeTypes, CheckTypes
<1>1. UNCHANGED database /\ pc[r] = "find"
  BY DEF Find
<1>2. ASSUME NEW outcome, Reply(r, outcome) PROVE FenceInv'
  BY <1>1, <1>2, FenceEnd
<1>3. ASSUME Writer(r) PROVE /\ found[r] = {} /\ passed[r] = {}
                             /\ Request[r].cites \subseteq Fence(r)
  BY ZenonT(30), <1>1, <1>3, CitesInFence DEF ClearInv, ChainsClear, RequestClear, EarlyClear, Validating
<1>4. ASSUME NEW ds, Examine(r, ds), Writer(r) => ds \subseteq Request[r].cites PROVE FenceInv'
  <2>1. /\ pc' = [pc EXCEPT ![r] = "next"] /\ UNCHANGED <<walk, guards, unseen, passed>>
        /\ found' = [found EXCEPT ![r] = ds] /\ todo' = [todo EXCEPT ![r] = ds]
    BY Zenon, <1>4 DEF Examine, Goto
  <2>2. Writer(r) => Inside(r)'
    BY <1>3, <1>4, <2>1 DEF Inside, Fence, guards
  <2>3. "next" \in Validating /\ pc[r] \in Validating
    BY <1>1 DEF Validating
  <2> QED
    BY ZenonT(30), <1>1, <2>1, <2>2, <2>3, FenceValidate DEF walk
<1>5. ASSUME Accept(r) PROVE FenceInv'
  <2>1. pc' = [pc EXCEPT ![r] = "commit"] /\ UNCHANGED <<walk, guards, checks>>
    BY <1>5 DEF Accept, Goto
  <2>2. Writer(r) => Inside(r)'
    BY Zenon, <1>3, <2>1 DEF Inside, Fence, guards, checks, Examining
  <2>3. "commit" \in Validating /\ pc[r] \in Validating
    BY <1>1 DEF Validating
  <2> QED
    BY Zenon, <1>1, <2>1, <2>2, <2>3, FenceValidate DEF walk, checks
<1>6. CASE Request[r].kind = "delegate"
  <2>1. FoundParents(Request[r].target) \subseteq Request[r].cites
    BY <1>6, ChainAssumption DEF FoundParents
  <2> QED
    BY <1>2, <1>4, <1>5, <1>6, <2>1 DEF Find, FindDelegate
<1>7. CASE Request[r].kind = "invoke"
  BY <1>2, <1>4, <1>5, <1>7 DEF Find, FindInvoke
<1>8. CASE Request[r].kind = "revoke"
  BY <1>2, <1>4, <1>8 DEF Find, FindRevoke
<1>9. CASE Request[r].kind = "status"
  BY <1>2, <1>4, <1>9 DEF Find, FindStatus
<1> QED
  BY <1>6, <1>7, <1>8, <1>9, RequestType

LEMMA FenceNextParent ==
    ASSUME CitesRegistered, Typed, FenceInv, NEW r \in Requests, NextParent(r)
    PROVE  FenceInv'
<1> USE DEF Typed, TypeOK, OutcomeTypes, CheckTypes, WalkTypes
<1>1. UNCHANGED database /\ pc[r] = "next" /\ pc[r] \in Validating
  BY DEF NextParent, Validating
<1>2. CASE Reply(r, RevokedAnswer(r))
  BY <1>1, <1>2, FenceEnd
<1>3. ASSUME NEW d \in todo[r], Climb(r, d), todo' = [todo EXCEPT ![r] = @ \ {d}]
      PROVE  FenceInv'
  <2>1. /\ pc' = [pc EXCEPT ![r] = "climb"] /\ UNCHANGED <<guards, found, unseen>>
        /\ frontier' = [frontier EXCEPT ![r] = {d}]
        /\ visited' = [visited EXCEPT ![r] = {}]
        /\ passed' = [passed EXCEPT ![r] = IF LooksUpLeaf(r) THEN @ \cup {d} ELSE @]
    BY <1>3 DEF Climb, Goto
  <2>2. ASSUME Writer(r) PROVE Inside(r)'
    <3>1. Inside(r)
      BY ZenonT(30), <1>1, <2>2, CitesInFence
    <3>2. d \in Fence(r) /\ passed'[r] \subseteq passed[r] \cup {d}
      BY <1>1, <1>3, <2>1, <3>1 DEF Inside, Examining
    <3> QED
      BY ZenonT(30), <1>1, <1>3, <2>1, <3>1, <3>2 DEF Inside, Fence, guards, Examining
  <2>3. "climb" \in Validating
    BY DEF Validating
  <2> QED
    BY Zenon, <1>1, <1>3, <2>1, <2>2, <2>3, FenceValidate
<1> QED
  BY <1>2, <1>3 DEF NextParent

LEMMA FenceWalkChain ==
    ASSUME CitesRegistered, Typed, FenceInv, NEW r \in Requests, WalkChain(r)
    PROVE  FenceInv'
<1> USE DEF Typed, TypeOK, OutcomeTypes, CheckTypes, WalkTypes
<1>1. UNCHANGED database /\ pc[r] = "climb" /\ pc[r] \in Validating
  BY DEF WalkChain, Validating
<1>2. ASSUME NEW outcome, Reply(r, outcome) PROVE FenceInv'
  BY <1>1, <1>2, FenceEnd
<1>3. ASSUME NEW d \in frontier[r], NEW rows \in ParentRows(Links, d, visited[r] \cup {d}),
             NEW label \in {"climb", "check"}, Goto(r, label),
             visited' = [visited EXCEPT ![r] = @ \cup {d}],
             frontier' = [frontier EXCEPT ![r] = Push(@, visited'[r], rows)],
             unseen' = [unseen EXCEPT ![r] = AncestorsToCheck(r, visited'[r])],
             UNCHANGED <<guards, found, todo, passed>>
      PROVE  FenceInv'
  <2>1. pc' = [pc EXCEPT ![r] = label]
    BY <1>3 DEF Goto
  <2>2. ASSUME Writer(r) PROVE Inside(r)'
    <3>1. Inside(r) /\ Closed(Fence(r))
      BY Zenon, <1>1, <2>2, CitesInFence
    <3>2. d \in Fence(r) /\ visited[r] \cup frontier[r] \subseteq Fence(r)
      BY <1>1, <1>3, <3>1 DEF Inside
    <3>3. rows \subseteq Fence(r)
      <4>1. d \in Delegations /\ rows \subseteq Links[d]
        BY <3>2, InitialClosed DEF Fence, ParentRows
      <4> QED
        BY <3>1, <3>2, <4>1 DEF Links, Closed
    <3>4. visited'[r] \cup frontier'[r] \subseteq Fence(r) /\ unseen'[r] \subseteq Fence(r)
      BY <1>3, <3>2, <3>3 DEF Push, AncestorsToCheck
    <3>5. Fence(r)' = Fence(r)
      BY ZenonT(30), <1>3 DEF Fence, guards
    <3> QED
      BY ZenonT(30), <1>1, <1>3, <2>1, <3>1, <3>4, <3>5 DEF Inside, Examining
  <2>3. label \in Validating
    BY <1>3 DEF Validating
  <2> QED
    BY Zenon, <1>1, <1>3, <2>1, <2>2, <2>3, FenceValidate
<1> QED
  BY <1>2, <1>3 DEF WalkChain

LEMMA FenceCheckAncestor ==
    ASSUME CitesRegistered, Typed, FenceInv, NEW r \in Requests, CheckAncestor(r)
    PROVE  FenceInv'
<1> USE DEF Typed, TypeOK, OutcomeTypes, CheckTypes
<1>1. UNCHANGED database /\ pc[r] = "check" /\ pc[r] \in Validating
  BY DEF CheckAncestor, Validating
<1>2. CASE Reply(r, RevokedAnswer(r))
  BY <1>1, <1>2, FenceEnd
<1>3. ASSUME NEW d \in unseen[r], unseen' = [unseen EXCEPT ![r] = @ \ {d}],
             passed' = [passed EXCEPT ![r] = @ \cup {d}], Goto(r, "check"),
             UNCHANGED <<walk, guards, found, todo>>
      PROVE  FenceInv'
  <2>1. pc' = [pc EXCEPT ![r] = "check"]
    BY <1>3 DEF Goto
  <2>2. ASSUME Writer(r) PROVE Inside(r)'
    <3>1. Inside(r)
      BY ZenonT(30), <1>1, <2>2, CitesInFence
    <3> QED
      BY ZenonT(30), <1>1, <1>3, <2>1, <3>1 DEF Inside, Fence, guards, Examining
  <2> QED
    BY ZenonT(30), <1>1, <1>3, <2>1, <2>2, FenceValidate DEF walk
<1> QED
  BY <1>2, <1>3 DEF CheckAncestor

LEMMA FenceChainClear ==
    ASSUME CitesRegistered, Typed, FenceInv, NEW r \in Requests, ChainClear(r)
    PROVE  FenceInv'
<1> USE DEF Typed, TypeOK, OutcomeTypes
<1>1. UNCHANGED database /\ pc[r] = "check" /\ pc[r] \in Validating
  BY DEF ChainClear, Validating
<1>2. ASSUME NEW outcome, Reply(r, outcome) PROVE FenceInv'
  BY <1>1, <1>2, FenceEnd
<1>3. CASE Goto(r, "next") /\ UNCHANGED <<walk, guards, checks>>
  <2>1. pc' = [pc EXCEPT ![r] = "next"] /\ "next" \in Validating
    BY <1>3 DEF Goto, Validating
  <2>2. ASSUME Writer(r) PROVE Inside(r)'
    <3>1. Inside(r)
      BY <1>1, <2>2, CitesInFence
    <3> QED
      BY <1>1, <1>3, <2>1, <3>1 DEF Inside, Fence, guards, checks, Examining
  <2> QED
    BY ZenonT(30), <1>1, <1>3, <2>1, <2>2, FenceValidate DEF walk, checks
<1> QED
  BY <1>2, <1>3 DEF ChainClear

LEMMA FenceAuthorize ==
    ASSUME CitesRegistered, Typed, FenceInv, NEW r \in Requests, Authorize(r)
    PROVE  FenceInv'
<1> USE DEF Typed, TypeOK, OutcomeTypes, CheckTypes
<1>1. UNCHANGED database /\ pc[r] = "next" /\ pc[r] \in Validating
  BY Zenon DEF Authorize, Validating
<1>2. CASE Reply(r, RevokedAnswer(r))
  BY <1>1, <1>2, FenceEnd
<1>3. CASE /\ ~Writer(r)
           /\ todo' = [todo EXCEPT ![r] = {Request[r].target}]
           /\ UNCHANGED <<pc, walk, guards, found, leaf, unseen, passed>>
  <2>1. pc' = [pc EXCEPT ![r] = "next"]
    BY <1>1, <1>3
  <2> QED
    BY ZenonT(30), <1>1, <1>3, <2>1, FenceValidate DEF walk
<1>4. CASE Accept(r)
  <2>1. /\ pc' = [pc EXCEPT ![r] = "commit"] /\ "commit" \in Validating
        /\ UNCHANGED <<walk, guards, checks>>
    BY <1>4 DEF Accept, Goto, Validating
  <2>2. ASSUME Writer(r) PROVE Inside(r)'
    <3>1. Inside(r)
      BY ZenonT(30), <1>1, <2>2, CitesInFence
    <3> QED
      BY ZenonT(30), <1>1, <2>1, <3>1 DEF Inside, Fence, guards, checks, Examining
  <2> QED
    BY Zenon, <1>1, <2>1, <2>2, FenceValidate DEF walk, checks
<1> QED
  BY <1>2, <1>3, <1>4 DEF Authorize, Writer

LEMMA FenceCommit ==
    ASSUME Typed, FenceInv, NEW r \in Requests, Commit(r)
    PROVE  FenceInv'
<1>1. stored \subseteq stored'
  <2>1. Request[r].kind \in {"delegate", "revoke", "invoke"}
    BY RequestType DEF Commit, Typed, WritersCommit
  <2>2. Save(r) => stored \subseteq stored'
    BY ZenonT(30), <2>1 DEF Save
  <2> QED
    BY <2>2 DEF Commit, database
<1> QED
  BY <1>1, FenceReply DEF Commit

LEMMA FenceStep ==
    RowsWhole /\ CitesRegistered /\ Typed /\ ClearInv /\ FenceInv /\ [Next]_vars => FenceInv'
<1> SUFFICES ASSUME RowsWhole, CitesRegistered, Typed, ClearInv, FenceInv, [Next]_vars
             PROVE  FenceInv'
  OBVIOUS
<1>1. ASSUME NEW r \in Requests, Serve(r) PROVE FenceInv'
  BY <1>1, FenceArrive, FenceWalkKeys, FenceRegister, FenceLockNext, FenceBegin, FenceFind,
     FenceNextParent, FenceWalkChain, FenceCheckAncestor, FenceChainClear, FenceAuthorize,
     FenceCommit
  DEF Serve
<1>2. ASSUME NEW r \in Requests, Fail(r) PROVE FenceInv'
  BY <1>2, FenceEnd DEF Fail
<1>3. CASE Restart
  <2>1. \A r \in Requests : pc'[r] \in {"idle", "done"} /\ visited'[r] = {}
    BY <1>3 DEF Restart, Unset, Typed, TypeOK, OutcomeTypes
  <2>2. \A r \in Requests : RequestFenced(r)'
    BY <2>1 DEF RequestFenced, Walked, Fenced, HoldsAll, Inside, Guarding, Validating, Examining
  <2> QED
    BY <1>3, <2>2 DEF Restart, FenceInv, RegisteredStay, database
<1>4. CASE UNCHANGED <<database, pc, walk, guards, checks>>
  <2>1. \A r \in Requests : UNCHANGED FenceLocals(r)
    BY <1>4 DEF FenceLocals, walk, guards, checks
  <2>2. ASSUME NEW r \in Requests, RequestFenced(r) PROVE RequestFenced(r)'
    <3>1. UNCHANGED FenceLocals(r)
      BY <2>1
    <3> QED
      BY ZenonT(30), <2>2, <3>1 DEF RequestFenced, FenceLocals, Walked, Fenced, HoldsAll, Inside, Fence,
                        Closed, Roots
  <2> QED
    BY <1>4, <2>2 DEF FenceInv, RegisteredStay, Writer, database
<1>5. Tick \/ UNCHANGED vars => UNCHANGED <<database, pc, walk, guards, checks>>
  BY DEF Tick, vars
<1> QED
  BY <1>1, <1>2, <1>3, <1>4, <1>5 DEF Next, Finished

-----------------------------------------------------------------------------
LEMMA CurrentStep ==
    ASSUME Typed, LockInv, ClearInv, FenceInv, PassedCurrent, [Next]_vars
    PROVE  PassedCurrent'
<1>1. ASSUME NEW r \in Requests, Others(r), Forgets(r) PROVE PassedCurrent'
  <2>1. CASE UNCHANGED revoked
    BY <1>1, <2>1 DEF PassedCurrent, Writer, Others, Forgets
  <2>2. CASE Commit(r)
    <3> SUFFICES ASSUME NEW q \in Requests, Writer(q), pc'[q] \in Validating
                 PROVE  passed'[q] \cap revoked' = {}
      BY DEF PassedCurrent, Writer
    <3>1. q # r /\ UNCHANGED <<pc[q], passed[q]>>
      BY <1>1 DEF Others, Forgets
    <3>2. passed[q] \subseteq held[q]
      BY <3>1 DEF FenceInv, RequestFenced, Inside, HoldsAll, Fence
    <3>3. Writer(r) /\ held[r] = keys[r] /\ Roots(r) \subseteq keys[r]
      BY <2>2 DEF Commit, Typed, WritersCommit, Writer, FenceInv, RequestFenced, HoldsAll, Fenced,
                  Validating, Guarding
    <3>4. held[q] \cap held[r] = {}
      BY <3>1 DEF LockInv, GuardsExclusive
    <3>5. revoked' \subseteq revoked \cup Roots(r)
      <4>1. Request[r].kind \in {"delegate", "revoke", "invoke"}
        BY <3>3, RequestType DEF Writer
      <4>2. Save(r) => revoked' \subseteq revoked \cup Roots(r)
        BY ZenonT(30), <4>1 DEF Save, Roots
      <4> QED
        BY <2>2, <4>2 DEF Commit, database
    <3>6. passed[q] \cap revoked = {}
      BY <3>1 DEF PassedCurrent
    <3> QED
      BY <3>1, <3>2, <3>3, <3>4, <3>5, <3>6
  <2> QED
    BY <1>1, <2>1, <2>2 DEF Forgets
<1>2. ASSUME NEW r \in Requests, Others(r), Arrives(r) PROVE PassedCurrent'
  BY <1>2 DEF PassedCurrent, Writer, Others, Arrives, Validating
<1>3. ASSUME NEW r \in Requests, Others(r), Passes(r) PROVE PassedCurrent'
  <2>1. Writer(r) /\ Begin(r) => passed[r] = {}
    BY DEF Begin, ClearInv, ChainsClear, RequestClear, EarlyClear
  <2> QED
    BY <1>3, <2>1 DEF PassedCurrent, Writer, Others, Passes
<1>4. ASSUME NEW r \in Requests, Fail(r) PROVE PassedCurrent'
  BY <1>1, <1>4, ReplyForgets DEF Fail, database
<1>5. CASE Restart
  BY <1>5 DEF Restart, PassedCurrent, InFlight, Validating
<1>6. CASE Tick \/ UNCHANGED vars
  BY <1>6 DEF Tick, vars, checks, database, PassedCurrent, Writer
<1> QED
  BY <1>1, <1>2, <1>3, <1>4, <1>5, <1>6, HistorySteps DEF Next, Finished

-----------------------------------------------------------------------------
(***************************************************************************)
(* Walks stay within the chain of their request and within the limit, so   *)
(* when no query of that chain is cut short every walk gets whole rows.    *)
(***************************************************************************)
ConfinedTo(r) ==
    /\ pc[r] = "idle" => visited[r] = {}
    /\ todo[r] \subseteq Roots(r)
    /\ pc[r] \in Walking =>
          /\ frontier[r] \cup visited[r] \subseteq ChainOf(r)
          /\ WithinLimit(frontier[r] \cup visited[r])

Confined == \A r \in Requests : ConfinedTo(r)

WalkLocals(r) == <<pc[r], frontier[r], visited[r], todo[r]>>

Sets == INSTANCE FiniteSetTheorems

LEMMA SameNotions ==
    \A S : Sets!Cardinality(S) = Cardinality(S) /\ (Sets!IsFiniteSet(S) <=> IsFiniteSet(S))
<1>1. \A S : Sets!Cardinality(S) = Cardinality(S)
  BY DEF Sets!Cardinality, Cardinality
<1>2. \A S : Sets!IsFiniteSet(S) <=> IsFiniteSet(S)
  BY DEF Sets!IsFiniteSet, IsFiniteSet
<1> QED
  BY <1>1, <1>2

LEMMA OneNodeWithinLimit == \A d : WithinLimit({d})
<1> TAKE d
<1>1. Cardinality({d}) = 1
  BY Sets!FS_Singleton, SameNotions
<1>2. 1 <= MaxChainNodes
  BY GraphAssumption, SMT
<1> QED
  BY <1>1, <1>2 DEF WithinLimit

LEMMA PartWithinLimit ==
    ASSUME NEW T \in SUBSET Delegations, NEW S \in SUBSET T, WithinLimit(T)
    PROVE  WithinLimit(S)
<1>1. IsFiniteSet(T)
  BY Sets!FS_Subset, SameNotions, GraphAssumption
<1>2. IsFiniteSet(S) /\ Cardinality(S) <= Cardinality(T)
  BY <1>1, Sets!FS_Subset, SameNotions
<1>3. Cardinality(S) \in Nat /\ Cardinality(T) \in Nat
  BY <1>1, <1>2, Sets!FS_CardinalityType, SameNotions
<1> QED
  BY <1>2, <1>3, GraphAssumption, SMT DEF WithinLimit

\* The chain of a request holds its roots and what its members cite.
LEMMA ChainOfClosed ==
    ASSUME NEW r \in Requests
    PROVE  /\ ChainOf(r) \subseteq Delegations
           /\ Roots(r) \subseteq ChainOf(r)
           /\ \A d \in ChainOf(r) : Content[d].parents \subseteq ChainOf(r)
<1> DEFINE all == [d \in Delegations |-> Content[d].parents]
<1>1. ChainOf(r) \subseteq Delegations
  BY DEF ChainOf, Chain
<1>2. Roots(r) \subseteq ChainOf(r)
  BY RootsType DEF ChainOf, Chain
<1>3. ASSUME NEW d \in ChainOf(r), NEW p \in Content[d].parents PROVE p \in ChainOf(r)
  <2>1. d \in Delegations /\ p \in Delegations
    BY <1>1, <1>3, ContentType DEF DelegationContent
  <2>2. ASSUME NEW T \in SUBSET Delegations, Roots(r) \subseteq T, AncestorClosed(all, T)
        PROVE  p \in T
    <3>1. d \in T
      BY <2>2, <1>3 DEF ChainOf, Chain
    <3> QED
      BY <2>1, <2>2, <3>1, <1>3 DEF AncestorClosed
  <2> QED
    BY <2>1, <2>2 DEF ChainOf, Chain
<1> QED
  BY <1>1, <1>2, <1>3

LEMMA ConfinedFrame ==
    ASSUME Confined, NEW r \in Requests, ConfinedTo(r)',
           \A q \in Requests : q # r => UNCHANGED WalkLocals(q)
    PROVE  Confined'
<1> SUFFICES ASSUME NEW q \in Requests, q # r PROVE ConfinedTo(q)'
  BY DEF Confined
<1>1. UNCHANGED <<pc[q], frontier[q], visited[q], todo[q]>>
  BY DEF WalkLocals
<1> QED
  BY <1>1 DEF Confined, ConfinedTo, Roots, ChainOf

\* Steps that end a request, or leave it outside a walk.
LEMMA ConfinedAside ==
    ASSUME Typed, Confined, NEW r \in Requests, NEW label \in ({"done"} \cup InFlight) \ Walking,
           pc' = [pc EXCEPT ![r] = label], UNCHANGED <<frontier, visited>>,
           todo'[r] \subseteq Roots(r), \A q \in Requests : q # r => todo'[q] = todo[q]
    PROVE  Confined'
<1>1. pc'[r] = label /\ \A q \in Requests : q # r => pc'[q] = pc[q]
  BY DEF Typed, TypeOK, OutcomeTypes
<1>2. ConfinedTo(r)'
  BY <1>1 DEF ConfinedTo, Roots, InFlight, Validating, Walking
<1>3. \A q \in Requests : q # r => UNCHANGED WalkLocals(q)
  BY <1>1 DEF WalkLocals
<1> QED
  BY <1>2, <1>3, ConfinedFrame

LEMMA ConfinedReply ==
    ASSUME Typed, Confined, NEW r \in Requests, NEW outcome, Reply(r, outcome)
    PROVE  Confined'
<1>1. /\ pc'[r] = "done" /\ todo'[r] = {}
      /\ \A q \in Requests : q # r => UNCHANGED WalkLocals(q)
  BY DEF Reply, WalkLocals, Typed, TypeOK, OutcomeTypes, WalkTypes, CheckTypes
<1>2. ConfinedTo(r)'
  BY <1>1 DEF ConfinedTo, Walking
<1> QED
  BY <1>1, <1>2, ConfinedFrame

\* One iteration of a walk, of either kind.
LEMMA ConfinedWalk ==
    ASSUME Typed, Confined, NEW r \in Requests, pc[r] \in Walking, NEW d \in frontier[r],
           NEW rows \in ParentRows(Links, d, visited[r] \cup {d}),
           WithinLimit(Known(frontier[r], visited[r], rows)),
           visited' = [visited EXCEPT ![r] = @ \cup {d}],
           frontier' = [frontier EXCEPT ![r] = Push(@, visited'[r], rows)],
           NEW label \in Walking \cup {"check"}, Goto(r, label), UNCHANGED todo
    PROVE  Confined'
<1>1. /\ visited'[r] = visited[r] \cup {d}
      /\ frontier'[r] = (frontier[r] \cup rows) \ visited'[r]
      /\ pc'[r] = label
      /\ \A q \in Requests : q # r => UNCHANGED WalkLocals(q)
  BY DEF WalkLocals, Goto, Push, Typed, TypeOK, OutcomeTypes, WalkTypes
<1>2. frontier'[r] \cup visited'[r] = Known(frontier[r], visited[r], rows)
  BY <1>1 DEF Known
<1>3. ConfinedTo(r)
  BY DEF Confined
<1>4. d \in ChainOf(r) /\ d \in Delegations
  BY <1>3, ChainOfClosed DEF ConfinedTo
<1>5. rows \subseteq Content[d].parents
  <2>1. Links[d] \subseteq Content[d].parents
    BY <1>4 DEF Links
  <2> QED
    BY <2>1 DEF ParentRows
<1>6. Known(frontier[r], visited[r], rows) \subseteq ChainOf(r)
  BY <1>3, <1>4, <1>5, ChainOfClosed DEF Known, ConfinedTo
<1>7. ConfinedTo(r)'
  <2>1. pc'[r] # "idle"
    BY <1>1 DEF Walking
  <2>2. todo'[r] \subseteq Roots(r)'
    BY <1>3 DEF ConfinedTo, Roots
  <2> QED
    BY <1>2, <1>6, <2>1, <2>2 DEF ConfinedTo, ChainOf, Roots
<1> QED
  BY <1>1, <1>7, ConfinedFrame

LEMMA ConfinedFind ==
    ASSUME Typed, Confined, NEW r \in Requests, Find(r)
    PROVE  Confined'
<1>1. ASSUME NEW ds, ds \subseteq Roots(r), Examine(r, ds) PROVE Confined'
  <2>1. todo'[r] = ds /\ \A q \in Requests : q # r => todo'[q] = todo[q]
    BY <1>1 DEF Examine, Typed, TypeOK, CheckTypes
  <2> QED
    BY <1>1, <2>1, ConfinedAside DEF Examine, Goto, walk, InFlight, Validating, Walking
<1>2. ASSUME Accept(r) PROVE Confined'
  <2>1. todo[r] \subseteq Roots(r)
    BY DEF Confined, ConfinedTo
  <2> QED
    BY <1>2, <2>1, ConfinedAside DEF Accept, Goto, walk, checks, InFlight, Validating, Walking
<1>3. Request[r].cites \subseteq Roots(r)
  BY DEF Roots
<1>4. CASE Request[r].kind = "delegate"
  <2>1. FoundParents(Request[r].target) \subseteq Roots(r)
    BY <1>3, <1>4, ChainAssumption DEF FoundParents
  <2>2. FindDelegate(r)
    BY <1>4 DEF Find
  <2> QED
    BY <1>1, <1>2, <2>1, <2>2, ConfinedReply DEF FindDelegate
<1>5. CASE Request[r].kind = "invoke"
  <2>1. FindInvoke(r)
    BY <1>5 DEF Find
  <2> QED
    BY <1>1, <1>2, <1>3, <2>1, ConfinedReply DEF FindInvoke
<1>6. CASE Request[r].kind = "revoke"
  <2>1. FindRevoke(r)
    BY <1>6 DEF Find
  <2> QED
    BY <1>1, <1>3, <2>1, ConfinedReply DEF FindRevoke
<1>7. CASE Request[r].kind = "status"
  <2>1. FindStatus(r)
    BY <1>7 DEF Find
  <2> QED
    BY <1>1, <1>3, <2>1, ConfinedReply DEF FindStatus
<1> QED
  BY <1>4, <1>5, <1>6, <1>7, RequestType

LEMMA ConfinedNextParent ==
    ASSUME Typed, Confined, NEW r \in Requests, NextParent(r)
    PROVE  Confined'
<1>1. ASSUME NEW d \in todo[r], Climb(r, d), todo' = [todo EXCEPT ![r] = @ \ {d}]
      PROVE  Confined'
  <2>1. /\ pc'[r] = "climb" /\ frontier'[r] = {d} /\ visited'[r] = {} /\ todo'[r] \subseteq todo[r]
        /\ \A q \in Requests : q # r => UNCHANGED WalkLocals(q)
    BY <1>1 DEF Climb, Goto, WalkLocals, Typed, TypeOK, OutcomeTypes, WalkTypes, CheckTypes
  <2>2. todo[r] \subseteq Roots(r)
    BY DEF Confined, ConfinedTo
  <2>3. frontier'[r] \cup visited'[r] = {d}
    BY <2>1
  <2>4. {d} \subseteq ChainOf(r)
    BY <1>1, <2>2, ChainOfClosed
  <2>5. ConfinedTo(r)'
    BY <2>1, <2>2, <2>3, <2>4, OneNodeWithinLimit DEF ConfinedTo, ChainOf, Roots
  <2> QED
    BY <2>1, <2>5, ConfinedFrame
<1> QED
  BY <1>1, ConfinedReply DEF NextParent

LEMMA ConfinedServe ==
    ASSUME Typed, Confined, NEW r \in Requests, Serve(r)
    PROVE  Confined'
<1>1. CASE Arrive(r)
  <2>1. ASSUME pc[r] = "idle", WithinLimit(Roots(r)), pc' = [pc EXCEPT ![r] = "keys"],
               frontier' = [frontier EXCEPT ![r] = Roots(r)], UNCHANGED <<visited, todo>>
        PROVE  Confined'
    <3>1. /\ pc'[r] = "keys" /\ frontier'[r] = Roots(r) /\ UNCHANGED <<visited[r], todo[r]>>
          /\ \A q \in Requests : q # r => UNCHANGED WalkLocals(q)
      BY <2>1 DEF WalkLocals, Typed, TypeOK, OutcomeTypes, WalkTypes
    <3>2. frontier'[r] \cup visited'[r] = Roots(r) /\ todo[r] \subseteq Roots(r)
      BY <2>1, <3>1 DEF Confined, ConfinedTo
    <3>3. ConfinedTo(r)'
      BY <2>1, <3>1, <3>2, ChainOfClosed DEF ConfinedTo, ChainOf, Roots
    <3> QED
      BY <3>1, <3>3, ConfinedFrame
  <2> QED
    BY <1>1, <2>1, ConfinedReply DEF Arrive, checks
<1>2. CASE WalkKeys(r)
  <2>1. pc[r] \in Walking
    BY <1>2 DEF WalkKeys, Walking
  <2>2. "keys" \in Walking \cup {"check"}
    BY DEF Walking
  <2> QED
    BY <1>2, <2>1, <2>2, ConfinedWalk, ConfinedReply DEF WalkKeys, checks
<1>3. CASE WalkChain(r)
  <2>1. pc[r] \in Walking
    BY <1>3 DEF WalkChain, Walking
  <2>2. (IF frontier'[r] = {} THEN "check" ELSE "climb") \in Walking \cup {"check"}
    BY DEF Walking
  <2> QED
    BY <1>3, <2>1, <2>2, ConfinedWalk, ConfinedReply DEF WalkChain
<1>4. ASSUME NEW label \in ({"done"} \cup InFlight) \ Walking, pc' = [pc EXCEPT ![r] = label],
             UNCHANGED <<frontier, visited, todo>>
      PROVE  Confined'
  <2>1. todo[r] \subseteq Roots(r)
    BY DEF Confined, ConfinedTo
  <2> QED
    BY <1>4, <2>1, ConfinedAside
<1>5. {"lock", "find", "next", "check", "commit"} \subseteq ({"done"} \cup InFlight) \ Walking
  BY DEF InFlight, Validating, Walking
<1>6. CASE Register(r)
  BY <1>4, <1>5, <1>6 DEF Register, Goto, walk, checks
<1>7. CASE LockNext(r)
  <2>1. pc' = [pc EXCEPT ![r] = "lock"]
    BY <1>7 DEF LockNext, Typed, TypeOK, OutcomeTypes
  <2> QED
    BY <1>4, <1>5, <1>7, <2>1 DEF LockNext, walk, checks
<1>8. CASE Begin(r)
  BY <1>4, <1>5, <1>8 DEF Begin, Goto, walk, checks
<1>9. CASE CheckAncestor(r)
  BY <1>4, <1>5, <1>9, ConfinedReply DEF CheckAncestor, Goto, walk
<1>10. CASE ChainClear(r)
  BY <1>4, <1>5, <1>10, ConfinedReply DEF ChainClear, Goto, walk, checks
<1>11. CASE Authorize(r)
  <2>1. ASSUME Request[r].kind = "status", UNCHANGED <<pc, walk>>, pc[r] = "next",
               todo' = [todo EXCEPT ![r] = {Request[r].target}]
        PROVE  Confined'
    <3>1. todo'[r] \subseteq Roots(r) /\ \A q \in Requests : q # r => todo'[q] = todo[q]
      BY <2>1 DEF Roots, Typed, TypeOK, CheckTypes
    <3>2. pc' = [pc EXCEPT ![r] = "next"]
      BY <2>1 DEF Typed, TypeOK, OutcomeTypes
    <3> QED
      BY <1>5, <2>1, <3>1, <3>2, ConfinedAside DEF walk
  <2>2. ASSUME Accept(r) PROVE Confined'
    BY <1>4, <1>5, <2>2 DEF Accept, Goto, walk, checks
  <2> QED
    BY <1>11, <2>1, <2>2, ConfinedReply DEF Authorize
<1>12. CASE Commit(r)
  BY <1>12, ConfinedReply DEF Commit
<1> QED
  BY <1>1, <1>2, <1>3, <1>6, <1>7, <1>8, <1>9, <1>10, <1>11, <1>12, ConfinedFind, ConfinedNextParent
  DEF Serve

LEMMA ConfinedStep == Typed /\ Confined /\ [Next]_vars => Confined'
<1> SUFFICES ASSUME Typed, Confined, [Next]_vars PROVE Confined'
  OBVIOUS
<1>1. ASSUME NEW r \in Requests, Fail(r) PROVE Confined'
  BY <1>1, ConfinedReply DEF Fail
<1>2. CASE Restart
  <2>1. \A r \in Requests : pc'[r] \in {"idle", "done"} /\ visited'[r] = {} /\ todo'[r] = {}
    BY <1>2 DEF Restart, Unset, Typed, TypeOK, OutcomeTypes
  <2> QED
    BY <2>1 DEF Confined, ConfinedTo, Walking
<1>3. CASE Tick \/ UNCHANGED vars
  <2>1. UNCHANGED <<pc, frontier, visited, todo>>
    BY <1>3 DEF Tick, vars, walk, checks
  <2> QED
    BY <2>1 DEF Confined, ConfinedTo, ChainOf, Roots
<1> QED
  BY <1>1, <1>2, <1>3, ConfinedServe DEF Next, Finished

LEMMA ConfinedInit == Init => Confined
<1> SUFFICES ASSUME Init, NEW r \in Requests PROVE ConfinedTo(r)
  BY DEF Confined
<1>1. pc[r] \in {"idle", "done"} /\ visited[r] = {} /\ todo[r] = {}
  BY DEF Init, Unset
<1> QED
  BY <1>1 DEF ConfinedTo, Walking

\* A walk that stays within an uncut chain gets whole rows.
LEMMA UncutRows == Uncut /\ Typed /\ Confined => RowsWhole
<1> SUFFICES ASSUME Uncut, Typed, Confined, NEW r \in Requests, pc[r] \in Walking,
                    NEW d \in frontier[r] \cap stored,
                    NEW rows \in ParentRows(Links, d, visited[r] \cup {d})
             PROVE  rows = Content[d].parents
  BY DEF RowsWhole
<1> DEFINE S == visited[r] \cup {d}
<1>1. /\ frontier[r] \cup visited[r] \subseteq ChainOf(r)
      /\ WithinLimit(frontier[r] \cup visited[r])
  BY DEF Confined, ConfinedTo
<1>2. frontier[r] \cup visited[r] \in SUBSET Delegations /\ S \subseteq frontier[r] \cup visited[r]
  BY <1>1, ChainOfClosed
<1>3. WithinLimit(S)
  BY <1>1, <1>2, PartWithinLimit
<1>4. d \in S /\ S \in SUBSET ChainOf(r)
  BY <1>1
<1>5. Cardinality(Content[d].parents) <= RowLimit(S)
  BY <1>3, <1>4 DEF Uncut
<1>6. Links[d] = Content[d].parents
  BY <1>2 DEF Links
<1> QED
  BY <1>5, <1>6 DEF ParentRows

LEMMA RowsAreWhole == Uncut => (Spec => []RowsWhole)
<1>1. Init => Confined
  BY ConfinedInit
<1>2. Typed /\ Confined /\ [Next]_vars => Confined'
  BY ConfinedStep
<1>3. Uncut /\ Typed /\ Confined => RowsWhole
  BY UncutRows
<1>4. Uncut => []Uncut
  BY DEF Uncut, ChainOf, Roots
<1> QED
  BY <1>1, <1>2, <1>3, <1>4, TypesHold, PTL DEF Spec

-----------------------------------------------------------------------------
(***************************************************************************)
(* A revocation that was committed before a delegation, an invocation or a *)
(* revocation arrived is seen by it, however many requests run, crash and  *)
(* fail at once, on SQLite and on PostgreSQL, as long as no parent query   *)
(* of a request's chain has more rows than its limit.                      *)
(***************************************************************************)
THEOREM RevocationIsNotMissed == Uncut => (Spec => NoUseAfterRevocation)
<1>1. RowsWhole /\ Typed /\ ClearInv /\ [Next]_vars => ClearInv'
  BY ClearStep
<1>2. Typed /\ ClearInv /\ HistoryInv /\ [Next]_vars => HistoryInv'
  BY HistoryStep
<1>3. Typed /\ ClearInv /\ HistoryInv =>
        [\A r \in Requests : Commits(r) => Chain(Links, found[r]) \cap before[r] = {}]_vars
  BY CommitsOnClearChain DEF HistoryInv
<1>4. Init => ClearInv /\ HistoryInv
  BY ClearInit, HistoryInit
<1> QED
  BY <1>1, <1>2, <1>3, <1>4, TypesHold, RowsAreWhole, PTL DEF Spec, NoUseAfterRevocation

(***************************************************************************)
(* "Revocation ordering": on SQLite no delegation, invocation or           *)
(* revocation commits on a chain of which any part is revoked at that      *)
(* moment, as long as no parent query meets its row limit.                 *)
(***************************************************************************)
THEOREM SqliteRevocationOrdering == Uncut /\ AllSqlite => (Spec => RevocationOrdering)
<1>1. RowsWhole /\ Typed /\ ClearInv /\ [Next]_vars => ClearInv'
  BY ClearStep
<1>2. AllSqlite /\ Typed /\ ClearInv /\ SqliteInv /\ [Next]_vars => SqliteInv'
  BY SqliteStep
<1>3. Typed /\ ClearInv /\ SqliteInv =>
        [\A r \in Requests : Commits(r) => Chain(Links, found[r]) \cap revoked = {}]_vars
  <2>1. ASSUME Typed, ClearInv, SqliteInv, NEW r \in Requests, Commits(r)
        PROVE  Chain(Links, found[r]) \cap revoked = {}
    BY <2>1, CommitsOnClearChain DEF SqliteInv, PassedCurrent, Commits, Validating
  <2> QED
    BY <2>1
<1>4. Init => ClearInv /\ SqliteInv
  BY ClearInit, SqliteInit
<1>5. AllSqlite => []AllSqlite
  BY DEF AllSqlite
<1> QED
  BY <1>1, <1>2, <1>3, <1>4, <1>5, TypesHold, RowsAreWhole, PTL DEF Spec, RevocationOrdering

(***************************************************************************)
(* "Revocation ordering is enforced by the chain-scoped guards held        *)
(* through commit" (chain_isolation): with any number of connections,      *)
(* nothing commits on a chain of which any part is revoked at that moment, *)
(* provided the delegations a request cites were registered before it and  *)
(* no parent query meets its row limit.                                    *)
(***************************************************************************)
THEOREM GuardsOrderRevocations == Uncut /\ CitesRegistered => (Spec => RevocationOrdering)
<1>1. RowsWhole /\ Typed /\ ClearInv /\ [Next]_vars => ClearInv'
  BY ClearStep
<1>2. Typed /\ LockInv /\ [Next]_vars => LockInv'
  BY LockStep
<1>3. RowsWhole /\ CitesRegistered /\ Typed /\ ClearInv /\ FenceInv /\ [Next]_vars => FenceInv'
  BY FenceStep
<1>4. Typed /\ LockInv /\ ClearInv /\ FenceInv /\ PassedCurrent /\ [Next]_vars => PassedCurrent'
  BY CurrentStep
<1>5. Typed /\ ClearInv /\ PassedCurrent =>
        [\A r \in Requests : Commits(r) => Chain(Links, found[r]) \cap revoked = {}]_vars
  <2>1. ASSUME Typed, ClearInv, PassedCurrent, NEW r \in Requests, Commits(r)
        PROVE  Chain(Links, found[r]) \cap revoked = {}
    BY <2>1, CommitsOnClearChain DEF PassedCurrent, Commits, Validating
  <2> QED
    BY <2>1
<1>6. Init => LockInv /\ ClearInv /\ FenceInv /\ PassedCurrent
  BY LockInit, ClearInit, FenceInit, SqliteInit DEF SqliteInv
<1>7. CitesRegistered => []CitesRegistered
  BY DEF CitesRegistered, Writer
<1> QED
  BY <1>1, <1>2, <1>3, <1>4, <1>5, <1>6, <1>7, TypesHold, RowsAreWhole, PTL DEF Spec, RevocationOrdering

=============================================================================
