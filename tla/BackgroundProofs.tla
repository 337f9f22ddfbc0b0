-------------------------- MODULE BackgroundProofs --------------------------
(***************************************************************************)
(* The safety of what runs beside the requests: WebhookDelivery, for any   *)
(* subscriptions, writes, limits, delays and batch size, whatever fails;   *)
(* and QuotaCache, for any writers, plans, overrides and failures.         *)
(*                                                                         *)
(* The arguments.  The dispatcher works from a list that may be stale in   *)
(* everything but the rows themselves: nobody else updates a row once a    *)
(* write has inserted it, and the list names a row once.  So a row that is *)
(* still to be handled is as it was listed, and is not settled.  An ended  *)
(* subscription stays ended, so what is listed after its end is refused.   *)
(*                                                                         *)
(* A refresh of the quota cache holds the flag from its claim to its       *)
(* release, so there is one; the default is what an entry without a limit  *)
(* or an empty fetch gives, and either comes from a failure.               *)
(***************************************************************************)
EXTENDS WebhookDelivery, QuotaCache, FiniteSetTheorems, TLAPS

\* First-order reasoning, unless a step names another prover.
USE Zenon

-----------------------------------------------------------------------------
(* The outbox: the inductive invariant.                                    *)

Open == {"pending", "retrying"}

Listed == [id : Ids, attempts : 0..MaxAttempts, created : 0..MaxTime, active : BOOLEAN]

Types ==
    /\ clock \in 0..MaxTime
    /\ subs \in [Subscriptions -> {"none", "counted", "refused", "active", "inactive"}]
    /\ written \subseteq Writes
    /\ queued \in [Writes -> {NotQueued} \cup 0..MaxTime]
    /\ \A w \in Writes : queued[w] # NotQueued => w \in written
    /\ rows \in [Ids -> [status : {"none"} \cup Open \cup Settled,
                         attempts : 0..MaxAttempts, due : 0..MaxTime, created : 0..MaxTime]]
    /\ batch \subseteq Listed
    /\ current \subseteq [listed : Listed, success : BOOLEAN]
    /\ faults \in 0..MaxFaults
    /\ posts \in [Ids -> Nat] /\ lost \in [Ids -> Nat] /\ failedAt \in [Ids -> 0..MaxTime]
    /\ late \in [Ids -> Nat]

\* A row comes with its write or after it, may be tried again while it is open, and a
\* retry is due a delay after the failure.
RowInv ==
    \A d \in Ids :
        /\ d[2] \notin written \/ queued[d[2]] # NotQueued => rows[d] = NoRow
        /\ rows[d].status \in Open => rows[d].attempts < MaxAttempts
        /\ rows[d].status = "retrying" =>
              /\ rows[d].attempts # 0
              /\ rows[d].due = failedAt[d] + Delay[rows[d].attempts + 1]

AsListed(b) ==
    rows[b.id].status \in Open /\ rows[b.id].attempts = b.attempts /\ rows[b.id].created = b.created

\* What is listed or was just posted is as it was listed, and named once.
ListInv ==
    /\ \A b \in batch : AsListed(b)
    /\ \A c \in current : AsListed(c.listed)
    /\ \A b, c \in batch : b.id = c.id => b = c
    /\ \A b \in batch, c \in current : b.id # c.listed.id
    /\ \A b, c \in current : b = c

PostInv ==
    /\ \A c \in current : c.success \/ RetryFits(c.listed, clock)
    /\ \A d \in Ids : posts[d] <= rows[d].attempts + lost[d]
                                  + (IF \E c \in current : c.listed.id = d THEN 1 ELSE 0)

OutboxInv == Types /\ RowInv /\ ListInv /\ PostInv

-----------------------------------------------------------------------------
(* What the operators give.                                                *)

LEMMA IdFacts ==
    ASSUME NEW d \in Ids
    PROVE  d = <<d[1], d[2]>> /\ d[1] \in Subscriptions /\ d[2] \in Writes
  BY SMT DEF Ids

\* A row that is updated as listed keeps its type and is tried once more.
LEMMA RowTyped ==
    ASSUME NEW listed \in Listed, listed.attempts < MaxAttempts,
           NEW status \in {"none"} \cup Open \cup Settled, NEW due \in 0..MaxTime
    PROVE  /\ Row(status, listed, due) \in
                 [status : {"none"} \cup Open \cup Settled, attempts : 0..MaxAttempts,
                  due : 0..MaxTime, created : 0..MaxTime]
           /\ Row(status, listed, due).status = status
           /\ Row(status, listed, due).attempts = listed.attempts + 1
           /\ Row(status, listed, due).due = due
  BY WebhookAssumption, SMT DEF Row, Listed

LEMMA RetryRowTyped ==
    ASSUME Types, NEW listed \in Listed, listed.attempts < MaxAttempts, RetryFits(listed, clock)
    PROVE  /\ RetryRow(listed) \in
                 [status : {"none"} \cup Open \cup Settled, attempts : 0..MaxAttempts,
                  due : 0..MaxTime, created : 0..MaxTime]
           /\ RetryRow(listed).attempts = listed.attempts + 1
           /\ \/ RetryRow(listed).status = "dead_letter"
              \/ /\ RetryRow(listed).status = "retrying"
                 /\ RetryRow(listed).attempts < MaxAttempts
                 /\ RetryRow(listed).due = clock + Delay[RetryRow(listed).attempts + 1]
  <1>1. listed.attempts \in Nat /\ MaxAttempts \in Nat /\ clock \in Nat /\ MaxTime \in Nat
    BY WebhookAssumption, SMT DEF Types, Listed
  <1>2. CASE listed.attempts + 2 > MaxAttempts
    <2>1. RetryRow(listed) = Row("dead_letter", listed, 0)
      BY <1>2 DEF RetryRow
    <2> QED
      BY <1>1, <2>1, RowTyped, SMT DEF Settled
  <1>3. CASE ~(listed.attempts + 2 > MaxAttempts)
    <2>1. RetryRow(listed) = Row("retrying", listed, clock + Delay[listed.attempts + 2])
      BY <1>3 DEF RetryRow
    <2>2. listed.attempts + 2 \in 2..MaxAttempts
      BY <1>1, <1>3, SMT
    <2>3. Delay[listed.attempts + 2] \in Nat
      BY <2>2, WebhookAssumption
    <2>4. clock + Delay[listed.attempts + 2] \in 0..MaxTime
      BY <1>1, <1>3, <2>2, <2>3, SMT DEF RetryFits
    <2>5. (listed.attempts + 1) + 1 = listed.attempts + 2 /\ listed.attempts + 1 < MaxAttempts
      BY <1>1, <2>2, SMT
    <2> QED
      BY <2>1, <2>4, <2>5, RowTyped, SMT DEF Open
  <1> QED
    BY <1>2, <1>3

\* Text that is not later is at most a second later in time.
LEMMA SecondsOf ==
    ASSUME NEW T \in Nat, T > 0, NEW n \in Nat
    PROVE  /\ n \div T \in Int
           /\ T * (n \div T) <= n
           /\ n < T * (n \div T) + T
  <1>1. n \div T \in Int
    BY SMT
  <1>2. T * (n \div T) <= n
    BY SMT
  <1>3. n < T * (n \div T) + T
    BY SMT
  <1> QED
    BY <1>1, <1>2, <1>3

LEMMA TextBlursOneSecond ==
    ASSUME NEW t \in Nat, NEW u \in Nat, TextLte(t, u)
    PROVE  t < u + TicksPerSecond
  <1> DEFINE T == TicksPerSecond
             p == t \div T
             q == u \div T
  <1>1. T \in Nat /\ T > 0
    BY WebhookAssumption, SMT
  <1>2. p \in Int /\ q \in Int /\ t < T * p + T /\ T * q <= u
    BY <1>1, SecondsOf
  <1>3. p <= q
    BY <1>2, SMT DEF TextLte, Second
  <1> HIDE DEF p, q, T
  <1>4. T * p <= T * q
    BY <1>1, <1>2, <1>3, SMT
  <1>5. T * p \in Int /\ T * q \in Int
    BY <1>1, <1>2, SMT
  <1>6. t < u + T
    BY <1>1, <1>2, <1>4, <1>5, SMT
  <1> QED
    BY <1>6 DEF T

-----------------------------------------------------------------------------
(* Every step keeps the invariant.                                         *)

\* Nothing of the outbox changes when a subscription does.
LEMMA SubscriptionsChange ==
    ASSUME OutboxInv, NEW s \in Subscriptions, Count(s) \/ Insert(s) \/ Deactivate(s)
    PROVE  OutboxInv'
  <1>1. /\ UNCHANGED <<clock, written, queued, rows, dispatcher, faults, history>>
        /\ subs' \in [Subscriptions -> {"none", "counted", "refused", "active", "inactive"}]
    BY DEF OutboxInv, Types, Count, Insert, Deactivate
  <1> QED
    BY <1>1 DEF OutboxInv, Types, RowInv, ListInv, PostInv, AsListed, RetryFits,
                dispatcher, history

LEMMA InvInitially ==
    ASSUME Init
    PROVE  OutboxInv
  <1> USE WebhookAssumption DEF Init
  <1>1. Types
    BY SMT DEF Types, NoRow
  <1>2. RowInv
    BY DEF RowInv, NoRow, Open
  <1>3. ListInv /\ PostInv
    BY SMT DEF ListInv, PostInv, NoRow
  <1> QED
    BY <1>1, <1>2, <1>3 DEF OutboxInv

\* A write inserts rows that were not there.
LEMMA InsertKeeps ==
    ASSUME OutboxInv, NEW w \in Writes, w \notin written \/ queued[w] # NotQueued,
           NEW at \in 0..MaxTime, rows' = WithDeliveries(w, at), written' = written \cup {w},
           queued' \in [Writes -> {NotQueued} \cup 0..MaxTime],
           \A v \in Writes : queued'[v] # NotQueued => v # w /\ queued[v] # NotQueued,
           UNCHANGED <<clock, subs, dispatcher, faults, history>>
    PROVE  OutboxInv'
  <1> USE WebhookAssumption DEF OutboxInv
  <1>1. \A d \in Ids : rows'[d] = rows[d] \/ (d[2] = w /\ rows[d] = NoRow /\
            rows'[d] = [status |-> "pending", attempts |-> 0, due |-> 0, created |-> at])
    BY DEF WithDeliveries, RowInv
  <1>2. UNCHANGED <<clock, subs, batch, current, faults, posts, late, failedAt, lost>>
        /\ written' = written \cup {w}
    BY DEF dispatcher, history
  <1>3. DOMAIN rows' = Ids /\ rows' = [d \in Ids |-> rows'[d]]
    BY DEF WithDeliveries
  <1>4. Types'
    <2>1. \A d \in Ids : rows'[d] \in [status : {"none"} \cup Open \cup Settled,
                             attempts : 0..MaxAttempts, due : 0..MaxTime, created : 0..MaxTime]
      <3>1. 0 \in 0..MaxAttempts /\ 0 \in 0..MaxTime /\ at \in 0..MaxTime
        BY SMT
      <3>2. [status |-> "pending", attempts |-> 0, due |-> 0, created |-> at] \in
                [status : {"none"} \cup Open \cup Settled,
                 attempts : 0..MaxAttempts, due : 0..MaxTime, created : 0..MaxTime]
        BY <3>1 DEF Open
      <3> QED
        BY <1>1, <3>2 DEF Types
    <2> QED
      BY <1>2, <1>3, <2>1 DEF Types
  <1>5. RowInv'
    <2>1. ASSUME NEW d \in Ids, rows'[d] = rows[d]
          PROVE  /\ d[2] \notin written' \/ queued'[d[2]] # NotQueued => rows'[d] = NoRow
                 /\ rows'[d].status \in Open => rows'[d].attempts < MaxAttempts
                 /\ rows'[d].status = "retrying" =>
                       /\ rows'[d].attempts # 0
                       /\ rows'[d].due = failedAt'[d] + Delay[rows'[d].attempts + 1]
      BY <1>2, <2>1, IdFacts DEF RowInv
    <2>2. ASSUME NEW d \in Ids, d[2] = w,
                 rows'[d] = [status |-> "pending", attempts |-> 0, due |-> 0, created |-> at]
          PROVE  d[2] \in written' /\ queued'[d[2]] = NotQueued /\ rows'[d].attempts < MaxAttempts /\ rows'[d].status # "retrying"
      BY <1>2, <2>2, SMT
    <2> QED
      BY <1>1, <2>1, <2>2 DEF RowInv
  <1>6. ListInv'
    <2>1. ASSUME NEW b \in Listed, AsListed(b) PROVE AsListed(b)'
      BY <1>1, <2>1, SMT DEF AsListed, Listed, Open, NoRow
    <2>2. batch \subseteq Listed /\ \A c \in current : c.listed \in Listed
      BY DEF Types
    <2> QED
      BY <1>2, <2>1, <2>2 DEF ListInv
  <1>7. PostInv'
    <2>1. \A d \in Ids : rows'[d].attempts = rows[d].attempts
      BY <1>1, SMT DEF NoRow
    <2> QED
      BY <1>2, <2>1 DEF PostInv, RetryFits
  <1> QED
    BY <1>4, <1>5, <1>6, <1>7

\* Only the queue and the set of writes change.
LEMMA QueueKeeps ==
    ASSUME OutboxInv, NEW w \in Writes, faults' \in 0..MaxFaults,
           \/ w \notin written /\ written' = written \cup {w} /\ queued' = [queued EXCEPT ![w] = clock]
           \/ written' = written /\ queued' = [queued EXCEPT ![w] = NotQueued],
           UNCHANGED <<clock, subs, rows, dispatcher, history>>
    PROVE  OutboxInv'
  <1> USE DEF OutboxInv
  <1>1. UNCHANGED <<clock, subs, rows, batch, current, posts, late, failedAt, lost>>
    BY DEF dispatcher, history
  <1>2. Types'
    BY <1>1 DEF Types
  <1>3. RowInv'
    <2>1. \A d \in Ids : d[2] \notin written' \/ queued'[d[2]] # NotQueued
                         => d[2] \notin written \/ queued[d[2]] # NotQueued
      BY IdFacts DEF Types
    <2> QED
      BY <1>1, <2>1 DEF RowInv
  <1>4. ListInv' /\ PostInv'
    BY <1>1 DEF ListInv, AsListed, PostInv, RetryFits
  <1> QED
    BY <1>2, <1>3, <1>4

LEMMA WriteKeeps ==
    ASSUME OutboxInv, NEW w \in Writes,
           KvWrite(w) \/ DatabaseWrite(w) \/ Enqueue(w) \/ EnqueueFails(w)
    PROVE  OutboxInv'
  <1> USE DEF OutboxInv
  <1>1. CASE KvWrite(w)
    <2>1. clock \in 0..MaxTime /\ queued' = queued
      BY <1>1 DEF KvWrite, Types
    <2> QED
      BY <1>1, <2>1, InsertKeeps DEF KvWrite, Types
  <1>2. CASE Enqueue(w)
    <2>1. queued[w] \in 0..MaxTime /\ w \in written
      BY <1>2 DEF Enqueue, Types
    <2>2. queued' \in [Writes -> {NotQueued} \cup 0..MaxTime]
          /\ \A v \in Writes : queued'[v] # NotQueued => v # w /\ queued[v] # NotQueued
      BY <1>2 DEF Enqueue, Types
    <2>3. written' = written \cup {w}
      BY <1>2, <2>1 DEF Enqueue
    <2> QED
      BY <1>2, <2>1, <2>2, <2>3, InsertKeeps DEF Enqueue
  <1>3. CASE DatabaseWrite(w)
    BY <1>3, QueueKeeps DEF DatabaseWrite, Types
  <1>4. CASE EnqueueFails(w)
    <2>1. faults' \in 0..MaxFaults
      BY <1>4, WebhookAssumption, SMT DEF EnqueueFails, Types
    <2> QED
      BY <1>4, <2>1, QueueKeeps DEF EnqueueFails
  <1> QED
    BY <1>1, <1>2, <1>3, <1>4

LEMMA ListKeeps ==
    ASSUME OutboxInv, List
    PROVE  OutboxInv'
  <1> USE DEF OutboxInv
  <1>1. UNCHANGED <<clock, subs, written, queued, rows, current, faults, posts, late, failedAt, lost>>
        /\ current = {}
    BY DEF List, history
  <1>2. PICK D \in SUBSET Due :
           batch' = {[id |-> d, attempts |-> rows[d].attempts, created |-> rows[d].created,
                      active |-> subs[d[1]] = "active"] : d \in D}
    BY DEF List
  <1>3. \A d \in D : d \in Ids /\ rows[d].status \in Open
    BY DEF Due, Listable, Open
  <1>4. \A b \in batch' : \E d \in D : /\ b.id = d /\ b.attempts = rows[d].attempts
                                       /\ b.created = rows[d].created
    BY <1>2, SMT
  <1>5. batch' \subseteq Listed
    <2> SUFFICES ASSUME NEW d \in D
                 PROVE  [id |-> d, attempts |-> rows[d].attempts, created |-> rows[d].created,
                         active |-> subs[d[1]] = "active"] \in Listed
      BY <1>2
    <2>1. (subs[d[1]] = "active") \in BOOLEAN
      OBVIOUS
    <2>2. d \in Ids /\ rows[d].attempts \in 0..MaxAttempts /\ rows[d].created \in 0..MaxTime
      BY <1>3 DEF Types
    <2> QED
      BY <2>1, <2>2, Zenon DEF Listed
  <1>6. \A b \in batch' : AsListed(b)'
    BY <1>1, <1>3, <1>4 DEF AsListed
  <1>7. \A b, c \in batch' : b.id = c.id => b = c
    BY <1>2, SMT
  <1>8. Types' /\ RowInv' /\ PostInv'
    BY <1>1, <1>5 DEF Types, RowInv, PostInv, RetryFits
  <1>9. ListInv'
    BY <1>1, <1>6, <1>7 DEF ListInv
  <1> QED
    BY <1>8, <1>9

\* A delivery is given up without a post.
LEMMA GiveUpKeeps ==
    ASSUME OutboxInv, GiveUp
    PROVE  OutboxInv'
  <1> USE WebhookAssumption DEF OutboxInv
  <1>1. UNCHANGED <<clock, subs, written, queued, current, faults, posts, late, failedAt, lost>>
        /\ current = {}
    BY DEF GiveUp, history
  <1>2. PICK b \in batch : /\ batch' = batch \ {b}
                           /\ rows' = [rows EXCEPT ![b.id] = Row("dead_letter", b, 0)]
    BY DEF GiveUp
  <1>3. b \in Listed /\ b.id \in Ids /\ AsListed(b) /\ b.attempts < MaxAttempts
    BY DEF Types, Listed, ListInv, AsListed, RowInv
  <1>4. /\ Row("dead_letter", b, 0) \in
              [status : {"none"} \cup Open \cup Settled, attempts : 0..MaxAttempts,
               due : 0..MaxTime, created : 0..MaxTime]
        /\ Row("dead_letter", b, 0).status = "dead_letter"
        /\ Row("dead_letter", b, 0).attempts = b.attempts + 1
    BY <1>3, RowTyped, SMT DEF Settled
  <1>5. /\ rows'[b.id] = Row("dead_letter", b, 0)
        /\ \A d \in Ids : d # b.id => rows'[d] = rows[d]
    BY <1>2, <1>3 DEF Types
  <1>6. Types'
    BY <1>1, <1>2, <1>3, <1>4 DEF Types
  <1>7. RowInv'
    <2>1. b.id[2] \in written /\ queued[b.id[2]] = NotQueued
      BY <1>3, SMT DEF RowInv, AsListed, Open, NoRow
    <2> QED
      BY <1>1, <1>4, <1>5, <2>1 DEF RowInv, Open
  <1>8. ListInv'
    <2>1. \A c \in batch' : c \in batch /\ c.id \in Ids /\ c.id # b.id
      BY <1>2 DEF ListInv, Types, Listed
    <2>2. \A c \in batch' : AsListed(c)'
      BY <1>5, <2>1 DEF ListInv, AsListed
    <2> QED
      BY <1>1, <2>1, <2>2 DEF ListInv
  <1>9. PostInv'
    <2>1. \A d \in Ids : posts[d] \in Nat /\ lost[d] \in Nat /\ rows[d].attempts \in Nat
      BY SMT DEF Types
    <2>2. \A d \in Ids : posts[d] <= rows[d].attempts + lost[d]
      BY <1>1, <2>1, SMT DEF PostInv
    <2>3. rows'[b.id].attempts = rows[b.id].attempts + 1
      BY <1>3, <1>4, <1>5 DEF AsListed
    <2>4. \A d \in Ids : rows'[d].attempts \in Nat /\ rows[d].attempts <= rows'[d].attempts
      BY <1>3, <1>5, <2>1, <2>3, SMT
    <2>5. \A d \in Ids : posts[d] <= rows'[d].attempts + lost[d] + 0
      BY <2>1, <2>2, <2>4, SMT
    <2> QED
      BY <1>1, <2>5 DEF PostInv
  <1> QED
    BY <1>6, <1>7, <1>8, <1>9

\* A post counts before it is recorded.
LEMMA PostKeeps ==
    ASSUME OutboxInv, Post
    PROVE  OutboxInv'
  <1> USE DEF OutboxInv
  <1>1. UNCHANGED <<clock, subs, written, queued, rows, faults, failedAt, lost>> /\ current = {}
    BY DEF Post
  <1>2. PICK b \in batch, success \in BOOLEAN :
           /\ success \/ RetryFits(b, clock)
           /\ current' = {[listed |-> b, success |-> success]}
           /\ late' = IF subs[b.id[1]] = "active" THEN late ELSE [late EXCEPT ![b.id] = @ + 1]
           /\ posts' = [posts EXCEPT ![b.id] = @ + 1]
           /\ batch' = batch \ {b}
    BY DEF Post
  <1>3. b \in Listed /\ b.id \in Ids /\ AsListed(b)
    BY DEF Types, Listed, ListInv
  <1>4. Types'
    <2>1. current' \subseteq [listed : Listed, success : BOOLEAN]
      BY <1>2, <1>3, SMT
    <2>2. posts' \in [Ids -> Nat]
      <3>1. posts \in [Ids -> Nat] /\ posts[b.id] + 1 \in Nat
        BY <1>3, SMT DEF Types
      <3> QED
        BY <1>2, <3>1
    <2>3. late' \in [Ids -> Nat]
      <3>1. late \in [Ids -> Nat] /\ late[b.id] + 1 \in Nat
        BY <1>3, SMT DEF Types
      <3> QED
        BY <1>2, <3>1
    <2> QED
      BY <1>1, <1>2, <2>1, <2>2, <2>3 DEF Types
  <1>5. RowInv'
    BY <1>1 DEF RowInv
  <1>6. \A c \in current' : c.listed = b /\ c.success = success
    BY <1>2, SMT
  <1>7. ListInv'
    <2>1. \A c \in batch' : c \in batch /\ c.id # b.id
      BY <1>2 DEF ListInv
    <2>2. \A c, e \in current' : c = e
      BY <1>2
    <2>3. \A c \in batch : AsListed(c)'
      BY <1>1 DEF ListInv, AsListed
    <2> QED
      BY <1>6, <2>1, <2>2, <2>3 DEF ListInv
  <1>8. PostInv'
    <2>1. \A c \in current' : c.success \/ RetryFits(c.listed, clock)'
      <3>1. RetryFits(b, clock)' <=> RetryFits(b, clock)
        BY <1>1 DEF RetryFits
      <3> QED
        BY <1>2, <1>6, <3>1
    <2>2. \A d \in Ids : posts[d] \in Nat /\ lost[d] \in Nat /\ rows[d].attempts \in Nat
      BY SMT DEF Types
    <2>3. \A d \in Ids : posts[d] <= rows[d].attempts + lost[d]
      BY <1>1, <2>2, SMT DEF PostInv
    <2>4. \A d \in Ids : posts'[d] = IF d = b.id THEN posts[d] + 1 ELSE posts[d]
      BY <1>2 DEF Types
    <2>5. \E c \in current' : c.listed.id = b.id
      BY <1>2
    <2>6. \A d \in Ids : posts'[d] <= rows[d].attempts + lost[d]
                             + (IF \E c \in current' : c.listed.id = d THEN 1 ELSE 0)
      BY <2>2, <2>3, <2>4, <2>5, SMT
    <2> QED
      BY <1>1, <2>1, <2>6 DEF PostInv
  <1> QED
    BY <1>4, <1>5, <1>7, <1>8

\* What was posted is recorded in the row as it was listed.
LEMMA RecordKeeps ==
    ASSUME OutboxInv, Record
    PROVE  OutboxInv'
  <1> USE WebhookAssumption DEF OutboxInv
  <1>1. PICK c \in current :
           /\ rows' = [rows EXCEPT ![c.listed.id] =
                          IF c.success THEN Row("delivered", c.listed, 0) ELSE RetryRow(c.listed)]
           /\ failedAt' = [failedAt EXCEPT ![c.listed.id] =
                              IF rows'[c.listed.id].status = "retrying" THEN clock ELSE 0]
           /\ current' = {}
           /\ UNCHANGED <<clock, subs, written, queued, batch, faults, posts, late, lost>>
    BY DEF Record
  <1> DEFINE b == c.listed
             row == IF c.success THEN Row("delivered", b, 0) ELSE RetryRow(b)
  <1>2. c.success \in BOOLEAN /\ b \in Listed /\ b.id \in Ids /\ AsListed(b) /\ b.attempts < MaxAttempts
        /\ b.attempts \in Nat
    BY SMT DEF Types, Listed, ListInv, AsListed, RowInv
  <1>3. c.success \/ RetryFits(b, clock)
    BY DEF PostInv
  <1>4. /\ row \in [status : {"none"} \cup Open \cup Settled, attempts : 0..MaxAttempts,
                    due : 0..MaxTime, created : 0..MaxTime]
        /\ row.attempts = b.attempts + 1
        /\ \/ row.status \in {"delivered", "dead_letter"}
           \/ /\ row.status = "retrying"
              /\ row.attempts < MaxAttempts
              /\ row.due = clock + Delay[row.attempts + 1]
    <2>1. CASE c.success
      BY <1>2, <2>1, RowTyped, SMT DEF Settled
    <2>2. CASE ~c.success
      BY <1>2, <1>3, <2>2, RetryRowTyped
    <2> QED
      BY <2>1, <2>2
  <1> HIDE DEF row
  <1>5. rows' = [rows EXCEPT ![b.id] = row]
    BY <1>1 DEF row
  <1>6. /\ rows'[b.id] = row
        /\ \A d \in Ids : d # b.id => rows'[d] = rows[d]
    BY <1>2, <1>5 DEF Types
  <1>7. /\ row.status = "retrying" => failedAt'[b.id] = clock
        /\ \A d \in Ids : d # b.id => failedAt'[d] = failedAt[d]
        /\ failedAt' \in [Ids -> 0..MaxTime]
    <2>1. 0 \in 0..MaxTime
      BY SMT
    <2> QED
      BY <1>1, <1>2, <1>6, <2>1 DEF Types
  <1>8. Types'
    <2>1. rows' \in [Ids -> [status : {"none"} \cup Open \cup Settled, attempts : 0..MaxAttempts,
                             due : 0..MaxTime, created : 0..MaxTime]]
      BY <1>4, <1>5 DEF Types
    <2> QED
      BY <1>1, <1>7, <2>1 DEF Types
  <1>9. RowInv'
    <2>1. b.id[2] \in written /\ queued[b.id[2]] = NotQueued
      BY <1>2, SMT DEF RowInv, AsListed, Open, NoRow
    <2>2. \A d \in Ids : d # b.id =>
             /\ d[2] \notin written' \/ queued'[d[2]] # NotQueued => rows'[d] = NoRow
             /\ rows'[d].status \in Open => rows'[d].attempts < MaxAttempts
             /\ rows'[d].status = "retrying" =>
                   rows'[d].attempts # 0 /\ rows'[d].due = failedAt'[d] + Delay[rows'[d].attempts + 1]
      BY <1>1, <1>6, <1>7 DEF RowInv
    <2>3. /\ row.status \in Open => row.attempts < MaxAttempts
          /\ row.status = "retrying" =>
                row.attempts # 0 /\ row.due = failedAt'[b.id] + Delay[row.attempts + 1]
      <3>1. \A n \in Nat : n + 1 # 0
        BY SMT
      <3>2. row.attempts # 0
        BY <1>2, <1>4, <3>1
      <3>3. row.status \in Open => row.status = "retrying"
        BY <1>4 DEF Open
      <3> QED
        BY <1>4, <1>7, <3>2, <3>3
    <2> QED
      BY <1>1, <1>6, <2>1, <2>2, <2>3 DEF RowInv
  <1>10. ListInv'
    <2>1. \A e \in batch : e.id \in Ids /\ e.id # b.id
      BY DEF ListInv, Types, Listed
    <2>2. \A e \in batch : AsListed(e)'
      BY <1>6, <2>1 DEF ListInv, AsListed
    <2> QED
      BY <1>1, <2>2 DEF ListInv
  <1>11. PostInv'
    <2>1. \A d \in Ids : posts[d] \in Nat /\ lost[d] \in Nat /\ rows[d].attempts \in Nat
      BY SMT DEF Types
    <2>2. \A d \in Ids : d # b.id => posts[d] <= rows[d].attempts + lost[d]
      <3>1. \A e \in current : e = c
        BY DEF ListInv
      <3> QED
        BY <2>1, <3>1, SMT DEF PostInv
    <2>3. posts[b.id] <= rows[b.id].attempts + lost[b.id] + 1
      BY <1>2, <2>1 DEF PostInv
    <2>4. rows'[b.id].attempts = rows[b.id].attempts + 1
      BY <1>2, <1>4, <1>6 DEF AsListed
    <2>5. \A d \in Ids : posts[d] <= rows'[d].attempts + lost[d] + 0
      <3>1. posts[b.id] <= rows'[b.id].attempts + lost[b.id] + 0
        BY <1>2, <2>1, <2>3, <2>4, SMT
      <3>2. \A d \in Ids : d # b.id => posts[d] <= rows'[d].attempts + lost[d] + 0
        BY <1>6, <2>1, <2>2, SMT
      <3> QED
        BY <3>1, <3>2
    <2> QED
      BY <1>1, <2>5 DEF PostInv
  <1> QED
    BY <1>8, <1>9, <1>10, <1>11

\* A post whose record is lost is counted as lost; its row stays as it was.
LEMMA ForgetKeeps ==
    ASSUME OutboxInv, Forget, batch' \subseteq batch, faults' \in 0..MaxFaults,
           queued' = queued \/ queued' = [w \in Writes |-> NotQueued],
           UNCHANGED <<clock, subs, written, rows, posts, late, failedAt>>
    PROVE  OutboxInv'
  <1> USE DEF OutboxInv
  <1>1. current' = {}
    BY DEF Forget
  <1>2. \A d \in Ids : posts[d] \in Nat /\ lost[d] \in Nat /\ rows[d].attempts \in Nat
    BY SMT DEF Types
  <1>3. \A d \in Ids : lost'[d] = lost[d] + (IF \E c \in current : c.listed.id = d THEN 1 ELSE 0)
    BY <1>2, SMT DEF Forget
  <1>4. lost' \in [Ids -> Nat]
    BY <1>2, SMT DEF Forget
  <1>5. Types'
    BY <1>1, <1>4 DEF Types
  <1>6. RowInv'
    <2>1. \A d \in Ids : queued'[d[2]] # NotQueued => queued[d[2]] # NotQueued
      BY IdFacts
    <2> QED
      BY <2>1 DEF RowInv
  <1>7. ListInv'
    BY <1>1 DEF ListInv, AsListed
  <1>8. PostInv'
    <2>1. \A d \in Ids : posts[d] <= rows[d].attempts + lost'[d] + 0
      BY <1>2, <1>3, SMT DEF PostInv
    <2> QED
      BY <1>1, <2>1 DEF PostInv
  <1> QED
    BY <1>5, <1>6, <1>7, <1>8

LEMMA TickKeeps ==
    ASSUME OutboxInv, Tick
    PROVE  OutboxInv'
  <1> USE DEF OutboxInv
  <1>1. UNCHANGED <<subs, written, queued, rows, batch, current, faults, posts, late, failedAt, lost>>
        /\ clock' = clock + 1
    BY DEF Tick, dispatcher, history
  <1>2. clock' \in 0..MaxTime
    BY WebhookAssumption, SMT DEF Tick, Types
  <1>3. Types'
    BY <1>1, <1>2 DEF Types
  <1>4. RowInv' /\ ListInv'
    BY <1>1 DEF RowInv, ListInv, AsListed
  <1>5. PostInv'
    <2>1. \A c \in current : c.success \/ RetryFits(c.listed, clock)'
      BY <1>1 DEF Tick, PostInv, RetryFits
    <2> QED
      BY <1>1, <2>1 DEF PostInv
  <1> QED
    BY <1>3, <1>4, <1>5

LEMMA StayKeeps ==
    ASSUME OutboxInv, UNCHANGED vars
    PROVE  OutboxInv'
  BY DEF OutboxInv, Types, RowInv, ListInv, PostInv, AsListed, RetryFits,
         vars, dispatcher, history

LEMMA InvKept ==
    ASSUME OutboxInv, [Next]_vars
    PROVE  OutboxInv'
  <1>1. CASE UpdateFails \/ Crash
    <2>1. faults' \in 0..MaxFaults
      BY <1>1, WebhookAssumption, SMT DEF UpdateFails, Crash, OutboxInv, Types
    <2>2. batch' \subseteq batch /\ Forget
          /\ UNCHANGED <<clock, subs, written, rows, posts, late, failedAt>>
          /\ (queued' = queued \/ queued' = [w \in Writes |-> NotQueued])
      BY <1>1 DEF UpdateFails, Crash
    <2> QED
      BY <2>1, <2>2, ForgetKeeps
  <1>2. CASE Idle \/ UNCHANGED vars
    BY <1>2, StayKeeps DEF Idle
  <1> QED
    BY <1>1, <1>2, SubscriptionsChange, WriteKeeps, ListKeeps, GiveUpKeeps, PostKeeps, RecordKeeps,
       TickKeeps DEF Next, Dispatch

LEMMA Invariance == Spec => []OutboxInv
  <1>1. Init => OutboxInv
    BY InvInitially
  <1>2. OutboxInv /\ [Next]_vars => OutboxInv'
    BY InvKept
  <1> QED
    BY <1>1, <1>2, PTL DEF Spec

-----------------------------------------------------------------------------
(* Posts after the end of a subscription.                                  *)

\* Rows belong to subscriptions that were active; after one late post the
\* list holds the delivery only as one to refuse.
LateInv ==
    \A d \in Ids :
        /\ rows[d].status # "none" => subs[d[1]] \in {"active", "inactive"}
        /\ late[d] <= 1
        /\ late[d] # 0 => subs[d[1]] = "inactive" /\ \A b \in batch : b.id = d => ~b.active

LEMMA LateInitially ==
    ASSUME Init
    PROVE  LateInv
  BY SMT DEF Init, LateInv, NoRow

\* No row appears, no post is made, no subscription comes back.
LEMMA LateStays ==
    ASSUME OutboxInv, LateInv, late' = late, batch' \subseteq batch,
           \A d \in Ids : rows'[d].status # "none" => rows[d].status # "none",
           \A s \in Subscriptions : /\ subs[s] = "inactive" => subs'[s] = "inactive"
                                    /\ subs[s] = "active" => subs'[s] \in {"active", "inactive"}
    PROVE  LateInv'
  BY IdFacts DEF LateInv

LEMMA LateKept ==
    ASSUME OutboxInv, LateInv, [Next]_vars
    PROVE  LateInv'
  <1> USE DEF OutboxInv
  <1>1. ASSUME NEW s \in Subscriptions, Count(s) \/ Insert(s) \/ Deactivate(s) PROVE LateInv'
    <2>1. \A t \in Subscriptions : /\ subs[t] = "inactive" => subs'[t] = "inactive"
                                   /\ subs[t] = "active" => subs'[t] \in {"active", "inactive"}
      BY <1>1 DEF Count, Insert, Deactivate, Types
    <2>2. late' = late /\ batch' = batch /\ rows' = rows
      BY <1>1 DEF Count, Insert, Deactivate, dispatcher, history
    <2> QED
      BY <2>1, <2>2, LateStays
  <1>2. ASSUME NEW w \in Writes, KvWrite(w) \/ Enqueue(w) PROVE LateInv'
    <2>1. UNCHANGED <<subs, batch, late>>
      BY <1>2 DEF KvWrite, Enqueue, dispatcher, history
    <2>2. \A d \in Ids : rows'[d] = rows[d] \/ subs[d[1]] = "active"
      BY <1>2 DEF KvWrite, Enqueue, WithDeliveries, Active
    <2> QED
      BY <2>1, <2>2 DEF LateInv
  <1>3. CASE List
    <2>1. UNCHANGED <<subs, rows, late>>
      BY <1>3 DEF List, history
    <2>2. \A b \in batch' : b.active = (subs[b.id[1]] = "active")
      BY <1>3, SMT DEF List
    <2> QED
      BY <2>1, <2>2 DEF LateInv
  <1>4. CASE GiveUp \/ Record
    <2>1. UNCHANGED <<subs, late>> /\ batch' \subseteq batch
      BY <1>4 DEF GiveUp, Record, history
    <2>2. \A d \in Ids : rows'[d].status # "none" => rows[d].status # "none"
      <3>1. CASE GiveUp
        BY <3>1 DEF GiveUp, ListInv, AsListed, Open, Types
      <3>2. CASE Record
        BY <3>2 DEF Record, ListInv, AsListed, Open, Types
      <3> QED
        BY <1>4, <3>1, <3>2
    <2> QED
      BY <2>1, <2>2, LateStays
  <1>5. CASE Post
    <2>1. PICK b \in batch : /\ ~Refused(b) /\ batch' = batch \ {b}
                            /\ late' = IF subs[b.id[1]] = "active" THEN late
                                       ELSE [late EXCEPT ![b.id] = @ + 1]
      BY <1>5 DEF Post
    <2>2. UNCHANGED <<subs, rows>>
      BY <1>5 DEF Post
    <2>3. CASE subs[b.id[1]] = "active"
      BY <2>1, <2>2, <2>3, LateStays
    <2>4. CASE subs[b.id[1]] # "active"
      <3>1. b.id \in Ids /\ b.active /\ rows[b.id].status # "none"
        BY <2>1 DEF Refused, Types, Listed, ListInv, AsListed, Open
      <3>2. late[b.id] = 0 /\ subs[b.id[1]] = "inactive"
        BY <2>4, <3>1 DEF LateInv
      <3>3. \A c \in batch' : c.id # b.id
        BY <2>1 DEF ListInv
      <3>4. late'[b.id] = 1 /\ \A d \in Ids : d # b.id => late'[d] = late[d]
        BY <2>1, <2>4, <3>1, <3>2, SMT DEF Types
      <3>5. 1 <= 1
        BY SMT
      <3> QED
        BY <2>1, <2>2, <3>2, <3>3, <3>4, <3>5 DEF LateInv
    <2> QED
      BY <2>3, <2>4
  <1>6. CASE UpdateFails \/ Crash
    <2>1. UNCHANGED <<subs, late, rows>> /\ batch' \subseteq batch
      BY <1>6 DEF UpdateFails, Crash
    <2> QED
      BY <2>1, LateStays
  <1>7. CASE Idle \/ Tick \/ UNCHANGED vars \/ \E w \in Writes : DatabaseWrite(w) \/ EnqueueFails(w)
    <2>1. UNCHANGED <<subs, late, rows, batch>>
      BY <1>7 DEF Idle, Tick, DatabaseWrite, EnqueueFails, vars, dispatcher, history
    <2> QED
      BY <2>1, LateStays
  <1> QED
    BY <1>1, <1>2, <1>3, <1>4, <1>5, <1>6, <1>7 DEF Next, Dispatch

LEMMA LateAlways == Spec => []LateInv
  <1>1. Init => LateInv
    BY LateInitially
  <1>2. OutboxInv /\ LateInv /\ [Next]_vars => LateInv'
    BY LateKept
  <1> QED
    BY <1>1, <1>2, Invariance, PTL DEF Spec

-----------------------------------------------------------------------------
(***************************************************************************)
(* The outbox tells what was posted: at most MaxAttempts posts of a        *)
(* delivery are recorded and every other post is one whose record was      *)
(* lost; and an ended subscription gets at most one more post of a         *)
(* delivery, whatever fails (dispatch_delivery).                           *)
(***************************************************************************)
THEOREM OutboxIsSound == Spec => []OutboxSound
  <1>1. ASSUME OutboxInv, LateInv PROVE OutboxSound
    <2> USE <1>1 DEF OutboxInv
    <2>1. \A S : (\A b, c \in S : b = c) => \A e \in S : S = {e}
      OBVIOUS
    <2>2. Cardinality({}) = 0 /\ \A e : Cardinality({e}) = 1
      BY FS_EmptySet, FS_Singleton, Zenon
    <2>3. Cardinality(current) <= 1
      <3>1. CASE current = {}
        BY <2>2, <3>1, SMT
      <3>2. ASSUME NEW e \in current PROVE Cardinality(current) <= 1
        <4>1. current = {e}
          BY <2>1, <3>2 DEF ListInv
        <4>2. Cardinality({e}) = 1
          BY <2>2
        <4>3. Cardinality(current) = 1
          BY <4>1, <4>2
        <4> QED
          BY <4>3, SMT
      <3> QED
        BY <3>1, <3>2
    <2>4. TypeOK
      BY <2>3 DEF Types, TypeOK, Listed, Open
    <2>5. PostsAccountedFor
      <3> SUFFICES ASSUME NEW d \in Ids
                   PROVE  /\ posts[d] <= rows[d].attempts + lost[d]
                                         + Cardinality({c \in current : c.listed.id = d})
                          /\ posts[d] <= MaxAttempts + lost[d]
        BY DEF PostsAccountedFor
      <3>1. posts[d] \in Nat /\ lost[d] \in Nat /\ rows[d].attempts \in Nat
            /\ rows[d].attempts <= MaxAttempts /\ MaxAttempts \in Nat
        BY WebhookAssumption, SMT DEF Types
      <3>2. CASE \E c \in current : c.listed.id = d
        <4>1. PICK c \in current : c.listed.id = d
          BY <3>2
        <4>2. {e \in current : e.listed.id = d} = {c}
          BY <4>1 DEF ListInv
        <4>3. rows[d].attempts < MaxAttempts
          BY <4>1 DEF ListInv, AsListed, RowInv
        <4>4. posts[d] <= rows[d].attempts + lost[d] + 1
          BY <3>2 DEF PostInv
        <4>5. Cardinality({e \in current : e.listed.id = d}) = 1
          BY <2>2, <4>2
        <4> QED
          BY <3>1, <4>3, <4>4, <4>5, SMT
      <3>3. CASE ~\E c \in current : c.listed.id = d
        <4>1. {e \in current : e.listed.id = d} = {}
          BY <3>3
        <4>2. posts[d] <= rows[d].attempts + lost[d] + 0
          BY <3>3 DEF PostInv
        <4>3. Cardinality({e \in current : e.listed.id = d}) = 0
          BY <2>2, <4>1
        <4> QED
          BY <3>1, <4>2, <4>3, SMT
      <3> QED
        BY <3>2, <3>3
    <2> QED
      BY <2>4, <2>5 DEF OutboxSound, LateInv, EndedSubscriptionsRest
  <1> QED
    BY <1>1, Invariance, LateAlways, PTL

(***************************************************************************)
(* A delivery is listed again only after the delay of its last recorded    *)
(* failure, up to the second that comparing times as text blurs            *)
(* (list_due_webhook_deliveries).                                          *)
(***************************************************************************)
THEOREM BackoffIsHonoured == Spec => BackoffHonoured
  <1> DEFINE Waited(d) ==
        (\E b \in batch' \ batch : b.id = d) /\ rows[d].status = "retrying"
        => clock + TicksPerSecond > failedAt[d] + Delay[rows[d].attempts + 1]
  <1>1. ASSUME OutboxInv, [Next]_vars, NEW d \in Ids PROVE Waited(d)
    <2> SUFFICES ASSUME NEW b \in batch', b \notin batch, b.id = d, rows[d].status = "retrying"
                 PROVE  clock + TicksPerSecond > failedAt[d] + Delay[rows[d].attempts + 1]
      OBVIOUS
    <2>1. batch' \subseteq batch \/ List
      BY <1>1 DEF Next, Count, Insert, Deactivate, KvWrite, DatabaseWrite, Enqueue,
             EnqueueFails, Dispatch, GiveUp, Idle, Post, Record, UpdateFails,
             Crash, Tick, vars, dispatcher
    <2>2. d \in Due
      <3>1. PICK D \in SUBSET Due :
               batch' = {[id |-> i, attempts |-> rows[i].attempts, created |-> rows[i].created,
                          active |-> subs[i[1]] = "active"] : i \in D}
        BY <2>1 DEF List
      <3>2. PICK i \in D : b = [id |-> i, attempts |-> rows[i].attempts, created |-> rows[i].created,
                                active |-> subs[i[1]] = "active"]
        BY <3>1
      <3>3. b.id = i
        BY <3>2
      <3> QED
        BY <3>2, <3>3
    <2> USE <1>1 DEF OutboxInv
    <2>3. rows[d].due = 0 \/ TextLte(rows[d].due, clock)
      BY <2>2 DEF Due, Listable
    <2>4. rows[d].due = failedAt[d] + Delay[rows[d].attempts + 1]
      BY DEF RowInv
    <2>5. rows[d].due \in Nat /\ clock \in Nat /\ TicksPerSecond \in Nat /\ TicksPerSecond > 0
      BY WebhookAssumption, SMT DEF Types
    <2>6. rows[d].due < clock + TicksPerSecond
      BY <2>3, <2>5, TextBlursOneSecond, SMT
    <2> QED
      BY <2>4, <2>5, <2>6
  <1>2. OutboxInv /\ [Next]_vars => [\A d \in Ids : Waited(d)]_vars
    BY <1>1
  <1> QED
    BY <1>2, Invariance, PTL DEF Spec, BackoffHonoured

-----------------------------------------------------------------------------
(* The quota cache: the inductive invariant.                               *)

Refreshing(w) == task[w] \in {"fetch", "record", "release"}

FlagInv ==
    /\ \A w \in Writers : Refreshing(w) => inflight
    /\ \A w, v \in Writers : Refreshing(w) /\ Refreshing(v) => w = v

FailureInv ==
    /\ remote # None /\ ~remote.known => failures > 0
    /\ \A w \in Writers : pc[w] = "record" /\ fetched[<<w, "sync">>] = None => failures > 0
    /\ \A w \in Writers : task[w] = "record" /\ fetched[<<w, "refresh">>] = None => failures > 0

FetchTypes ==
    /\ failures \in Nat
    /\ DOMAIN got = Writers
    /\ DOMAIN fetched = Tasks
    /\ \A t \in Tasks : fetched[t] # None => fetched[t] \in 0..MaxPlans

CacheInv == CacheTypeOK /\ FetchTypes /\ FlagInv /\ FailureInv /\ DefaultOnlyAfterFailure

\* An entry of record_fetch is an entry, and knows the limit it was given.
LEMMA LearnedKnows ==
    ASSUME NEW limit \in 0..MaxPlans
    PROVE  Learned(limit) \in Entry /\ Learned(limit).known
  BY SMT DEF Learned, Entry, FreshTtl, FailureBackoff

\* record_fetch leaves an entry, which knows a limit if one was fetched or known.
LEMMA FetchRecorded ==
    ASSUME CacheInv, NEW value, value # None => value \in 0..MaxPlans, RecordFetch(value)
    PROVE  /\ remote' \in Entry
           /\ value # None \/ (remote # None /\ remote.known) => remote'.known
  <1>1. CASE value # None
    BY <1>1, LearnedKnows DEF RecordFetch
  <1>2. CASE value = None /\ remote # None /\ remote.known
    <2>1. remote' = [limit |-> remote.limit, known |-> TRUE, age |-> 0, stale |-> TRUE,
                     failure |-> 0, failed |-> TRUE]
      BY <1>2 DEF RecordFetch, Learned
    <2>2. remote.limit \in 0..MaxPlans
      BY <1>2 DEF CacheInv, CacheTypeOK, Entry
    <2> QED
      BY <2>1, <2>2, SMT DEF Entry, FreshTtl, FailureBackoff
  <1>3. CASE value = None /\ ~(remote # None /\ remote.known)
    <2>1. remote' = [limit |-> 0, known |-> FALSE, age |-> 0, stale |-> FALSE,
                     failure |-> 0, failed |-> FALSE]
      BY <1>3 DEF RecordFetch, Learned
    <2>2. 0 \in 0..MaxPlans
      BY QuotaAssumption, SMT
    <2>3. remote' \in Entry
      BY <2>1, <2>2, SMT DEF Entry, FreshTtl, FailureBackoff
    <2> QED
      BY <1>3, <2>3
  <1> QED
    BY <1>1, <1>2, <1>3

\* Marking an entry stale, or a tick, leaves it an entry and leaves what it knows.
LEMMA EntryAges ==
    ASSUME CacheInv, MarkStale \/ Age, remote # None
    PROVE  remote' \in Entry /\ remote'.known = remote.known
  <1>1. remote \in Entry
    BY DEF CacheInv, CacheTypeOK
  <1>2. CASE MarkStale
    <2>1. remote' = [remote EXCEPT !.stale = TRUE]
      BY <1>2 DEF MarkStale
    <2> QED
      BY <1>1, <2>1 DEF Entry
  <1>3. CASE Age
    <2>1. PICK a, f : remote' = [remote EXCEPT !.age = a, !.failure = f]
                      /\ a = Older(remote.age, FreshTtl)
                      /\ f = Older(remote.failure, FailureBackoff)
      BY <1>3 DEF Age
    <2>2. remote.age \in 0..2 /\ remote.failure \in 0..1
      BY <1>1 DEF Entry, FreshTtl, FailureBackoff
    <2>3. a \in 0..FreshTtl /\ f \in 0..FailureBackoff
      BY <2>1, <2>2, SMT DEF Older, FreshTtl, FailureBackoff
    <2> QED
      BY <1>1, <2>1, <2>3 DEF Entry
  <1> QED
    BY <1>2, <1>3

\* A fetch brings a plan or is a failure.
LEMMA FetchBrings ==
    ASSUME CacheInv, NEW t \in Tasks, FetchRemote(t)
    PROVE  /\ failures' \in Nat /\ failures' >= failures
           /\ DOMAIN fetched' = Tasks
           /\ \A u \in Tasks : u # t => fetched'[u] = fetched[u]
           /\ fetched'[t] # None => fetched'[t] \in 0..MaxPlans
           /\ fetched'[t] = None => failures' > 0
  <1>1. /\ plan \in 0..MaxPlans /\ plan # None
        /\ failures \in Nat /\ DOMAIN fetched = Tasks
        /\ \A u \in Tasks : fetched[u] # None => fetched[u] \in 0..MaxPlans
    BY QuotaAssumption DEF CacheInv, CacheTypeOK, FetchTypes
  <1>2. CASE fetched' = [fetched EXCEPT ![t] = plan] /\ UNCHANGED failures
    BY <1>1, <1>2, SMT
  <1>3. CASE failures' = failures + 1 /\ fetched' = [fetched EXCEPT ![t] = None]
    BY <1>1, <1>3, SMT
  <1> QED
    BY <1>2, <1>3 DEF FetchRemote

LEMMA CacheInitially == CacheInit => CacheInv
  <1> SUFFICES ASSUME CacheInit PROVE CacheInv
    OBVIOUS
  <1>1. CacheTypeOK
    <2>1. 0 \in 0..MaxPlans
      BY QuotaAssumption, SMT
    <2>2. overridden \in BOOLEAN /\ inflight \in BOOLEAN
      BY Zenon DEF CacheInit
    <2> QED
      BY <2>1, <2>2 DEF CacheInit, CacheTypeOK
  <1>2. FetchTypes
    BY DEF CacheInit, FetchTypes
  <1>3. FlagInv /\ FailureInv
    BY DEF CacheInit, FlagInv, FailureInv, Refreshing
  <1>4. DefaultOnlyAfterFailure
    BY QuotaAssumption DEF CacheInit, DefaultOnlyAfterFailure
  <1> QED
    BY <1>1, <1>2, <1>3, <1>4 DEF CacheInv

\* The flag is with the refresh that claimed it.
LEMMA FlagKept ==
    ASSUME CacheInv, [CacheNext]_cacheVars
    PROVE  FlagInv'
  <1> USE DEF Refreshing
  <1>0. FlagInv /\ task \in [Writers -> {"none", "spawned", "fetch", "record", "release"}]
    BY DEF CacheInv, CacheTypeOK
  <1>1. ASSUME NEW w \in Writers, Claim(w) PROVE FlagInv'
    BY <1>0, <1>1 DEF Claim, FlagInv
  <1>2. ASSUME NEW w \in Writers, RefreshFetch(w) PROVE FlagInv'
    BY <1>0, <1>2 DEF RefreshFetch, FlagInv
  <1>3. ASSUME NEW w \in Writers, RefreshRecord(w) PROVE FlagInv'
    BY <1>0, <1>3 DEF RefreshRecord, FlagInv
  <1>4. ASSUME NEW w \in Writers, Release(w) PROVE FlagInv'
    BY <1>0, <1>4 DEF Release, FlagInv
  <1>5. ASSUME NEW w \in Writers, CheckRemote(w) PROVE FlagInv'
    <2>1. inflight' = inflight /\ (task' = task \/ task' = [task EXCEPT ![w] = "spawned"])
      BY <1>5 DEF CheckRemote
    <2> QED
      BY <1>0, <2>1 DEF FlagInv
  <1>6. CASE UNCHANGED <<inflight, task>>
    BY <1>0, <1>6 DEF FlagInv
  <1>7. ASSUME NEW w \in Writers, CheckOverride(w) \/ SyncFetch(w) \/ SyncRecord(w)
        PROVE  UNCHANGED <<inflight, task>>
    BY <1>7 DEF CheckOverride, SyncFetch, SyncRecord
  <1>8. ASSUME SetLimit \/ ChangePlan \/ RemoveOverride \/ MarkStale \/ Age \/ UNCHANGED cacheVars
        PROVE  UNCHANGED <<inflight, task>>
    BY <1>8 DEF SetLimit, ChangePlan, RemoveOverride, MarkStale, Age, cacheVars
  <1> QED
    BY <1>1, <1>2, <1>3, <1>4, <1>5, <1>6, <1>7, <1>8 DEF CacheNext, GetLimit, Refresh

\* What is remembered stays an entry; only a failure leaves one that knows no limit.
LEMMA EntryKept ==
    ASSUME CacheInv, [CacheNext]_cacheVars
    PROVE  /\ remote' # None => remote' \in Entry
           /\ remote' # None /\ ~remote'.known => failures' > 0
           /\ remote # None /\ remote.known => remote' # None /\ remote'.known
  <1>0. /\ remote # None => remote \in Entry
        /\ remote # None /\ ~remote.known => failures > 0
        /\ failures \in Nat
        /\ None \notin Entry
    BY QuotaAssumption DEF CacheInv, CacheTypeOK, FetchTypes, FailureInv
  <1> DEFINE Kept == /\ remote' # None => remote' \in Entry
                     /\ remote' # None /\ ~remote'.known => failures' > 0
                     /\ remote # None /\ remote.known => remote' # None /\ remote'.known
  <1>1. ASSUME NEW value, RecordFetch(value), UNCHANGED failures,
               value # None => value \in 0..MaxPlans, value = None => failures > 0
        PROVE  Kept
    <2>1. remote' \in Entry /\ (value # None \/ (remote # None /\ remote.known) => remote'.known)
      BY <1>1, FetchRecorded
    <2>2. remote' # None
      BY <1>0, <2>1
    <2>3. ~remote'.known => failures' > 0
      BY <1>1, <2>1
    <2> QED
      BY <2>1, <2>2, <2>3
  <1>2. ASSUME NEW w \in Writers, SyncRecord(w) PROVE Kept
    <2>1. <<w, "sync">> \in Tasks
      BY DEF Tasks
    <2> DEFINE value == fetched[<<w, "sync">>]
    <2>2. RecordFetch(value) /\ UNCHANGED failures /\ pc[w] = "record"
      BY <1>2 DEF SyncRecord
    <2>3. (value # None => value \in 0..MaxPlans) /\ (value = None => failures > 0)
      BY <2>1, <2>2 DEF CacheInv, FetchTypes, FailureInv
    <2> HIDE DEF value
    <2> QED
      BY <1>1, <2>2, <2>3
  <1>3. ASSUME NEW w \in Writers, RefreshRecord(w) PROVE Kept
    <2>1. <<w, "refresh">> \in Tasks
      BY DEF Tasks
    <2> DEFINE value == fetched[<<w, "refresh">>]
    <2>2. RecordFetch(value) /\ UNCHANGED failures /\ task[w] = "record"
      BY <1>3 DEF RefreshRecord
    <2>3. (value # None => value \in 0..MaxPlans) /\ (value = None => failures > 0)
      BY <2>1, <2>2 DEF CacheInv, FetchTypes, FailureInv
    <2> HIDE DEF value
    <2> QED
      BY <1>1, <2>2, <2>3
  <1>4. CASE MarkStale \/ Age
    <2>1. UNCHANGED failures /\ (remote = None => remote' = None)
      BY <1>4 DEF MarkStale, Age
    <2>2. remote # None => remote' \in Entry /\ remote'.known = remote.known
      BY <1>4, EntryAges
    <2> QED
      BY <1>0, <2>1, <2>2
  <1>5. ASSUME UNCHANGED remote, failures' \in Nat, failures' >= failures PROVE Kept
    BY <1>0, <1>5, SMT
  <1>6. ASSUME NEW w \in Writers, SyncFetch(w) PROVE Kept
    <2>1. UNCHANGED remote /\ FetchRemote(<<w, "sync">>) /\ <<w, "sync">> \in Tasks
      BY <1>6 DEF SyncFetch, Tasks
    <2> QED
      BY <1>5, <2>1, FetchBrings
  <1>7. ASSUME NEW w \in Writers, RefreshFetch(w) PROVE Kept
    <2>1. UNCHANGED remote /\ FetchRemote(<<w, "refresh">>) /\ <<w, "refresh">> \in Tasks
      BY <1>7 DEF RefreshFetch, Tasks
    <2> QED
      BY <1>5, <2>1, FetchBrings
  <1>8. CASE UNCHANGED <<remote, failures>>
    BY <1>0, <1>5, <1>8
  <1>9. ASSUME NEW w \in Writers, CheckOverride(w) \/ CheckRemote(w) \/ Claim(w) \/ Release(w)
        PROVE  UNCHANGED <<remote, failures>>
    BY <1>9 DEF CheckOverride, CheckRemote, Claim, Release
  <1>10. ASSUME SetLimit \/ ChangePlan \/ RemoveOverride \/ UNCHANGED cacheVars
         PROVE  UNCHANGED <<remote, failures>>
    BY <1>10 DEF SetLimit, ChangePlan, RemoveOverride, cacheVars
  <1>11. ASSUME NEW w \in Writers, GetLimit(w) \/ Refresh(w) PROVE Kept
    BY <1>2, <1>3, <1>6, <1>7, <1>8, <1>9, <1>11 DEF GetLimit, Refresh
  <1>12. CASE SetLimit \/ ChangePlan \/ RemoveOverride \/ UNCHANGED cacheVars
    BY <1>8, <1>10, <1>12
  <1> QED
    BY <1>4, <1>11, <1>12 DEF CacheNext

\* The quota service, the override and the flag stay what they are.
LEMMA ServiceTypes ==
    ASSUME CacheInv, [CacheNext]_cacheVars
    PROVE  /\ configured' = configured
           /\ plan' \in 0..MaxPlans
           /\ notify' \in {"none", "due", "overrides"}
           /\ overridden' \in BOOLEAN
           /\ inflight' \in BOOLEAN
  <1>0. /\ plan \in 0..MaxPlans /\ MaxPlans \in Nat
        /\ notify \in {"none", "due", "overrides"}
        /\ overridden \in BOOLEAN /\ inflight \in BOOLEAN
    BY QuotaAssumption DEF CacheInv, CacheTypeOK
  <1>1. ASSUME NEW w \in Writers, GetLimit(w) PROVE UNCHANGED <<configured, plan, notify, overridden, inflight>>
    BY <1>1 DEF GetLimit, CheckOverride, CheckRemote, SyncFetch, SyncRecord, service
  <1>2. ASSUME NEW w \in Writers, Refresh(w)
        PROVE  UNCHANGED <<configured, plan, notify, overridden>> /\ inflight' \in {TRUE, FALSE, inflight}
    BY <1>2 DEF Refresh, Claim, RefreshFetch, RefreshRecord, Release, service
  <1>3. CASE ChangePlan
    <2>1. /\ plan' = plan + 1 /\ plan < MaxPlans /\ notify' = "due"
          /\ UNCHANGED <<configured, overridden, inflight>>
      BY <1>3 DEF ChangePlan
    <2>2. plan' \in 0..MaxPlans
      BY <1>0, <2>1, SMT
    <2> QED
      BY <1>0, <2>1, <2>2
  <1>4. ASSUME SetLimit \/ RemoveOverride \/ MarkStale \/ Age \/ UNCHANGED cacheVars
        PROVE  /\ configured' = configured /\ plan' = plan /\ notify' \in {notify, "none", "overrides"}
               /\ inflight' = inflight /\ overridden' \in {TRUE, FALSE, overridden}
    BY <1>4 DEF SetLimit, RemoveOverride, MarkStale, Age, cacheVars, service
  <1> QED
    BY <1>0, <1>1, <1>2, <1>3, <1>4, Zenon DEF CacheNext

\* Where writers and refreshes are.
LEMMA PlacesKept ==
    ASSUME CacheInv, [CacheNext]_cacheVars
    PROVE  /\ pc' \in [Writers -> {"idle", "remote", "fetch", "record"}]
           /\ task' \in [Writers -> {"none", "spawned", "fetch", "record", "release"}]
  <1>0. /\ pc \in [Writers -> {"idle", "remote", "fetch", "record"}]
        /\ task \in [Writers -> {"none", "spawned", "fetch", "record", "release"}]
    BY DEF CacheInv, CacheTypeOK
  <1>1. ASSUME NEW w \in Writers, GetLimit(w)
        PROVE  /\ \E p \in {"idle", "remote", "fetch", "record"} :
                      pc' \in {pc, [pc EXCEPT ![w] = p]}
               /\ task' \in {task, [task EXCEPT ![w] = "spawned"]}
    BY <1>1 DEF GetLimit, CheckOverride, CheckRemote, SyncFetch, SyncRecord
  <1>2. ASSUME NEW w \in Writers, Refresh(w)
        PROVE  /\ UNCHANGED pc
               /\ \E p \in {"none", "fetch", "record", "release"} : task' = [task EXCEPT ![w] = p]
    BY <1>2 DEF Refresh, Claim, RefreshFetch, RefreshRecord, Release
  <1>3. ASSUME SetLimit \/ ChangePlan \/ RemoveOverride \/ MarkStale \/ Age \/ UNCHANGED cacheVars
        PROVE  UNCHANGED <<pc, task>>
    BY <1>3 DEF SetLimit, ChangePlan, RemoveOverride, MarkStale, Age, cacheVars
  <1> DEFINE Kept == /\ pc' \in [Writers -> {"idle", "remote", "fetch", "record"}]
                     /\ task' \in [Writers -> {"none", "spawned", "fetch", "record", "release"}]
  <1>4. ASSUME NEW w \in Writers, GetLimit(w) PROVE Kept
    BY <1>0, <1>1, <1>4
  <1>5. ASSUME NEW w \in Writers, Refresh(w) PROVE Kept
    BY <1>0, <1>2, <1>5
  <1> QED
    BY <1>0, <1>3, <1>4, <1>5 DEF CacheNext

\* A fetch that is about to be recorded brought a plan or failed.
LEMMA FetchesKept ==
    ASSUME CacheInv, [CacheNext]_cacheVars
    PROVE  /\ failures' \in Nat /\ failures' >= failures
           /\ DOMAIN fetched' = Tasks
           /\ \A t \in Tasks : fetched'[t] # None => fetched'[t] \in 0..MaxPlans
           /\ \A w \in Writers :
                  pc'[w] = "record" /\ fetched'[<<w, "sync">>] = None => failures' > 0
           /\ \A w \in Writers :
                  task'[w] = "record" /\ fetched'[<<w, "refresh">>] = None => failures' > 0
  <1> DEFINE Kept ==
           /\ failures' \in Nat /\ failures' >= failures
           /\ DOMAIN fetched' = Tasks
           /\ \A t \in Tasks : fetched'[t] # None => fetched'[t] \in 0..MaxPlans
           /\ \A w \in Writers :
                  pc'[w] = "record" /\ fetched'[<<w, "sync">>] = None => failures' > 0
           /\ \A w \in Writers :
                  task'[w] = "record" /\ fetched'[<<w, "refresh">>] = None => failures' > 0
  <1>0. /\ failures \in Nat /\ DOMAIN fetched = Tasks
        /\ \A t \in Tasks : fetched[t] # None => fetched[t] \in 0..MaxPlans
        /\ \A w \in Writers : pc[w] = "record" /\ fetched[<<w, "sync">>] = None => failures > 0
        /\ \A w \in Writers : task[w] = "record" /\ fetched[<<w, "refresh">>] = None => failures > 0
        /\ pc \in [Writers -> {"idle", "remote", "fetch", "record"}]
        /\ task \in [Writers -> {"none", "spawned", "fetch", "record", "release"}]
    BY DEF CacheInv, CacheTypeOK, FetchTypes, FailureInv
  <1>1. \A w \in Writers : <<w, "sync">> \in Tasks /\ <<w, "refresh">> \in Tasks
    BY DEF Tasks
  <1> DEFINE From(t) == /\ failures' \in Nat /\ failures' >= failures
                        /\ DOMAIN fetched' = Tasks
                        /\ \A u \in Tasks : u # t => fetched'[u] = fetched[u]
                        /\ fetched'[t] # None => fetched'[t] \in 0..MaxPlans
                        /\ fetched'[t] = None => failures' > 0
  <1>2. ASSUME NEW w \in Writers, SyncFetch(w) PROVE Kept
    <2>1. UNCHANGED task /\ FetchRemote(<<w, "sync">>) /\ pc' = [pc EXCEPT ![w] = "record"]
      BY <1>2 DEF SyncFetch
    <2>2. From(<<w, "sync">>)
      BY <1>1, <2>1, FetchBrings
    <2>3. \A t \in Tasks : fetched'[t] # None => fetched'[t] \in 0..MaxPlans
      BY <1>0, <2>2
    <2>4. \A v \in Writers : /\ v # w => fetched'[<<v, "sync">>] = fetched[<<v, "sync">>]
                            /\ fetched'[<<v, "refresh">>] = fetched[<<v, "refresh">>]
      BY <1>1, <2>2
    <2>5. failures > 0 => failures' > 0
      BY <1>0, <2>2, SMT
    <2> QED
      BY <1>0, <2>1, <2>2, <2>3, <2>4, <2>5
  <1>3. ASSUME NEW w \in Writers, RefreshFetch(w) PROVE Kept
    <2>1. UNCHANGED pc /\ FetchRemote(<<w, "refresh">>) /\ task' = [task EXCEPT ![w] = "record"]
      BY <1>3 DEF RefreshFetch
    <2>2. From(<<w, "refresh">>)
      BY <1>1, <2>1, FetchBrings
    <2>3. \A t \in Tasks : fetched'[t] # None => fetched'[t] \in 0..MaxPlans
      BY <1>0, <2>2
    <2>4. \A v \in Writers : /\ v # w => fetched'[<<v, "refresh">>] = fetched[<<v, "refresh">>]
                            /\ fetched'[<<v, "sync">>] = fetched[<<v, "sync">>]
      BY <1>1, <2>2
    <2>5. failures > 0 => failures' > 0
      BY <1>0, <2>2, SMT
    <2> QED
      BY <1>0, <2>1, <2>2, <2>3, <2>4, <2>5
  <1>4. ASSUME NEW w \in Writers, SyncRecord(w) PROVE Kept
    <2>1. /\ UNCHANGED <<task, failures>> /\ pc' = [pc EXCEPT ![w] = "idle"]
          /\ fetched' = [fetched EXCEPT ![<<w, "sync">>] = None]
      BY <1>4 DEF SyncRecord
    <2> QED
      BY <1>0, <1>1, <2>1, SMT
  <1>5. ASSUME NEW w \in Writers, RefreshRecord(w) PROVE Kept
    <2>1. /\ UNCHANGED <<pc, failures>> /\ task' = [task EXCEPT ![w] = "release"]
          /\ fetched' = [fetched EXCEPT ![<<w, "refresh">>] = None]
      BY <1>5 DEF RefreshRecord
    <2> QED
      BY <1>0, <1>1, <2>1, SMT
  <1>6. ASSUME UNCHANGED <<fetched, failures>>,
               \A v \in Writers : pc'[v] = "record" => pc[v] = "record",
               \A v \in Writers : task'[v] = "record" => task[v] = "record"
        PROVE  Kept
    <2>1. failures' \in Nat /\ failures' >= failures
      BY <1>0, <1>6, SMT
    <2> QED
      BY <1>0, <1>6, <2>1
  <1>7. ASSUME NEW w \in Writers, CheckOverride(w) \/ CheckRemote(w) \/ Claim(w) \/ Release(w)
        PROVE  Kept
    <2>1. /\ UNCHANGED <<fetched, failures>>
          /\ \E p \in {"idle", "remote", "fetch"} : pc' \in {pc, [pc EXCEPT ![w] = p]}
          /\ \E p \in {"none", "spawned", "fetch"} : task' \in {task, [task EXCEPT ![w] = p]}
      BY <1>7 DEF CheckOverride, CheckRemote, Claim, Release
    <2>2. \A v \in Writers : pc'[v] = "record" => pc[v] = "record"
      BY <1>0, <2>1
    <2>3. \A v \in Writers : task'[v] = "record" => task[v] = "record"
      BY <1>0, <2>1
    <2> QED
      BY <1>6, <2>1, <2>2, <2>3
  <1>8. ASSUME SetLimit \/ ChangePlan \/ RemoveOverride \/ MarkStale \/ Age \/ UNCHANGED cacheVars
        PROVE  UNCHANGED <<pc, task, fetched, failures>>
    BY <1>8 DEF SetLimit, ChangePlan, RemoveOverride, MarkStale, Age, cacheVars
  <1>9. CASE UNCHANGED <<pc, task, fetched, failures>>
    BY <1>6, <1>9
  <1>10. ASSUME NEW w \in Writers, GetLimit(w) \/ Refresh(w) PROVE Kept
    BY <1>2, <1>3, <1>4, <1>5, <1>7, <1>10 DEF GetLimit, Refresh
  <1>11. CASE SetLimit \/ ChangePlan \/ RemoveOverride \/ MarkStale \/ Age \/ UNCHANGED cacheVars
    BY <1>8, <1>9, <1>11
  <1> QED
    BY <1>10, <1>11 DEF CacheNext

\* A writer is given an override, a plan, or the default after a failure or
\* where there is no quota service.
LEMMA GivenKept ==
    ASSUME CacheInv, [CacheNext]_cacheVars
    PROVE  /\ DOMAIN got' = Writers
           /\ \A w \in Writers : got'[w] # None => got'[w] \in 0..MaxPlans \cup {Default, Override}
           /\ \A w \in Writers : got'[w] = Default => failures' > 0 \/ ~configured'
  <1> DEFINE Kept ==
           /\ DOMAIN got' = Writers
           /\ \A w \in Writers : got'[w] # None => got'[w] \in 0..MaxPlans \cup {Default, Override}
           /\ \A w \in Writers : got'[w] = Default => failures' > 0 \/ ~configured'
  <1>0. /\ DOMAIN got = Writers
        /\ \A w \in Writers : got[w] # None => got[w] \in 0..MaxPlans \cup {Default, Override}
        /\ \A w \in Writers : got[w] = Default => failures > 0 \/ ~configured
        /\ failures \in Nat /\ failures' \in Nat /\ failures' >= failures
        /\ configured' = configured
    BY FetchesKept, ServiceTypes DEF CacheInv, CacheTypeOK, FetchTypes, DefaultOnlyAfterFailure
  <1>1. ASSUME NEW w \in Writers, NEW limit \in 0..MaxPlans \cup {Default, Override},
               limit = Default => failures > 0 \/ ~configured,
               got' = [got EXCEPT ![w] = limit]
        PROVE  Kept
    BY <1>0, <1>1, SMT
  <1>2. CASE UNCHANGED got
    BY <1>0, <1>2, SMT
  <1>3. ASSUME NEW w \in Writers, CheckOverride(w) PROVE Kept
    <2>1. \/ UNCHANGED got \/ got' = [got EXCEPT ![w] = Override]
          \/ ~configured /\ got' = [got EXCEPT ![w] = Default]
      BY <1>3 DEF CheckOverride
    <2> QED
      BY <1>1, <1>2, <2>1, QuotaAssumption
  <1>4. ASSUME NEW w \in Writers, CheckRemote(w) PROVE Kept
    <2> DEFINE limit == IF remote.known THEN remote.limit ELSE Default
    <2>1. UNCHANGED got \/ (remote # None /\ got' = [got EXCEPT ![w] = limit])
      BY <1>4 DEF CheckRemote
    <2>2. ASSUME remote # None
          PROVE  limit \in 0..MaxPlans \cup {Default, Override} /\ (limit = Default => failures > 0 \/ ~configured)
      <3>1. remote.limit \in 0..MaxPlans
        BY <2>2 DEF CacheInv, CacheTypeOK, Entry
      <3>2. ~remote.known => failures > 0
        BY <2>2 DEF CacheInv, FailureInv
      <3> QED
        BY <3>1, <3>2, QuotaAssumption
    <2> HIDE DEF limit
    <2> QED
      BY <1>1, <1>2, <2>1, <2>2
  <1>5. ASSUME NEW w \in Writers, SyncRecord(w) PROVE Kept
    <2> DEFINE value == fetched[<<w, "sync">>]
               limit == IF value = None THEN Default ELSE value
    <2>1. pc[w] = "record" /\ got' = [got EXCEPT ![w] = limit]
      BY <1>5 DEF SyncRecord
    <2>2. (value # None => value \in 0..MaxPlans) /\ (value = None => failures > 0)
      <3>1. <<w, "sync">> \in Tasks
        BY DEF Tasks
      <3> QED
        BY <2>1, <3>1 DEF CacheInv, FetchTypes, FailureInv
    <2>3. limit \in 0..MaxPlans \cup {Default, Override} /\ (limit = Default => failures > 0 \/ ~configured)
      BY <2>2, QuotaAssumption
    <2> HIDE DEF limit
    <2> QED
      BY <1>1, <2>1, <2>3
  <1>6. ASSUME NEW w \in Writers, SyncFetch(w) \/ Refresh(w) PROVE UNCHANGED got
    BY <1>6 DEF SyncFetch, Refresh, Claim, RefreshFetch, RefreshRecord, Release
  <1>7. ASSUME SetLimit \/ ChangePlan \/ RemoveOverride \/ MarkStale \/ Age \/ UNCHANGED cacheVars
        PROVE  UNCHANGED got
    BY <1>7 DEF SetLimit, ChangePlan, RemoveOverride, MarkStale, Age, cacheVars
  <1>8. ASSUME NEW w \in Writers, GetLimit(w) \/ Refresh(w) PROVE Kept
    BY <1>2, <1>3, <1>4, <1>5, <1>6, <1>8 DEF GetLimit
  <1>9. CASE SetLimit \/ ChangePlan \/ RemoveOverride \/ MarkStale \/ Age \/ UNCHANGED cacheVars
    BY <1>2, <1>7, <1>9
  <1> QED
    BY <1>8, <1>9 DEF CacheNext

LEMMA CacheKept ==
    ASSUME CacheInv, [CacheNext]_cacheVars
    PROVE  CacheInv'
  <1>1. CacheTypeOK'
    BY ServiceTypes, PlacesKept, EntryKept, GivenKept DEF CacheTypeOK, CacheInv
  <1>2. FetchTypes' /\ FailureInv'
    BY FetchesKept, EntryKept, GivenKept DEF FetchTypes, FailureInv
  <1>3. DefaultOnlyAfterFailure'
    BY GivenKept DEF DefaultOnlyAfterFailure
  <1> QED
    BY <1>1, <1>2, <1>3, FlagKept DEF CacheInv

LEMMA CacheAlways == CacheSpec => []CacheInv
  BY CacheInitially, CacheKept, PTL DEF CacheSpec

\* One flag, one refresh.
LEMMA FlagIsOneRefresh == CacheInv => LimitsSound
  <1> SUFFICES ASSUME CacheInv PROVE OneRefreshAtATime
    BY DEF LimitsSound, CacheInv
  <1> DEFINE R == {w \in Writers : task[w] \in {"fetch", "record", "release"}}
  <1>1. \A w, v \in R : w = v
    BY DEF CacheInv, FlagInv, Refreshing
  <1>2. CASE R = {}
    <2>1. Cardinality(R) = 0
      BY <1>2, FS_EmptySet
    <2> QED
      BY <2>1, SMT DEF OneRefreshAtATime
  <1>3. CASE R # {}
    <2>1. PICK w \in R : TRUE
      BY <1>3
    <2>2. R = {w}
      BY <1>1, <2>1
    <2>3. Cardinality(R) = 1
      BY <2>2, FS_Singleton, Zenon
    <2> QED
      BY <2>3, SMT DEF OneRefreshAtATime
  <1> QED
    BY <1>2, <1>3

(***************************************************************************)
(* Whatever writers, refreshes, administrators and the billing sidecar do  *)
(* at once, a space has one refresh at a time and a writer gets the        *)
(* default only after a failure (get_limit, spawn_refresh): for every      *)
(* number of writers, plans and failures.                                  *)
(***************************************************************************)
THEOREM LimitsAreSound == CacheSpec => []LimitsSound
  BY CacheAlways, FlagIsOneRefresh, PTL

(***************************************************************************)
(* No failed fetch, of a writer or of a refresh, however late, erases a    *)
(* limit the node knows (record_fetch).                                    *)
(***************************************************************************)
THEOREM KnownLimitIsKept == CacheSpec => KnownLimitKept
  <1>1. CacheInv /\ [CacheNext]_cacheVars
        => [remote # None /\ remote.known => remote' # None /\ remote'.known]_cacheVars
    BY EntryKept
  <1> QED
    BY <1>1, CacheAlways, PTL DEF CacheSpec, KnownLimitKept
=============================================================================
