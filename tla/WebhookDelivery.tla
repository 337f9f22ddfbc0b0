-------------------------- MODULE WebhookDelivery --------------------------
(***************************************************************************)
(* Webhooks: subscriptions (routes/hooks.rs), the delivery rows of a       *)
(* write, and the loop that posts them (webhook_dispatcher.rs, db.rs).     *)
(*                                                                         *)
(* A KV write commits its rows together with its data                      *)
(* (models/invocation.rs).  A SQL or DuckDB write is committed by its own  *)
(* service first; a task enqueues the rows after that, and when it fails   *)
(* or the process stops there are none (routes/mod.rs).                    *)
(*                                                                         *)
(* The rows are an outbox: a delivery is "pending" or "retrying" until a   *)
(* post succeeds ("delivered") or is given up ("dead_letter").  A post     *)
(* and the update that records it are two steps; the process may stop      *)
(* between them and the update may fail.  One dispatcher works on the      *)
(* database; what it lists it handles one by one, from what it read.       *)
(***************************************************************************)
EXTENDS Integers, FiniteSets

CONSTANTS
    Subscriptions,
    Writes,             \* committed write events of one space
    DatabaseWrites,     \* those of the SQL and DuckDB services
    Existing,           \* subscriptions made before
    Matches(_, _),      \* subscription_matches_event(subscription, write)
    Unusable,           \* subscriptions whose secret cannot be decrypted
    MaxPerSpace,        \* max_webhook_subscriptions_per_space
    MaxAttempts,        \* webhook_max_attempts
    BatchSize,          \* DISPATCH_BATCH_SIZE
    Delay,              \* Delay[n]: retry_delay_for_attempt(n), in ticks
    TicksPerSecond,
    MaxTime,            \* bound on the clock, a whole second
    LastChange,         \* bound: writes and new subscriptions come until then
    MaxFaults           \* bound on crashes and failed statements

Ids == Subscriptions \X Writes

ASSUME WebhookAssumption ==
    /\ Unusable \subseteq Subscriptions /\ Existing \subseteq Subscriptions
    /\ DatabaseWrites \subseteq Writes
    /\ MaxPerSpace \in Nat /\ MaxTime \in Nat /\ MaxFaults \in Nat /\ LastChange \in Nat
    /\ MaxAttempts \in Nat \ {0} /\ BatchSize \in Nat \ {0} /\ TicksPerSecond \in Nat \ {0}
    /\ Delay \in [2..MaxAttempts -> Nat]

VARIABLES
    clock,      \* ticks
    subs,       \* hook_subscription: "none", "counted", "refused", "active", "inactive"
    written,    \* committed writes
    queued,     \* queued[w]: when w was made, if its deliveries are still to be enqueued
    rows,       \* hook_delivery
    batch,      \* deliveries listed and not yet handled, with what was read of them
    current,    \* the delivery just posted, with the outcome; a set of at most one
    faults,     \* crashes and failed statements so far
    posts,      \* history: posts made per delivery
    late,       \* history: those made after the subscription ended
    failedAt,   \* history: when the failure a retry is waiting after was recorded
    lost        \* history: per delivery, posts that were never recorded

dispatcher == <<batch, current>>
history == <<posts, late, failedAt, lost>>
vars == <<clock, subs, written, queued, rows, dispatcher, faults, history>>

NotQueued == -1

NoRow == [status |-> "none", attempts |-> 0, due |-> 0, created |-> 0]

Init ==
    /\ clock = 0
    /\ subs = [s \in Subscriptions |-> IF s \in Existing THEN "active" ELSE "none"]
    /\ written = {}
    /\ queued = [w \in Writes |-> NotQueued]
    /\ rows = [d \in Ids |-> NoRow]
    /\ batch = {}
    /\ current = {}
    /\ faults = 0
    /\ posts = [d \in Ids |-> 0]
    /\ late = [d \in Ids |-> 0]
    /\ failedAt = [d \in Ids |-> 0]
    /\ lost = [d \in Ids |-> 0]

-----------------------------------------------------------------------------
(***************************************************************************)
(* create_webhook counts the active subscriptions and inserts the new one  *)
(* in two statements; delete_webhook deactivates.                          *)
(***************************************************************************)
Active == {s \in Subscriptions : subs[s] = "active"}

Count(s) ==
    /\ subs[s] = "none" /\ clock <= LastChange
    /\ subs' = [subs EXCEPT ![s] = IF Cardinality(Active) >= MaxPerSpace THEN "refused" ELSE "counted"]
    /\ UNCHANGED <<clock, written, queued, rows, dispatcher, faults, history>>

Insert(s) ==
    /\ subs[s] = "counted"
    /\ subs' = [subs EXCEPT ![s] = "active"]
    /\ UNCHANGED <<clock, written, queued, rows, dispatcher, faults, history>>

Deactivate(s) ==
    /\ subs[s] = "active"
    /\ subs' = [subs EXCEPT ![s] = "inactive"]
    /\ UNCHANGED <<clock, written, queued, rows, dispatcher, faults, history>>

(***************************************************************************)
(* The rows of a write made at a time: one per matching active             *)
(* subscription.  Reading the subscriptions and inserting the rows are one *)
(* step here: a subscription that changes in between leaves the state it   *)
(* leaves when it changes just after.                                      *)
(***************************************************************************)
WithDeliveries(w, at) ==
    [d \in Ids |->
        IF d[2] = w /\ d[1] \in Active /\ Matches(d[1], w)
        THEN [status |-> "pending", attempts |-> 0, due |-> 0, created |-> at]
        ELSE rows[d]]

\* enqueue_kv_webhook_deliveries, in the transaction of the write.
KvWrite(w) ==
    /\ w \notin written \cup DatabaseWrites /\ clock <= LastChange
    /\ written' = written \cup {w}
    /\ rows' = WithDeliveries(w, clock)
    /\ UNCHANGED <<clock, subs, queued, dispatcher, faults, history>>

DatabaseWrite(w) ==
    /\ w \in DatabaseWrites \ written /\ clock <= LastChange
    /\ written' = written \cup {w}
    /\ queued' = [queued EXCEPT ![w] = clock]
    /\ UNCHANGED <<clock, subs, rows, dispatcher, faults, history>>

\* spawn_database_hook_delivery.
Enqueue(w) ==
    /\ queued[w] # NotQueued
    /\ rows' = WithDeliveries(w, queued[w])
    /\ queued' = [queued EXCEPT ![w] = NotQueued]
    /\ UNCHANGED <<clock, subs, written, dispatcher, faults, history>>

EnqueueFails(w) ==
    /\ queued[w] # NotQueued
    /\ faults < MaxFaults /\ faults' = faults + 1
    /\ queued' = [queued EXCEPT ![w] = NotQueued]
    /\ UNCHANGED <<clock, subs, written, rows, dispatcher, history>>

-----------------------------------------------------------------------------
(***************************************************************************)
(* Times are stored and compared as RFC 3339 text.  A whole second has no  *)
(* fraction and ends in "Z", which sorts after the "." of a fraction, so   *)
(* within one second the text order is not the order of time.              *)
(***************************************************************************)
Second(t) == t \div TicksPerSecond
Fraction(t) == t % TicksPerSecond

TextRank(t) == IF Fraction(t) = 0 THEN TicksPerSecond ELSE Fraction(t)

TextLte(t, u) == Second(t) < Second(u) \/ (Second(t) = Second(u) /\ TextRank(t) <= TextRank(u))

\* Mutant: only rows never posted are listed.
ListableNew(d) == rows[d].status = "pending"

Listable(d) ==
    /\ rows[d].status \in {"pending", "retrying"}
    /\ rows[d].due = 0 \/ TextLte(rows[d].due, clock)

Earlier(r, q) ==
    \/ r.created # q.created /\ TextLte(r.created, q.created)
    \/ r.created = q.created /\ r.attempts < q.attempts

Due == {d \in Ids : Listable(d)}

(***************************************************************************)
(* The first BatchSize due rows by creation time and attempts.             *)
(***************************************************************************)
FirstDue(D) ==
    /\ Cardinality(D) = IF Cardinality(Due) < BatchSize THEN Cardinality(Due) ELSE BatchSize
    /\ \A d \in D : \A e \in Due \ D : ~Earlier(rows[e], rows[d])

List ==
    /\ batch = {} /\ current = {}
    /\ Due # {}
    /\ \E D \in SUBSET Due :
          /\ FirstDue(D)
          /\ batch' = {[id |-> d, attempts |-> rows[d].attempts, created |-> rows[d].created,
                        active |-> subs[d[1]] = "active"] : d \in D}
    /\ UNCHANGED <<clock, subs, written, queued, rows, current, faults, history>>

(***************************************************************************)
(* Nothing is due: the loop sleeps and asks again.                         *)
(***************************************************************************)
Idle ==
    /\ batch = {} /\ current = {}
    /\ Due = {}
    /\ UNCHANGED vars

(***************************************************************************)
(* Updates of a row.  Its attempts come from what was listed.              *)
(***************************************************************************)
Row(status, listed, due) ==
    [status |-> status, attempts |-> listed.attempts + 1, due |-> due, created |-> listed.created]

\* Mutant: every retry waits as long as the first.
RetryRowFlat(listed) ==
    IF listed.attempts + 2 > MaxAttempts
    THEN Row("dead_letter", listed, 0)
    ELSE Row("retrying", listed, clock + Delay[2])

RetryRow(listed) ==
    LET next == listed.attempts + 2 IN
    IF next > MaxAttempts
    THEN Row("dead_letter", listed, 0)
    ELSE Row("retrying", listed, clock + Delay[next])

(***************************************************************************)
(* The bound on the clock: a post fails, and its failure waits to be       *)
(* recorded, only while the retry still falls within MaxTime.              *)
(***************************************************************************)
RetryFits(listed, now) ==
    LET next == listed.attempts + 2 IN
    next <= MaxAttempts => now + Delay[next] <= MaxTime

(***************************************************************************)
(* The batch is handled in the order it was listed.                        *)
(***************************************************************************)
InOrder(b) == \A c \in batch : ~Earlier(c, b)

\* Mutant: the subscription may have ended.
RefusedUnusable(b) == b.id[1] \in Unusable

Refused(b) == ~b.active \/ b.id[1] \in Unusable

(***************************************************************************)
(* An inactive subscription or an unusable secret: given up without a      *)
(* post.                                                                   *)
(***************************************************************************)
GiveUp ==
    /\ current = {}
    /\ \E b \in batch :
          /\ InOrder(b) /\ Refused(b)
          /\ batch' = batch \ {b}
          /\ rows' = [rows EXCEPT ![b.id] = Row("dead_letter", b, 0)]
    /\ UNCHANGED <<clock, subs, written, queued, current, faults, history>>

Post ==
    /\ current = {}
    /\ \E b \in batch, success \in BOOLEAN :
          /\ InOrder(b) /\ ~Refused(b)
          /\ success \/ RetryFits(b, clock)
          /\ current' = {[listed |-> b, success |-> success]}
          /\ posts' = [posts EXCEPT ![b.id] = @ + 1]
          /\ late' = IF subs[b.id[1]] = "active" THEN late ELSE [late EXCEPT ![b.id] = @ + 1]
          /\ batch' = batch \ {b}
    /\ UNCHANGED <<clock, subs, written, queued, rows, faults, failedAt, lost>>

Record ==
    \E c \in current :
        /\ rows' = [rows EXCEPT ![c.listed.id] =
                       IF c.success THEN Row("delivered", c.listed, 0) ELSE RetryRow(c.listed)]
        /\ failedAt' = [failedAt EXCEPT ![c.listed.id] =
                           IF rows'[c.listed.id].status = "retrying" THEN clock ELSE 0]
        /\ current' = {}
        /\ UNCHANGED <<clock, subs, written, queued, batch, faults, posts, late, lost>>

(***************************************************************************)
(* The update of a row fails: the loop goes on with the next delivery.     *)
(***************************************************************************)
Forget ==
    /\ lost' = [d \in Ids |-> IF \E c \in current : c.listed.id = d THEN lost[d] + 1 ELSE lost[d]]
    /\ current' = {}

UpdateFails ==
    /\ faults < MaxFaults /\ faults' = faults + 1
    /\ \/ current # {} /\ batch' = batch
       \/ /\ current = {}
          /\ \E b \in batch : InOrder(b) /\ Refused(b) /\ batch' = batch \ {b}
    /\ Forget
    /\ UNCHANGED <<clock, subs, written, queued, rows, posts, late, failedAt>>

Crash ==
    /\ faults < MaxFaults /\ faults' = faults + 1
    /\ batch # {} \/ current # {} \/ \E w \in Writes : queued[w] # NotQueued
    /\ batch' = {}
    /\ Forget
    /\ queued' = [w \in Writes |-> NotQueued]
    /\ UNCHANGED <<clock, subs, written, rows, posts, late, failedAt>>

Tick ==
    /\ clock < MaxTime
    /\ \A c \in current : c.success \/ RetryFits(c.listed, clock + 1)
    /\ clock' = clock + 1
    /\ UNCHANGED <<subs, written, queued, rows, dispatcher, faults, history>>

Dispatch == List \/ GiveUp \/ Post \/ Record

Next ==
    \/ \E s \in Subscriptions : Count(s) \/ Insert(s) \/ Deactivate(s)
    \/ \E w \in Writes : KvWrite(w) \/ DatabaseWrite(w) \/ Enqueue(w) \/ EnqueueFails(w)
    \/ Dispatch
    \/ Idle
    \/ UpdateFails
    \/ Crash
    \/ Tick

Spec == Init /\ [][Next]_vars

(***************************************************************************)
(* The loop is spawned at start-up and never returns; the runtime polls    *)
(* the tasks that enqueue; time passes.                                    *)
(***************************************************************************)
FairSpec ==
    /\ Spec
    /\ WF_vars(Dispatch) /\ WF_vars(Tick)
    /\ \A w \in Writes : WF_vars(Enqueue(w))

-----------------------------------------------------------------------------
Settled == {"delivered", "dead_letter"}

TypeOK ==
    /\ clock \in 0..MaxTime
    /\ subs \in [Subscriptions -> {"none", "counted", "refused", "active", "inactive"}]
    /\ written \subseteq Writes
    /\ queued \in [Writes -> {NotQueued} \cup 0..MaxTime]
    /\ rows \in [Ids -> [status : {"none", "pending", "retrying"} \cup Settled,
                         attempts : 0..MaxAttempts, due : 0..MaxTime, created : 0..MaxTime]]
    /\ batch \subseteq [id : Ids, attempts : 0..MaxAttempts, created : 0..MaxTime, active : BOOLEAN]
    /\ Cardinality(current) <= 1
    /\ faults \in 0..MaxFaults

(***************************************************************************)
(* A delivery is posted again only for a recorded failure or because the   *)
(* record of a post was lost: never more than MaxAttempts posts are        *)
(* recorded and every other post is accounted for.                         *)
(***************************************************************************)
PostsAccountedFor ==
    \A d \in Ids :
        /\ posts[d] <= rows[d].attempts + lost[d] + Cardinality({c \in current : c.listed.id = d})
        /\ posts[d] <= MaxAttempts + lost[d]

(***************************************************************************)
(* A subscription that was ended gets at most one more post of a delivery: *)
(* one that was listed before.  Failures, lost records and restarts do not *)
(* bring another (dispatch_delivery checks what was read with the list).   *)
(***************************************************************************)
EndedSubscriptionsRest == \A d \in Ids : late[d] <= 1

(***************************************************************************)
(* A retry waits for its delay, up to the second the text comparison       *)
(* blurs (list_due_webhook_deliveries, retry_delay_for_attempt).           *)
(***************************************************************************)
BackoffHonoured ==
    [][\A d \in Ids :
          (\E b \in batch' \ batch : b.id = d) /\ rows[d].status = "retrying"
          => clock + TicksPerSecond > failedAt[d] + Delay[rows[d].attempts + 1]]_vars

(***************************************************************************)
(* The outbox tells what was posted: every post is accounted for, and who  *)
(* unsubscribed is left alone (dispatch_delivery).                         *)
(***************************************************************************)
OutboxSound == TypeOK /\ PostsAccountedFor /\ EndedSubscriptionsRest

(***************************************************************************)
(* Every delivery is delivered or given up in the end, provided crashes    *)
(* and failed statements stop: once the last write is committed and its    *)
(* rows are enqueued the outbox empties, and stays empty                   *)
(* (dispatch_due_once).                                                    *)
(***************************************************************************)
DeliveriesSettle ==
    <>[](/\ \A w \in Writes : queued[w] = NotQueued
         /\ \A d \in Ids : rows[d].status \in Settled \cup {"none"})

=============================================================================
