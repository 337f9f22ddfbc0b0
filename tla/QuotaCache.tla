----------------------------- MODULE QuotaCache -----------------------------
(***************************************************************************)
(* QuotaCache (quota.rs): the storage limit of one space, as administrators*)
(* override it and as the node remembers it from the quota service.        *)
(*                                                                         *)
(* Writers ask for the limit, again and again.  A writer that finds no     *)
(* remembered limit waits for the quota service; one that finds an old     *)
(* limit uses it and starts a refresh.  The billing sidecar changes the    *)
(* plan and then calls remove_limit.  A tick is FAILURE_BACKOFF, 30 s, and *)
(* FRESH_TTL is two ticks; ages beyond that are not told apart.  A writer  *)
(* has at most one refresh task of its own.  A node may also run without a *)
(* quota service: then there are only overrides and the default.           *)
(***************************************************************************)
EXTENDS Naturals, FiniteSets

CONSTANTS
    Writers,        \* requests that ask for the limit
    Default,        \* the limit of the node's configuration
    Override,       \* the limit administrators set
    MaxPlans,       \* bound on plan changes
    MaxOverrides,   \* bound on overrides set
    MaxFailures,    \* bound on failures of the quota service
    None            \* no limit, no entry, no time

FailureBackoff == 1
FreshTtl == 2

Entry == [limit : 0..MaxPlans, known : BOOLEAN, age : 0..FreshTtl, stale : BOOLEAN,
          failure : 0..FailureBackoff, failed : BOOLEAN]

ASSUME QuotaAssumption ==
    /\ MaxPlans \in Nat /\ MaxOverrides \in Nat /\ MaxFailures \in Nat
    /\ Default \notin 0..MaxPlans /\ Override \notin 0..MaxPlans /\ Default # Override
    /\ None \notin 0..MaxPlans \cup {Default, Override} /\ None \notin Entry

VARIABLES
    configured, \* a quota URL is configured; never changes
    plan,       \* the quota service: the limit of the n-th plan is n
    notify,     \* remove_limit: "none", "due", "overrides" done
    overridden, \* an override is set
    overrides,  \* how many were set so far
    remote,     \* the remembered entry, or None
    inflight,   \* a background refresh holds the space
    pc,         \* where a writer is
    task,       \* where the refresh a writer spawned is
    fetched,    \* what the fetch of a writer or a refresh brought
    got,        \* the limit a writer was last given
    failures

cacheVars == <<configured, plan, notify, overridden, overrides, remote, inflight, pc, task, fetched,
              got, failures>>
service == <<configured, plan, notify>>

Tasks == Writers \X {"sync", "refresh"}

CacheInit ==
    /\ configured \in BOOLEAN
    /\ plan = 0
    /\ notify = "none"
    /\ overridden = FALSE
    /\ overrides = 0
    /\ remote = None
    /\ inflight = FALSE
    /\ pc = [w \in Writers |-> "idle"]
    /\ task = [w \in Writers |-> "none"]
    /\ fetched = [t \in Tasks |-> None]
    /\ got = [w \in Writers |-> None]
    /\ failures = 0

-----------------------------------------------------------------------------
(***************************************************************************)
(* get_limit: the override, then what is remembered, then the default.     *)
(***************************************************************************)
CheckOverride(w) ==
    /\ pc[w] = "idle"
    /\ IF overridden
       THEN got' = [got EXCEPT ![w] = Override] /\ UNCHANGED pc
       ELSE IF ~configured
       THEN got' = [got EXCEPT ![w] = Default] /\ UNCHANGED pc
       ELSE pc' = [pc EXCEPT ![w] = "remote"] /\ UNCHANGED got
    /\ UNCHANGED <<service, overridden, overrides, remote, inflight, task, fetched, failures>>

ShouldSpawnRefresh(e) ==
    IF e.known
    THEN \/ e.stale /\ (~e.failed \/ e.failure >= FailureBackoff)
         \/ ~e.stale /\ e.age >= FreshTtl
    ELSE e.age >= FailureBackoff

\* Mutant: nobody waits for the quota service.
CheckRemoteNoWait(w) ==
    /\ pc[w] = "remote"
    /\ pc' = [pc EXCEPT ![w] = "idle"]
    /\ got' = [got EXCEPT ![w] = IF remote # None /\ remote.known THEN remote.limit ELSE Default]
    /\ task' = IF (remote = None \/ ShouldSpawnRefresh(remote)) /\ task[w] = "none"
               THEN [task EXCEPT ![w] = "spawned"] ELSE task
    /\ UNCHANGED <<service, overridden, overrides, remote, inflight, fetched, failures>>

CheckRemote(w) ==
    /\ pc[w] = "remote"
    /\ IF remote = None
       THEN pc' = [pc EXCEPT ![w] = "fetch"] /\ UNCHANGED <<got, task>>
       ELSE /\ pc' = [pc EXCEPT ![w] = "idle"]
            /\ got' = [got EXCEPT ![w] = IF remote.known THEN remote.limit ELSE Default]
            /\ task' = IF ShouldSpawnRefresh(remote) /\ task[w] = "none"
                       THEN [task EXCEPT ![w] = "spawned"] ELSE task
    /\ UNCHANGED <<service, overridden, overrides, remote, inflight, fetched, failures>>

(***************************************************************************)
(* fetch_remote: the service answers from the plan of that moment, or the  *)
(* request fails.                                                          *)
(***************************************************************************)
FetchRemote(t) ==
    \/ /\ fetched' = [fetched EXCEPT ![t] = plan]
       /\ UNCHANGED failures
    \/ /\ failures < MaxFailures
       /\ failures' = failures + 1
       /\ fetched' = [fetched EXCEPT ![t] = None]

Learned(limit) == [limit |-> limit, known |-> TRUE, age |-> 0, stale |-> FALSE,
                   failure |-> 0, failed |-> FALSE]

RecordFetch(value) ==
    remote' = IF value # None THEN Learned(value)
              ELSE IF remote # None /\ remote.known
              THEN [Learned(remote.limit) EXCEPT !.stale = TRUE, !.failed = TRUE]
              ELSE [Learned(0) EXCEPT !.known = FALSE]

\* fetch_and_record, for the writer that waits.
SyncFetch(w) ==
    /\ pc[w] = "fetch"
    /\ FetchRemote(<<w, "sync">>)
    /\ pc' = [pc EXCEPT ![w] = "record"]
    /\ UNCHANGED <<service, overridden, overrides, remote, inflight, task, got>>

SyncRecord(w) ==
    LET value == fetched[<<w, "sync">>] IN
    /\ pc[w] = "record"
    /\ RecordFetch(value)
    /\ got' = [got EXCEPT ![w] = IF value = None THEN Default ELSE value]
    /\ pc' = [pc EXCEPT ![w] = "idle"]
    /\ fetched' = [fetched EXCEPT ![<<w, "sync">>] = None]
    /\ UNCHANGED <<service, overridden, overrides, inflight, task, failures>>

-----------------------------------------------------------------------------

(***************************************************************************)
(* spawn_refresh.                                                          *)
(***************************************************************************)
Claim(w) ==
    /\ task[w] = "spawned"
    /\ inflight' = TRUE
    /\ task' = [task EXCEPT ![w] = IF inflight THEN "none" ELSE "fetch"]
    /\ UNCHANGED <<service, overridden, overrides, remote, pc, fetched, got, failures>>

RefreshFetch(w) ==
    /\ task[w] = "fetch"
    /\ FetchRemote(<<w, "refresh">>)
    /\ task' = [task EXCEPT ![w] = "record"]
    /\ UNCHANGED <<service, overridden, overrides, remote, inflight, pc, got>>

\* Mutant: the guard is released after a success only.
RefreshRecordReturns(w) ==
    LET value == fetched[<<w, "refresh">>] IN
    /\ task[w] = "record"
    /\ RecordFetch(value)
    /\ fetched' = [fetched EXCEPT ![<<w, "refresh">>] = None]
    /\ task' = [task EXCEPT ![w] = IF value = None THEN "none" ELSE "release"]
    /\ UNCHANGED <<service, overridden, overrides, inflight, pc, got, failures>>

RefreshRecord(w) ==
    LET value == fetched[<<w, "refresh">>] IN
    /\ task[w] = "record"
    /\ RecordFetch(value)
    /\ fetched' = [fetched EXCEPT ![<<w, "refresh">>] = None]
    /\ task' = [task EXCEPT ![w] = "release"]
    /\ UNCHANGED <<service, overridden, overrides, inflight, pc, got, failures>>

Release(w) ==
    /\ task[w] = "release"
    /\ inflight' = FALSE
    /\ task' = [task EXCEPT ![w] = "none"]
    /\ UNCHANGED <<service, overridden, overrides, remote, pc, fetched, got, failures>>

-----------------------------------------------------------------------------
(***************************************************************************)
(* The administrators and the billing sidecar.  remove_limit takes the     *)
(* override away and then, under the other lock, marks the entry stale.    *)
(***************************************************************************)
SetLimit ==
    /\ overrides < MaxOverrides
    /\ overrides' = overrides + 1
    /\ overridden' = TRUE
    /\ UNCHANGED <<service, remote, inflight, pc, task, fetched, got, failures>>

ChangePlan ==
    /\ plan < MaxPlans
    /\ plan' = plan + 1
    /\ notify' = "due"
    /\ UNCHANGED <<configured, overridden, overrides, remote, inflight, pc, task, fetched, got, failures>>

RemoveOverride ==
    /\ notify = "due"
    /\ overridden' = FALSE
    /\ notify' = "overrides"
    /\ UNCHANGED <<configured, plan, overrides, remote, inflight, pc, task, fetched, got, failures>>

MarkStale ==
    /\ notify = "overrides"
    /\ notify' = "none"
    /\ remote' = IF remote = None THEN None ELSE [remote EXCEPT !.stale = TRUE]
    /\ UNCHANGED <<configured, plan, overridden, overrides, inflight, pc, task, fetched, got, failures>>

Older(age, most) == IF age < most THEN age + 1 ELSE most

Age ==
    /\ remote # None
    /\ remote' = [remote EXCEPT !.age = Older(@, FreshTtl), !.failure = Older(@, FailureBackoff)]
    /\ UNCHANGED <<service, overridden, overrides, inflight, pc, task, fetched, got, failures>>

GetLimit(w) == CheckOverride(w) \/ CheckRemote(w) \/ SyncFetch(w) \/ SyncRecord(w)
Refresh(w) == Claim(w) \/ RefreshFetch(w) \/ RefreshRecord(w) \/ Release(w)

CacheNext ==
    \/ \E w \in Writers : GetLimit(w) \/ Refresh(w)
    \/ SetLimit \/ ChangePlan \/ RemoveOverride \/ MarkStale
    \/ Age

CacheSpec == CacheInit /\ [][CacheNext]_cacheVars

(***************************************************************************)
(* Writes keep coming, the runtime polls every task, every fetch ends      *)
(* within FETCH_TIMEOUT, time passes.                                      *)
(***************************************************************************)
FairCacheSpec ==
    /\ CacheSpec
    /\ \A w \in Writers : WF_cacheVars(GetLimit(w)) /\ WF_cacheVars(Refresh(w))
    /\ WF_cacheVars(Age)
    /\ WF_cacheVars(RemoveOverride \/ MarkStale)

-----------------------------------------------------------------------------
CacheTypeOK ==
    /\ configured \in BOOLEAN
    /\ plan \in 0..MaxPlans
    /\ notify \in {"none", "due", "overrides"}
    /\ overridden \in BOOLEAN
    /\ remote # None => remote \in Entry
    /\ inflight \in BOOLEAN
    /\ pc \in [Writers -> {"idle", "remote", "fetch", "record"}]
    /\ \A w \in Writers : got[w] # None => got[w] \in 0..MaxPlans \cup {Default, Override}
    /\ task \in [Writers -> {"none", "spawned", "fetch", "record", "release"}]

(***************************************************************************)
(* "A failure never erases a previously known limit": not even one of a    *)
(* first fetch that ends after another writer's (record_fetch).            *)
(***************************************************************************)
KnownLimitKept ==
    [][remote # None /\ remote.known => remote' # None /\ remote'.known]_cacheVars

(***************************************************************************)
(* Background refreshes of a space are deduplicated (spawn_refresh).       *)
(***************************************************************************)
OneRefreshAtATime ==
    Cardinality({w \in Writers : task[w] \in {"fetch", "record", "release"}}) <= 1

(***************************************************************************)
(* "paid limits above the env default apply from the first byte": a write  *)
(* is given the default only after the quota service has failed, or on a   *)
(* node that has none (get_limit).                                         *)
(***************************************************************************)
DefaultOnlyAfterFailure ==
    \A w \in Writers : got[w] = Default => failures > 0 \/ ~configured

(***************************************************************************)
(* When plans stop changing, the remembered limit becomes the current one  *)
(* and stays, whatever failed or raced on the way, unless an override      *)
(* hides it or there is no quota service: some refresh gets through.       *)
(***************************************************************************)
EventuallyCurrent ==
    <>[](overridden \/ ~configured \/ (remote # None /\ remote.known /\ remote.limit = plan))

(***************************************************************************)
(* Whatever races, a space has one refresh at a time and a writer gets the *)
(* default only when the quota service failed or there is none (get_limit, *)
(* spawn_refresh).                                                         *)
(***************************************************************************)
LimitsSound == CacheTypeOK /\ OneRefreshAtATime /\ DefaultOnlyAfterFailure

(***************************************************************************)
(* A limit once known stays known, and follows the plan.                   *)
(***************************************************************************)
LimitFollowsPlan == KnownLimitKept /\ EventuallyCurrent

=============================================================================
