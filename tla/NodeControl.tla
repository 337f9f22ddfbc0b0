---------------------------- MODULE NodeControl -----------------------------
(***************************************************************************)
(* The node's control plane and the service around it                      *)
(* (tinycloud-node-server/src/node_control, src/runtime.rs).               *)
(*                                                                         *)
(* The service manager runs one `serve` process at a time and starts       *)
(* another after a crash.  A process publishes where its control API       *)
(* listens (control.json) and the token that opens it (control.token),     *)
(* boots, resolves its keys, serves, and on a signal drains and takes the  *)
(* two files away.  Commands read the files and ask the API for the    *)
(* status, patch the configuration overlay through it, back the identity   *)
(* up, and uninstall the service.                                          *)
(*                                                                         *)
(* Every file write truncates and then writes.                             *)
(***************************************************************************)
EXTENDS NodeIdentity, Schema, SequencesExt

CONSTANTS
    Runs,       \* `serve` processes, numbered in the order they start
    Backups,    \* commands that resolve the identity for a backup or a link request
    Firsts,     \* callers that resolve the identity to serve with it
    Probes,     \* `node service status` commands
    Patches,    \* PATCH /v1/config requests
    Patch,      \* Patch[q]: the raw value of each leaf the request names
    Leaves,     \* the configuration leaves a patch may name
    Base,       \* Base[l]: the value of the base configuration
    Default,    \* Default[l]: what null stands for
    Env,        \* Env[l]: the value an environment variable gives, or None
    Bad,        \* a raw value of the wrong type
    Null,       \* the raw value null
    Clear,      \* the overlay's sentinel for a cleared limit
    Faults,     \* names of the things that may go wrong
    Workloads   \* what happens in one instance

VARIABLES
    load,       \* the workload
    budget,     \* how often each fault may still happen
    svc,        \* the service unit and the uninstall command
    manifest,   \* control.json: the run it names
    token,      \* control.token: the run whose token it holds
    overlay,    \* config.override.toml
    schema,     \* the schema of the database
    applied,    \* seaql_migrations: the versions that are recorded
    run,        \* run[r]: the state of a serve process
    patch,      \* patch[q]: the state of a request's handler
    probe,      \* probe[c]: the state of a status command
    written,    \* history: the patches whose overlay was written, in order
    damaged     \* history: an overlay write was cut by a crash or left by its client

dbVars == <<schema, applied>>
ctlVars == <<load, budget, svc, manifest, token, overlay, dbVars, run, patch, probe, written, damaged>>
vars == <<idVars, ctlVars>>

-----------------------------------------------------------------------------
(* Configuration.                                                          *)

NoOverlay == [l \in Leaves |-> None]

\* read_overlay and figment: no file and an empty file are an empty overlay.
ReadOverlay == IF overlay \in {None, Empty} THEN NoOverlay ELSE overlay

\* serve_config_figment: base, then overlay, then environment.
Effective(o) ==
    [l \in Leaves |-> IF Env[l] # None THEN Env[l]
                      ELSE IF o[l] # None THEN o[l] ELSE Base[l]]

Named(q) == DOMAIN Patch[q]

\* The parse_*_or_default functions.
Parsed(l, raw) == IF raw = Null THEN Default[l] ELSE raw
Parses(q) == \A l \in Named(q) : Patch[q][l] # Bad

PatchReplace(o, q) == [l \in Leaves |-> IF l \in Named(q) THEN Parsed(l, Patch[q][l]) ELSE None]

\* patch_config on an overlay it has read: the leaves it names, the rest kept.
Patched(o, q) == [l \in Leaves |-> IF l \in Named(q) THEN Parsed(l, Patch[q][l]) ELSE o[l]]

\* leaf_changed for the leaves the patch names.
AppliedPaths(q, before, after) == {l \in Named(q) : before[l] # after[l]}

-----------------------------------------------------------------------------
Quiet == [pc |-> "off", state |-> "Starting", seen |-> None, listening |-> FALSE,
          woken |-> FALSE, snapshot |-> None, config |-> None,
          signalled |-> FALSE, lock |-> None, refused |-> FALSE,
          todo |-> << >>, step |-> 0, tx |-> None, failed |-> FALSE]

NoHandler == [pc |-> "idle", run |-> None, before |-> None, next |-> None,
              restart |-> FALSE, reply |-> None]

NoProbe == [pc |-> "idle", at |-> None, token |-> None, control |-> None, answer |-> None]

Gone(r) == run[r].pc \in {"exited", "crashed"}
Alive(r) == run[r].pc # "off" /\ ~Gone(r)
Live == {r \in Runs : Alive(r)}

\* The control API answers from the moment its task runs until it is told to stop.
Serving(r) == Alive(r) /\ run[r].listening /\ ~run[r].woken

Handlers(r) == {q \in Patches : patch[q].run = r /\ patch[q].pc \notin {"done", "orphan"}}
Orphans(r) == {q \in Patches : patch[q].run = r /\ patch[q].pc = "orphan"}

Spend(f) == budget[f] > 0 /\ budget' = [budget EXCEPT ![f] = @ - 1]

Init ==
    /\ IdInit
    /\ load \in Workloads
    /\ budget = load.faults
    /\ svc = [unit |-> TRUE, manifest |-> TRUE, uninstall |-> "idle", stopped |-> FALSE]
    /\ manifest = None
    /\ token = None
    /\ overlay = None
    /\ schema = LeftBy(load.release)
    /\ applied = 1 .. load.release
    /\ run = [r \in Runs |-> Quiet]
    /\ patch = [q \in Patches |-> NoHandler]
    /\ probe = [c \in Probes |-> NoProbe]
    /\ written = << >>
    /\ damaged = FALSE

-----------------------------------------------------------------------------
(* A serve process.                                                        *)

RunGoto(r, pc) == run' = [run EXCEPT ![r].pc = pc]
OnlyRun == UNCHANGED <<idVars, load, budget, svc, manifest, token, overlay, dbVars, patch, probe, written, damaged>>

\* The manager starts the next process: the first one, and another after a
\* process is gone (Restart=on-failure, or `service start`).  The process
\* reads its configuration once, and then probes the identity.  Nobody starts
\* a service that is being uninstalled.
Start(r) ==
    /\ run[r].pc = "off" /\ r \in load.runs
    /\ svc.unit /\ ~svc.stopped
    /\ \A s \in load.runs : s < r => Gone(s)
    /\ run' = [run EXCEPT ![r].pc = "probing", ![r].config = Effective(ReadOverlay)]
    /\ Resolve(r, "probe")
    /\ UNCHANGED <<kek, idfile, load, budget, svc, manifest, token, overlay, dbVars, patch, probe, written, damaged>>

\* spawn_control_plane keeps what the probe found; an error ends the process
\* before anything is published.
Probed(r) ==
    /\ run[r].pc = "probing" /\ key[r].pc = "done"
    /\ run' = [run EXCEPT ![r].pc = IF key[r].answer = Failed THEN "exited" ELSE "token",
                          ![r].snapshot = key[r].answer]
    /\ key' = [key EXCEPT ![r] = Idle]
    /\ UNCHANGED <<kek, idfile, load, budget, svc, manifest, token, overlay, dbVars, patch, probe, written, damaged>>

\* write_runtime_files: the token, and only then the file that leads to it.
PublishOrder == [token |-> "token_write", token_write |-> "publish", publish |-> "publish_write", publish_write |-> "boot"]

Publish(r) ==
    /\ run[r].pc \in DOMAIN PublishOrder
    /\ CASE run[r].pc = "token" -> token' = Empty /\ UNCHANGED manifest
         [] run[r].pc = "token_write" -> token' = r /\ UNCHANGED manifest
         [] run[r].pc = "publish" -> manifest' = Empty /\ UNCHANGED token
         [] run[r].pc = "publish_write" -> manifest' = r /\ UNCHANGED token
    /\ RunGoto(r, PublishOrder[run[r].pc])
    /\ UNCHANGED <<idVars, load, budget, svc, overlay, dbVars, patch, probe, written, damaged>>

\* The spawned listener task runs for the first time.
Listen(r) ==
    /\ run[r].pc \notin DOMAIN PublishOrder \union {"off", "probing"}
    /\ Alive(r) /\ ~run[r].listening
    /\ run' = [run EXCEPT ![r].listening = TRUE]
    /\ OnlyRun

\* resolve_keys, the secret the node itself serves with: a static one of the
\* configuration.  `auto` without an enclave and `provider` are refused.
ServeKeys(r) == KeySource[r] = "static"

\* app_with_control up to resolve_keys; the configuration may be refused.
\* The listener has run by then unless the refusal came first.
Boot(r) ==
    /\ run[r].pc = "boot"
    /\ \/ /\ run[r].listening
          /\ run' = IF ServeKeys(r) THEN [run EXCEPT ![r].pc = "connect"]
                    ELSE [run EXCEPT ![r].pc = "closing", ![r].refused = TRUE]
          /\ UNCHANGED budget
       \/ Spend("boot") /\ RunGoto(r, "closing")
    /\ UNCHANGED <<idVars, load, svc, manifest, token, overlay, dbVars, patch, probe, written, damaged>>

\* The order of app_with_control: the tables, then the sizes read from them.
SetupOrder == [connect |-> "migrate", migrate |-> "seed", seed |-> "compose"]

\* An error of a step of app_with_control is shut down.
BootFails(r) ==
    /\ run' = [run EXCEPT ![r].pc = "closing", ![r].tx = None, ![r].failed = TRUE]
    /\ UNCHANGED dbVars

\* The migrator works in one transaction on Postgres, statement by statement on
\* SQLite.
Transactional == load.engine = "postgres"
Tables(r) == IF Transactional THEN run[r].tx.schema ELSE schema
Recorded(r) == IF Transactional THEN run[r].tx.applied ELSE applied

\* Migrator::up looks for the versions that are not recorded.
Connect(r) ==
    /\ run[r].pc = "connect"
    /\ run' = [run EXCEPT ![r].pc = SetupOrder["connect"],
                          ![r].todo = SelectSeq([v \in Versions |-> v], LAMBDA v : v \notin applied),
                          ![r].tx = IF Transactional THEN [schema |-> schema, applied |-> applied] ELSE None]
    /\ OnlyRun

\* What the migrator has done so far is s and versions; what is left is todo.
Progress(r, s, versions, todo, step) ==
    /\ run' = [run EXCEPT ![r].todo = todo, ![r].step = step,
                          ![r].tx = IF Transactional THEN [schema |-> s, applied |-> versions] ELSE None]
    /\ IF Transactional THEN UNCHANGED dbVars ELSE schema' = s /\ applied' = versions

RecordFirst(r) ==
    LET v == Head(run[r].todo)
        stmts == Migrations[v]
        next == stmts[run[r].step + 1]
    IN  IF v \notin Recorded(r)
        THEN Progress(r, Tables(r), Recorded(r) \union {v}, run[r].todo, run[r].step)
        ELSE IF run[r].step = Len(stmts)
        THEN Progress(r, Tables(r), Recorded(r), Tail(run[r].todo), 0)
        ELSE IF Fails(load.engine, next, Tables(r)) THEN BootFails(r)
        ELSE Progress(r, Effect(next, Tables(r)), Recorded(r), run[r].todo, run[r].step + 1)

\* A migration's statements one after the other, then its version.
MigrateNext(r) ==
    LET v == Head(run[r].todo)
        stmts == Migrations[v]
        next == stmts[run[r].step + 1]
    IN  IF run[r].step = Len(stmts)
        THEN Progress(r, Tables(r), Recorded(r) \union {v}, Tail(run[r].todo), 0)
        ELSE IF Fails(load.engine, next, Tables(r)) THEN BootFails(r)
        ELSE Progress(r, Effect(next, Tables(r)), Recorded(r), run[r].todo, run[r].step + 1)

\* TinyCloud::new.
Migrate(r) ==
    /\ run[r].pc = "migrate"
    /\ IF run[r].todo # << >> THEN MigrateNext(r)
       ELSE /\ run' = [run EXCEPT ![r].pc = SetupOrder["migrate"], ![r].tx = None]
            /\ schema' = Tables(r) /\ applied' = Recorded(r)
    /\ UNCHANGED <<idVars, load, budget, svc, manifest, token, overlay, patch, probe, written, damaged>>

\* seed_from: the sizes of the artifacts.
Seedable(s) ==
    "database_artifact" \in DOMAIN s /\ {"service", "space", "name", "size_bytes"} \subseteq s["database_artifact"]

Seed(r) ==
    /\ run[r].pc = "seed"
    /\ IF Seedable(schema) THEN RunGoto(r, SetupOrder["seed"]) /\ UNCHANGED dbVars ELSE BootFails(r)
    /\ UNCHANGED <<idVars, load, budget, svc, manifest, token, overlay, patch, probe, written, damaged>>

\* The rest of app_with_control: the services over the database, the self-check
\* of the shares, the dispatcher and its tasks, the staging area.
Compose(r) ==
    /\ run[r].pc = "compose"
    /\ \/ RunGoto(r, "launch") /\ UNCHANGED budget
       \/ Spend("boot") /\ RunGoto(r, "closing")
    /\ UNCHANGED <<idVars, load, svc, manifest, token, overlay, dbVars, patch, probe, written, damaged>>

\* ignite and launch: an error of ignite leaves at once, an error of launch is
\* shut down after the link and tunnel tasks.
Launch(r) ==
    /\ run[r].pc = "launch"
    /\ \/ RunGoto(r, "liftoff") /\ UNCHANGED budget
       \/ Spend("ignite") /\ RunGoto(r, "exited")
       \/ Spend("bind") /\ RunGoto(r, "draining")
    /\ UNCHANGED <<idVars, load, svc, manifest, token, overlay, dbVars, patch, probe, written, damaged>>

\* on_liftoff: mark_running loads the state ...
LoadState(r) ==
    /\ run[r].pc = "liftoff"
    /\ run' = [run EXCEPT ![r].pc = "marking", ![r].seen = run[r].state]
    /\ OnlyRun

\* ... and stores Running when it saw Starting.
MarkRunning(r) ==
    /\ run[r].pc = "marking"
    /\ run' = [run EXCEPT ![r].pc = "up",
                          ![r].state = IF run[r].seen = "Starting" THEN "Running" ELSE @]
    /\ OnlyRun

\* wait_for_shutdown_signal, a task of its own: mark_stopping, then Rocket's
\* shutdown.  Before its handlers are installed a signal kills the process.
Signal(r) ==
    /\ run[r].pc \in {"liftoff", "marking", "up"} /\ ~run[r].signalled
    /\ Spend("signal")
    /\ run' = [run EXCEPT ![r].state = "Stopping", ![r].signalled = TRUE]
    /\ UNCHANGED <<idVars, load, svc, manifest, token, overlay, dbVars, patch, probe, written, damaged>>

\* Rocket shuts down: the on_shutdown fairing marks the state again.
Shutdown(r) ==
    /\ run[r].pc = "up" /\ run[r].signalled
    /\ run' = [run EXCEPT ![r].pc = "draining", ![r].state = "Stopping"]
    /\ OnlyRun

\* The link and tunnel tasks have drained (see NodeLink, TunnelSession).
Drained(r) ==
    /\ run[r].pc = "draining"
    /\ RunGoto(r, "closing")
    /\ OnlyRun

\* ControlPlaneServer::shutdown: mark_stopping, notify_waiters - which wakes
\* the listener only when its task has reached `notified()`.
Close(r) ==
    /\ run[r].pc = "closing"
    /\ run' = [run EXCEPT ![r].pc = "joining", ![r].state = "Stopping",
                          ![r].woken = run[r].listening]
    /\ OnlyRun

\* The listener's task ends when it was woken and its handlers are done.
Join(r) ==
    /\ run[r].pc = "joining" /\ run[r].woken /\ Handlers(r) = {}
    /\ RunGoto(r, "unpublish")
    /\ OnlyRun

\* cleanup_runtime_files: control.json first, then the token.  The process
\* ends when the writes its blocking threads have begun are done.
Unpublish(r) ==
    /\ run[r].pc \in {"unpublish", "untoken"}
    /\ \/ run[r].pc = "unpublish" /\ manifest' = None /\ UNCHANGED token /\ RunGoto(r, "untoken")
       \/ run[r].pc = "untoken" /\ Orphans(r) = {}
          /\ token' = None /\ UNCHANGED manifest /\ RunGoto(r, "exited")
    /\ UNCHANGED <<idVars, load, budget, svc, overlay, dbVars, patch, probe, written, damaged>>

\* The process dies: its files stay as they are, its handlers end.
Crash(r) ==
    /\ Alive(r)
    /\ Spend("crash")
    /\ RunGoto(r, "crashed")
    /\ key' = [key EXCEPT ![r] = Idle]
    /\ patch' = [q \in Patches |-> IF q \in Handlers(r)
                                        \union Orphans(r)
                                   THEN [patch[q] EXCEPT !.pc = "done"] ELSE patch[q]]
    /\ damaged' = (damaged \/ \E q \in Handlers(r) : patch[q].pc = "write")
    /\ UNCHANGED <<kek, idfile, load, svc, manifest, token, overlay, dbVars, probe, written>>

-----------------------------------------------------------------------------
(* PATCH /v1/config.                                                       *)

OnlyPatch == UNCHANGED <<idVars, load, budget, svc, manifest, token, dbVars, probe>>

Release(r) == run' = [run EXCEPT ![r].lock = None]
Reply(q, a) == patch' = [patch EXCEPT ![q].pc = "done", ![q].reply = a]
Refused == [ok |-> FALSE]

\* The request arrives; keys nobody knows are refused before the lock.
Arrive(q) ==
    /\ patch[q].pc = "idle" /\ q \in load.patches
    /\ \E r \in Runs :
        /\ Serving(r)
        /\ patch' = [patch EXCEPT ![q] = IF Named(q) \subseteq Leaves
                                         THEN [@ EXCEPT !.pc = "lock", !.run = r]
                                         ELSE [@ EXCEPT !.pc = "done", !.run = r, !.reply = Refused]]
    /\ OnlyPatch /\ UNCHANGED <<overlay, run, written, damaged>>

\* overlay_lock, one handler at a time.
Exclusive(q) == run[patch[q].run].lock = None

\* Under the lock: the effective configuration and the overlay are read, and
\* every leaf is parsed before anything is written.  The effective
\* configuration includes a probe of the identity, whose error ends the patch.
Prepare(q) ==
    /\ patch[q].pc = "lock"
    /\ Exclusive(q)
    /\ IF ProbeNow(patch[q].run) # Failed /\ Parses(q)
       THEN LET next == Patched(ReadOverlay, q)
            IN  /\ patch' = [patch EXCEPT ![q].pc = "truncate",
                                          ![q].before = Effective(ReadOverlay),
                                          ![q].next = next,
                                          ![q].restart = next # ReadOverlay]
                /\ run' = [run EXCEPT ![patch[q].run].lock = q]
       ELSE Reply(q, Refused) /\ UNCHANGED run
    /\ OnlyPatch /\ UNCHANGED <<overlay, written, damaged>>

\* write_overlay: the blocking write creates the file and then fills it.
Truncate(q) ==
    /\ patch[q].pc = "truncate"
    /\ overlay' = Empty
    /\ patch' = [patch EXCEPT ![q].pc = "write"]
    /\ OnlyPatch /\ UNCHANGED <<run, written, damaged>>

WriteOverlay(q) ==
    /\ patch[q].pc = "write"
    /\ overlay' = patch[q].next
    /\ written' = Append(written, q)
    /\ patch' = [patch EXCEPT ![q].pc = "reply"]
    /\ OnlyPatch /\ UNCHANGED <<run, damaged>>

\* The effective configuration is read again and the lock goes with the
\* handler.  An error here answers 500 although the overlay was written.
Answered(q) ==
    /\ patch[q].pc = "reply"
    /\ LET after == Effective(ReadOverlay)
       IN  Reply(q, IF ProbeNow(patch[q].run) = Failed THEN Refused
                    ELSE [ok |-> TRUE, config |-> after, restart |-> patch[q].restart,
                          applied |-> AppliedPaths(q, patch[q].before, after)])
    /\ Release(patch[q].run)
    /\ OnlyPatch /\ UNCHANGED <<overlay, written, damaged>>

AbandonHolding(q) ==
    /\ patch[q].pc \in {"lock", "truncate", "write", "reply"}
    /\ Spend("abandon")
    /\ LET begun == patch[q].pc = "write"
       IN  /\ patch' = [patch EXCEPT ![q].pc = IF begun THEN "orphan" ELSE "done"]
           /\ damaged' = (damaged \/ begun)
    /\ UNCHANGED <<idVars, load, svc, manifest, token, overlay, dbVars, run, probe, written>>

\* The client goes away: the handler is dropped and its lock with it.  A
\* write that has begun runs on its own thread to its end.
Abandon(q) ==
    /\ patch[q].pc \in {"lock", "truncate", "write", "reply"}
    /\ Spend("abandon")
    /\ LET begun == patch[q].pc = "write"
       IN  /\ patch' = [patch EXCEPT ![q].pc = IF begun THEN "orphan" ELSE "done"]
           /\ damaged' = (damaged \/ begun)
    /\ IF patch[q].pc = "lock" THEN UNCHANGED run ELSE Release(patch[q].run)
    /\ UNCHANGED <<idVars, load, svc, manifest, token, overlay, dbVars, probe, written>>

OrphanWrite(q) ==
    /\ patch[q].pc = "orphan"
    /\ overlay' = patch[q].next
    /\ written' = Append(written, q)
    /\ patch' = [patch EXCEPT ![q].pc = "done"]
    /\ OnlyPatch /\ UNCHANGED <<run, damaged>>

-----------------------------------------------------------------------------
(* Commands.                                                               *)

OnlyProbe == UNCHANGED <<idVars, load, budget, svc, manifest, token, overlay, dbVars, run, patch, written, damaged>>
Unavailable == [available |-> FALSE, run |-> None, state |-> None, did |-> None]
ProbeTo(c, pc, control) == probe' = [probe EXCEPT ![c].pc = pc, ![c].control = control]

\* probe_control_api: control.json ...
ReadManifest(c) ==
    /\ probe[c].pc = "idle" /\ c \in load.probes /\ svc.manifest
    /\ IF manifest \in {None, Empty} THEN ProbeTo(c, "manager", Unavailable)
       ELSE probe' = [probe EXCEPT ![c].pc = "token", ![c].at = manifest]
    /\ OnlyProbe

\* ... the token it leads to ...
ReadToken(c) ==
    /\ probe[c].pc = "token"
    /\ IF token = None THEN ProbeTo(c, "manager", Unavailable)
       ELSE probe' = [probe EXCEPT ![c].pc = "ask", ![c].token = token]
    /\ OnlyProbe

\* ... and the status: nobody listens on the port of a process that is gone,
\* and auth_middleware answers 401 to another token.
AskStatus(c) ==
    /\ probe[c].pc = "ask"
    /\ LET r == probe[c].at
       IN  ProbeTo(c, "manager",
                   IF ~Serving(r) THEN Unavailable
                   ELSE IF probe[c].token # r THEN [Unavailable EXCEPT !.state = "unauthorised"]
                   ELSE [available |-> TRUE, run |-> r, state |-> run[r].state, did |-> run[r].snapshot])
    /\ OnlyProbe

\* derive_state: the manager is asked after the control API.  A process
\* younger than 30 seconds is said to be starting, an older one in error.
DeriveState(c) ==
    /\ probe[c].pc = "manager"
    /\ \E young \in BOOLEAN :
        probe' = [probe EXCEPT ![c].pc = "done", ![c].answer =
            CASE ~svc.unit /\ ~svc.manifest -> [state |-> "NotInstalled", pid |-> None]
              [] Live = {} -> [state |-> "Stopped", pid |-> None]
              [] probe[c].control.available -> [state |-> probe[c].control.state, pid |-> CHOOSE r \in Live : TRUE]
              [] OTHER -> [state |-> IF young THEN "Starting" ELSE "Error", pid |-> CHOOSE r \in Live : TRUE]]
    /\ OnlyProbe

\* `node key backup`: resolves the identity for a backup.
StartBackup(b) ==
    /\ b \in load.backups /\ key[b] = Idle
    /\ Resolve(b, "backup")
    /\ UNCHANGED <<kek, idfile, ctlVars>>

\* A caller resolves the identity to serve with it; a new one only after the
\* one before it has answered or died.
StartFirst(f) ==
    /\ f \in load.firsts /\ key[f] = Idle
    /\ \A g \in Firsts : key[g].pc \in {"idle", "done", "dead"}
    /\ Resolve(f, "serve")
    /\ UNCHANGED <<kek, idfile, ctlVars>>

FirstDies(f) ==
    /\ key[f].pc \notin {"idle", "done", "dead"}
    /\ Spend("crash")
    /\ Die(f)
    /\ UNCHANGED <<kek, idfile, load, svc, manifest, token, overlay, dbVars, run, patch, probe, written, damaged>>

\* `node service uninstall`: stop (whose failure is ignored; the manager
\* waits for the process), disable, and the files one after the other.
\* remove_if_exists
Removed(file) == None

UninstallStep(from, to) ==
    svc.uninstall = from /\ svc' = [svc EXCEPT !.uninstall = to]

Early == {"off", "probing", "token", "token_write", "publish", "publish_write", "boot",
          "connect", "migrate", "seed", "compose", "launch"}

Uninstall ==
    \/ /\ load.uninstall
       /\ UninstallStep("idle", "stop")
       /\ UNCHANGED <<budget, manifest, token, overlay, run>>
    \/ \* systemctl stop: the signal, or an error of the manager.  A process that
       \* has no handlers yet dies of the signal, which is a Crash before this step.
       /\ svc.uninstall = "stop"
       /\ \/ /\ \A r \in Live : run[r].pc \notin Early
             /\ run' = [r \in Runs |-> IF r \in Live THEN [run[r] EXCEPT !.state = "Stopping", !.signalled = TRUE]
                                       ELSE run[r]]
             /\ svc' = [svc EXCEPT !.uninstall = "wait", !.stopped = TRUE]
             /\ UNCHANGED budget
          \/ /\ Spend("stop")
             /\ svc' = [svc EXCEPT !.uninstall = "unit"]
             /\ UNCHANGED run
       /\ UNCHANGED <<manifest, token, overlay>>
    \/ /\ Live = {}
       /\ UninstallStep("wait", "unit")
       /\ UNCHANGED <<budget, manifest, token, overlay, run>>
    \/ /\ svc.uninstall = "unit"
       /\ svc' = [svc EXCEPT !.uninstall = "manifest", !.unit = FALSE]
       /\ UNCHANGED <<budget, manifest, token, overlay, run>>
    \/ /\ svc.uninstall = "manifest"
       /\ svc' = [svc EXCEPT !.uninstall = "control", !.manifest = FALSE]
       /\ UNCHANGED <<budget, manifest, token, overlay, run>>
    \/ /\ UninstallStep("control", "token")
       /\ manifest' = Removed(manifest)
       /\ UNCHANGED <<budget, token, overlay, run>>
    \/ /\ UninstallStep("token", "overlay")
       /\ token' = Removed(token)
       /\ UNCHANGED <<budget, manifest, overlay, run>>
    \/ /\ UninstallStep("overlay", "done")
       /\ overlay' = Removed(overlay)
       /\ UNCHANGED <<budget, manifest, token, run>>

UninstallNext == Uninstall /\ UNCHANGED <<idVars, load, dbVars, patch, probe, written, damaged>>

-----------------------------------------------------------------------------
Identify(p) == IdStep(p) /\ UNCHANGED ctlVars

RunStep(r) ==
    \/ Probed(r) \/ Publish(r) \/ Listen(r) \/ Boot(r)
    \/ Connect(r) \/ Migrate(r) \/ Seed(r) \/ Compose(r) \/ Launch(r)
    \/ LoadState(r) \/ MarkRunning(r) \/ Shutdown(r) \/ Drained(r)
    \/ Close(r) \/ Join(r) \/ Unpublish(r)

PatchStep(q) ==
    Prepare(q) \/ Truncate(q) \/ WriteOverlay(q) \/ Answered(q) \/ OrphanWrite(q)

Next ==
    \/ \E r \in Runs : Start(r) \/ RunStep(r) \/ Signal(r) \/ Crash(r)
    \/ \E p \in Procs : Identify(p)
    \/ \E q \in Patches : Arrive(q) \/ PatchStep(q) \/ Abandon(q)
    \/ \E c \in Probes : ReadManifest(c) \/ ReadToken(c) \/ AskStatus(c) \/ DeriveState(c)
    \/ \E b \in Backups : StartBackup(b)
    \/ \E f \in Firsts : StartFirst(f) \/ FirstDies(f)
    \/ UninstallNext

Spec == Init /\ [][Next]_vars

\* The processes run: every task that can take a step does.
Fairness ==
    /\ \A r \in Runs : WF_vars(RunStep(r))
    /\ \A r \in Runs : WF_vars(Listen(r))
    /\ \A p \in Procs : WF_vars(Identify(p))
    /\ \A q \in Patches : WF_vars(PatchStep(q))

FairSpec == Spec /\ Fairness

-----------------------------------------------------------------------------
(* Properties.                                                             *)

TypeOK ==
    /\ IdTypeOK
    /\ manifest \in {None, Empty} \union Runs
    /\ token \in {None, Empty} \union Runs
    /\ overlay \in {None, Empty} \union [Leaves -> UNION {{Default[l], Base[l], None} : l \in Leaves}
                                         \union UNION {{Patch[q][l] : l \in Named(q)} : q \in Patches}]
    /\ \A r \in Runs : run[r].state \in {"Starting", "Running", "Stopping"}
    /\ \A r \in Runs : run[r].lock \in {None} \union Patches
    /\ Cardinality(Live) <= 1
    /\ applied \subseteq Versions

Told == {run[r].snapshot : r \in Runs} \union {key[p].answer : p \in Backups \union Firsts}

\* One data directory has one identity: whatever step a first resolution died
\* in, every later one that succeeds, every backup and every identity a node
\* reports is the same, and none of them invents one or picks up a half-stored
\* one.
OneIdentity == Cardinality(Told \intersect Procs) <= 1

\* A command that reaches a live control API holds its token: control.json and
\* control.token never lead to a process together unless they belong together.
NeverUnauthorised ==
    \A c \in Probes : probe[c].control # None => probe[c].control.state # "unauthorised"

\* What the patches written so far say about a leaf: the last one that names it.
LastWord(ws, l) ==
    LET naming == {i \in DOMAIN ws : l \in Named(ws[i])}
    IN  IF naming = {} THEN None ELSE Parsed(l, Patch[ws[Max(naming)]][l])
Expected(ws) == [l \in Leaves |-> LastWord(ws, l)]

\* Concurrent PATCH requests do not lose each other's leaves: unless a write
\* was cut or abandoned or the overlay removed, it holds for each leaf what the last patch
\* that named it asked for.
PatchesCompose ==
    (~damaged /\ svc.uninstall # "done" /\ \A q \in Patches : patch[q].pc # "write")
        => ReadOverlay = Expected(written)

\* A patch's answer describes its own change in the order the overlay was
\* written: the configuration right after it, the leaves whose effective value
\* it changed, and restartRequired whenever it changed the overlay.
AnswersInOrder ==
    \A q \in Patches :
        (~damaged /\ svc.uninstall # "done" /\ patch[q].pc = "done" /\ patch[q].reply # None /\ patch[q].reply.ok) =>
            \E i \in DOMAIN written :
                /\ written[i] = q
                /\ LET before == Expected(SubSeq(written, 1, i - 1))
                       after == Expected(SubSeq(written, 1, i))
                   IN  /\ patch[q].reply.config = Effective(after)
                       /\ patch[q].reply.applied = {l \in Leaves : Effective(before)[l] # Effective(after)[l]}
                       /\ patch[q].reply.restart = (before # after)

\* From Rocket's shutdown on the control API reports the node as stopping,
\* although the mark of the liftoff may have been stored after the signal's.
StopsReported ==
    \A r \in Runs :
        run[r].pc \in {"draining", "closing", "joining", "unpublish", "untoken"} /\ run[r].signalled
            => run[r].state = "Stopping"

\* An uninstall whose stop worked leaves no discovery file and no overlay.
UninstallClean ==
    (svc.uninstall = "done" /\ svc.stopped) => manifest = None /\ token = None /\ overlay = None

\* A node that goes on to serve finds every table its entities read, with their
\* columns: on both engines, from whatever release the database is, and
\* wherever earlier processes died (Migrator::migrations against models).
ServesOnWholeSchema ==
    \A r \in Runs :
        run[r].pc \in {"compose", "launch", "liftoff", "marking", "up"} => Complete(schema)

\* The schemas inside migration v.
Halfway ==
    [v \in Versions |-> {SchemaAfter(Statements(v - 1) \o SubSeq(Migrations[v], 1, k)) : k \in DOMAIN Migrations[v]}]

\* The database is always where the recorded migrations and the first
\* statements of the next one leave it: a crash never leaves a version
\* recorded whose statements were not run, or a migration run out of order.
RecordedIsDone ==
    LET n == Cardinality(applied)
    IN  /\ applied = 1 .. n
        /\ \/ schema = LeftBy(n)
           \/ ~Transactional /\ n < Len(Migrations) /\ schema \in Halfway[n + 1]

Repeatable(v) == \A i \in DOMAIN Migrations[v] :
    Migrations[v][i].op = "create" /\ Migrations[v][i].again

\* A fresh or an older database never keeps a node from booting.  Only a
\* process that died on SQLite inside a migration whose statements cannot be
\* repeated does (the initial tables, a renamed or an added column, an index):
\* then every later boot fails (MigrationTrait::up, seed_from).
BootFailsOnlyHalfway ==
    \A r \in Runs : run[r].failed =>
        /\ ~Transactional
        /\ \E s \in Runs :
              /\ s < r /\ run[s].pc = "crashed"
              /\ run[s].todo # << >> /\ run[s].step > 0 /\ ~Repeatable(Head(run[s].todo))

\* A signalled process ends, waiting for the handlers that hold the overlay
\* lock, and takes its discovery files with it unless it crashes on the way.
StopCleans ==
    \A r \in Runs :
        run[r].signalled ~> Gone(r) /\ (run[r].pc = "exited" => manifest # r /\ token # r)

\* Every patch whose client waits is answered.
PatchesAnswered ==
    \A q \in Patches : patch[q].pc = "lock" ~> patch[q].pc \in {"done", "orphan"}

\* Through installations, boots, stops and crashes a data directory has one
\* identity, and its discovery files never mislead.
ControlSound == TypeOK /\ OneIdentity /\ NeverUnauthorised /\ StopsReported /\ UninstallClean

\* Concurrent patches compose, and each is answered with its own change.
PatchesSound == PatchesCompose /\ AnswersInOrder

\* The migrations leave a whole schema, wherever earlier processes died.
SchemaSound == ServesOnWholeSchema /\ RecordedIsDone /\ BootFailsOnlyHalfway

\* A signalled process stops and cleans up, and no patch is left waiting.
ControlEnds == StopCleans /\ PatchesAnswered

=============================================================================
