-------------------------- MODULE DatabaseService --------------------------
(***************************************************************************)
(* One database of the SQL or the DuckDB service: SqlService and           *)
(* DuckDbService with the actor of {sql,duckdb}/database.rs and the        *)
(* artifacts of database_artifacts.rs.                                     *)
(*                                                                         *)
(* The durable copy of a database is its artifact, a blob in the node's    *)
(* own database.  It is copied to a cache file when no actor serves the    *)
(* database; an actor then opens the file, or an empty in-memory database  *)
(* if there is none, and executes the statements it is sent.  A write is   *)
(* answered once the whole database has been exported and saved.           *)
(*                                                                         *)
(* The content of a database is the set of the requests that wrote to it,  *)
(* all to one table.  A cache file stands for the file with its write-     *)
(* ahead log; a file that is removed or replaced lives on for the actor    *)
(* that has it open.  Opening a database is one step, and so is writing a  *)
(* temporary file.                                                         *)
(***************************************************************************)
EXTENDS Naturals, FiniteSets

CONSTANTS
    Requests,       \* requests to this database
    Kind,           \* Kind[r]: "write" (one statement), "batch", "read", "export" or "import"
    Workloads,      \* sets of requests, the service they come to, and whether they overlap
    Threshold,      \* an in-memory database with more content moves to a file
    MaxActors,      \* bound on actors that exist together
    MaxFiles,       \* bound on cache files that exist together
    MaxFaults,      \* bound on failures and restarts
    None            \* no artifact, or no file

ASSUME ServiceAssumption ==
    /\ Kind \in [Requests -> {"write", "batch", "read", "export", "import"}]
    /\ Workloads \subseteq [service : {"sql", "duckdb"}, requests : SUBSET Requests, overlap : BOOLEAN]
    /\ \A w \in Workloads : w.service = "sql" => \A r \in w.requests : Kind[r] # "import"
    /\ \A n \in {Threshold, MaxActors, MaxFiles, MaxFaults} : n \in Nat
    /\ \A content \in SUBSET Requests : content # None

VARIABLES
    load,       \* the workload; it never changes
    artifact,   \* the durable row
    path,       \* the file the cache path names, 0 if there is none
    staged,     \* content of the temporary file next to it
    disk,       \* disk[f]: content of file f, also of one no longer named
    table,      \* databases: the actor registered for the database, 0 if none
    status,     \* status[a] of an actor
    file,       \* file[a]: the file it has open, 0 for memory
    mem,        \* mem[a]: content of an in-memory database
    pc,         \* where a request is
    handle,     \* the actor it talks to
    retried,    \* it has met a dead actor before
    payload,    \* what it loaded or exported
    existed,    \* whether save found a row
    answer,     \* outcome
    seen,       \* what a read or an export returned
    expected,   \* history: what the acknowledged requests leave
    faults      \* failures so far

actorVars == <<status, file, mem>>
local == <<handle, retried, payload, existed>>
vars == <<load, artifact, path, staged, disk, table, actorVars, pc, local, answer, seen, expected, faults>>

Actors == 1..MaxActors
Files == 1..MaxFiles
Idle == {"idle", "done"}

\* SQL: an execution meets a dead actor and starts another.
Respawns == load.service = "sql"

\* A free file or actor; which one does not matter.
Any(S) == CHOOSE n \in S : TRUE

Init ==
    /\ load \in Workloads
    /\ artifact = None
    /\ path = 0
    /\ staged = None
    /\ disk = [f \in Files |-> {}]
    /\ table = 0
    /\ status = [a \in Actors |-> "gone"]
    /\ file = [a \in Actors |-> 0]
    /\ mem = [a \in Actors |-> {}]
    /\ pc = [r \in Requests |-> IF r \in load.requests THEN "idle" ELSE "done"]
    /\ handle = [r \in Requests |-> 0]
    /\ retried = [r \in Requests |-> FALSE]
    /\ payload = [r \in Requests |-> None]
    /\ existed = [r \in Requests |-> FALSE]
    /\ answer = [r \in Requests |-> "none"]
    /\ seen = [r \in Requests |-> {}]
    /\ expected = {}
    /\ faults = 0

-----------------------------------------------------------------------------
Goto(r, label) ==
    /\ pc' = [pc EXCEPT ![r] = label]
    /\ UNCHANGED <<answer, seen, expected>>

Done(r, outcome) ==
    /\ pc' = [pc EXCEPT ![r] = "done"]
    /\ answer' = [answer EXCEPT ![r] = outcome]
    /\ handle' = [handle EXCEPT ![r] = 0]
    /\ payload' = [payload EXCEPT ![r] = None]
    /\ UNCHANGED <<retried, existed>>

Fail(r) == Done(r, "error") /\ UNCHANGED <<seen, expected>>

Answer(r, content) ==
    /\ Done(r, "ok")
    /\ seen' = [seen EXCEPT ![r] = content]
    /\ UNCHANGED expected

Fault == faults < MaxFaults /\ faults' = faults + 1

(***************************************************************************)
(* A request arrives and looks for a live actor; an import does not.       *)
(***************************************************************************)
Look(r) ==
    /\ pc[r] = "idle"
    /\ ~load.overlap => \A q \in Requests : pc[q] \in Idle
    /\ Goto(r, IF Kind[r] = "import" THEN "stage" ELSE IF table = 0 THEN "load" ELSE "send")
    /\ handle' = [handle EXCEPT ![r] = IF Kind[r] = "import" THEN 0 ELSE table]
    /\ payload' = [payload EXCEPT ![r] = IF Kind[r] = "import" THEN {r} ELSE None]
    /\ UNCHANGED <<artifact, path, staged, disk, table, actorVars, retried, existed, faults>>

(***************************************************************************)
(* hydrate_cache, or a cold export: load the artifact, remove the cache    *)
(* files (DuckDB's temporary file is one of them), write the artifact to   *)
(* the temporary file and rename that to the path.                         *)
(***************************************************************************)
Load(r) ==
    /\ pc[r] = "load"
    /\ IF Kind[r] = "export" /\ artifact = None
       THEN Fail(r)
       ELSE /\ Goto(r, "clean")
            /\ payload' = [payload EXCEPT ![r] = artifact]
            /\ UNCHANGED <<handle, retried, existed>>
    /\ UNCHANGED <<artifact, path, staged, disk, table, actorVars, faults>>

Clean(r) ==
    /\ pc[r] = "clean"
    /\ path' = 0
    /\ staged' = IF Respawns THEN staged ELSE None
    /\ Goto(r, IF payload[r] = None THEN "enter" ELSE "stage")
    /\ UNCHANGED <<artifact, disk, table, actorVars, local, faults>>

Stage(r) ==
    /\ pc[r] = "stage"
    /\ staged' = payload[r]
    /\ Goto(r, "rename")
    /\ UNCHANGED <<artifact, path, disk, table, actorVars, local, faults>>

FreeFiles == {f \in Files : f # path /\ \A a \in Actors : status[a] = "live" => file[a] # f}

NewFile(content) ==
    /\ FreeFiles # {}
    /\ path' = Any(FreeFiles)
    /\ disk' = [disk EXCEPT ![path'] = content]

(***************************************************************************)
(* Two requests may share the temporary file.  Whoever comes second finds  *)
(* it gone and fails; an import has opened it before, and DuckDB creates   *)
(* an empty database when there is none to open.                           *)
(***************************************************************************)
Rename(r) ==
    /\ pc[r] = "rename"
    /\ IF staged = None /\ Kind[r] # "import"
       THEN Fail(r) /\ UNCHANGED <<path, disk>>
       ELSE /\ NewFile(IF staged = None THEN {} ELSE staged)
            /\ IF Kind[r] = "export" THEN Answer(r, payload[r])
               ELSE /\ Goto(r, IF Kind[r] = "import" THEN "forget" ELSE "enter")
                    /\ UNCHANGED local
    /\ staged' = None
    /\ UNCHANGED <<artifact, table, actorVars, faults>>

\* Loading or one of the file operations fails, or the import is not valid.
HydrateFails(r) ==
    /\ pc[r] \in {"load", "clean", "stage", "rename"}
    /\ Fault
    /\ Fail(r)
    /\ staged' = IF Kind[r] = "import" /\ pc[r] = "rename" THEN None ELSE staged
    /\ UNCHANGED <<artifact, path, disk, table, actorVars>>

(***************************************************************************)
(* Another request may have registered an actor meanwhile.                 *)
(***************************************************************************)
FreeActors == {a \in Actors : status[a] = "gone" /\ table # a /\ \A q \in Requests : handle[q] # a}

Enter(r) ==
    /\ pc[r] = "enter"
    /\ Goto(r, "send")
    /\ payload' = [payload EXCEPT ![r] = None]
    /\ IF table # 0
       THEN /\ handle' = [handle EXCEPT ![r] = table]
            /\ UNCHANGED <<table, status>>
       ELSE /\ FreeActors # {}
            /\ table' = Any(FreeActors)
            /\ status' = [status EXCEPT ![table'] = "starting"]
            /\ handle' = [handle EXCEPT ![r] = table']
    /\ UNCHANGED <<artifact, path, staged, disk, file, mem, retried, existed, faults>>

-----------------------------------------------------------------------------
(***************************************************************************)
(* The actor: a blocking thread that opens the database when it comes to   *)
(* run.  SQLite's is expected to open: on failure the thread dies and      *)
(* leaves its entry behind; DuckDB's removes it.                           *)
(***************************************************************************)
Open(a) ==
    /\ status[a] = "starting"
    /\ status' = [status EXCEPT ![a] = "live"]
    /\ file' = [file EXCEPT ![a] = path]
    /\ UNCHANGED <<artifact, path, staged, disk, table, mem, pc, local, answer, seen, expected, faults>>

OpenFails(a) ==
    /\ status[a] = "starting"
    /\ Fault
    /\ status' = [status EXCEPT ![a] = "gone"]
    /\ table' = IF Respawns THEN table ELSE 0
    /\ UNCHANGED <<artifact, path, staged, disk, file, mem, pc, local, answer, seen, expected>>

Waiting(a) == {r \in Requests : handle[r] = a /\ pc[r] \in {"execute", "export"}}

(***************************************************************************)
(* No message for the idle timeout, or no sender left: the loop ends, the  *)
(* entry of the database is removed, whichever actor it names, and what is *)
(* still in the channel is dropped.                                        *)
(***************************************************************************)
Stop(a) ==
    /\ status[a] = "live"
    /\ Waiting(a) = {}
    /\ status' = [status EXCEPT ![a] = "closing"]
    /\ file' = [file EXCEPT ![a] = 0]
    /\ mem' = [mem EXCEPT ![a] = {}]
    /\ UNCHANGED <<artifact, path, staged, disk, table, pc, local, answer, seen, expected, faults>>

Unregister(a) ==
    /\ status[a] = "closing"
    /\ status' = [status EXCEPT ![a] = "gone"]
    /\ table' = 0
    /\ UNCHANGED <<artifact, path, staged, disk, file, mem, pc, local, answer, seen, expected, faults>>

Content(a) == IF file[a] = 0 THEN mem[a] ELSE disk[file[a]]

\* Mutant: the SQL service starts again as often as it meets a dead actor.
SendForever(r) ==
    /\ pc[r] = "send"
    /\ IF status[handle[r]] # "gone"
       THEN /\ Goto(r, IF Kind[r] = "export" THEN "export" ELSE "execute")
            /\ UNCHANGED <<table, local>>
       ELSE /\ table' = 0
            /\ handle' = [handle EXCEPT ![r] = 0]
            /\ Goto(r, IF Kind[r] = "export" THEN "load" ELSE "again")
            /\ UNCHANGED <<retried, payload, existed>>
    /\ UNCHANGED <<artifact, path, staged, disk, actorVars, faults>>

(***************************************************************************)
(* Sending fails when the actor is gone.  The SQL service then removes the *)
(* entry and starts again, once.                                           *)
(***************************************************************************)
Send(r) ==
    /\ pc[r] = "send"
    /\ IF status[handle[r]] # "gone"
       THEN /\ Goto(r, IF Kind[r] = "export" THEN "export" ELSE "execute")
            /\ UNCHANGED <<table, local>>
       ELSE IF Respawns /\ ~retried[r]
       THEN /\ table' = 0
            /\ handle' = [handle EXCEPT ![r] = 0]
            /\ retried' = [retried EXCEPT ![r] = TRUE]
            /\ Goto(r, IF Kind[r] = "export" THEN "load" ELSE "again")
            /\ UNCHANGED <<payload, existed>>
       ELSE Fail(r) /\ UNCHANGED table
    /\ UNCHANGED <<artifact, path, staged, disk, actorVars, faults>>

\* handle() once more, for a request that met a dead actor.
LookAgain(r) ==
    /\ pc[r] = "again"
    /\ Goto(r, IF table = 0 THEN "load" ELSE "send")
    /\ handle' = [handle EXCEPT ![r] = table]
    /\ UNCHANGED <<artifact, path, staged, disk, table, actorVars, retried, payload, existed, faults>>

\* The actor drops the request with its channel.
Dropped(r) ==
    /\ pc[r] = "execute"
    /\ status[handle[r]] = "gone"
    /\ Fail(r)
    /\ UNCHANGED <<artifact, path, staged, disk, table, actorVars, faults>>

(***************************************************************************)
(* The actor executes what it is sent, one request after the other.  An    *)
(* in-memory database found above the threshold is then copied to the      *)
(* cache path.  SQLite's copy overwrites a file that is there; DuckDB's    *)
(* fails on a table that is there, and the database stays in memory.       *)
(***************************************************************************)
Promote(a, content) ==
    IF path = 0
    THEN NewFile(content) /\ file' = [file EXCEPT ![a] = path']
    ELSE IF Respawns \/ disk[path] = {}
    THEN /\ disk' = [disk EXCEPT ![path] = content]
         /\ file' = [file EXCEPT ![a] = path]
         /\ UNCHANGED <<path>>
    ELSE UNCHANGED <<path, disk, file>>

Apply(a, content) ==
    IF file[a] # 0
    THEN /\ disk' = [disk EXCEPT ![file[a]] = content]
         /\ UNCHANGED <<path, file, mem>>
    ELSE /\ mem' = [mem EXCEPT ![a] = content]
         /\ IF Cardinality(content) > Threshold THEN Promote(a, content)
            ELSE UNCHANGED <<path, disk, file>>

Execute(r) ==
    LET a == handle[r] IN
    /\ pc[r] = "execute"
    /\ status[a] = "live"
    /\ IF Kind[r] = "read"
       THEN Apply(a, Content(a)) /\ Answer(r, Content(a))
       ELSE Apply(a, Content(a) \cup {r}) /\ Goto(r, "export") /\ UNCHANGED local
    /\ UNCHANGED <<artifact, staged, table, status, faults>>

(***************************************************************************)
(* A statement fails.  Of several, a batch or a statement with its schema  *)
(* statements (Kind "batch"), the earlier ones stay applied.               *)
(***************************************************************************)
StatementFails(r) ==
    LET a == handle[r] IN
    /\ pc[r] = "execute"
    /\ status[a] = "live"
    /\ Fault
    /\ Fail(r)
    /\ IF Kind[r] = "batch" /\ file[a] # 0
       THEN disk' = [disk EXCEPT ![file[a]] = @ \cup {r}] /\ UNCHANGED mem
       ELSE IF Kind[r] = "batch"
       THEN mem' = [mem EXCEPT ![a] = @ \cup {r}] /\ UNCHANGED disk
       ELSE UNCHANGED <<disk, mem>>
    /\ UNCHANGED <<artifact, path, staged, table, status, file>>

(***************************************************************************)
(* Export.  The SQL actor copies the database it has open; DuckDB's reads  *)
(* back what is at the cache path if it is file-backed.                    *)
(***************************************************************************)
Exportable(a) == IF file[a] = 0 \/ Respawns THEN Content(a) ELSE disk[path]

Export(r) ==
    LET a == handle[r] IN
    /\ pc[r] = "export"
    /\ status[a] = "live"
    /\ Respawns \/ file[a] = 0 \/ path # 0
    /\ IF Kind[r] = "export" THEN Answer(r, Exportable(a))
       ELSE /\ payload' = [payload EXCEPT ![r] = Exportable(a)]
            /\ Goto(r, "find")
            /\ UNCHANGED <<handle, retried, existed>>
    /\ UNCHANGED <<artifact, path, staged, disk, table, actorVars, faults>>

(***************************************************************************)
(* The actor is gone, or has lost its file: the export of a write fails    *)
(* and local state is discarded, the entry first, then the files.          *)
(***************************************************************************)
ExportFails(r) ==
    LET a == handle[r] IN
    /\ pc[r] = "export"
    /\ \/ status[a] = "gone"
       \/ status[a] = "live" /\ ~Respawns /\ file[a] # 0 /\ path = 0
    /\ IF Kind[r] = "export" THEN Fail(r) /\ UNCHANGED table
       ELSE Goto(r, "discard") /\ table' = 0 /\ UNCHANGED local
    /\ UNCHANGED <<artifact, path, staged, disk, actorVars, faults>>

Discard(r) ==
    /\ pc[r] = "discard"
    /\ path' = 0
    /\ staged' = IF Respawns THEN staged ELSE None
    /\ Fail(r)
    /\ UNCHANGED <<artifact, disk, table, actorVars, faults>>

-----------------------------------------------------------------------------
(***************************************************************************)
(* save: look for the row, then update it or insert it.  Two inserts       *)
(* collide.  From here on an import owes nothing to what was there before. *)
(***************************************************************************)
FindRow(r) ==
    /\ pc[r] = "find"
    /\ existed' = [existed EXCEPT ![r] = artifact # None]
    /\ Goto(r, "save")
    /\ UNCHANGED <<artifact, path, staged, disk, table, actorVars, handle, retried, payload, faults>>

\* Mutant: the row is inserted and never updated.
SaveOnce(r) ==
    /\ pc[r] = "save"
    /\ existed[r] \/ artifact = None
    /\ artifact' = IF existed[r] THEN artifact ELSE payload[r]
    /\ pc' = [pc EXCEPT ![r] = "reply"]
    /\ expected' = IF Kind[r] = "import" THEN {} ELSE expected
    /\ UNCHANGED <<path, staged, disk, table, actorVars, local, answer, seen, faults>>

Save(r) ==
    /\ pc[r] = "save"
    /\ existed[r] \/ artifact = None
    /\ artifact' = payload[r]
    /\ pc' = [pc EXCEPT ![r] = "reply"]
    /\ expected' = IF Kind[r] = "import" THEN {} ELSE expected
    /\ UNCHANGED <<path, staged, disk, table, actorVars, local, answer, seen, faults>>

SaveFails(r) ==
    /\ pc[r] = "save"
    /\ IF existed[r] \/ artifact = None THEN Fault ELSE UNCHANGED faults
    /\ table' = 0
    /\ Goto(r, "discard")
    /\ UNCHANGED <<artifact, path, staged, disk, actorVars, local>>

Acknowledge(r) ==
    /\ pc[r] = "reply"
    /\ Done(r, "ok")
    /\ expected' = expected \cup {r}
    /\ UNCHANGED <<artifact, path, staged, disk, table, actorVars, seen, faults>>

(***************************************************************************)
(* import_db (DuckDB): once the file is in place the actor is forgotten,   *)
(* then the artifact is saved.                                             *)
(***************************************************************************)
ImportForget(r) ==
    /\ pc[r] = "forget"
    /\ table' = 0
    /\ Goto(r, "find")
    /\ UNCHANGED <<artifact, path, staged, disk, actorVars, local, faults>>

-----------------------------------------------------------------------------
(***************************************************************************)
(* The process stops and starts again; artifact and files stay.            *)
(***************************************************************************)
Restart ==
    /\ Fault
    /\ table' = 0
    /\ status' = [a \in Actors |-> "gone"]
    /\ file' = [a \in Actors |-> 0]
    /\ mem' = [a \in Actors |-> {}]
    /\ pc' = [r \in Requests |-> IF pc[r] \in Idle THEN pc[r] ELSE "done"]
    /\ answer' = [r \in Requests |-> IF pc[r] \in Idle THEN answer[r] ELSE "crashed"]
    /\ handle' = [r \in Requests |-> 0]
    /\ payload' = [r \in Requests |-> None]
    /\ UNCHANGED <<artifact, path, staged, disk, retried, existed, seen, expected>>

Finished ==
    /\ \A r \in Requests : pc[r] = "done"
    /\ UNCHANGED vars

Serve(r) ==
    \/ Look(r) \/ Load(r) \/ Clean(r) \/ Stage(r) \/ Rename(r) \/ Enter(r) \/ Send(r) \/ LookAgain(r)
    \/ Execute(r) \/ Dropped(r) \/ Export(r) \/ ExportFails(r) \/ Discard(r)
    \/ FindRow(r) \/ Save(r) \/ Acknowledge(r) \/ ImportForget(r)

Next ==
    \/ /\ UNCHANGED load
       /\ \/ \E r \in Requests : Serve(r) \/ HydrateFails(r) \/ StatementFails(r) \/ SaveFails(r)
          \/ \E a \in Actors : Open(a) \/ OpenFails(a) \/ Stop(a) \/ Unregister(a)
          \/ Restart
    \/ Finished

Spec == Init /\ [][Next]_vars

(***************************************************************************)
(* The runtime polls every request and runs every actor's thread.          *)
(***************************************************************************)
FairSpec ==
    /\ Spec
    /\ \A r \in Requests : WF_vars(UNCHANGED load /\ (Serve(r) \/ SaveFails(r)))
    /\ \A a \in Actors : /\ WF_vars(UNCHANGED load /\ (Open(a) \/ OpenFails(a)))
                       /\ WF_vars(UNCHANGED load /\ Unregister(a))

-----------------------------------------------------------------------------
Contents == SUBSET Requests

TypeOK ==
    /\ load \in Workloads
    /\ artifact = None \/ artifact \in Contents
    /\ path \in 0..MaxFiles
    /\ staged = None \/ staged \in Contents
    /\ disk \in [Files -> Contents]
    /\ table \in 0..MaxActors
    /\ status \in [Actors -> {"starting", "live", "closing", "gone"}]
    /\ file \in [Actors -> 0..MaxFiles]
    /\ mem \in [Actors -> Contents]
    /\ pc \in [Requests -> Idle \cup
              {"load", "clean", "stage", "rename", "enter", "send", "again", "execute", "export",
               "discard", "find", "save", "reply", "forget"}]
    /\ handle \in [Requests -> 0..MaxActors]
    /\ \A r \in Requests : payload[r] = None \/ payload[r] \in Contents
    /\ existed \in [Requests -> BOOLEAN] /\ retried \in [Requests -> BOOLEAN]
    /\ answer \in [Requests -> {"none", "ok", "error", "crashed"}]
    /\ \A r \in Requests : seen[r] # None /\ seen[r] \in Contents
    /\ expected \in Contents

(***************************************************************************)
(* What was acknowledged survives: it is in the durable artifact, from     *)
(* which the next actor starts (execute, save).                            *)
(***************************************************************************)
AcknowledgedIsDurable ==
    expected = {} \/ (artifact # None /\ expected \subseteq artifact)

(***************************************************************************)
(* When requests do not overlap, a read or an export returns everything    *)
(* acknowledged before, whether it meets a live actor, a dying one, an     *)
(* unrelated cache file or a restart.                                      *)
(***************************************************************************)
ReadYourWrites ==
    [][\A r \in Requests :
          ~load.overlap /\ Kind[r] \in {"read", "export"} /\ answer[r] # "ok" /\ answer'[r] = "ok"
          => expected \subseteq seen'[r]]_vars

(***************************************************************************)
(* "write must fail when durable save fails", and no request that comes    *)
(* after it sees the write, if no other was on its way meanwhile: the      *)
(* actor that executed it is forgotten with its file                       *)
(* (discard_local_state).  A request that held the actor's handle before   *)
(* does see it.                                                            *)
(***************************************************************************)
FailedWriteNotSeenLater ==
    [][\A r, w \in Requests :
          ~load.overlap /\ Kind[w] = "write" /\ answer[w] = "error" /\ w \in seen'[r]
          => w \in seen[r]]_vars

(***************************************************************************)
(* Every request is answered, overlapping or not, although actors stop by  *)
(* themselves and drop what they have not handled.                         *)
(***************************************************************************)
EveryRequestAnswered == <>(\A r \in Requests : pc[r] = "done")

(***************************************************************************)
(* A write that was answered with an error is neither durable nor in the   *)
(* database the next request is answered from, and so no later write saves *)
(* it (discard_local_state).                                               *)
(***************************************************************************)
FailedWriteForgotten ==
    \A w \in Requests :
        Kind[w] = "write" /\ answer[w] = "error" =>
            /\ artifact = None \/ w \notin artifact
            /\ \A a \in Actors : table = a /\ status[a] = "live" => w \notin Content(a)

(***************************************************************************)
(* In every state what was acknowledged is in the artifact and what failed *)
(* is not, when requests do not overlap (execute, save).                   *)
(***************************************************************************)
DurableInv == TypeOK /\ (~load.overlap => AcknowledgedIsDurable /\ FailedWriteForgotten)

(***************************************************************************)
(* Every request is answered; one that overlaps no other is answered from  *)
(* a state that has all acknowledged writes and none that failed (execute, *)
(* export).                                                                *)
(***************************************************************************)
AnswersExact == ReadYourWrites /\ FailedWriteNotSeenLater /\ EveryRequestAnswered

=============================================================================
