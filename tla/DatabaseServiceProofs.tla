----------------------- MODULE DatabaseServiceProofs -----------------------
(***************************************************************************)
(* The safety of DatabaseService for any requests, any bounds and both     *)
(* services, with failures, actors that stop and restarts, when the        *)
(* requests of a database come one after the other.                        *)
(*                                                                         *)
(* The argument.  Actors are forgotten, replaced and outlive their entry,  *)
(* but a request only ever talks to an actor that was started from the     *)
(* artifact and has executed everything saved since: whatever puts actor   *)
(* and artifact apart (a failed save, an import) takes the entry of the    *)
(* actor away first.                                                       *)
(***************************************************************************)
EXTENDS DatabaseService, TLAPS

\* First-order reasoning, unless a step names another prover.
USE Zenon

\* The requests of a workload are served one after the other.
OneAtATime == \A w \in Workloads : ~w.overlap

-----------------------------------------------------------------------------
(* The inductive invariant.                                                *)

\* What the artifact holds.
Base == IF artifact = None THEN {} ELSE artifact

\* Before a request has been executed.
Before == {"idle", "load", "clean", "stage", "rename", "enter", "send", "again", "execute", "forget"}

\* While a request talks to an actor.
Talking == {"send", "execute", "export"}

\* What no database may contain: what was not executed, and writes that failed.
Barred == {q \in Requests : pc[q] \in Before \/ (Kind[q] = "write" /\ answer[q] = "error")}

\* The actors a request talks to, or will.
Usable(a) ==
    /\ status[a] = "live"
    /\ table = a \/ \E r \in Requests : handle[r] = a /\ pc[r] \in Talking

\* The cache path names a copy of the artifact.
Backed == IF path = 0 THEN artifact = None ELSE artifact # None /\ disk[path] = artifact

Alone ==
    /\ \A q, r \in Requests : pc[q] \notin Idle /\ pc[r] \notin Idle => q = r
    /\ \A r \in Requests : pc[r] # "done" => answer[r] = "none"

ActorInv ==
    \A a \in Actors :
        /\ status[a] # "live" => file[a] = 0 /\ mem[a] = {}
        /\ status[a] = "starting" =>
              /\ Backed
              /\ \E r \in Requests :
                    handle[r] = a /\ pc[r] \in {"send", "execute"} /\ Kind[r] # "export"

\* The kinds of request that come to a place, and whether an actor is registered then.
Place(r) ==
    /\ pc[r] \in {"load", "again", "clean", "enter"} => Kind[r] # "import" /\ table = 0
    /\ pc[r] \in {"stage", "rename"} /\ Kind[r] # "import" => table = 0
    /\ pc[r] \in Talking => Kind[r] # "import" /\ handle[r] # 0 /\ table \in {0, handle[r]}
    /\ pc[r] = "execute" => Kind[r] # "export"
    /\ pc[r] = "export" => Kind[r] # "read"
    /\ pc[r] = "forget" => Kind[r] = "import"
    /\ pc[r] \in {"find", "save", "reply"} => Kind[r] \notin {"read", "export"}
    /\ pc[r] \in {"find", "save", "reply"} /\ Kind[r] = "import" => table = 0
    /\ pc[r] = "discard" => table = 0

\* A copy of the artifact on its way to the cache path.
Copy(r) ==
    /\ pc[r] \in {"clean", "stage", "rename", "enter"} /\ Kind[r] # "import" => payload[r] = artifact
    /\ pc[r] \in {"stage", "rename"} => payload[r] # None
    /\ pc[r] = "clean" /\ Kind[r] = "export" => payload[r] # None
    /\ pc[r] = "rename" => staged = payload[r]
    /\ pc[r] = "enter" => Backed /\ Kind[r] # "export"

\* A write on its way to the artifact.
Writing(r) ==
    /\ pc[r] \in {"stage", "rename", "forget"} /\ Kind[r] = "import" => payload[r] = {r}
    /\ pc[r] = "export" /\ Kind[r] # "export" => status[handle[r]] = "live"
    /\ pc[r] \in {"find", "save"} =>
          /\ payload[r] # None /\ r \in payload[r]
          /\ payload[r] \cap Barred = {}
          /\ Kind[r] = "import" \/ Base \subseteq payload[r]
    /\ pc[r] \in {"export", "find", "save", "discard"} => r \notin Base
    /\ pc[r] = "reply" => r \in Base

RequestInv == \A r \in Requests : Place(r) /\ Copy(r) /\ Writing(r)

\* What a request is answered from: all that is saved, or is being saved, and nothing that failed.
Serves(a) ==
    /\ Base \subseteq Content(a)
    /\ Content(a) \cap Barred = {}
    /\ file[a] = 0 \/ file[a] = path \/ \E r \in Requests : pc[r] = "forget"
    /\ \A r \in Requests :
          /\ pc[r] = "export" /\ Kind[r] # "export" => r \in Content(a)
          /\ pc[r] \in {"find", "save"} => payload[r] \subseteq Content(a)

ServedInv == \A a \in Actors : Usable(a) => Serves(a)

DurableBase == expected \subseteq Base /\ Base \cap Barred = {}

-----------------------------------------------------------------------------
(* Types.                                                                  *)

FileTypes ==
    /\ artifact = None \/ artifact \in Contents
    /\ path \in 0..MaxFiles
    /\ staged = None \/ staged \in Contents
    /\ disk \in [Files -> Contents]

ActorTypes ==
    /\ table \in 0..MaxActors
    /\ status \in [Actors -> {"starting", "live", "closing", "gone"}]
    /\ file \in [Actors -> 0..MaxFiles]
    /\ mem \in [Actors -> Contents]

Places == Idle \cup {"load", "clean", "stage", "rename", "enter", "send", "again", "execute",
                     "export", "discard", "find", "save", "reply", "forget"}

RequestTypes ==
    /\ pc \in [Requests -> Places]
    /\ handle \in [Requests -> 0..MaxActors]
    /\ payload \in [Requests -> Contents \cup {None}]
    /\ existed \in [Requests -> BOOLEAN] /\ retried \in [Requests -> BOOLEAN]
    /\ answer \in [Requests -> {"none", "ok", "error", "crashed"}]
    /\ seen \in [Requests -> Contents]
    /\ expected \in Contents

Types == load \in Workloads /\ FileTypes /\ ActorTypes /\ RequestTypes

IInv ==
    /\ Types
    /\ Alone
    /\ ActorInv
    /\ RequestInv
    /\ ServedInv
    /\ DurableBase

\* A new cache file is one that nobody has open.
LEMMA NewFileIsFree ==
    ASSUME Types, NEW content \in Contents, NewFile(content)
    PROVE  /\ path' \in FreeFiles /\ path' \in Files
           /\ disk' \in [Files -> Contents]
           /\ disk'[path'] = content
           /\ \A f \in Files : f # path' => disk'[f] = disk[f]
  <1>1. path' \in FreeFiles /\ path' \in Files
    BY DEF NewFile, Any, FreeFiles
  <1> QED
    BY <1>1 DEF NewFile, Types, FileTypes

\* What an execution does to the actor that serves it.
Applied(a, content) ==
    /\ Content(a)' = content
    /\ path' \in 0..MaxFiles
    /\ disk' \in [Files -> Contents]
    /\ file' \in [Actors -> 0..MaxFiles] /\ mem' \in [Actors -> Contents]
    /\ \A b \in Actors \ {a} : file'[b] = file[b] /\ mem'[b] = mem[b]
    /\ file'[a] = 0 \/ file'[a] = path' \/ (file'[a] = file[a] /\ path' = path)

LEMMA ApplySets ==
    ASSUME Types, NEW a \in Actors, NEW content \in Contents,
           \/ Apply(a, content)
           \/ file[a] = 0 /\ mem' = [mem EXCEPT ![a] = content] /\ UNCHANGED <<path, disk, file>>
    PROVE  Applied(a, content)
  <1>0. /\ path \in 0..MaxFiles /\ file \in [Actors -> 0..MaxFiles] /\ mem \in [Actors -> Contents]
        /\ disk \in [Files -> Contents] /\ Files = 1..MaxFiles /\ MaxFiles \in Nat
    BY ServiceAssumption DEF Types, FileTypes, ActorTypes, Files
  <1>1. CASE file[a] # 0
    <2>1. disk' = [disk EXCEPT ![file[a]] = content] /\ path' = path /\ file' = file /\ mem' = mem
      BY <1>1 DEF Apply
    <2>2. file[a] \in Files
      BY <1>0, <1>1, SMT
    <2> QED
      BY <1>0, <1>1, <2>1, <2>2 DEF Content, Applied
  <1>2. CASE file[a] = 0
    <2>1. mem' = [mem EXCEPT ![a] = content]
      BY <1>2 DEF Apply
    <2>2. mem' \in [Actors -> Contents] /\ mem'[a] = content /\ \A b \in Actors \ {a} : mem'[b] = mem[b]
      BY <1>0, <2>1
    <2>3. CASE UNCHANGED <<path, disk, file>>
      BY <1>0, <1>2, <2>2, <2>3 DEF Content, Applied
    <2>4. CASE NewFile(content) /\ file' = [file EXCEPT ![a] = path']
      <3>1. path' \in Files /\ disk' \in [Files -> Contents] /\ disk'[path'] = content
        BY <2>4, NewFileIsFree
      <3> QED
        BY <1>0, <2>2, <2>4, <3>1, SMT DEF Content, Applied
    <2>5. CASE /\ path # 0
               /\ disk' = [disk EXCEPT ![path] = content]
               /\ file' = [file EXCEPT ![a] = path]
               /\ path' = path
      <3>1. path \in Files
        BY <1>0, <2>5, SMT
      <3> QED
        BY <1>0, <2>2, <2>5, <3>1 DEF Content, Applied
    <2> QED
      BY <1>2, <2>3, <2>4, <2>5 DEF Apply, Promote
  <1> QED
    BY <1>1, <1>2

-----------------------------------------------------------------------------
(* The step of one request.                                                *)

\* A step of request r leaves the others alone.
Mine(r) ==
    \A q \in Requests : q # r =>
        /\ pc'[q] = pc[q] /\ handle'[q] = handle[q] /\ payload'[q] = payload[q]
        /\ answer'[q] = answer[q] /\ seen'[q] = seen[q]

\* It goes on to p, or ends with an outcome.
Goes(r, p) == Mine(r) /\ pc'[r] = p /\ UNCHANGED <<answer, seen, expected>> /\ RequestTypes'

Ends(r, outcome) == Mine(r) /\ pc'[r] = "done" /\ answer'[r] = outcome /\ RequestTypes'

LEMMA GotoGoes ==
    ASSUME Types, NEW r \in Requests, NEW p \in Places, Goto(r, p), UNCHANGED local
    PROVE  Goes(r, p) /\ UNCHANGED <<handle, payload>>
  BY DEF Types, RequestTypes, Goto, Goes, Mine, local

LEMMA DoneEnds ==
    ASSUME Types, NEW r \in Requests, NEW outcome \in {"ok", "error"}, Done(r, outcome),
           NEW c \in Contents, seen' = seen \/ seen' = [seen EXCEPT ![r] = c],
           expected' \in Contents
    PROVE  Ends(r, outcome)
  <1>1. /\ pc' = [pc EXCEPT ![r] = "done"] /\ answer' = [answer EXCEPT ![r] = outcome]
        /\ handle' = [handle EXCEPT ![r] = 0] /\ payload' = [payload EXCEPT ![r] = None]
        /\ UNCHANGED <<retried, existed>> /\ 0 \in 0..MaxActors /\ "done" \in Places
    BY ServiceAssumption, SMT DEF Done, Places, Idle
  <1> QED
    BY <1>1 DEF Types, RequestTypes, Ends, Mine

LEMMA FailEnds ==
    ASSUME Types, NEW r \in Requests, Fail(r)
    PROVE  Ends(r, "error") /\ UNCHANGED <<seen, expected>>
  <1>1. expected \in Contents /\ {} \in Contents
    BY DEF Types, RequestTypes, Contents
  <1> QED
    BY <1>1, DoneEnds DEF Fail

LEMMA AnswerEnds ==
    ASSUME Types, NEW r \in Requests, NEW c \in Contents, Answer(r, c)
    PROVE  Ends(r, "ok") /\ expected' = expected /\ seen' = [seen EXCEPT ![r] = c]
  <1>1. expected \in Contents
    BY DEF Types, RequestTypes
  <1> QED
    BY <1>1, DoneEnds DEF Answer

-----------------------------------------------------------------------------
(* What is left to show of such a step.                                    *)

\* While one request is busy the others are not.
LEMMA OthersIdle ==
    ASSUME IInv, NEW r \in Requests, Mine(r), pc[r] \notin Idle \/ \A q \in Requests : pc[q] \in Idle
    PROVE  \A q \in Requests : q # r =>
              pc[q] \in Idle /\ pc'[q] \in Idle /\ pc[q] \notin Talking /\ pc'[q] \notin Talking
  BY DEF IInv, Alone, Mine, Idle, Talking

\* Requests come one after the other, so a step looks at one request only.
LEMMA StepOf ==
    ASSUME IInv, Types', NEW r \in Requests, Mine(r),
           pc[r] \notin Idle \/ \A q \in Requests : pc[q] \in Idle,
           pc'[r] # "done" => answer'[r] = "none",
           Place(r)', Copy(r)', Writing(r)', ActorInv', ServedInv', DurableBase'
    PROVE  IInv'
  <1>1. \A q \in Requests : q # r => pc[q] \in Idle /\ pc'[q] \in Idle
    BY OthersIdle
  <1>2. Alone'
    BY <1>1 DEF IInv, Alone, Mine
  <1>3. ASSUME NEW q \in Requests, q # r PROVE Place(q)' /\ Copy(q)' /\ Writing(q)'
    BY <1>1, <1>3 DEF Place, Copy, Writing, Idle, Talking
  <1> QED
    BY <1>2, <1>3 DEF IInv, RequestInv

\* An actor is being started only while its request waits for it.
LEMMA NotStarting ==
    ASSUME IInv, NEW r \in Requests, pc[r] \notin Idle \/ \A q \in Requests : pc[q] \in Idle,
           pc[r] \in {"send", "execute"} => status[handle[r]] # "starting"
    PROVE  \A a \in Actors : status[a] # "starting"
  <1> SUFFICES ASSUME NEW a \in Actors, status[a] = "starting" PROVE FALSE
    OBVIOUS
  <1>1. PICK q \in Requests : handle[q] = a /\ pc[q] \in {"send", "execute"}
    BY DEF IInv, ActorInv
  <1>2. q = r
    BY <1>1 DEF IInv, Alone, Idle
  <1> QED
    BY <1>1, <1>2

LEMMA BarredOf ==
    ASSUME NEW r \in Requests, Mine(r),
           pc'[r] \in Before \/ (Kind[r] = "write" /\ answer'[r] = "error") => pc[r] \in Before
    PROVE  Barred' \subseteq Barred
  BY DEF Barred, Mine

LEMMA NobodyServed ==
    ASSUME IInv, NEW r \in Requests, Mine(r),
           pc[r] \notin Idle \/ \A q \in Requests : pc[q] \in Idle, table' = 0, pc'[r] \notin Talking
    PROVE  ServedInv'
  BY OthersIdle, SMT DEF ServedInv, Usable, Actors

\* A request that stops talking, or keeps the actor it talks to, uses no other.
LEMMA UsedBefore ==
    ASSUME IInv, NEW r \in Requests, Mine(r), status' = status,
           pc[r] \notin Idle \/ \A q \in Requests : pc[q] \in Idle, table' \in {table, 0},
           pc'[r] \in Talking => handle'[r] = table \/ (pc[r] \in Talking /\ handle'[r] = handle[r])
    PROVE  \A a \in Actors : Usable(a)' => Usable(a)
  <1> SUFFICES ASSUME NEW a \in Actors, Usable(a)' PROVE Usable(a)
    OBVIOUS
  <1>1. \A q \in Requests : q # r => pc'[q] \notin Talking
    BY OthersIdle
  <1>2. (table' = a \/ (handle'[r] = a /\ pc'[r] \in Talking)) /\ a # 0 /\ status[a] = "live"
    BY <1>1, SMT DEF Usable, Actors
  <1> QED
    BY <1>2, SMT DEF Usable

\* The actors stay as they are, and no more of them are used.
LEMMA ServedAside ==
    ASSUME IInv, NEW r \in Requests, Mine(r), UNCHANGED <<disk, path, artifact, actorVars>>,
           pc[r] \notin Idle \/ \A q \in Requests : pc[q] \in Idle, table' \in {table, 0},
           pc[r] # "forget", Barred' \subseteq Barred,
           pc'[r] \in Talking => handle'[r] = table \/ (pc[r] \in Talking /\ handle'[r] = handle[r]),
           pc'[r] = "export" => Kind[r] = "export",
           \A a \in Actors : Usable(a) /\ pc'[r] \in {"find", "save"} => payload'[r] \subseteq Content(a)
    PROVE  ServedInv'
  <1> SUFFICES ASSUME NEW a \in Actors, Usable(a)' PROVE Serves(a)'
    BY DEF ServedInv
  <1>1. Usable(a) /\ Serves(a)
    BY UsedBefore DEF actorVars, IInv, ServedInv
  <1>2. Content(a)' = Content(a) /\ file'[a] = file[a] /\ Base' = Base
    BY DEF Content, Base, actorVars
  <1>3. \A q \in Requests : pc[q] # "forget" /\ (q # r => pc'[q] \in Idle)
    BY OthersIdle DEF Idle
  <1> QED
    BY <1>1, <1>2, <1>3 DEF Serves, Idle

\* A step that leaves the artifact and the actors as they are.
LEMMA StepKeeps ==
    ASSUME IInv, load' = load, NEW r \in Requests, Mine(r), RequestTypes', FileTypes',
           pc[r] \notin Idle \/ \A q \in Requests : pc[q] \in Idle,
           pc[r] \in {"send", "execute"} => status[handle[r]] # "starting",
           pc'[r] # "done" => answer'[r] = "none",
           UNCHANGED <<artifact, expected, actorVars>>, table' \in {table, 0},
           Barred' \subseteq Barred, ServedInv', Place(r)', Copy(r)', Writing(r)'
    PROVE  IInv'
  <1>1. Types'
    BY ServiceAssumption, SMT DEF IInv, Types, ActorTypes, actorVars
  <1>2. DurableBase'
    BY DEF IInv, DurableBase, Base
  <1>3. ActorInv'
    BY NotStarting DEF IInv, ActorInv, actorVars
  <1> QED
    BY <1>1, <1>2, <1>3, StepOf

\* A request ends without a trace.
LEMMA EndKeeps ==
    ASSUME IInv, load' = load, NEW r \in Requests, NEW outcome, Ends(r, outcome), expected' = expected,
           pc[r] \notin Idle, pc[r] # "forget",
           pc[r] \in {"send", "execute"} => status[handle[r]] # "starting",
           UNCHANGED <<artifact, path, disk, actorVars>>, staged' \in {staged, None},
           table' \in {table, 0}, Kind[r] = "write" /\ outcome = "error" => pc[r] \in Before
    PROVE  IInv'
  <1>1. Mine(r) /\ pc'[r] = "done" /\ answer'[r] = outcome /\ RequestTypes' /\ FileTypes'
    BY DEF Ends, IInv, Types, FileTypes
  <1>2. Place(r)' /\ Copy(r)' /\ Writing(r)'
    BY <1>1 DEF Place, Copy, Writing, Talking
  <1>3. Barred' \subseteq Barred
    BY <1>1, BarredOf DEF Before
  <1>4. pc'[r] \notin Talking /\ pc'[r] \notin {"export", "find", "save"}
    BY <1>1 DEF Talking
  <1>5. ServedInv'
    BY <1>1, <1>3, <1>4, ServedAside
  <1> QED
    BY <1>1, <1>2, <1>3, <1>5, StepKeeps

-----------------------------------------------------------------------------
(* Every step keeps the invariant.                                         *)

\* A request goes on to a place before its execution, and touches nothing that is served.
LEMMA GoKeeps ==
    ASSUME IInv, load' = load, NEW r \in Requests, NEW p \in Before, Goes(r, p),
           pc[r] \notin Idle \/ \A q \in Requests : pc[q] \in Idle,
           pc[r] \in Before, pc[r] # "forget", p # "forget",
           pc[r] \in {"send", "execute"} => status[handle[r]] # "starting",
           UNCHANGED <<artifact, path, disk, actorVars>>, FileTypes', table' \in {table, 0},
           p \in Talking => handle'[r] = table \/ (pc[r] \in Talking /\ handle'[r] = handle[r]),
           Place(r)', Copy(r)', p \in {"stage", "rename"} /\ Kind[r] = "import" => payload'[r] = {r}
    PROVE  IInv'
  <1>1. /\ Mine(r) /\ pc'[r] = p /\ UNCHANGED <<answer, expected>> /\ RequestTypes'
        /\ pc'[r] \notin {"export", "find", "save"} /\ answer'[r] = "none"
    BY DEF Goes, Before, IInv, Alone
  <1>2. Writing(r)'
    BY <1>1 DEF Writing, Before
  <1>3. Barred' \subseteq Barred
    BY <1>1, BarredOf
  <1>4. ServedInv'
    BY <1>1, <1>3, ServedAside
  <1> QED
    BY <1>1, <1>2, <1>3, <1>4, StepKeeps

\* A request is let in when no other is being served.
LEMMA LookKeeps ==
    ASSUME OneAtATime, IInv, load' = load, NEW r \in Requests, Look(r)
    PROVE  IInv'
  <1> DEFINE p == IF Kind[r] = "import" THEN "stage" ELSE IF table = 0 THEN "load" ELSE "send"
             h == IF Kind[r] = "import" THEN 0 ELSE table
             c == IF Kind[r] = "import" THEN {r} ELSE None
  <1>1. Types /\ pc[r] = "idle" /\ \A q \in Requests : pc[q] \in Idle
    BY DEF IInv, Types, Look, OneAtATime
  <1>2. /\ Goto(r, p) /\ handle' = [handle EXCEPT ![r] = h] /\ payload' = [payload EXCEPT ![r] = c]
        /\ UNCHANGED <<artifact, path, staged, disk, table, actorVars, retried, existed>>
    BY DEF Look
  <1>3. /\ p \in Places /\ p \in Before /\ h \in 0..MaxActors /\ c \in Contents \cup {None}
        /\ {r} # None /\ p \in {"stage", "load", "send"} /\ pc[r] \in Before
    BY <1>1, ServiceAssumption, SMT DEF Places, Before, Types, ActorTypes, Contents
  <1>4. Goes(r, p) /\ handle'[r] = h /\ payload'[r] = c /\ FileTypes'
    <2> HIDE DEF p, h, c
    <2> QED
      BY <1>1, <1>2, <1>3 DEF Types, FileTypes, RequestTypes, Goto, Goes, Mine
  <1>5. Place(r)' /\ Copy(r)'
    BY <1>2, <1>3, <1>4 DEF Place, Copy, Talking, Goes
  <1> QED
    BY <1>1, <1>2, <1>3, <1>4, <1>5, GoKeeps DEF Talking

LEMMA LoadKeeps ==
    ASSUME IInv, load' = load, NEW r \in Requests, Load(r)
    PROVE  IInv'
  <1>1. /\ Types /\ pc[r] = "load" /\ pc[r] \notin Idle /\ pc[r] \in Before
        /\ UNCHANGED <<artifact, path, staged, disk, table, actorVars>>
    BY DEF IInv, Load, Idle, Before
  <1>2. CASE Kind[r] = "export" /\ Fail(r)
    BY <1>1, <1>2, FailEnds, EndKeeps
  <1>3. CASE /\ ~(Kind[r] = "export" /\ artifact = None)
             /\ Goto(r, "clean") /\ payload' = [payload EXCEPT ![r] = artifact]
             /\ UNCHANGED <<handle, retried, existed>>
    <2>1. Goes(r, "clean") /\ payload'[r] = artifact /\ FileTypes'
      BY <1>1, <1>3 DEF Types, FileTypes, RequestTypes, Goto, Goes, Mine, Places
    <2>2. Kind[r] # "import" /\ table = 0
      BY <1>1 DEF IInv, RequestInv, Place
    <2>3. Place(r)' /\ Copy(r)'
      BY <1>1, <1>3, <2>1, <2>2 DEF Place, Copy, Talking, Goes
    <2> QED
      BY <1>1, <2>1, <2>3, GoKeeps DEF Before, Talking
  <1> QED
    BY <1>2, <1>3 DEF Load

LEMMA CleanKeeps ==
    ASSUME IInv, load' = load, NEW r \in Requests, Clean(r)
    PROVE  IInv'
  <1> DEFINE p == IF payload[r] = None THEN "enter" ELSE "stage"
  <1>1. /\ Types /\ pc[r] = "clean" /\ pc[r] \notin Idle /\ pc[r] \in Before /\ path' = 0 /\ Goto(r, p)
        /\ UNCHANGED <<artifact, disk, table, actorVars, local>> /\ staged' \in {staged, None}
        /\ p \in {"enter", "stage"} /\ p \in Places
    BY DEF IInv, Clean, Idle, Before, Places
  <1>2. /\ Kind[r] # "import" /\ table = 0 /\ payload[r] = artifact
        /\ Kind[r] = "export" => payload[r] # None
    BY <1>1 DEF IInv, RequestInv, Place, Copy
  <1>3. Goes(r, p) /\ payload' = payload /\ FileTypes'
    <2> HIDE DEF p
    <2> QED
      BY <1>1, GotoGoes, ServiceAssumption, SMT DEF Types, FileTypes
  <1>4. Mine(r) /\ pc'[r] = p /\ answer'[r] = "none" /\ expected' = expected /\ RequestTypes'
    BY <1>1, <1>3 DEF Goes, IInv, Alone
  <1>5. Copy(r)'
    BY <1>1, <1>2, <1>3, <1>4 DEF Copy, Backed
  <1>6. p \notin Talking /\ Place(r)' /\ Writing(r)'
    <2> HIDE DEF p
    <2> QED
      BY <1>1, <1>2, <1>4 DEF Place, Writing, Talking
  <1>7. ServedInv' /\ Barred' \subseteq Barred
    BY <1>1, <1>2, <1>4, <1>6, NobodyServed, BarredOf
  <1> QED
    BY <1>1, <1>3, <1>4, <1>5, <1>6, <1>7, StepKeeps

LEMMA StageKeeps ==
    ASSUME IInv, load' = load, NEW r \in Requests, Stage(r)
    PROVE  IInv'
  <1>1. /\ Types /\ pc[r] = "stage" /\ pc[r] \notin Idle /\ staged' = payload[r] /\ Goto(r, "rename")
        /\ UNCHANGED <<artifact, path, disk, table, actorVars, local>>
        /\ pc[r] \in Before /\ "rename" \in Before /\ "rename" \in Places /\ "rename" \notin Talking
    BY DEF IInv, Stage, Idle, Before, Places, Talking
  <1>2. Goes(r, "rename") /\ payload' = payload
    BY <1>1, GotoGoes
  <1>3. Place(r) /\ Copy(r) /\ Writing(r) /\ FileTypes'
    BY <1>1 DEF IInv, RequestInv, Types, FileTypes, RequestTypes
  <1>4. Place(r)' /\ Copy(r)'
    BY <1>1, <1>2, <1>3 DEF Place, Copy, Talking, Goes
  <1>5. Kind[r] = "import" => payload'[r] = {r}
    BY <1>1, <1>2, <1>3 DEF Writing
  <1> QED
    BY <1>1, <1>2, <1>3, <1>4, <1>5, GoKeeps

\* The temporary file is there and holds what the request put into it.
LEMMA RenameKeeps ==
    ASSUME IInv, load' = load, NEW r \in Requests, Rename(r)
    PROVE  IInv'
  <1>1. /\ Types /\ pc[r] = "rename" /\ pc[r] \notin Idle /\ pc[r] \in Before /\ staged' = None
        /\ UNCHANGED <<artifact, table, actorVars>>
    BY DEF IInv, Rename, Idle, Before
  <1>2. Place(r) /\ Copy(r) /\ Writing(r)
    BY DEF IInv, RequestInv
  <1>3. staged = payload[r] /\ staged # None /\ staged \in Contents
    BY <1>1, <1>2 DEF Copy, Types, FileTypes
  <1>4. /\ path' \in FreeFiles /\ path' \in Files
        /\ disk' \in [Files -> Contents] /\ disk'[path'] = staged
        /\ \A f \in Files : f # path' => disk'[f] = disk[f]
    BY <1>1, <1>3, NewFileIsFree DEF Rename
  <1>5. FileTypes'
    BY <1>1, <1>4, SMT DEF Types, FileTypes, Files
  <1>6. CASE Kind[r] = "export"
    <2>1. Ends(r, "ok") /\ expected' = expected
      BY <1>1, <1>3, <1>6, AnswerEnds DEF Rename
    <2>2. Mine(r) /\ pc'[r] = "done" /\ answer'[r] = "ok" /\ RequestTypes' /\ pc'[r] \notin Talking
      BY <2>1 DEF Ends, Talking
    <2>3. table' = 0 /\ Place(r)' /\ Copy(r)' /\ Writing(r)'
      BY <1>1, <1>2, <1>6, <2>2 DEF Place, Copy, Writing, Talking
    <2>4. ServedInv' /\ Barred' \subseteq Barred
      BY <1>1, <2>2, <2>3, NobodyServed, BarredOf
    <2> QED
      BY <1>1, <1>5, <2>1, <2>2, <2>3, <2>4, StepKeeps
  <1>7. CASE Kind[r] = "import"
    <2>1. Goes(r, "forget") /\ payload' = payload
      BY <1>1, <1>3, <1>7, GotoGoes DEF Rename, Places
    <2>2. Mine(r) /\ pc'[r] = "forget" /\ answer'[r] = "none" /\ expected' = expected /\ RequestTypes'
      BY <1>1, <2>1 DEF Goes, IInv, Alone
    <2>3. Place(r)' /\ Copy(r)' /\ Writing(r)'
      BY <1>1, <1>2, <1>7, <2>1, <2>2 DEF Place, Copy, Writing, Talking
    <2>4. /\ Barred' \subseteq Barred /\ Base' = Base
          /\ \A a \in Actors : Usable(a)' => Usable(a)
      BY <1>1, <2>2, BarredOf, UsedBefore DEF Talking, actorVars, Base
    <2>5. ASSUME NEW a \in Actors, Usable(a) PROVE Content(a)' = Content(a)
      <3>1. file[a] # path' /\ (file[a] = 0 \/ file[a] \in Files)
        BY <1>1, <1>4, <2>5, ServiceAssumption, SMT DEF FreeFiles, Usable, Types, ActorTypes, Files
      <3> QED
        BY <1>1, <1>4, <3>1 DEF Content, actorVars
    <2>6. ServedInv'
      <3>1. \A q \in Requests : pc'[q] \notin {"export", "find", "save"}
        BY <1>1, <2>2, OthersIdle DEF Idle
      <3> QED
        BY <2>2, <2>4, <2>5, <3>1, SMT DEF IInv, ServedInv, Serves
    <2> QED
      BY <1>1, <1>5, <2>2, <2>3, <2>4, <2>6, StepKeeps
  <1>8. CASE Kind[r] \notin {"export", "import"}
    <2>1. Goes(r, "enter") /\ payload' = payload
      BY <1>1, <1>3, <1>8, GotoGoes DEF Rename, Places
    <2>2. /\ Mine(r) /\ pc'[r] = "enter" /\ answer'[r] = "none" /\ expected' = expected
          /\ RequestTypes' /\ pc'[r] \notin Talking
      BY <1>1, <2>1 DEF Goes, IInv, Alone, Talking
    <2>3. table' = 0 /\ payload[r] = artifact
      BY <1>1, <1>2, <1>8 DEF Place, Copy
    <2>4. Backed'
      BY <1>1, <1>3, <1>4, <2>3, ServiceAssumption, SMT DEF Backed, Files
    <2>5. Place(r)' /\ Copy(r)' /\ Writing(r)'
      BY <1>1, <1>8, <2>1, <2>2, <2>3, <2>4 DEF Place, Copy, Writing, Talking
    <2>6. ServedInv' /\ Barred' \subseteq Barred
      BY <1>1, <2>2, <2>3, NobodyServed, BarredOf
    <2> QED
      BY <1>1, <1>5, <2>2, <2>5, <2>6, StepKeeps
  <1> QED
    BY <1>6, <1>7, <1>8

LEMMA HydrateFailsKeeps ==
    ASSUME IInv, load' = load, NEW r \in Requests, HydrateFails(r)
    PROVE  IInv'
  <1>1. /\ Types /\ Fail(r) /\ pc[r] \notin Idle /\ pc[r] # "forget" /\ pc[r] \in Before
        /\ pc[r] \notin {"send", "execute"}
        /\ UNCHANGED <<artifact, path, disk, table, actorVars>> /\ staged' \in {staged, None}
    BY DEF IInv, HydrateFails, Idle, Before
  <1> QED
    BY <1>1, FailEnds, EndKeeps

LEMMA EnterKeeps ==
    ASSUME IInv, load' = load, NEW r \in Requests, Enter(r)
    PROVE  IInv'
  <1>1. /\ Types /\ pc[r] = "enter" /\ pc[r] \notin Idle /\ pc[r] \in Before /\ Goto(r, "send")
        /\ payload' = [payload EXCEPT ![r] = None]
        /\ UNCHANGED <<artifact, path, staged, disk, file, mem, retried, existed>>
    BY DEF IInv, Enter, Idle, Before
  <1>2. table = 0 /\ Kind[r] \notin {"import", "export"} /\ Backed
    BY <1>1 DEF IInv, RequestInv, Place, Copy
  <1>3. PICK b \in Actors : /\ table' = b /\ status[b] = "gone"
                            /\ status' = [status EXCEPT ![b] = "starting"]
                            /\ handle' = [handle EXCEPT ![r] = b]
    BY <1>2 DEF Enter, FreeActors, Any
  <1>4. b \in 0..MaxActors /\ b # 0
    BY <1>3, SMT DEF Actors
  <1>5. Goes(r, "send") /\ handle'[r] = b
    BY <1>1, <1>3, <1>4 DEF Types, RequestTypes, Goto, Goes, Mine, Places
  <1>6. Mine(r) /\ pc'[r] = "send" /\ answer'[r] = "none" /\ expected' = expected /\ RequestTypes'
    BY <1>1, <1>5 DEF Goes, IInv, Alone
  <1>7. Types' /\ status'[b] = "starting" /\ \A a \in Actors : a # b => status'[a] = status[a]
    BY <1>1, <1>3, <1>4, <1>6 DEF Types, FileTypes, ActorTypes
  <1>8. ActorInv'
    <2>1. \A a \in Actors : status'[a] = "starting" => a = b
      BY <1>1, <1>7, NotStarting
    <2>2. Backed'
      BY <1>1, <1>2 DEF Backed
    <2>3. \A a \in Actors : status'[a] # "live" => file'[a] = 0 /\ mem'[a] = {}
      BY <1>1, <1>3, <1>7 DEF IInv, ActorInv
    <2> QED
      BY <1>2, <1>5, <1>6, <2>1, <2>2, <2>3 DEF ActorInv
  <1>9. ServedInv'
    BY <1>1, <1>3, <1>5, <1>6, <1>7, OthersIdle DEF ServedInv, Usable
  <1>10. DurableBase'
    BY <1>1, <1>6, BarredOf DEF IInv, DurableBase, Base
  <1>11. Place(r)' /\ Copy(r)' /\ Writing(r)'
    BY <1>2, <1>3, <1>4, <1>5, <1>6 DEF Place, Copy, Writing, Talking
  <1> QED
    BY <1>1, <1>6, <1>7, <1>8, <1>9, <1>10, <1>11, StepOf

\* Sending fails when the actor is gone; a second attempt starts from the artifact.
LEMMA SendKeeps ==
    ASSUME IInv, load' = load, NEW r \in Requests, Send(r)
    PROVE  IInv'
  <1>1. /\ Types /\ pc[r] = "send" /\ pc[r] \notin Idle /\ pc[r] \in Before /\ pc[r] \in Talking
        /\ UNCHANGED <<artifact, path, staged, disk, actorVars>>
    BY DEF IInv, Send, Idle, Before, Talking
  <1>2. Kind[r] # "import" /\ handle[r] # 0 /\ table \in {0, handle[r]} /\ FileTypes'
    BY <1>1 DEF IInv, RequestInv, Place, Types, FileTypes
  <1>3. CASE status[handle[r]] # "gone"
    <2> DEFINE p == IF Kind[r] = "export" THEN "export" ELSE "execute"
    <2>1. Goto(r, p) /\ UNCHANGED <<table, local>> /\ p \in Places /\ p \in Talking
      BY <1>3 DEF Send, Places, Talking
    <2>2. Goes(r, p) /\ UNCHANGED <<handle, payload>>
      <3> HIDE DEF p
      <3> QED
        BY <1>1, <2>1, GotoGoes
    <2>3. /\ Mine(r) /\ pc'[r] = p /\ answer'[r] = "none" /\ expected' = expected /\ RequestTypes'
          /\ pc'[r] \notin {"find", "save"}
      BY <1>1, <2>2 DEF Goes, IInv, Alone
    <2>4. Barred' \subseteq Barred /\ r \notin Base /\ Base' = Base
      BY <1>1, <2>3, BarredOf DEF IInv, DurableBase, Barred, Base
    <2>5. ServedInv'
      BY <1>1, <2>1, <2>2, <2>3, <2>4, ServedAside
    <2>6. Place(r)' /\ Copy(r)'
      BY <1>2, <2>1, <2>2, <2>3 DEF Place, Copy, Talking
    <2>7. Writing(r)'
      BY <2>3, <2>4 DEF Writing
    <2>8. ActorInv'
      <3>1. ASSUME NEW a \in Actors, status[a] = "starting"
            PROVE  Backed /\ handle[r] = a /\ Kind[r] # "export"
        <4>1. /\ Backed
              /\ \E q \in Requests : handle[q] = a /\ pc[q] \in {"send", "execute"} /\ Kind[q] # "export"
          BY <3>1 DEF IInv, ActorInv
        <4> QED
          BY <1>1, <4>1 DEF IInv, Alone, Idle
      <3>2. Backed' = Backed
        BY <1>1 DEF Backed
      <3> QED
        BY <1>1, <2>2, <2>3, <3>1, <3>2 DEF IInv, ActorInv, actorVars
    <2>9. Types' /\ DurableBase'
      BY <1>1, <1>2, <2>1, <2>3, <2>4 DEF Types, ActorTypes, actorVars, IInv, DurableBase
    <2> QED
      BY <1>1, <2>3, <2>5, <2>6, <2>7, <2>8, <2>9, StepOf
  <1>4. CASE /\ status[handle[r]] = "gone" /\ table' = 0
             /\ handle' = [handle EXCEPT ![r] = 0] /\ retried' = [retried EXCEPT ![r] = TRUE]
             /\ Goto(r, IF Kind[r] = "export" THEN "load" ELSE "again")
             /\ UNCHANGED <<payload, existed>>
    <2>1. PICK p \in {"load", "again"} : Goto(r, p)
      BY <1>4
    <2>2. p \in Places /\ p \in Before /\ p \notin Talking /\ 0 \in 0..MaxActors
      BY <2>1, ServiceAssumption, SMT DEF Places, Before, Talking
    <2>3. Goes(r, p)
      BY <1>1, <1>4, <2>1, <2>2, SMT DEF Types, RequestTypes, Goto, Goes, Mine
    <2>4. Place(r)' /\ Copy(r)'
      BY <1>2, <1>4, <2>1, <2>2, <2>3 DEF Place, Copy, Goes
    <2> QED
      BY <1>1, <1>2, <1>4, <2>1, <2>2, <2>3, <2>4, GoKeeps
  <1>5. CASE status[handle[r]] = "gone" /\ Fail(r) /\ UNCHANGED table
    BY <1>1, <1>5, FailEnds, EndKeeps
  <1> QED
    BY <1>3, <1>4, <1>5 DEF Send

LEMMA LookAgainKeeps ==
    ASSUME IInv, load' = load, NEW r \in Requests, LookAgain(r)
    PROVE  IInv'
  <1>1. /\ Types /\ pc[r] = "again" /\ pc[r] \notin Idle /\ pc[r] \in Before
        /\ UNCHANGED <<artifact, path, staged, disk, table, actorVars, retried, payload, existed>>
        /\ "load" \in Places /\ "load" \in Before /\ "load" \notin Talking /\ 0 \in 0..MaxActors
    BY ServiceAssumption, SMT DEF IInv, LookAgain, Idle, Before, Places, Talking
  <1>2. Kind[r] # "import" /\ table = 0 /\ FileTypes'
    BY <1>1 DEF IInv, RequestInv, Place, Types, FileTypes
  <1>3. Goto(r, "load") /\ handle' = [handle EXCEPT ![r] = 0]
    BY <1>2 DEF LookAgain
  <1>4. Goes(r, "load")
    BY <1>1, <1>3 DEF Types, RequestTypes, Goto, Goes, Mine
  <1>5. Place(r)' /\ Copy(r)'
    BY <1>1, <1>2, <1>4 DEF Place, Copy, Goes
  <1> QED
    BY <1>1, <1>2, <1>4, <1>5, GoKeeps

LEMMA DroppedKeeps ==
    ASSUME IInv, load' = load, NEW r \in Requests, Dropped(r)
    PROVE  IInv'
  <1>1. /\ Types /\ pc[r] = "execute" /\ pc[r] \notin Idle /\ pc[r] \in Before /\ Fail(r)
        /\ status[handle[r]] = "gone"
        /\ UNCHANGED <<artifact, path, staged, disk, table, actorVars>>
    BY DEF IInv, Dropped, Idle, Before
  <1> QED
    BY <1>1, FailEnds, EndKeeps

-----------------------------------------------------------------------------
(* Execution.                                                              *)

\* An actor that a request talks to is served from, and no other.
LEMMA TalksToUsable ==
    ASSUME IInv, NEW r \in Requests, pc[r] \in Talking, status[handle[r]] = "live"
    PROVE  \E a \in Actors :
              /\ a = handle[r] /\ status[a] = "live" /\ Serves(a) /\ Content(a) \in Contents
              /\ file[a] = 0 \/ file[a] = path
              /\ table \in {0, a} /\ \A b \in Actors : Usable(b) => b = a
  <1>1. /\ handle[r] # 0 /\ table \in {0, handle[r]} /\ handle[r] \in 0..MaxActors
        /\ \A q \in Requests : q # r => pc[q] \in Idle
    BY DEF IInv, RequestInv, Place, Types, RequestTypes, Alone, Idle, Talking
  <1>2. PICK a \in Actors : a = handle[r]
    BY <1>1, ServiceAssumption, SMT DEF Actors
  <1>3. Serves(a)
    BY <1>2 DEF Usable, IInv, ServedInv
  <1>4. file[a] = 0 \/ file[a] = path
    BY <1>1, <1>3 DEF Serves, Idle, Talking
  <1>5. ASSUME NEW b \in Actors, Usable(b) PROVE b = a
    <2>1. b # 0
      BY SMT DEF Actors
    <2> QED
      BY <1>1, <1>2, <1>5, <2>1 DEF Usable, Idle, Talking
  <1>6. Content(a) \in Contents
    <2>1. file[a] = 0 \/ file[a] \in Files
      BY <1>4, ServiceAssumption, SMT DEF Files, IInv, Types, FileTypes
    <2> QED
      BY <2>1 DEF Content, IInv, Types, FileTypes, ActorTypes
  <1> QED
    BY <1>1, <1>2, <1>3, <1>4, <1>5, <1>6

\* The actor of the request changes, and has all that is saved and nothing that failed.
LEMMA AppliedKeeps ==
    ASSUME IInv, load' = load, NEW r \in Requests, pc[r] = "execute", NEW a \in Actors, a = handle[r],
           status[a] = "live", NEW content \in Contents, Applied(a, content),
           Mine(r), RequestTypes', UNCHANGED <<artifact, staged, table, status, expected>>,
           pc'[r] = "done" \/ (pc'[r] = "export" /\ r \in content /\ answer'[r] = "none"),
           pc'[r] \in Talking => handle'[r] = a,
           Base \subseteq content, Barred' \subseteq Barred, content \cap Barred' = {},
           Place(r)', Copy(r)', Writing(r)'
    PROVE  IInv'
  <1>1. /\ Types /\ path' \in 0..MaxFiles /\ disk' \in [Files -> Contents]
        /\ file' \in [Actors -> 0..MaxFiles] /\ mem' \in [Actors -> Contents]
        /\ \A b \in Actors \ {a} : file'[b] = file[b] /\ mem'[b] = mem[b]
        /\ pc[r] \notin Idle /\ pc[r] \in Talking
    BY DEF IInv, Applied, Idle, Talking
  <1>2. ActorInv'
    BY <1>1, NotStarting, SMT DEF IInv, ActorInv
  <1>3. Types' /\ DurableBase'
    BY <1>1 DEF IInv, Types, FileTypes, ActorTypes, DurableBase, Base
  <1>4. table \in {0, a} /\ (file[a] = 0 \/ file[a] = path)
    BY <1>1, TalksToUsable
  <1>5. \A q \in Requests : q # r => pc'[q] \in Idle /\ pc'[q] \notin Talking
    BY <1>1, OthersIdle
  <1>6. ASSUME NEW b \in Actors, Usable(b)' PROVE b = a
    <2>1. b # 0
      BY SMT DEF Actors
    <2> QED
      BY <1>4, <1>5, <1>6, <2>1 DEF Usable
  <1>7. Content(a)' = content /\ (file'[a] = 0 \/ file'[a] = path') /\ Base' = Base
    BY <1>4 DEF Applied, Base
  <1>8. Serves(a)'
    BY <1>5, <1>7 DEF Serves, Idle
  <1>9. ServedInv'
    BY <1>6, <1>8 DEF ServedInv
  <1> QED
    BY <1>1, <1>2, <1>3, <1>9, StepOf

LEMMA ExecuteKeeps ==
    ASSUME IInv, load' = load, NEW r \in Requests, Execute(r)
    PROVE  IInv'
  <1>1. /\ Types /\ pc[r] = "execute" /\ pc[r] \in Talking /\ pc[r] \in Before
        /\ status[handle[r]] = "live" /\ UNCHANGED <<artifact, staged, table, status>>
    BY DEF IInv, Execute, Talking, Before
  <1>2. PICK a \in Actors : /\ a = handle[r] /\ status[a] = "live" /\ Serves(a)
                            /\ Content(a) \in Contents /\ table \in {0, a} /\ a # 0
    BY <1>1, TalksToUsable, SMT DEF Actors
  <1>3. PICK c \in Contents : c = Content(a) /\ Base \subseteq c /\ c \cap Barred = {}
    BY <1>2 DEF Serves
  <1>4. Kind[r] \notin {"import", "export"} /\ r \notin Base /\ answer[r] = "none"
    BY <1>1 DEF IInv, RequestInv, Place, DurableBase, Barred, Alone
  <1>5. CASE Kind[r] = "read"
    <2>1. Applied(a, c) /\ Ends(r, "ok") /\ expected' = expected
      BY <1>1, <1>2, <1>3, <1>5, ApplySets, AnswerEnds DEF Execute
    <2>2. Mine(r) /\ pc'[r] = "done" /\ answer'[r] = "ok" /\ RequestTypes' /\ pc'[r] \notin Talking
      BY <2>1 DEF Ends, Talking
    <2>3. Barred' \subseteq Barred
      BY <1>1, <2>2, BarredOf
    <2>4. Place(r)' /\ Copy(r)' /\ Writing(r)'
      BY <2>2 DEF Place, Copy, Writing, Talking
    <2> QED
      BY <1>1, <1>2, <1>3, <2>1, <2>2, <2>3, <2>4, AppliedKeeps
  <1>6. CASE Kind[r] # "read"
    <2> DEFINE d == c \cup {r}
    <2>1. Apply(a, d) /\ Goto(r, "export") /\ UNCHANGED local /\ d \in Contents /\ "export" \in Places
      BY <1>2, <1>3, <1>6 DEF Execute, Contents, Places
    <2> HIDE DEF d
    <2>2. Applied(a, d) /\ Goes(r, "export") /\ handle' = handle
      BY <1>1, <2>1, ApplySets, GotoGoes
    <2>3. /\ Mine(r) /\ pc'[r] = "export" /\ answer'[r] = "none" /\ expected' = expected
          /\ RequestTypes'
      BY <1>4, <2>2 DEF Goes
    <2>4. Barred' \subseteq Barred /\ r \notin Barred'
      BY <1>1, <2>3, BarredOf DEF Barred, Before
    <2>5. Base \subseteq d /\ d \cap Barred' = {} /\ r \in d /\ Base' = Base
      BY <1>1, <1>3, <2>4 DEF d, Base
    <2>6. Place(r)' /\ Copy(r)' /\ Writing(r)'
      BY <1>1, <1>2, <1>4, <1>6, <2>2, <2>3, <2>5 DEF Place, Copy, Writing, Talking
    <2> QED
      BY <1>1, <1>2, <2>1, <2>2, <2>3, <2>4, <2>5, <2>6, AppliedKeeps
  <1> QED
    BY <1>5, <1>6

\* A failed statement leaves the database as it is, or with a part of its batch.
LEMMA StatementFailsKeeps ==
    ASSUME IInv, load' = load, NEW r \in Requests, StatementFails(r)
    PROVE  IInv'
  <1>1. /\ Types /\ pc[r] = "execute" /\ pc[r] \in Talking /\ pc[r] \in Before /\ pc[r] \notin Idle
        /\ status[handle[r]] = "live" /\ Fail(r)
        /\ UNCHANGED <<artifact, path, staged, table, status, file>>
    BY DEF IInv, StatementFails, Talking, Before, Idle
  <1>2. PICK a \in Actors : a = handle[r] /\ status[a] = "live" /\ Serves(a) /\ Content(a) \in Contents
    BY <1>1, TalksToUsable
  <1>3. CASE UNCHANGED <<disk, mem>>
    BY <1>1, <1>3, FailEnds, EndKeeps DEF actorVars
  <1>4. CASE Kind[r] = "batch"
    <2> DEFINE d == Content(a) \cup {r}
    <2>1. d \in Contents
      BY <1>2 DEF Contents
    <2>2. Applied(a, d)
      <3>1. \/ Apply(a, d)
            \/ file[a] = 0 /\ mem' = [mem EXCEPT ![a] = d] /\ UNCHANGED <<path, disk, file>>
        BY <1>1, <1>2, <1>4 DEF StatementFails, Apply, Content
      <3> HIDE DEF d
      <3> QED
        BY <1>1, <2>1, <3>1, ApplySets
    <2>3. Ends(r, "error") /\ expected' = expected
      BY <1>1, FailEnds
    <2>4. Mine(r) /\ pc'[r] = "done" /\ answer'[r] = "error" /\ RequestTypes' /\ pc'[r] \notin Talking
      BY <2>3 DEF Ends, Talking
    <2>5. Barred' \subseteq Barred /\ r \notin Barred'
      BY <1>1, <1>4, <2>4, BarredOf DEF Barred, Before
    <2>6. Base \subseteq d /\ d \cap Barred' = {}
      BY <1>2, <2>5, SMT DEF Serves
    <2>7. Place(r)' /\ Copy(r)' /\ Writing(r)'
      BY <2>4 DEF Place, Copy, Writing, Talking
    <2> HIDE DEF d
    <2> QED
      BY <1>1, <1>2, <2>1, <2>2, <2>3, <2>4, <2>5, <2>6, <2>7, AppliedKeeps
  <1> QED
    BY <1>3, <1>4 DEF StatementFails

-----------------------------------------------------------------------------
(* Export and save.                                                        *)

\* What an actor exports is what it has open, and there is such a file.
LEMMA ExportsContent ==
    ASSUME IInv, NEW r \in Requests, pc[r] = "export", status[handle[r]] = "live"
    PROVE  /\ Exportable(handle[r]) = Content(handle[r])
           /\ ~(file[handle[r]] # 0 /\ path = 0)
  <1>1. file[handle[r]] = 0 \/ file[handle[r]] = path
    BY TalksToUsable DEF Talking
  <1> QED
    BY <1>1 DEF Exportable, Content

LEMMA ExportKeeps ==
    ASSUME IInv, load' = load, NEW r \in Requests, Export(r)
    PROVE  IInv'
  <1>1. /\ Types /\ pc[r] = "export" /\ pc[r] \notin Idle /\ pc[r] \in Talking
        /\ status[handle[r]] = "live"
        /\ UNCHANGED <<artifact, path, staged, disk, table, actorVars>> /\ FileTypes'
    BY DEF IInv, Export, Idle, Talking, Types, FileTypes
  <1>2. PICK a \in Actors :
            /\ a = handle[r] /\ status[a] = "live" /\ Serves(a) /\ Content(a) \in Contents
            /\ table \in {0, a} /\ \A b \in Actors : Usable(b) => b = a
    BY <1>1, TalksToUsable
  <1>3. PICK c \in Contents : c = Content(a) /\ Exportable(handle[r]) = c
    BY <1>1, <1>2, ExportsContent
  <1>4. CASE Kind[r] = "export"
    <2>1. Answer(r, c)
      BY <1>3, <1>4 DEF Export
    <2> QED
      BY <1>1, <2>1, AnswerEnds, EndKeeps
  <1>5. CASE Kind[r] # "export"
    <2>1. /\ payload' = [payload EXCEPT ![r] = c] /\ Goto(r, "find")
          /\ UNCHANGED <<handle, retried, existed>>
      BY <1>3, <1>5 DEF Export
    <2>2. Goes(r, "find") /\ payload'[r] = c
      BY <1>1, <2>1 DEF Types, RequestTypes, Places, Goto, Goes, Mine
    <2>3. /\ Mine(r) /\ pc'[r] = "find" /\ answer'[r] = "none" /\ expected' = expected
          /\ RequestTypes' /\ pc'[r] \notin Before /\ pc'[r] \notin Talking
      BY <1>1, <2>2 DEF Goes, IInv, Alone, Before, Talking
    <2>4. Barred' \subseteq Barred /\ Base' = Base
      BY <1>1, <2>3, BarredOf DEF Base
    <2>5. Place(r)' /\ Copy(r)'
      BY <1>1, <1>5, <2>3 DEF IInv, RequestInv, Place, Copy, Talking
    <2>6. c # None /\ r \in c /\ r \notin Base /\ Base \subseteq c /\ c \cap Barred = {}
      BY <1>1, <1>2, <1>3, <1>5, ServiceAssumption DEF IInv, RequestInv, Writing, Contents, Serves
    <2>7. Writing(r)'
      BY <2>2, <2>3, <2>4, <2>6 DEF Writing
    <2>8. ServedInv'
      BY <1>1, <1>2, <1>3, <2>2, <2>3, <2>4, ServedAside
    <2> QED
      BY <1>1, <2>3, <2>4, <2>5, <2>7, <2>8, StepKeeps
  <1> QED
    BY <1>4, <1>5

\* Only an export meets a dead actor here: the actor of a write lives until it is exported.
LEMMA ExportFailsKeeps ==
    ASSUME IInv, load' = load, NEW r \in Requests, ExportFails(r)
    PROVE  IInv'
  <1>1. /\ Types /\ pc[r] = "export" /\ pc[r] \notin Idle
        /\ UNCHANGED <<artifact, path, staged, disk, actorVars>>
    BY DEF IInv, ExportFails, Idle
  <1>2. Kind[r] = "export"
    BY <1>1, ExportsContent DEF IInv, RequestInv, Writing, ExportFails
  <1>3. Fail(r) /\ UNCHANGED table
    BY <1>2 DEF ExportFails
  <1> QED
    BY <1>1, <1>2, <1>3, FailEnds, EndKeeps

\* A write that failed is in no artifact, and no actor is left that executed it.
LEMMA DiscardKeeps ==
    ASSUME IInv, load' = load, NEW r \in Requests, Discard(r)
    PROVE  IInv'
  <1>1. /\ Types /\ pc[r] = "discard" /\ pc[r] \notin Idle /\ pc[r] \notin {"send", "execute"}
        /\ Fail(r) /\ path' = 0 /\ UNCHANGED <<artifact, disk, table, actorVars>>
        /\ staged' = None \/ staged' = staged
    BY DEF IInv, Discard, Idle
  <1>2. table = 0 /\ r \notin Base
    BY <1>1 DEF IInv, RequestInv, Place, Writing
  <1>3. Ends(r, "error") /\ expected' = expected
    BY <1>1, FailEnds
  <1>4. Mine(r) /\ pc'[r] = "done" /\ answer'[r] = "error" /\ RequestTypes' /\ pc'[r] \notin Talking
    BY <1>3 DEF Ends, Talking
  <1>5. Types'
    BY <1>1, <1>4, ServiceAssumption, SMT DEF Types, FileTypes, ActorTypes, actorVars
  <1>6. ServedInv'
    BY <1>1, <1>2, <1>4, NobodyServed
  <1>7. ActorInv'
    BY <1>1, NotStarting DEF IInv, ActorInv, actorVars
  <1>8. Barred' \subseteq Barred \cup {r}
    BY <1>4 DEF Barred, Mine
  <1>9. DurableBase'
    BY <1>1, <1>2, <1>3, <1>8 DEF IInv, DurableBase, Base
  <1>10. Place(r)' /\ Copy(r)' /\ Writing(r)'
    BY <1>4 DEF Place, Copy, Writing, Talking
  <1> QED
    BY <1>1, <1>4, <1>5, <1>6, <1>7, <1>9, <1>10, StepOf

LEMMA FindRowKeeps ==
    ASSUME IInv, load' = load, NEW r \in Requests, FindRow(r)
    PROVE  IInv'
  <1>1. /\ Types /\ pc[r] = "find" /\ pc[r] \notin Idle /\ Goto(r, "save") /\ FileTypes'
        /\ UNCHANGED <<artifact, path, staged, disk, table, actorVars, handle, retried, payload>>
        /\ existed' = [existed EXCEPT ![r] = artifact # None]
    BY DEF IInv, FindRow, Idle, Types, FileTypes
  <1>2. Goes(r, "save")
    BY <1>1 DEF Types, RequestTypes, Places, Goto, Goes, Mine
  <1>3. /\ Mine(r) /\ pc'[r] = "save" /\ answer'[r] = "none" /\ expected' = expected
        /\ RequestTypes' /\ pc'[r] \notin Before /\ pc'[r] \notin Talking
    BY <1>1, <1>2 DEF Goes, IInv, Alone, Before, Talking
  <1>4. Barred' \subseteq Barred /\ Base' = Base
    BY <1>1, <1>3, BarredOf DEF Base
  <1>5. Place(r)' /\ Copy(r)'
    BY <1>1, <1>3 DEF IInv, RequestInv, Place, Copy, Talking
  <1>6. Writing(r)'
    BY <1>1, <1>3, <1>4, SMT DEF IInv, RequestInv, Writing
  <1>7. \A a \in Actors : Usable(a) => payload'[r] \subseteq Content(a)
    BY <1>1 DEF IInv, ServedInv, Serves
  <1>8. ServedInv'
    BY <1>1, <1>3, <1>4, <1>7, ServedAside
  <1> QED
    BY <1>1, <1>3, <1>4, <1>5, <1>6, <1>8, StepKeeps

\* The new artifact is what the actor has, if one is registered.
LEMMA SaveKeeps ==
    ASSUME IInv, load' = load, NEW r \in Requests, Save(r)
    PROVE  IInv'
  <1>1. /\ Types /\ pc[r] = "save" /\ pc[r] \notin Idle /\ pc[r] \notin {"send", "execute"}
        /\ artifact' = payload[r] /\ pc' = [pc EXCEPT ![r] = "reply"]
        /\ expected' = IF Kind[r] = "import" THEN {} ELSE expected
        /\ UNCHANGED <<path, staged, disk, table, actorVars, local, answer, seen>>
    BY DEF IInv, Save, Idle
  <1>2. /\ payload[r] # None /\ r \in payload[r] /\ payload[r] \cap Barred = {}
        /\ Kind[r] = "import" \/ Base \subseteq payload[r]
    BY <1>1 DEF IInv, RequestInv, Writing
  <1>3. RequestTypes'
    BY <1>1 DEF Types, RequestTypes, Places, Contents, local
  <1>4. Types'
    BY <1>1, <1>3 DEF Types, FileTypes, ActorTypes, RequestTypes, actorVars
  <1>5. Mine(r) /\ pc'[r] = "reply" /\ answer'[r] = "none" /\ pc'[r] \notin Talking
    BY <1>1 DEF Mine, Types, RequestTypes, IInv, Alone, local, Talking
  <1>6. Barred' \subseteq Barred /\ Base' = payload[r]
    BY <1>1, <1>2, <1>5, BarredOf DEF Before, Base
  <1>7. DurableBase'
    BY <1>1, <1>2, <1>6 DEF IInv, DurableBase
  <1>8. ActorInv'
    BY <1>1, NotStarting DEF IInv, ActorInv, actorVars
  <1>9. Place(r)' /\ Copy(r)' /\ Writing(r)'
    BY <1>1, <1>2, <1>5, <1>6 DEF IInv, RequestInv, Place, Copy, Writing, Talking
  <1>10. ASSUME NEW a \in Actors, Usable(a)' PROVE Serves(a)'
    <2>1. Usable(a) /\ status' = status
      BY <1>1, <1>5, <1>10, UsedBefore DEF actorVars
    <2>2. Serves(a) /\ payload[r] \subseteq Content(a)
      BY <1>1, <2>1 DEF IInv, ServedInv, Serves
    <2>3. Content(a)' = Content(a) /\ file'[a] = file[a]
      BY <1>1 DEF Content, actorVars
    <2>4. \A q \in Requests : pc[q] # "forget" /\ pc'[q] \notin {"export", "find", "save"}
      BY <1>1, <1>5, OthersIdle DEF Idle
    <2> QED
      BY <1>1, <1>6, <2>2, <2>3, <2>4 DEF Serves
  <1> QED
    BY <1>1, <1>4, <1>5, <1>7, <1>8, <1>9, <1>10, StepOf DEF ServedInv

LEMMA SaveFailsKeeps ==
    ASSUME IInv, load' = load, NEW r \in Requests, SaveFails(r)
    PROVE  IInv'
  <1>1. /\ Types /\ pc[r] = "save" /\ pc[r] \notin Idle /\ Goto(r, "discard") /\ table' = 0
        /\ UNCHANGED <<artifact, path, staged, disk, actorVars, local>> /\ "discard" \in Places
    BY DEF IInv, SaveFails, Idle, Places
  <1>2. FileTypes' /\ Goes(r, "discard")
    BY <1>1, GotoGoes DEF Types, FileTypes
  <1>3. /\ Mine(r) /\ pc'[r] = "discard" /\ answer'[r] = "none" /\ expected' = expected
        /\ RequestTypes' /\ pc'[r] \notin Before /\ pc'[r] \notin Talking
    BY <1>1, <1>2 DEF Goes, IInv, Alone, Before, Talking
  <1>4. Barred' \subseteq Barred /\ r \notin Base /\ Base' = Base
    BY <1>1, <1>3, BarredOf DEF IInv, RequestInv, Writing, Base
  <1>5. Place(r)' /\ Copy(r)' /\ Writing(r)'
    BY <1>1, <1>3, <1>4 DEF Place, Copy, Writing, Talking
  <1>6. ServedInv'
    BY <1>1, <1>3, NobodyServed
  <1> QED
    BY <1>1, <1>2, <1>3, <1>4, <1>5, <1>6, StepKeeps

LEMMA AcknowledgeKeeps ==
    ASSUME IInv, load' = load, NEW r \in Requests, Acknowledge(r)
    PROVE  IInv'
  <1>1. /\ Types /\ pc[r] = "reply" /\ pc[r] \notin Idle /\ pc[r] \notin {"send", "execute"}
        /\ Done(r, "ok") /\ expected' = expected \cup {r} /\ seen' = seen
        /\ UNCHANGED <<artifact, path, staged, disk, table, actorVars>>
    BY DEF IInv, Acknowledge, Idle
  <1>2. expected' \in Contents /\ {} \in Contents /\ r \in Base /\ Base' = Base
    BY <1>1, SMT DEF Types, RequestTypes, Contents, IInv, RequestInv, Writing, Base
  <1>3. Ends(r, "ok")
    BY <1>1, <1>2, DoneEnds
  <1>4. Mine(r) /\ pc'[r] = "done" /\ answer'[r] = "ok" /\ RequestTypes' /\ pc'[r] \notin Talking
    BY <1>3 DEF Ends, Talking
  <1>5. Types'
    BY <1>1, <1>4 DEF Types, FileTypes, ActorTypes, actorVars
  <1>6. Barred' \subseteq Barred
    BY <1>4, BarredOf DEF Before
  <1>7. DurableBase'
    BY <1>1, <1>2, <1>6 DEF IInv, DurableBase
  <1>8. ServedInv'
    BY <1>1, <1>4, <1>6, ServedAside
  <1>9. ActorInv'
    BY <1>1, NotStarting DEF IInv, ActorInv, actorVars
  <1>10. Place(r)' /\ Copy(r)' /\ Writing(r)'
    BY <1>4 DEF Place, Copy, Writing, Talking
  <1> QED
    BY <1>1, <1>4, <1>5, <1>7, <1>8, <1>9, <1>10, StepOf

\* An import takes the entry of the actor away before it saves.
LEMMA ImportForgetKeeps ==
    ASSUME IInv, load' = load, NEW r \in Requests, ImportForget(r)
    PROVE  IInv'
  <1>1. /\ Types /\ pc[r] = "forget" /\ pc[r] \notin Idle /\ Goto(r, "find") /\ table' = 0
        /\ UNCHANGED <<artifact, path, staged, disk, actorVars, local>> /\ "find" \in Places
    BY DEF IInv, ImportForget, Idle, Places
  <1>2. FileTypes' /\ Goes(r, "find") /\ payload' = payload
    BY <1>1, GotoGoes DEF Types, FileTypes
  <1>3. /\ Mine(r) /\ pc'[r] = "find" /\ answer'[r] = "none" /\ expected' = expected
        /\ RequestTypes' /\ pc'[r] \notin Before /\ pc'[r] \notin Talking
    BY <1>1, <1>2 DEF Goes, IInv, Alone, Before, Talking
  <1>4. Kind[r] = "import" /\ payload'[r] = {r} /\ {r} # None
    BY <1>1, <1>2, ServiceAssumption DEF IInv, RequestInv, Place, Writing
  <1>5. Barred' \subseteq Barred /\ r \notin Barred' /\ r \in Barred
    BY <1>1, <1>3, BarredOf DEF Barred, Before
  <1>6. r \notin Base /\ Base' = Base
    BY <1>1, <1>5 DEF IInv, DurableBase, Base
  <1>7. Place(r)' /\ Copy(r)'
    BY <1>1, <1>3, <1>4 DEF Place, Copy, Talking
  <1>8. Writing(r)'
    BY <1>3, <1>4, <1>5, <1>6 DEF Writing
  <1>9. ServedInv'
    BY <1>1, <1>3, NobodyServed
  <1> QED
    BY <1>1, <1>2, <1>3, <1>5, <1>7, <1>8, <1>9, StepKeeps

-----------------------------------------------------------------------------
(* Actors that start and stop, and restarts.                               *)

\* A step of an actor whose export no write is waiting for.
LEMMA ActorStep ==
    ASSUME IInv, load' = load, NEW a \in Actors, ActorTypes', ActorInv', table' \in {table, 0},
           UNCHANGED <<artifact, path, staged, disk, pc, local, answer, seen, expected>>,
           \A b \in Actors \ {a} : status'[b] = status[b] /\ file'[b] = file[b] /\ mem'[b] = mem[b],
           status[a] = "live" => \A r \in Requests : ~(handle[r] = a /\ pc[r] = "export"),
           Usable(a)' => Serves(a)'
    PROVE  IInv'
  <1>1. /\ Types /\ UNCHANGED <<handle, payload, existed, retried>>
        /\ Base' = Base /\ Barred' = Barred /\ Backed' = Backed
    BY DEF IInv, local, Base, Barred, Backed
  <1>2. Types'
    BY <1>1 DEF Types, FileTypes, RequestTypes
  <1>3. Alone' /\ DurableBase'
    BY <1>1 DEF IInv, Alone, DurableBase
  <1>4. ASSUME NEW b \in Actors, Usable(b)' PROVE Serves(b)'
    <2>1. CASE b # a
      <3>1. b # 0 /\ status'[b] = status[b] /\ file'[b] = file[b] /\ mem'[b] = mem[b]
        BY <2>1, SMT DEF Actors
      <3>2. Usable(b)
        BY <1>1, <1>4, <3>1 DEF Usable
      <3>3. Content(b)' = Content(b)
        BY <3>1 DEF Content
      <3> QED
        BY <1>1, <3>1, <3>2, <3>3 DEF IInv, ServedInv, Serves
    <2> QED
      BY <1>4, <2>1
  <1>5. ASSUME NEW r \in Requests PROVE Place(r)' /\ Copy(r)' /\ Writing(r)'
    <2>1. Place(r)' /\ Copy(r)'
      BY <1>1 DEF IInv, RequestInv, Place, Copy
    <2>2. ASSUME pc[r] = "export", Kind[r] # "export" PROVE status'[handle[r]] = "live"
      <3>1. status[handle[r]] = "live"
        BY <2>2 DEF IInv, RequestInv, Writing
      <3>2. PICK b \in Actors : b = handle[r]
        BY <2>2, <3>1, TalksToUsable DEF Talking
      <3> QED
        BY <2>2, <3>1, <3>2
    <2> QED
      BY <1>1, <2>1, <2>2 DEF IInv, RequestInv, Writing
  <1> QED
    BY <1>2, <1>3, <1>4, <1>5 DEF IInv, RequestInv, ServedInv

\* An actor that is being started opens a copy of the artifact.
LEMMA OpenKeeps ==
    ASSUME IInv, load' = load, NEW a \in Actors, Open(a)
    PROVE  IInv'
  <1>1. /\ status[a] = "starting" /\ ActorTypes /\ FileTypes
        /\ status' = [status EXCEPT ![a] = "live"] /\ file' = [file EXCEPT ![a] = path]
        /\ UNCHANGED <<artifact, path, staged, disk, table, mem, pc, local, answer, seen, expected>>
    BY DEF Open, IInv, Types
  <1>2. /\ ActorTypes' /\ status'[a] = "live" /\ file'[a] = path
        /\ \A b \in Actors \ {a} : status'[b] = status[b] /\ file'[b] = file[b] /\ mem'[b] = mem[b]
    BY <1>1 DEF ActorTypes, FileTypes
  <1>3. Backed /\ mem[a] = {} /\ \E q \in Requests : pc[q] \in {"send", "execute"}
    BY <1>1 DEF IInv, ActorInv
  <1>4. \A r \in Requests : pc'[r] \notin {"export", "find", "save"}
    BY <1>1, <1>3 DEF IInv, Alone, Idle
  <1>5. /\ Content(a)' = Base /\ Base \cap Barred = {}
        /\ Base' = Base /\ Barred' = Barred /\ Backed' = Backed
    BY <1>1, <1>2, <1>3 DEF Content, Backed, Base, IInv, DurableBase, Barred
  <1>6. Serves(a)'
    BY <1>1, <1>2, <1>4, <1>5 DEF Serves
  <1>7. ActorInv'
    BY <1>1, <1>2, <1>5, SMT DEF IInv, ActorInv, local
  <1> QED
    BY <1>1, <1>2, <1>6, <1>7, ActorStep

\* An actor that no write is waiting for stops, or is not there.
LEMMA LessServed ==
    ASSUME IInv, load' = load, NEW a \in Actors,
           UNCHANGED <<artifact, path, staged, disk, pc, local, answer, seen, expected>>,
           table' \in {table, 0}, NEW s \in {"closing", "gone"}, status' = [status EXCEPT ![a] = s],
           \/ UNCHANGED <<file, mem>> /\ status[a] # "live"
           \/ /\ file' = [file EXCEPT ![a] = 0] /\ mem' = [mem EXCEPT ![a] = {}]
              /\ \A r \in Requests : ~(handle[r] = a /\ pc[r] = "export")
    PROVE  IInv'
  <1>1. ActorTypes /\ ActorTypes'
    BY ServiceAssumption, SMT DEF IInv, Types, ActorTypes, Contents
  <1>2. /\ status'[a] = s /\ ~Usable(a)'
        /\ \A b \in Actors \ {a} : status'[b] = status[b] /\ file'[b] = file[b] /\ mem'[b] = mem[b]
    BY <1>1 DEF ActorTypes, Usable
  <1>3. file'[a] = 0 /\ mem'[a] = {} /\ Backed' = Backed
    BY <1>1, SMT DEF ActorTypes, IInv, ActorInv, Backed
  <1>4. ActorInv'
    BY <1>2, <1>3, SMT DEF IInv, ActorInv, local
  <1> QED
    BY <1>1, <1>2, <1>4, ActorStep

LEMMA ActorKeeps ==
    ASSUME IInv, load' = load, NEW a \in Actors, OpenFails(a) \/ Stop(a) \/ Unregister(a)
    PROVE  IInv'
  <1>1. CASE OpenFails(a)
    BY <1>1, LessServed DEF OpenFails
  <1>2. CASE Stop(a)
    BY <1>2, LessServed DEF Stop, Waiting
  <1>3. CASE Unregister(a)
    BY <1>3, LessServed DEF Unregister
  <1> QED
    BY <1>1, <1>2, <1>3

\* After a restart nobody is served, and the artifact is as it was.
LEMMA RestartKeeps ==
    ASSUME IInv, load' = load, Restart
    PROVE  IInv'
  <1>1. /\ table' = 0 /\ status' = [a \in Actors |-> "gone"]
        /\ file' = [a \in Actors |-> 0] /\ mem' = [a \in Actors |-> {}]
        /\ pc' = [r \in Requests |-> IF pc[r] \in Idle THEN pc[r] ELSE "done"]
        /\ answer' = [r \in Requests |-> IF pc[r] \in Idle THEN answer[r] ELSE "crashed"]
        /\ handle' = [r \in Requests |-> 0] /\ payload' = [r \in Requests |-> None]
        /\ UNCHANGED <<artifact, path, staged, disk, retried, existed, seen, expected>>
    BY DEF Restart
  <1>2. Types /\ RequestTypes
    BY DEF IInv, Types
  <1>3. \A r \in Requests : pc'[r] \in Idle
    BY <1>1 DEF Idle
  <1>4. RequestTypes'
    BY <1>1, <1>2, ServiceAssumption, SMT DEF RequestTypes, Places, Idle
  <1>5. FileTypes' /\ ActorTypes'
    BY <1>1, <1>2, ServiceAssumption, SMT DEF Types, FileTypes, ActorTypes, Contents
  <1>6. Types'
    BY <1>2, <1>4, <1>5 DEF Types
  <1>7. Alone'
    BY <1>1, <1>3 DEF IInv, Alone, Idle
  <1>8. ActorInv'
    BY <1>1 DEF ActorInv
  <1>9. RequestInv'
    BY <1>3 DEF RequestInv, Place, Copy, Writing, Talking, Idle
  <1>10. ServedInv'
    BY <1>1 DEF ServedInv, Usable
  <1>11. Barred' \subseteq Barred
    BY <1>1 DEF Barred, Before, Idle
  <1>12. DurableBase'
    BY <1>1, <1>11 DEF IInv, DurableBase, Base
  <1> QED
    BY <1>6, <1>7, <1>8, <1>9, <1>10, <1>12 DEF IInv

LEMMA InitHolds ==
    ASSUME Init
    PROVE  IInv
  <1>1. Types
    <2>1. load \in Workloads /\ FileTypes /\ ActorTypes
      BY ServiceAssumption, SMT DEF Init, FileTypes, ActorTypes, Contents
    <2>2. RequestTypes
      BY ServiceAssumption, SMT DEF Init, RequestTypes, Contents, Places, Idle
    <2> QED
      BY <2>1, <2>2 DEF Types
  <1>2. \A r \in Requests : pc[r] \in Idle
    BY DEF Init, Idle
  <1>3. Alone
    BY <1>2 DEF Init, Alone
  <1>4. ActorInv
    BY DEF Init, ActorInv
  <1>5. RequestInv
    BY <1>2 DEF RequestInv, Place, Copy, Writing, Talking, Idle
  <1>6. ServedInv
    BY DEF Init, ServedInv, Usable
  <1>7. DurableBase
    BY DEF Init, DurableBase, Base
  <1> QED
    BY <1>1, <1>3, <1>4, <1>5, <1>6, <1>7 DEF IInv

LEMMA ServeKeeps ==
    ASSUME OneAtATime, IInv, load' = load, NEW r \in Requests,
           Serve(r) \/ HydrateFails(r) \/ StatementFails(r) \/ SaveFails(r)
    PROVE  IInv'
  BY LookKeeps, LoadKeeps, CleanKeeps, StageKeeps, RenameKeeps, EnterKeeps, SendKeeps, LookAgainKeeps,
     ExecuteKeeps, DroppedKeeps, ExportKeeps, ExportFailsKeeps, DiscardKeeps, FindRowKeeps, SaveKeeps,
     AcknowledgeKeeps, ImportForgetKeeps, HydrateFailsKeeps, StatementFailsKeeps, SaveFailsKeeps
  DEF Serve

LEMMA StutterKeeps ==
    ASSUME IInv, UNCHANGED vars
    PROVE  IInv'
  <1>1. /\ UNCHANGED <<load, artifact, path, staged, disk, table, status, file, mem, pc>>
        /\ UNCHANGED <<handle, retried, payload, existed, answer, seen, expected>>
    BY DEF vars, actorVars, local
  <1>2. Types'
    BY <1>1 DEF IInv, Types, FileTypes, ActorTypes, RequestTypes
  <1>3. Alone' /\ ActorInv'
    BY <1>1 DEF IInv, Alone, ActorInv, Backed
  <1>4. Base' = Base /\ Barred' = Barred /\ Backed' = Backed
    BY <1>1 DEF Base, Barred, Backed
  <1>5. ASSUME NEW r \in Requests PROVE Place(r)' /\ Copy(r)' /\ Writing(r)'
    BY <1>1, <1>4 DEF IInv, RequestInv, Place, Copy, Writing
  <1>6. ServedInv'
    BY <1>1, <1>4 DEF IInv, ServedInv, Usable, Serves, Content
  <1>7. DurableBase'
    BY <1>1, <1>4 DEF IInv, DurableBase
  <1> QED
    BY <1>2, <1>3, <1>5, <1>6, <1>7 DEF IInv, RequestInv

LEMMA InvKept ==
    ASSUME OneAtATime, IInv, [Next]_vars
    PROVE  IInv'
  <1>1. CASE UNCHANGED vars
    BY <1>1, StutterKeeps
  <1>2. ASSUME load' = load, NEW r \in Requests,
               Serve(r) \/ HydrateFails(r) \/ StatementFails(r) \/ SaveFails(r)
        PROVE  IInv'
    BY <1>2, ServeKeeps
  <1>3. ASSUME load' = load, NEW a \in Actors, Open(a) \/ OpenFails(a) \/ Stop(a) \/ Unregister(a)
        PROVE  IInv'
    BY <1>3, OpenKeeps, ActorKeeps
  <1>4. CASE load' = load /\ Restart
    BY <1>4, RestartKeeps
  <1> QED
    BY <1>1, <1>2, <1>3, <1>4 DEF Next, Finished

LEMMA InvSuffices ==
    ASSUME IInv
    PROVE  DurableInv
  <1>1. TypeOK
    BY ServiceAssumption
    DEF IInv, Types, FileTypes, ActorTypes, RequestTypes, TypeOK, Contents, Places
  <1>2. AcknowledgedIsDurable
    BY DEF IInv, DurableBase, Base, AcknowledgedIsDurable
  <1>3. FailedWriteForgotten
    <2> SUFFICES ASSUME NEW w \in Requests, Kind[w] = "write", answer[w] = "error"
                 PROVE  /\ artifact = None \/ w \notin artifact
                        /\ \A a \in Actors : table = a /\ status[a] = "live" => w \notin Content(a)
      BY DEF FailedWriteForgotten
    <2>1. w \in Barred
      BY DEF Barred
    <2>2. artifact = None \/ w \notin artifact
      BY <2>1 DEF IInv, DurableBase, Base
    <2>3. \A a \in Actors : table = a /\ status[a] = "live" => w \notin Content(a)
      BY <2>1 DEF IInv, ServedInv, Usable, Serves
    <2> QED
      BY <2>2, <2>3
  <1> QED
    BY <1>1, <1>2, <1>3 DEF DurableInv

(***************************************************************************)
(* When the requests of a database come one after the other, whatever was  *)
(* acknowledged is in the artifact and no failed write is: for any         *)
(* requests, in both services, with actors that stop, meet their end while *)
(* opening the file or outlive their entry, with saves that fail and with  *)
(* restarts (execute, save, discard_local_state, import_db).               *)
(***************************************************************************)
THEOREM AcknowledgedStaysDurable ==
    ASSUME OneAtATime
    PROVE  Spec => []DurableInv
  <1>1. Init => IInv
    BY InitHolds
  <1>2. IInv /\ [Next]_vars => IInv'
    BY InvKept
  <1>3. IInv => DurableInv
    BY InvSuffices
  <1> QED
    BY <1>1, <1>2, <1>3, PTL DEF Spec

-----------------------------------------------------------------------------
(* What a request is answered.                                             *)

\* Nobody is answered something that was not saved before, or that failed.
Honest ==
    \A r \in Requests :
        /\ Kind[r] \in {"read", "export"} /\ answer[r] # "ok" /\ answer'[r] = "ok"
           => Base \subseteq seen'[r]
        /\ \A w \in Barred : w \in seen'[r] => w \in seen[r]

LEMMA QuietHonest ==
    ASSUME seen' = seen,
           \A r \in Requests : \/ answer'[r] = answer[r] \/ answer'[r] # "ok"
                               \/ Kind[r] \notin {"read", "export"}
    PROVE  Honest
  BY DEF Honest

LEMMA FailHonest ==
    ASSUME Types, NEW r \in Requests, Fail(r)
    PROVE  Honest
  <1>1. Ends(r, "error") /\ seen' = seen
    BY FailEnds
  <1> QED
    BY <1>1, QuietHonest DEF Ends, Mine

LEMMA AnswerHonest ==
    ASSUME Types, NEW r \in Requests, NEW c \in Contents, Answer(r, c),
           Base \subseteq c, c \cap Barred = {}
    PROVE  Honest
  <1>1. Ends(r, "ok") /\ seen' = [seen EXCEPT ![r] = c] /\ seen \in [Requests -> Contents]
    BY AnswerEnds DEF Types, RequestTypes
  <1>2. seen'[r] = c /\ \A q \in Requests : q # r => seen'[q] = seen[q] /\ answer'[q] = answer[q]
    BY <1>1 DEF Ends, Mine
  <1> QED
    BY <1>2 DEF Honest

\* The steps that may answer a read or an export.
LEMMA RenameHonest ==
    ASSUME IInv, NEW r \in Requests, Rename(r)
    PROVE  Honest
  <1>1. Types /\ pc[r] = "rename"
    BY DEF IInv, Rename
  <1>2. payload[r] # None /\ staged = payload[r] /\ (Kind[r] # "import" => payload[r] = artifact)
    BY <1>1 DEF IInv, RequestInv, Copy
  <1>3. CASE Kind[r] = "export"
    <2>1. Answer(r, payload[r])
      BY <1>2, <1>3 DEF Rename
    <2>2. payload[r] \in Contents /\ payload[r] = Base
      BY <1>1, <1>2, <1>3 DEF Types, FileTypes, Base
    <2>3. Base \cap Barred = {}
      BY DEF IInv, DurableBase
    <2> QED
      BY <1>1, <2>1, <2>2, <2>3, AnswerHonest
  <1>4. CASE Kind[r] # "export"
    <2>1. UNCHANGED <<answer, seen>>
      BY <1>2, <1>4 DEF Rename, Goto
    <2> QED
      BY <2>1, QuietHonest
  <1> QED
    BY <1>3, <1>4

LEMMA ExecuteHonest ==
    ASSUME IInv, NEW r \in Requests, Execute(r) \/ Export(r)
    PROVE  Honest
  <1>1. /\ Types /\ pc[r] \in Talking /\ status[handle[r]] = "live"
        /\ Export(r) => pc[r] = "export"
    BY DEF IInv, Execute, Export, Talking
  <1>2. PICK c \in Contents : c = Content(handle[r]) /\ Base \subseteq c /\ c \cap Barred = {}
    BY <1>1, TalksToUsable DEF Serves
  <1>3. Export(r) => Exportable(handle[r]) = c
    BY <1>1, <1>2, ExportsContent
  <1>4. Answer(r, c) \/ UNCHANGED <<answer, seen>>
    BY <1>2, <1>3 DEF Execute, Export, Goto
  <1>5. CASE Answer(r, c)
    BY <1>1, <1>2, <1>5, AnswerHonest
  <1>6. CASE UNCHANGED <<answer, seen>>
    BY <1>6, QuietHonest
  <1> QED
    BY <1>4, <1>5, <1>6

LEMMA AcknowledgeHonest ==
    ASSUME IInv, NEW r \in Requests, Acknowledge(r)
    PROVE  Honest
  <1>1. answer' = [answer EXCEPT ![r] = "ok"] /\ seen' = seen /\ pc[r] = "reply"
    BY DEF Acknowledge, Done
  <1>2. Kind[r] \notin {"read", "export"}
    BY <1>1 DEF IInv, RequestInv, Place
  <1>3. answer \in [Requests -> {"none", "ok", "error", "crashed"}]
    BY DEF IInv, Types, RequestTypes
  <1> QED
    BY <1>1, <1>2, <1>3, QuietHonest

LEMMA ServeHonest ==
    ASSUME IInv, NEW r \in Requests, Serve(r) \/ HydrateFails(r) \/ StatementFails(r) \/ SaveFails(r)
    PROVE  Honest
  <1>1. CASE UNCHANGED <<answer, seen>>
    BY <1>1, QuietHonest
  <1>2. CASE Fail(r)
    BY <1>2, FailHonest DEF IInv
  <1>3. CASE Rename(r) \/ Execute(r) \/ Export(r) \/ Acknowledge(r)
    BY <1>3, RenameHonest, ExecuteHonest, AcknowledgeHonest
  <1>4. CASE Look(r) \/ Load(r) \/ Clean(r) \/ Stage(r) \/ Enter(r)
    BY <1>1, <1>2, <1>4 DEF Look, Load, Clean, Stage, Enter, Goto
  <1>5. CASE Send(r) \/ LookAgain(r) \/ Dropped(r)
    BY <1>1, <1>2, <1>5 DEF Send, LookAgain, Dropped, Goto
  <1>6. CASE ExportFails(r) \/ Discard(r) \/ FindRow(r)
    BY <1>1, <1>2, <1>6 DEF ExportFails, Discard, FindRow, Goto
  <1>7. CASE Save(r) \/ ImportForget(r) \/ SaveFails(r)
    BY <1>1, <1>7 DEF Save, ImportForget, SaveFails, Goto
  <1>8. CASE HydrateFails(r) \/ StatementFails(r)
    BY <1>2, <1>8 DEF HydrateFails, StatementFails
  <1> QED
    BY <1>3, <1>4, <1>5, <1>6, <1>7, <1>8 DEF Serve

LEMMA StepHonest ==
    ASSUME IInv, [Next]_vars
    PROVE  Honest
  <1>1. CASE UNCHANGED <<answer, seen>>
    BY <1>1, QuietHonest
  <1>2. ASSUME NEW r \in Requests, Serve(r) \/ HydrateFails(r) \/ StatementFails(r) \/ SaveFails(r)
        PROVE  Honest
    BY <1>2, ServeHonest
  <1>3. ASSUME NEW a \in Actors, Open(a) \/ OpenFails(a) \/ Stop(a) \/ Unregister(a) PROVE Honest
    BY <1>1, <1>3 DEF Open, OpenFails, Stop, Unregister
  <1>4. CASE Restart
    <2>1. seen' = seen /\ \A r \in Requests : answer'[r] \in {answer[r], "crashed"}
      BY <1>4 DEF Restart
    <2> QED
      BY <2>1, QuietHonest
  <1>5. CASE UNCHANGED vars
    BY <1>1, <1>5 DEF vars
  <1> QED
    BY <1>2, <1>3, <1>4, <1>5 DEF Next, Finished

LEMMA HonestReads ==
    ASSUME IInv, Honest
    PROVE  \A r \in Requests :
              ~load.overlap /\ Kind[r] \in {"read", "export"} /\ answer[r] # "ok" /\ answer'[r] = "ok"
              => expected \subseteq seen'[r]
  BY DEF Honest, IInv, DurableBase

LEMMA HonestFailures ==
    ASSUME Honest
    PROVE  \A r, w \in Requests :
              ~load.overlap /\ Kind[w] = "write" /\ answer[w] = "error" /\ w \in seen'[r]
              => w \in seen[r]
  BY DEF Honest, Barred

(***************************************************************************)
(* A read or an export returns everything acknowledged before it, from     *)
(* whichever of actor, cache file and artifact it is answered (execute,    *)
(* export, hydrate_cache).                                                 *)
(***************************************************************************)
THEOREM ReadsSeeAcknowledged ==
    ASSUME OneAtATime
    PROVE  Spec => ReadYourWrites
  <1>1. Init => IInv
    BY InitHolds
  <1>2. IInv /\ [Next]_vars => IInv'
    BY InvKept
  <1>3. IInv /\ [Next]_vars =>
           [\A r \in Requests :
               ~load.overlap /\ Kind[r] \in {"read", "export"} /\ answer[r] # "ok" /\ answer'[r] = "ok"
               => expected \subseteq seen'[r]]_vars
    BY StepHonest, HonestReads
  <1> QED
    BY <1>1, <1>2, <1>3, PTL DEF Spec, ReadYourWrites

(***************************************************************************)
(* A write whose save failed is seen by no request that comes after it:    *)
(* what executed it is discarded before the error is returned (execute,    *)
(* discard_local_state).                                                   *)
(***************************************************************************)
THEOREM FailedWritesStayUnseen ==
    ASSUME OneAtATime
    PROVE  Spec => FailedWriteNotSeenLater
  <1>1. Init => IInv
    BY InitHolds
  <1>2. IInv /\ [Next]_vars => IInv'
    BY InvKept
  <1>3. IInv /\ [Next]_vars =>
           [\A r, w \in Requests :
               ~load.overlap /\ Kind[w] = "write" /\ answer[w] = "error" /\ w \in seen'[r]
               => w \in seen[r]]_vars
    BY StepHonest, HonestFailures
  <1> QED
    BY <1>1, <1>2, <1>3, PTL DEF Spec, FailedWriteNotSeenLater
=============================================================================
