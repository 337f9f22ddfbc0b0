---------------------------- MODULE NodeIdentity ----------------------------
(***************************************************************************)
(* The node's signing identity and the key provider that keeps it          *)
(* (tinycloud-node-server/src/node_control/key_provider.rs).               *)
(*                                                                         *)
(* A process resolves the identity for a purpose: to serve with it (one is *)
(* generated and stored when there is none), to probe (only look), to back *)
(* it up or sign a link request (never invent one).  The encrypted-file provider keeps two files: the key       *)
(* encryption key (kek.secret) and the identity wrapped under it           *)
(* (identity.key.enc).  Both are written with a truncating write, so every *)
(* write is two steps and a process that dies between them leaves an empty *)
(* file.                                                                   *)
(*                                                                         *)
(* A random secret is named after the process that drew it: a process      *)
(* draws at most one identity and one key encryption key.                  *)
(***************************************************************************)
EXTENDS Naturals, FiniteSets, TLC

CONSTANTS
    Procs,      \* processes that resolve the identity
    KeySource,  \* KeySource[p]: "static" (configuration), "env" (TINYCLOUD_KEYS_SECRET) or
                \* "provider" (the provider, configured or by default)
    None,       \* no file, no value
    Empty,      \* a file that was created and not written
    Static,     \* the secret of a static source
    Missing,    \* the answer of a probe that found no identity
    Failed      \* the answer of a resolution that ended with an error

VARIABLES
    kek,        \* kek.secret
    idfile,     \* identity.key.enc
    key         \* key[p]: the resolution p is running, and its answer

idVars == <<kek, idfile, key>>

Idle == [pc |-> "idle", purpose |-> None, blob |-> None, kek |-> None, answer |-> None]

Wrapped(k, secret) == [kek |-> k, secret |-> secret]

IdTypeOK ==
    /\ kek \in {None, Empty} \union Procs
    /\ idfile \in {None, Empty} \union [kek : {Empty} \union Procs, secret : Procs]
    /\ \A p \in Procs :
        /\ key[p].pc \in {"idle", "look", "read", "unwrap", "kek", "kek_write",
                          "store", "store_write", "done", "dead"}
        /\ key[p].answer \in {None, Static, Missing, Failed} \union Procs

IdInit ==
    /\ kek = None
    /\ idfile = None
    /\ key = [p \in Procs |-> Idle]

Answer(p, a) == key' = [key EXCEPT ![p] = [Idle EXCEPT !.pc = "done", !.answer = a]]
At(p, pc) == key[p].pc = pc
Goto(p, pc) == key' = [key EXCEPT ![p].pc = pc]

\* resolve_identity_state: a static secret wins over every provider.
Resolve(p, purpose) ==
    key' = [key EXCEPT ![p] =
              IF KeySource[p] # "provider"
              THEN [Idle EXCEPT !.pc = "done", !.answer = Static]
              ELSE [Idle EXCEPT !.pc = "look", !.purpose = purpose]]

AbsentAnyway(p) ==
    CASE key[p].purpose = "probe" -> Answer(p, Missing)
      [] key[p].purpose = "serve" -> Goto(p, "kek")
      [] key[p].purpose = "backup" -> Goto(p, "kek")

\* resolve_provider_state when the provider holds nothing.
Absent(p) ==
    CASE key[p].purpose = "probe" -> Answer(p, Missing)
      [] key[p].purpose = "serve" -> Goto(p, "kek")
      [] key[p].purpose = "backup" -> Answer(p, Failed)

\* load_secret asks whether the identity file exists ...
Look(p) ==
    /\ At(p, "look")
    /\ IF idfile = None THEN Absent(p) ELSE Goto(p, "read")
    /\ UNCHANGED <<kek, idfile>>

\* ... an empty one does not parse ...
ReadIdentity(p) ==
    /\ At(p, "read")
    /\ IF idfile = Empty THEN Answer(p, Failed)
       ELSE key' = [key EXCEPT ![p].pc = "unwrap", ![p].blob = idfile]
    /\ UNCHANGED <<kek, idfile>>

\* ... and the key encryption key must be there and must be the one that
\* wrapped it.  An empty kek.secret is a secret like any other.
Unwrap(p) ==
    /\ At(p, "unwrap")
    /\ Answer(p, IF kek = key[p].blob.kek THEN key[p].blob.secret ELSE Failed)
    /\ UNCHANGED <<kek, idfile>>

\* store_secret, ensure_kek_secret: read kek.secret, or create one.
EnsureKek(p) ==
    /\ At(p, "kek")
    /\ IF kek = None
       THEN kek' = Empty /\ Goto(p, "kek_write")
       ELSE UNCHANGED kek /\ key' = [key EXCEPT ![p].pc = "store", ![p].kek = kek]
    /\ UNCHANGED idfile

WriteKek(p) ==
    /\ At(p, "kek_write")
    /\ kek' = p
    /\ key' = [key EXCEPT ![p].pc = "store", ![p].kek = p]
    /\ UNCHANGED idfile

\* store_secret: the identity file, written after the key that wraps it.
CreateIdentity(p) ==
    /\ At(p, "store")
    /\ idfile' = Empty
    /\ Goto(p, "store_write")
    /\ UNCHANGED kek

WriteIdentity(p) ==
    /\ At(p, "store_write")
    /\ idfile' = Wrapped(key[p].kek, p)
    /\ Answer(p, p)
    /\ UNCHANGED kek

IdStep(p) ==
    \/ Look(p) \/ ReadIdentity(p) \/ Unwrap(p)
    \/ EnsureKek(p) \/ WriteKek(p) \/ CreateIdentity(p) \/ WriteIdentity(p)

\* The process dies in the middle of a resolution.
Die(p) == key' = [key EXCEPT ![p] = [Idle EXCEPT !.pc = "dead"]]

\* What a probe of p answers between the steps of the others.
ProbeNow(p) ==
    CASE KeySource[p] # "provider" -> Static
      [] OTHER -> IF idfile = None THEN Missing
                  ELSE IF idfile = Empty THEN Failed
                  ELSE IF idfile.kek = kek THEN idfile.secret ELSE Failed
=============================================================================
