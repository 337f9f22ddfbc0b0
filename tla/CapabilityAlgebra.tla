------------------------- MODULE CapabilityAlgebra -------------------------
(***************************************************************************)
(* When one capability contains another.  The node has two containment     *)
(* checks.  PolicyCapability::contains compares the capabilities of a      *)
(* policy; the validation of delegations and invocations compares ability  *)
(* rows (resource, ability, caveats).  Both rest on the action registry    *)
(* (aliases and implications) and on the containment of caveats that       *)
(* restrict a holder to named SQL statements with pinned parameters.       *)
(*                                                                         *)
(* A path is a sequence of characters, of which only "/" and "." matter.   *)
(* SQL text is a model value; Writes(sql) says that it contains a write    *)
(* keyword.  A JSON value is a model value.                                *)
(***************************************************************************)
EXTENDS Integers, Sequences

CONSTANTS
    Actions,        \* action URNs in use, without the "tinycloud." prefix
    Characters,     \* of paths
    Writes(_),      \* contains_write_keyword
    None            \* an absent path, caveat or statement

(***************************************************************************)
(* The registry: an alias resolves in one hop; holding an action implies   *)
(* others, transitively.                                                   *)
(***************************************************************************)
resolve_alias(a) ==
    CASE a = "duckdb/select" -> "duckdb/read"
      [] a = "kv/delete" -> "kv/del"
      [] a = "sql/select" -> "sql/read"
      [] OTHER -> a

implied_actions(a) ==
    CASE a = "duckdb/*" -> {"duckdb/admin", "duckdb/export", "duckdb/import", "duckdb/read", "duckdb/write"}
      [] a = "sql/*" -> {"sql/admin", "sql/read", "sql/schema", "sql/write"}
      [] a = "sql/admin" -> {"sql/schema"}
      [] OTHER -> {}

accepted_actions(service) ==
    CASE service = "sql" -> {"sql/*", "sql/admin", "sql/read", "sql/schema", "sql/select", "sql/write"}
      [] service = "kv" -> {"kv/del", "kv/delete", "kv/get", "kv/list", "kv/metadata", "kv/put"}
      [] service = "vfs" -> {"vfs/delete", "vfs/get", "vfs/list", "vfs/metadata", "vfs/put"}
      [] service = "duckdb" -> {"duckdb/*", "duckdb/admin", "duckdb/export", "duckdb/import",
                                "duckdb/read", "duckdb/select", "duckdb/write"}
      [] service = "delegation" -> {"delegation/list", "delegation/status"}
      [] service = "capabilities" -> {"capabilities/read"}
      [] service = "encryption" -> {"encryption/decrypt", "encryption/network.create",
                                    "encryption/network.revoke"}
      [] service = "hooks" -> {"hooks/list", "hooks/register", "hooks/subscribe", "hooks/unregister"}
      [] service = "space" -> {"space/create", "space/host", "space/info", "space/list"}
      [] OTHER -> {}

ASSUME RegistryAssumption ==
    \A a \in Actions : resolve_alias(a) \in Actions /\ implied_actions(a) \subseteq Actions

ClosedUnder(S) == \A a \in S : \A b \in implied_actions(a) : resolve_alias(b) \in S

\* The least set of canonical actions with the alias of a that is closed
\* under implication: what the loop with a stack collects.
Expansion ==
    [a \in Actions |->
        {x \in Actions : \A S \in SUBSET Actions : resolve_alias(a) \in S /\ ClosedUnder(S) => x \in S}]

expand_actions(held) == UNION {Expansion[a] : a \in held}

ability_matches(held, required) == resolve_alias(required) \in Expansion[held]

(***************************************************************************)
(* Paths.  Under a policy a path names itself, or everything below it when *)
(* it ends in a slash; a database is named exactly.  In a resource a path  *)
(* also stands for what is below it, and no path stands for everything.    *)
(***************************************************************************)
StartsWith(s, b) == Len(b) <= Len(s) /\ \A i \in 1..Len(b) : s[i] = b[i]

EndsInSlash(s) == Len(s) > 0 /\ s[Len(s)] = "/"

path_contains(service, auth, req) ==
    \/ auth = req
    \/ service # "sql" /\ EndsInSlash(auth) /\ StartsWith(req, auth) /\ Len(req) > Len(auth)

ExtendsPath(s, b) ==
    \/ b = None
    \/ /\ s # None
       /\ StartsWith(s, b)
       /\ ~EndsInSlash(b) /\ Len(s) > Len(b) => s[Len(b) + 1] = "/"

\* ResourceId::extends: res is inside base.
extends(res, base) ==
    /\ res.space = base.space
    /\ res.service = base.service
    /\ res.fragment = base.fragment
    /\ ExtendsPath(res.path, base.path)

(***************************************************************************)
(* A constrained-statements caveat: named statements, each with pinned     *)
(* parameters.  A name or an index that occurs twice means its first       *)
(* occurrence.                                                             *)
(***************************************************************************)
Named(caveat, name, s) ==
    \E i \in DOMAIN caveat.statements :
        /\ s = caveat.statements[i]
        /\ s.name = name
        /\ \A j \in 1..(i - 1) : caveat.statements[j].name # name

Pinned(statement, index, value) ==
    \E i \in DOMAIN statement.fixed :
        /\ statement.fixed[i] = [index |-> index, value |-> value]
        /\ \A j \in 1..(i - 1) : statement.fixed[j].index # index

PinsKept(auth, req) ==
    \A i \in DOMAIN auth.fixed : Pinned(req, auth.fixed[i].index, auth.fixed[i].value)

CaveatContains(auth, req) ==
    /\ auth.readOnly /\ req.readOnly
    /\ \A i \in DOMAIN req.statements :
          \E s \in {auth.statements[j] : j \in DOMAIN auth.statements} :
             /\ Named(auth, req.statements[i].name, s)
             /\ s.sql = req.statements[i].sql
             /\ PinsKept(s, req.statements[i])

(***************************************************************************)
(* The caveats of an ability row: a constrained-statements caveat if one   *)
(* of the entries parses as one, and whatever the other entries are.       *)
(***************************************************************************)
NoCaveats == [sql |-> None, other |-> None]

caveats_contain_child(parent, child) ==
    IF parent.sql # None
    THEN child.sql # None /\ CaveatContains(parent.sql, child.sql)
    ELSE parent = child \/ parent = NoCaveats

\* A row of a parent supports a row of a child.
Supports(parent, child) ==
    /\ extends(child.resource, parent.resource)
    /\ ability_matches(parent.ability, child.ability)
    /\ caveats_contain_child(parent.caveats, child.caveats)

(***************************************************************************)
(* PolicyCapability: parse, then contains.  A raw capability names its     *)
(* keys by what is wrong with them; normalize_path decodes characters that *)
(* need no encoding and composes the ones that can be.                     *)
(***************************************************************************)
Decoded == [c \in {"%a", "%.", "decomposed"} |->
    CASE c = "%a" -> "a" [] c = "%." -> "." [] OTHER -> "composed"]

ASSUME CharacterAssumption == \A c \in DOMAIN Decoded : Decoded[c] \in Characters

Normal(path) == [i \in DOMAIN path |-> IF path[i] \in DOMAIN Decoded THEN Decoded[path[i]] ELSE path[i]]

\* The path has a ".." segment.
Climbs(path) ==
    \E i \in DOMAIN path :
        /\ i + 1 \in DOMAIN path
        /\ path[i] = "." /\ path[i + 1] = "."
        /\ i > 1 => path[i - 1] = "/"
        /\ i + 1 < Len(path) => path[i + 2] = "/"

BadSpaces == {"", "wildcard", "manifest"}

CaveatsParse(raw) ==
    raw.caveats # None /\ raw.service = "sql" =>
        /\ raw.actions \subseteq {"sql/read", "sql/select"}
        /\ \A i \in DOMAIN raw.caveats.statements : ~Writes(raw.caveats.statements[i].sql)

Parses(raw) ==
    /\ raw.keys = "known"
    /\ accepted_actions(raw.service) # {}
    /\ raw.space \notin BadSpaces
    /\ ~Climbs(Normal(raw.path))
    /\ raw.service = "sql" => raw.path # <<>>
    /\ raw.actions # {} /\ raw.actions \subseteq accepted_actions(raw.service)
    /\ CaveatsParse(raw)

parse(raw) ==
    [service |-> raw.service, space |-> raw.space, path |-> Normal(raw.path),
     actions |-> raw.actions, caveats |-> raw.caveats]

contains(auth, req) ==
    /\ auth.service = req.service
    /\ auth.space = req.space
    /\ path_contains(auth.service, auth.path, req.path)
    /\ \A a \in req.actions : resolve_alias(a) \in expand_actions(auth.actions)
    /\ auth.caveats # None =>
          req.caveats # None /\ (auth.service = "sql" => CaveatContains(auth.caveats, req.caveats))

=============================================================================
