----------------------------- MODULE MCNodeLink -----------------------------
(***************************************************************************)
(* Instances of TunnelSession.                                             *)
(***************************************************************************)
EXTENDS TunnelSession, TLC

MCCommandKind ==
    [enable |-> "link_enable", rename |-> "link_enable", disable |-> "link_disable",
     renew |-> "link_renew", on |-> "tunnel_enable", off |-> "tunnel_disable"]
MCCommands == DOMAIN MCCommandKind
MCCommandName == [c \in MCCommands |-> IF c = "rename" THEN "n2" ELSE "n1"]
MCNames == {"n1", "n2"}
MCIps == {"lan1", "lan2"}

Quiet == [e \in Events |-> 0]

\* A node that was never linked, and one that is.
Unlinked == NoFiles
Linked(seq, flag) ==
    [state |-> [name |-> "n1", seq |-> seq, ips |-> "lan1", cert |-> 1, tunnel |-> flag],
     key |-> 1, cert |-> 1, bound |-> None, tunnel |-> None]
Record(owner, seq) == [n \in MCNames |-> IF n = "n1" THEN [owner |-> owner, seq |-> seq]
                                         ELSE [owner |-> "nobody", seq |-> 0]]

Run(commands, files, service, env, frames) ==
    [commands |-> commands, files |-> files, gens |-> IF files = Unlinked THEN 0 ELSE 1,
     svc |-> service, lan |-> "lan1", env |-> env @@ Quiet, frames |-> frames]

Req(id, path) == [kind |-> "request", id |-> id, path |-> path]
Body(id, n, done) == [kind |-> "body", id |-> id, size |-> n, done |-> done, decodes |-> TRUE]
Bad(id) == [kind |-> "body", id |-> id, size |-> 1, done |-> TRUE, decodes |-> FALSE]
Err(id) == [kind |-> "error", id |-> id]

MCIds == {"a", "b", "c"}
MCUpstream == [i \in MCIds |-> CASE i = "a" -> {3} [] i = "b" -> {0, 4, 5} [] OTHER -> {2}]

\* Two requests whose bodies are interleaved, and a third one too many.
Mixed == <<Req("a", {}), Req("b", {}), Body("a", 1, FALSE), Req("c", {}), Body("b", 0, TRUE),
           Body("c", 1, TRUE), Body("a", 2, TRUE)>>
\* A refused path, a body that does not decode, one that is too long, one the
\* relay gives up.
Broken == <<Req("a", {"no_slash"}), Body("a", 1, TRUE), Req("b", {}), Bad("b"), Req("c", {}), Body("c", 5, TRUE)>>
GivenUp == <<Req("a", {}), Req("b", {}), Body("a", 1, FALSE), Err("a"), Body("a", 1, TRUE), Body("b", 2, TRUE)>>

MCWorkloads == {
    \* commands of one host, with answers that are lost and commands that die
    Run({"enable", "rename"}, Unlinked, Record("nobody", 0), [silence |-> 1, kill |-> 1], << >>),
    Run({"enable", "off"}, Linked(1, TRUE), Record("us", 4), [silence |-> 1, refuse |-> 1], << >>),
    Run({"renew", "on"}, Linked(1, FALSE), Record("us", 3), [silence |-> 1, move |-> 1, kill |-> 1], << >>),
    Run({"enable"}, Unlinked, Record("other", 2), [refuse |-> 1], << >>),
    Run({"disable", "renew"}, Linked(1, FALSE), Record("us", 2), [silence |-> 1, refuse |-> 1], << >>),
    Run({"disable", "off"}, Linked(1, TRUE), Record("us", 1), [kill |-> 1], << >>),
    \* the renewal loop and the listener
    Run({}, Linked(1, FALSE), Record("us", 1), [start |-> 1, tick |-> 2, age |-> 1, move |-> 1, silence |-> 1], << >>),
    Run({"renew"}, Linked(1, FALSE), Record("us", 1), [start |-> 1, tick |-> 1, age |-> 1, bind |-> 1, stop |-> 1], << >>),
    Run({"renew"}, Linked(1, FALSE), Record("us", 1), [start |-> 2, tick |-> 1, age |-> 1, kill |-> 1], << >>),
    \* the tunnel
    Run({}, Linked(1, TRUE), Record("us", 9), [start |-> 1, drop |-> 3, stop |-> 1, refuse |-> 1], << >>),
    Run({}, Linked(1, TRUE), Record("us", 1), [start |-> 2, drop |-> 1, kill |-> 1, supersede |-> 1], << >>),
    Run({"off"}, Linked(1, TRUE), Record("us", 1), [start |-> 1, drop |-> 2, stop |-> 1], << >>),
    Run({"off"}, Linked(1, TRUE), Record("us", 1), [start |-> 1, drop |-> 1, tick |-> 1, age |-> 1], << >>),
    Run({"disable"}, Linked(1, TRUE), Record("us", 1), [start |-> 1, drop |-> 1], << >>),
    \* requests over the tunnel
    Run({}, Linked(1, TRUE), Record("us", 1), [start |-> 1], Mixed),
    Run({}, Linked(1, TRUE), Record("us", 1), [start |-> 1], Broken),
    Run({}, Linked(1, TRUE), Record("us", 1), [start |-> 1, drop |-> 1], GivenUp)}

ASSUME MCAssumption == NeverRelinked

=============================================================================
