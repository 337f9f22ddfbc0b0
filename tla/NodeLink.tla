------------------------------- MODULE NodeLink -------------------------------
(***************************************************************************)
(* The link of a node to the tinycloud.link service                        *)
(* (src/tinycloud-node-server/src/link): the commands `link enable`,       *)
(* `link disable`, `link renew`, `tunnel enable` and `tunnel disable`, each *)
(* an operating-system process of its own; the renewal loop and the LAN     *)
(* listener inside `serve`; the files of dataPath/link/ they share; and the *)
(* advisory lock on state.lock.                                             *)
(*                                                                         *)
(* Every file is written by truncating it and then filling it, so a reader  *)
(* that does not hold the lock, or a process that comes after a crash, may   *)
(* find it cut.  The lock is a lock of the file that was opened, not of its  *)
(* name: `link disable` removes the directory, and the next opener creates   *)
(* another lock file.                                                        *)
(*                                                                         *)
(* External: the link service.  It keeps one record per name, with the       *)
(* subject that owns it and the last sequence it accepted, and answers 409   *)
(* to a sequence that is not larger.  Requests and answers may be lost or    *)
(* late.                                                                     *)
(***************************************************************************)
EXTENDS Naturals, Sequences, FiniteSets

CONSTANTS
    Commands,      \* the command processes
    CommandKind,   \* [Commands -> what the command line asks for]
    CommandName,   \* [Commands -> Names], the name `link enable` is given
    Names,         \* name labels
    Ips,           \* the sets of LAN addresses the host may have
    AutoRenew,     \* the renewal the loop of `serve` starts
    TunnelBump,    \* the sequence bump of the tunnel task of `serve`
    Workloads,     \* what a run consists of: see LinkInit
    ResyncJump,    \* SEQUENCE_RESYNC_JUMP
    MaxEpoch,      \* bound: how often dataPath/link/ is removed
    None,          \* no file, no holder, no value
    Torn           \* a file that is truncated and not yet filled

\* LinkState, the contents of state.json
LinkState == [name : Names, seq : Nat, ips : Ips \cup {None}, cert : Nat \cup {None}, tunnel : BOOLEAN]

\* The files of dataPath/link/ as they are before a run: none is cut.
Files == [state : LinkState \cup {None}, key : Nat \cup {None}, cert : Nat \cup {None},
          bound : BOOLEAN \cup {None}, tunnel : BOOLEAN \cup {None}]

ASSUME LinkAssumption ==
    /\ ResyncJump \in Nat \ {0}
    /\ MaxEpoch \in Nat \ {0}
    /\ CommandKind \in [Commands -> {"link_enable", "link_disable", "link_renew",
                                     "tunnel_enable", "tunnel_disable"}]
    /\ CommandName \in [Commands -> Names]
    /\ {AutoRenew, TunnelBump} \cap Commands = {} /\ AutoRenew # TunnelBump
    /\ None \notin Commands \cup {AutoRenew, TunnelBump, Torn}
    /\ {None, Torn} \cap LinkState = {} /\ None \notin BOOLEAN /\ None # "delete"

VARIABLES
    load,      \* the workload (never changes)
    budget,    \* [kind of event -> how often the environment may still cause it]
    disk,      \* the files of dataPath/link/
    epoch,     \* how often dataPath/link/ was removed; names the lock file
    held,      \* [lock file -> the process that holds its lock]
    proc,      \* [process -> its program counter and memory]
    wire,      \* requests the service has not handled
    svc,       \* [Names -> the record of the service]
    signed,    \* history: the requests that were signed
    died,      \* history: some process was killed
    lan,       \* the LAN addresses of the host
    gens,      \* how many key pairs were generated
    expiring,  \* the newest key pair whose certificate is about to end
    serve,     \* the `serve` process: "down", "up" or "stopping"
    loader,    \* `serve` reading its TLS material
    listener   \* the key and certificate the LAN listener serves

fileVars == <<disk, epoch>>
serviceVars == <<wire, svc, signed>>
hostVars == <<lan, gens, expiring>>
serveVars == <<serve, loader, listener>>
linkVars == <<load, budget, fileVars, held, proc, serviceVars, died, hostVars, serveVars>>

Procs == Commands \cup {AutoRenew, TunnelBump}

Kind(p) == CASE p = AutoRenew -> "link_renew"
             [] p = TunnelBump -> "tunnel_bump"
             [] OTHER -> CommandKind[p]

May(event) == budget[event] > 0
Spend(event) == budget' = [budget EXCEPT ![event] = @ - 1]

-----------------------------------------------------------------------------
(* The files and the memory of a process *)

\* LinkState::new
NewLinkState(name) ==
    [name |-> name, seq |-> 0, ips |-> None, cert |-> None, tunnel |-> FALSE]

NoFiles == [state |-> None, key |-> None, cert |-> None, bound |-> None, tunnel |-> None]

Readable(file) == file \notin {None, Torn}

Idle == [pc |-> "idle", lock |-> None, st |-> None, req |-> None, again |-> FALSE,
         gen |-> None, ips |-> None, jump |-> 0, writes |-> << >>, cut |-> FALSE,
         then |-> None, result |-> None]

\* The process goes on with memory m.
Upd(p, m) == proc' = [proc EXCEPT ![p] = m]

\* The command returns: its StateLock is dropped.
Finish(p, result) ==
    /\ Upd(p, [proc[p] EXCEPT !.pc = "done", !.result = result, !.writes = << >>, !.cut = FALSE])
    /\ held' = [held EXCEPT ![proc[p].lock] = None]

\* The state is now st, and these files are to be written one after another.
Writing(m, st, writes, then) ==
    [m EXCEPT !.pc = "write", !.st = st, !.writes = writes, !.cut = FALSE, !.then = then]

Saving(m, st, then) == Writing(m, st, <<[file |-> "state", to |-> st]>>, then)

LinkInit ==
    /\ load \in Workloads
    /\ budget = load.env
    /\ disk = load.files
    /\ epoch = 0
    /\ held = [e \in 0..MaxEpoch |-> None]
    /\ proc = [p \in Procs |-> [Idle EXCEPT !.pc = IF p \in load.commands THEN "start" ELSE "idle"]]
    /\ wire = {}
    /\ svc = load.svc
    /\ signed = {}
    /\ died = FALSE
    /\ lan = load.lan
    /\ gens = load.gens
    /\ expiring = 0
    /\ serve = "down"
    /\ loader = [pc |-> "off", boot |-> FALSE, key |-> None, cert |-> None]
    /\ listener = None

-----------------------------------------------------------------------------
(* The lock *)

\* StateLock::acquire opens the lock file the directory has now ...
OpenLock(p) ==
    /\ proc[p].pc = "start"
    /\ Upd(p, [proc[p] EXCEPT !.pc = "lock", !.lock = epoch])
    /\ UNCHANGED <<load, budget, fileVars, held, serviceVars, died, hostVars, serveVars>>

\* ... and waits until nobody holds the lock of that file.
Exclusive(p) == held[proc[p].lock] = None

TakeLock(p) ==
    /\ proc[p].pc = "lock"
    /\ Exclusive(p)
    /\ held' = [held EXCEPT ![proc[p].lock] = p]
    /\ Upd(p, [proc[p] EXCEPT !.pc = "read"])
    /\ UNCHANGED <<load, budget, fileVars, serviceVars, died, hostVars, serveVars>>

-----------------------------------------------------------------------------
(* Reading the state and deciding what to do *)

\* send_with_sequence: the next sequence is persisted before it is sent.
next_sequence(st) == [st EXCEPT !.seq = @ + 1]

Sign(m, st, req) == [Saving(m, st, "send") EXCEPT !.req = req, !.again = FALSE]

\* request_cert: a fresh key pair for the name.
Certify(p, st) ==
    /\ gens' = gens + 1
    /\ Upd(p, [Sign(proc[p], next_sequence(st), "cert") EXCEPT !.gen = gens + 1])

ReadUnparsable(p) ==
    /\ proc[p].pc = "read"
    /\ disk.state = Torn
    /\ Finish(p, "error")
    /\ UNCHANGED <<load, budget, fileVars, serviceVars, died, hostVars, serveVars>>

\* The node identity is not ready, or the host has no private LAN address.
Refused(p) ==
    /\ proc[p].pc = "read" /\ disk.state # Torn
    /\ \/ Kind(p) = "link_enable"
       \/ Kind(p) \in {"link_disable", "link_renew"} /\ disk.state # None
    /\ May("refuse") /\ Spend("refuse")
    /\ Finish(p, "error")
    /\ UNCHANGED <<load, fileVars, serviceVars, died, hostVars, serveVars>>

\* enable
ReadForEnable(p) ==
    /\ proc[p].pc = "read" /\ Kind(p) = "link_enable" /\ disk.state # Torn
    /\ LET st == IF disk.state = None THEN NewLinkState(CommandName[p])
                 ELSE [disk.state EXCEPT !.name = CommandName[p]]
       IN Upd(p, [Sign(proc[p], next_sequence(st), "claim") EXCEPT !.ips = lan])
    /\ UNCHANGED <<load, budget, fileVars, held, serviceVars, died, hostVars, serveVars>>

\* disable
ReadForDisable(p) ==
    /\ proc[p].pc = "read" /\ Kind(p) = "link_disable" /\ disk.state # Torn
    /\ IF disk.state = None
       THEN Finish(p, "ok")
       ELSE Upd(p, Sign(proc[p], next_sequence(disk.state), "delete")) /\ UNCHANGED held
    /\ UNCHANGED <<load, budget, fileVars, serviceVars, died, hostVars, serveVars>>

\* renew: the name is claimed again only if the LAN addresses changed.
ReadForRenew(p) ==
    /\ proc[p].pc = "read" /\ Kind(p) = "link_renew" /\ disk.state # Torn
    /\ \/ /\ disk.state = None
          /\ Finish(p, "error")
          /\ UNCHANGED gens
       \/ /\ disk.state # None /\ disk.state.ips # lan
          /\ Upd(p, [Sign(proc[p], next_sequence(disk.state), "claim") EXCEPT !.ips = lan])
          /\ UNCHANGED <<held, gens>>
       \/ /\ disk.state # None /\ disk.state.ips = lan
          /\ Certify(p, disk.state)
          /\ UNCHANGED held
    /\ UNCHANGED <<load, budget, fileVars, serviceVars, died, lan, expiring, serveVars>>

\* tunnel enable and tunnel disable
ReadForTunnelFlag(p) ==
    /\ proc[p].pc = "read" /\ Kind(p) \in {"tunnel_enable", "tunnel_disable"}
    /\ disk.state # Torn
    /\ IF disk.state = None
       THEN Finish(p, IF Kind(p) = "tunnel_enable" THEN "error" ELSE "ok")
       ELSE LET st == [disk.state EXCEPT !.tunnel = (Kind(p) = "tunnel_enable")]
            IN /\ Upd(p, Saving(proc[p], st, IF st.tunnel THEN "return" ELSE "unmark"))
               /\ UNCHANGED held
    /\ UNCHANGED <<load, budget, fileVars, serviceVars, died, hostVars, serveVars>>

\* (mutant of ReadForTunnel: the flag is not read again)
BumpAnyway(p) ==
    /\ proc[p].pc = "read" /\ Kind(p) = "tunnel_bump" /\ Readable(disk.state)
    /\ LET st == [next_sequence(disk.state) EXCEPT !.tunnel = TRUE]
       IN Upd(p, Saving(proc[p], st, "return"))
    /\ UNCHANGED <<load, budget, fileVars, held, serviceVars, died, hostVars, serveVars>>

\* bump_sequence_for_tunnel
ReadForTunnel(p) ==
    /\ proc[p].pc = "read" /\ Kind(p) = "tunnel_bump" /\ disk.state # Torn
    /\ \/ /\ disk.state = None
          /\ Finish(p, "error")
       \/ /\ disk.state # None /\ ~disk.state.tunnel
          /\ Finish(p, "disabled")
       \/ /\ disk.state # None /\ disk.state.tunnel
          /\ LET st == [next_sequence(disk.state) EXCEPT !.seq = @ + proc[p].jump]
             IN Upd(p, Saving(proc[p], st, "return"))
          /\ UNCHANGED held
    /\ UNCHANGED <<load, budget, fileVars, serviceVars, died, hostVars, serveVars>>

Read(p) == ReadUnparsable(p) \/ Refused(p) \/ ReadForEnable(p) \/ ReadForDisable(p)
           \/ ReadForRenew(p) \/ ReadForTunnelFlag(p) \/ ReadForTunnel(p)

-----------------------------------------------------------------------------
(* Writing files, and talking to the service *)

\* write_private_file opens with truncate ...
Truncate(p) ==
    /\ proc[p].pc = "write" /\ ~proc[p].cut
    /\ disk' = [disk EXCEPT ![Head(proc[p].writes).file] = Torn]
    /\ Upd(p, [proc[p] EXCEPT !.cut = TRUE])
    /\ UNCHANGED <<load, budget, epoch, held, serviceVars, died, hostVars, serveVars>>

\* ... and then writes the contents.
Fill(p) ==
    /\ proc[p].pc = "write" /\ proc[p].cut
    /\ LET w == Head(proc[p].writes)
           rest == Tail(proc[p].writes)
       IN /\ disk' = [disk EXCEPT ![w.file] = w.to]
          /\ Upd(p, [proc[p] EXCEPT !.cut = FALSE, !.writes = rest,
                                    !.pc = IF rest = << >> THEN proc[p].then ELSE "write"])
    /\ UNCHANGED <<load, budget, epoch, held, serviceVars, died, hostVars, serveVars>>

Request(p) == [by |-> p, name |-> proc[p].st.name, seq |-> proc[p].st.seq,
               req |-> proc[p].req, again |-> proc[p].again, epoch |-> epoch]

Send(p) ==
    /\ proc[p].pc = "send"
    /\ wire' = wire \cup {Request(p)}
    /\ signed' = signed \cup {Request(p)}
    /\ Upd(p, [proc[p] EXCEPT !.pc = "wait"])
    /\ UNCHANGED <<load, budget, fileVars, held, svc, died, hostVars, serveVars>>

\* No answer within the timeout of the client, or one that is no conflict.
NoAnswer(p) ==
    /\ proc[p].pc = "wait"
    /\ May("silence") /\ Spend("silence")
    /\ Upd(p, [proc[p] EXCEPT !.pc = "answered", !.result = "error"])
    /\ UNCHANGED <<load, fileVars, held, serviceVars, died, hostVars, serveVars>>

\* A stale sequence is answered once by jumping ahead.
Resync(p) ==
    /\ proc[p].pc = "answered" /\ proc[p].result = "stale" /\ ~proc[p].again
    /\ LET st == [proc[p].st EXCEPT !.seq = @ + ResyncJump]
       IN Upd(p, [Saving(proc[p], st, "send") EXCEPT !.again = TRUE])
    /\ UNCHANGED <<load, budget, fileVars, held, serviceVars, died, hostVars, serveVars>>

\* What was asked for failed: the command returns the error.
GiveUp(p) ==
    /\ proc[p].pc = "answered" /\ proc[p].req # "delete"
    /\ proc[p].result # "ok"
    /\ proc[p].result = "stale" => proc[p].again
    /\ Finish(p, "error")
    /\ UNCHANGED <<load, budget, fileVars, serviceVars, died, hostVars, serveVars>>

\* disable: the directory is removed whatever the service answered.
RemoveLinkDir(p) ==
    /\ proc[p].pc = "answered" /\ proc[p].req = "delete"
    /\ proc[p].result = "stale" => proc[p].again
    /\ disk' = NoFiles
    /\ epoch' = epoch + 1
    /\ Finish(p, IF proc[p].result \in {"ok", "missing"} THEN "ok" ELSE "error")
    /\ UNCHANGED <<load, budget, serviceVars, died, hostVars, serveVars>>

\* The claim was accepted: the addresses are recorded, a certificate is asked for.
Claimed(p) ==
    /\ proc[p].pc = "answered" /\ proc[p].req = "claim" /\ proc[p].result = "ok"
    /\ LET st == [proc[p].st EXCEPT !.ips = proc[p].ips]
       IN Upd(p, Saving(proc[p], st, "certify"))
    /\ UNCHANGED <<load, budget, fileVars, held, serviceVars, died, hostVars, serveVars>>

AskCertificate(p) ==
    /\ proc[p].pc = "certify"
    /\ Certify(p, proc[p].st)
    /\ UNCHANGED <<load, budget, fileVars, held, serviceVars, died, lan, expiring, serveVars>>

\* The certificate was issued: the key, the chain and then its end are written.
Issued(p) ==
    /\ proc[p].pc = "answered" /\ proc[p].req = "cert" /\ proc[p].result = "ok"
    /\ LET g == proc[p].gen
           st == [proc[p].st EXCEPT !.cert = g]
       IN Upd(p, Writing(proc[p], st, <<[file |-> "key", to |-> g], [file |-> "cert", to |-> g],
                                         [file |-> "state", to |-> st]>>, "return"))
    /\ UNCHANGED <<load, budget, fileVars, held, serviceVars, died, hostVars, serveVars>>

\* tunnel disable removes the marker of the tunnel after clearing the flag.
Unmark(p) ==
    /\ proc[p].pc = "unmark"
    /\ disk' = [disk EXCEPT !.tunnel = None]
    /\ Finish(p, "ok")
    /\ UNCHANGED <<load, budget, epoch, serviceVars, died, hostVars, serveVars>>

Return(p) ==
    /\ proc[p].pc = "return"
    /\ Finish(p, "ok")
    /\ UNCHANGED <<load, budget, fileVars, serviceVars, died, hostVars, serveVars>>

Step(p) ==
    \/ OpenLock(p) \/ TakeLock(p) \/ Read(p) \/ Truncate(p) \/ Fill(p) \/ Send(p)
    \/ Resync(p) \/ GiveUp(p) \/ RemoveLinkDir(p) \/ Claimed(p) \/ AskCertificate(p)
    \/ Issued(p) \/ Unmark(p) \/ Return(p)

\* A command is killed: the kernel drops its lock, its files stay as they are.
Kill(c) ==
    /\ proc[c].pc \notin {"idle", "start", "done", "dead"}
    /\ May("kill") /\ Spend("kill")
    /\ Upd(c, [proc[c] EXCEPT !.pc = "dead"])
    /\ held' = [e \in DOMAIN held |-> IF held[e] = c THEN None ELSE held[e]]
    /\ died' = TRUE
    /\ UNCHANGED <<load, fileVars, serviceVars, hostVars, serveVars>>

-----------------------------------------------------------------------------
(* External: the link service *)

\* What the service answers to a request, from its record of the name.
Verdict(m) ==
    LET r == svc[m.name] IN
    CASE r.owner = "nobody" /\ m.req = "claim" -> "ok"
      [] r.owner = "nobody" /\ m.req = "delete" -> "missing"
      [] r.owner # "us" -> "refused"
      [] r.owner = "us" /\ r.seq >= m.seq -> "stale"
      [] OTHER -> "ok"

\* The record after a request it accepts; for a certificate the sequence
\* counts even if the issuance then fails.
Recorded(m) ==
    IF m.req = "delete" THEN [owner |-> "nobody", seq |-> 0]
    ELSE [owner |-> "us", seq |-> m.seq]

Handle(m, verdict) ==
    /\ wire' = wire \ {m}
    /\ svc' = IF Verdict(m) = "ok" THEN [svc EXCEPT ![m.name] = Recorded(m)] ELSE svc
    /\ IF proc[m.by].pc = "wait" /\ Request(m.by).seq = m.seq
       THEN Upd(m.by, [proc[m.by] EXCEPT !.pc = "answered", !.result = verdict])
       ELSE UNCHANGED proc
    /\ UNCHANGED <<load, fileVars, held, signed, died, hostVars, serveVars>>

Answer(m) == Handle(m, Verdict(m)) /\ UNCHANGED budget

IssuanceFails(m) ==
    /\ m.req = "cert" /\ Verdict(m) = "ok"
    /\ May("silence") /\ Spend("silence")
    /\ Handle(m, "error")

Lose(m) ==
    /\ May("silence") /\ Spend("silence")
    /\ wire' = wire \ {m}
    /\ IF proc[m.by].pc = "wait" /\ Request(m.by).seq = m.seq
       THEN Upd(m.by, [proc[m.by] EXCEPT !.pc = "answered", !.result = "error"])
       ELSE UNCHANGED proc
    /\ UNCHANGED <<load, fileVars, held, svc, signed, died, hostVars, serveVars>>

-----------------------------------------------------------------------------
(* The LAN listener of `serve` and its renewal loop *)

LoaderOff == [pc |-> "off", boot |-> FALSE, key |-> None, cert |-> None]

\* load_tls_material reads the state and then the two files, without the lock.
LoadState ==
    /\ loader.pc = "state"
    /\ loader' = IF Readable(disk.state) THEN [loader EXCEPT !.pc = "key"] ELSE LoaderOff
    /\ UNCHANGED <<load, budget, fileVars, held, proc, serviceVars, died, hostVars, serve, listener>>

LoadKey ==
    /\ loader.pc = "key"
    /\ loader' = IF disk.key # None THEN [loader EXCEPT !.pc = "cert", !.key = disk.key] ELSE LoaderOff
    /\ UNCHANGED <<load, budget, fileVars, held, proc, serviceVars, died, hostVars, serve, listener>>

LoadCert ==
    /\ loader.pc = "cert"
    /\ loader' = IF disk.cert # None THEN [loader EXCEPT !.pc = "build", !.cert = disk.cert] ELSE LoaderOff
    /\ UNCHANGED <<load, budget, fileVars, held, proc, serviceVars, died, hostVars, serve, listener>>

\* parse_certified_key: both parse, and the key is the one of the certificate.
Certified(key, cert) == key # Torn /\ cert # Torn /\ key = cert

\* spawn_link_task builds the TLS configuration and binds; either may fail, and
\* what happened is recorded.
Bind(bound) ==
    /\ loader.pc = "build" /\ loader.boot
    /\ bound => Certified(loader.key, loader.cert)
    /\ (~bound /\ Certified(loader.key, loader.cert)) => May("bind")
    /\ IF ~bound /\ Certified(loader.key, loader.cert) THEN Spend("bind") ELSE UNCHANGED budget
    /\ listener' = IF bound THEN [key |-> loader.key, cert |-> loader.cert] ELSE None
    /\ disk' = [disk EXCEPT !.bound = bound]
    /\ loader' = LoaderOff
    /\ UNCHANGED <<load, epoch, held, proc, serviceVars, died, hostVars, serve>>

\* LinkCertResolver::update after a renewal.
Reload ==
    /\ loader.pc = "build" /\ ~loader.boot
    /\ listener' = IF Certified(loader.key, loader.cert)
                   THEN [key |-> loader.key, cert |-> loader.cert] ELSE listener
    /\ loader' = LoaderOff
    /\ UNCHANGED <<load, budget, fileVars, held, proc, serviceVars, died, hostVars, serve>>

\* should_renew_now, read without the lock.
ShouldRenew ==
    /\ Readable(disk.state)
    /\ \/ disk.state.ips # lan
       \/ disk.state.cert = None
       \/ disk.state.cert # None /\ disk.state.cert <= expiring

\* The daily tick of run_link_renew_loop.
RenewTick ==
    /\ serve = "up" /\ listener # None /\ loader.pc = "off" /\ proc[AutoRenew].pc = "idle"
    /\ ShouldRenew
    /\ May("tick") /\ Spend("tick")
    /\ Upd(AutoRenew, [proc[AutoRenew] EXCEPT !.pc = "start"])
    /\ UNCHANGED <<load, fileVars, held, serviceVars, died, hostVars, serveVars>>

\* The renewal returned; a successful one is loaded into the listener.
RenewReturned ==
    /\ proc[AutoRenew].pc = "done"
    /\ proc' = [proc EXCEPT ![AutoRenew] = Idle]
    /\ loader' = IF proc[AutoRenew].result = "ok" /\ serve = "up"
                 THEN [LoaderOff EXCEPT !.pc = "state"] ELSE loader
    /\ UNCHANGED <<load, budget, fileVars, held, serviceVars, died, hostVars, serve, listener>>

LoaderStep == LoadState \/ LoadKey \/ LoadCert \/ Bind(TRUE) \/ Bind(FALSE) \/ Reload \/ RenewReturned

\* The host gets other LAN addresses, or the certificates so far near their end.
HostMoves ==
    /\ May("move") /\ Spend("move")
    /\ \E i \in Ips \ {lan} : lan' = i
    /\ UNCHANGED <<load, fileVars, held, proc, serviceVars, died, gens, expiring, serveVars>>

CertificatesAge ==
    /\ May("age") /\ Spend("age")
    /\ expiring' = gens
    /\ UNCHANGED <<load, fileVars, held, proc, serviceVars, died, lan, gens, serveVars>>

LinkSteps == (\E p \in Procs : Step(p)) \/ (\E m \in wire : Answer(m)) \/ LoaderStep
LinkEvents ==
    \/ \E p \in Procs : NoAnswer(p)
    \/ \E c \in Commands : Kill(c)
    \/ \E m \in wire : IssuanceFails(m) \/ Lose(m)
    \/ RenewTick \/ HostMoves \/ CertificatesAge
=============================================================================
