---------------------------- MODULE TunnelSession ----------------------------
(***************************************************************************)
(* The `serve` process with its link and its tunnel                         *)
(* (src/tinycloud-node-server/src/runtime.rs, tunnel/connection.rs,         *)
(* tunnel/reconnect.rs, tunnel/commands.rs), composed with the commands of   *)
(* NodeLink and the frames of TunnelFrames.                                 *)
(*                                                                         *)
(* External: the tunnel relay.  It accepts a tunnel whose sequence is larger *)
(* than the one the link service has for the name, and closes with 4409      *)
(* otherwise; 4410 means another connection has taken over the name.         *)
(***************************************************************************)
EXTENDS NodeLink, TunnelFrames

CONSTANTS
    MaxExp,       \* the exponent at which the backoff delay stops growing
    MaxResyncs    \* MAX_CONSECUTIVE_STALE_RESYNCS

ASSUME TunnelAssumption == MaxExp \in Nat /\ MaxResyncs \in Nat

\* What the environment may cause.
Events == {"refuse", "silence", "kill", "bind", "tick", "move", "age", "drop", "supersede", "start", "stop"}

\* A run: the commands, what the directory and the service have at first, how
\* many events of each kind, and what the relay sends over the tunnel.
ASSUME WorkloadAssumption ==
    \A w \in Workloads :
        /\ w.commands \subseteq Commands
        /\ w.env \in [Events -> Nat]
        /\ w.files \in Files
        /\ w.lan \in Ips /\ w.gens \in Nat
        /\ w.frames \in Seq(Frame)

\* A run that removes the directory does not link the node again: a process
\* that still waits for the removed lock file and one that opens the new lock
\* file would both be inside.
NeverRelinked ==
    \A w \in Workloads : (\E c \in w.commands : Kind(c) = "link_disable")
                            => \A c \in w.commands : Kind(c) # "link_enable"

VARIABLES
    tun,     \* the tunnel task: program counter, BackoffState, next jump
    fresh,   \* history: the marker was written by this `serve` process
    rush     \* history: connection attempts since the task last waited

tunnelVars == <<tun, fresh, rush>>
vars == <<linkVars, frameVars, tunnelVars>>

TunnelOff == [pc |-> "off", attempt |-> 0, streak |-> 0, jump |-> 0]

Init ==
    /\ LinkInit
    /\ FramesInit
    /\ tun = TunnelOff
    /\ fresh = FALSE
    /\ rush = 0

-----------------------------------------------------------------------------
(* BackoffState *)

Least(a, b) == IF a < b THEN a ELSE b

\* next_action for a close code other than 4409 or a transport error.
Failed(t) == [t EXCEPT !.streak = 0, !.attempt = Least(@ + 1, MaxExp), !.pc = "wait", !.jump = 0]

\* (mutant of Stale: the streak is not counted)
StaleForever(t) == [t EXCEPT !.pc = "top", !.jump = ResyncJump]

\* next_action for 4409: jump and retry at once, at most MaxResyncs times in a
\* row, and then wait like after any other failure.
Stale(t) ==
    IF t.streak + 1 > MaxResyncs
    THEN [t EXCEPT !.streak = Least(@ + 1, MaxResyncs + 1), !.attempt = Least(@ + 1, MaxExp),
                   !.pc = "wait", !.jump = 0]
    ELSE [t EXCEPT !.streak = @ + 1, !.pc = "top", !.jump = ResyncJump]

\* reset after the relay acknowledged.
Acked(t) == [t EXCEPT !.attempt = 0, !.streak = 0, !.pc = "serving"]

-----------------------------------------------------------------------------
(* The tunnel task *)

\* record_state and clear_state
Mark(connected) == disk' = [disk EXCEPT !.tunnel = connected] /\ fresh' = TRUE
ClearMark == disk' = [disk EXCEPT !.tunnel = None] /\ fresh' = TRUE

ButDisk == <<load, epoch, held, serviceVars, died, hostVars, serveVars>>

\* The tunnel is signalled once the link task has ended.
Stopping == serve = "stopping" /\ listener = None

\* spawn_tunnel_task: the flag is read once, without the lock.
TunnelSpawn ==
    /\ tun.pc = "load" /\ loader.pc = "off"
    /\ tun' = [tun EXCEPT !.pc = IF Readable(disk.state) /\ disk.state.tunnel THEN "top" ELSE "stopped"]
    /\ UNCHANGED <<linkVars, frameVars, fresh, rush>>

\* The loop ends at the shutdown with a last record.
TunnelEnds ==
    /\ tun.pc \in {"top", "wait"} /\ Stopping
    /\ tun' = [tun EXCEPT !.pc = "stopped"]
    /\ Mark(FALSE)
    /\ UNCHANGED <<ButDisk, budget, proc, frameVars, rush>>

\* prepare_attempt: bump the sequence under the lock ...
Prepare ==
    /\ tun.pc = "top" /\ ~Stopping
    /\ Upd(TunnelBump, [Idle EXCEPT !.pc = "start", !.jump = tun.jump])
    /\ tun' = [tun EXCEPT !.pc = "prepare", !.jump = 0]
    /\ UNCHANGED <<ButDisk, budget, disk, frameVars, fresh, rush>>

\* ... and sign the frame.
Prepared ==
    /\ tun.pc = "prepare" /\ proc[TunnelBump].pc = "done" /\ proc[TunnelBump].result = "ok"
    /\ tun' = [tun EXCEPT !.pc = "dial"]
    /\ signed' = signed \cup {Request(TunnelBump)}
    /\ rush' = rush + 1
    /\ UNCHANGED <<load, budget, fileVars, held, proc, wire, svc, died, hostVars, serveVars, frameVars, fresh>>

\* The flag was cleared: the task ends and leaves no marker.
PreparedDisabled ==
    /\ tun.pc = "prepare" /\ proc[TunnelBump].pc = "done" /\ proc[TunnelBump].result = "disabled"
    /\ tun' = [tun EXCEPT !.pc = "stopped"]
    /\ ClearMark
    /\ UNCHANGED <<ButDisk, budget, proc, frameVars, rush>>

\* The state is missing or unreadable, or the identity cannot be resolved.
PrepareFailed ==
    /\ tun.pc = "prepare" /\ proc[TunnelBump].pc = "done" /\ proc[TunnelBump].result # "disabled"
    /\ \/ proc[TunnelBump].result = "error" /\ UNCHANGED budget
       \/ proc[TunnelBump].result = "ok" /\ May("refuse") /\ Spend("refuse")
    /\ tun' = Failed(tun)
    /\ Mark(FALSE)
    /\ UNCHANGED <<ButDisk, proc, frameVars, rush>>

\* connect_async fails, or the frame cannot be sent, or no ack comes in time.
ConnectFails ==
    /\ tun.pc \in {"dial", "auth"}
    /\ May("drop") /\ Spend("drop")
    /\ tun' = Failed(tun)
    /\ Mark(FALSE)
    /\ UNCHANGED <<ButDisk, proc, frameVars, rush>>

Dial ==
    /\ tun.pc = "dial"
    /\ tun' = [tun EXCEPT !.pc = "auth"]
    /\ UNCHANGED <<linkVars, frameVars, fresh, rush>>

\* The relay's answer to the auth frame, and what the task makes of it.
RelayAccepts == LET r == svc[proc[TunnelBump].st.name] IN r.owner = "us" /\ r.seq < proc[TunnelBump].st.seq
RelayStale == LET r == svc[proc[TunnelBump].st.name] IN r.owner = "us" /\ r.seq >= proc[TunnelBump].st.seq

AckArrives ==
    /\ tun.pc = "auth" /\ RelayAccepts
    /\ svc' = [svc EXCEPT ![proc[TunnelBump].st.name].seq = proc[TunnelBump].st.seq]
    /\ tun' = Acked(tun)
    /\ Mark(TRUE)
    /\ SocketOpens(load.frames)
    /\ rush' = 0
    /\ UNCHANGED <<load, budget, epoch, held, proc, wire, signed, died, hostVars, serveVars>>

\* The relay commits the sequence, but its ack is lost.
AckLost ==
    /\ tun.pc = "auth" /\ RelayAccepts
    /\ May("drop") /\ Spend("drop")
    /\ svc' = [svc EXCEPT ![proc[TunnelBump].st.name].seq = proc[TunnelBump].st.seq]
    /\ tun' = Failed(tun)
    /\ Mark(FALSE)
    /\ UNCHANGED <<load, epoch, held, proc, wire, signed, died, hostVars, serveVars, frameVars, rush>>

StaleArrives ==
    /\ tun.pc = "auth" /\ RelayStale
    /\ tun' = Stale(tun)
    /\ Mark(FALSE)
    /\ UNCHANGED <<ButDisk, budget, proc, frameVars, rush>>

RejectArrives ==
    /\ tun.pc = "auth" /\ ~RelayAccepts /\ ~RelayStale
    /\ May("drop") /\ Spend("drop")
    /\ tun' = Failed(tun)
    /\ Mark(FALSE)
    /\ UNCHANGED <<ButDisk, proc, frameVars, rush>>

\* The live socket drops, goes idle or is closed.
Drops ==
    /\ tun.pc = "serving"
    /\ May("drop") /\ Spend("drop")
    /\ tun' = Failed(tun)
    /\ Mark(FALSE)
    /\ SocketEnds
    /\ UNCHANGED <<ButDisk, proc, rush>>

\* 4410, while serving or instead of an ack: the task ends for good.
Superseded ==
    /\ tun.pc \in {"auth", "serving"}
    /\ May("supersede") /\ Spend("supersede")
    /\ tun' = [tun EXCEPT !.pc = "stopped"]
    /\ Mark(FALSE)
    /\ SocketEnds
    /\ UNCHANGED <<ButDisk, proc, rush>>

\* Shutdown of a live tunnel: the socket is closed and the task ends.
Hangup ==
    /\ tun.pc = "serving" /\ Stopping
    /\ tun' = [tun EXCEPT !.pc = "stopped"]
    /\ Mark(FALSE)
    /\ SocketEnds
    /\ UNCHANGED <<ButDisk, budget, proc, rush>>

\* The backoff delay is over.
Retry ==
    /\ tun.pc = "wait" /\ ~Stopping
    /\ tun' = [tun EXCEPT !.pc = "top"]
    /\ rush' = 0
    /\ UNCHANGED <<linkVars, frameVars, fresh>>

Frames ==
    /\ (tun.pc = "serving" /\ handle_frame) \/ TasksStep
    /\ UNCHANGED <<linkVars, tunnelVars>>

TunnelStep ==
    \/ TunnelSpawn \/ TunnelEnds \/ Prepare \/ Prepared \/ PreparedDisabled
    \/ (PrepareFailed /\ UNCHANGED budget) \/ Dial \/ AckArrives \/ StaleArrives \/ Hangup \/ Retry

-----------------------------------------------------------------------------
(* The `serve` process *)

\* launch_rocket spawns the link task and the tunnel task.
ServeStarts ==
    /\ serve = "down" /\ proc[AutoRenew].pc = "idle"
    /\ May("start") /\ Spend("start")
    /\ serve' = "up"
    /\ loader' = [LoaderOff EXCEPT !.pc = "state", !.boot = TRUE]
    /\ tun' = [TunnelOff EXCEPT !.pc = "load"]
    /\ fresh' = FALSE
    /\ rush' = 0
    /\ UNCHANGED <<load, fileVars, held, proc, serviceVars, died, hostVars, listener, frameVars>>

\* The shutdown signal.
ServeStops ==
    /\ serve = "up"
    /\ May("stop") /\ Spend("stop")
    /\ serve' = "stopping"
    /\ UNCHANGED <<load, fileVars, held, proc, serviceVars, died, hostVars, loader, listener, frameVars, tunnelVars>>

\* The listener task ends at the shutdown.
ListenerStops ==
    /\ serve = "stopping" /\ listener # None
    /\ listener' = None
    /\ UNCHANGED <<load, budget, fileVars, held, proc, serviceVars, died, hostVars, serve, loader, frameVars, tunnelVars>>

\* launch_rocket has awaited both tasks; a renewal under way is waited for too.
ServeExits ==
    /\ Stopping /\ loader.pc = "off" /\ tun.pc = "stopped"
    /\ proc[AutoRenew].pc = "idle"
    /\ serve' = "down"
    /\ tun' = TunnelOff
    /\ proc' = [proc EXCEPT ![TunnelBump] = Idle]
    /\ RuntimeEnds
    /\ UNCHANGED <<load, budget, fileVars, held, serviceVars, died, hostVars, loader, listener, fresh, rush>>

\* `serve` is killed.
ServeDies ==
    /\ serve # "down"
    /\ May("kill") /\ Spend("kill")
    /\ serve' = "down"
    /\ loader' = LoaderOff
    /\ listener' = None
    /\ tun' = TunnelOff
    /\ proc' = [proc EXCEPT ![AutoRenew] = Idle, ![TunnelBump] = Idle]
    /\ held' = [e \in DOMAIN held |-> IF held[e] \in {AutoRenew, TunnelBump} THEN None ELSE held[e]]
    /\ died' = TRUE
    /\ RuntimeEnds
    /\ UNCHANGED <<load, fileVars, serviceVars, hostVars, fresh, rush>>

LinkPart(A) == A /\ UNCHANGED <<frameVars, tunnelVars>>

Next ==
    \/ LinkPart(LinkSteps) \/ LinkPart(LinkEvents)
    \/ TunnelStep \/ PrepareFailed \/ ConnectFails \/ AckLost \/ RejectArrives \/ Drops \/ Superseded
    \/ Frames
    \/ ServeStarts \/ ServeStops \/ ListenerStops \/ ServeExits \/ ServeDies

Spec == Init /\ [][Next]_vars

-----------------------------------------------------------------------------
(* Fairness: processes and tasks that can go on do, the service and the relay  *)
(* answer what they received, and a backoff delay passes.                      *)

Fairness ==
    /\ \A p \in Procs : WF_vars(LinkPart(Step(p)))
    /\ WF_vars(LinkPart(\E m \in wire : Answer(m)))
    /\ WF_vars(LinkPart(LoaderStep))
    /\ WF_vars(TunnelStep)
    /\ WF_vars(Frames)
    /\ WF_vars(ListenerStops)
    /\ WF_vars(ServeExits)

FairSpec == Spec /\ Fairness

-----------------------------------------------------------------------------
(* Properties *)

Pcs == {"idle", "start", "lock", "read", "write", "send", "wait", "answered", "certify",
        "unmark", "return", "done", "dead"}

\* Types, and the bound on the requests that are reassembled at a time.
TypeOK ==
    /\ budget \in [Events -> Nat]
    /\ epoch \in 0..MaxEpoch /\ held \in [0..MaxEpoch -> Procs \cup {None}]
    /\ \A p \in Procs : proc[p].pc \in Pcs
    /\ disk.bound \in {TRUE, FALSE, None} /\ disk.tunnel \in {TRUE, FALSE, None}
    /\ lan \in Ips /\ gens \in Nat /\ expiring \in 0..gens
    /\ serve \in {"down", "up", "stopping"}
    /\ tun.pc \in {"off", "load", "top", "prepare", "dial", "auth", "serving", "wait", "stopped"}
    /\ tun.attempt \in 0..MaxExp /\ tun.streak \in 0..(MaxResyncs + 1)
    /\ DOMAIN pending \subseteq Ids /\ Cardinality(DOMAIN pending) <= MaxPending
    /\ \A i \in DOMAIN pending : pending[i] <= MaxBody

\* No sequence is signed twice for a state directory, by whatever command, the
\* renewal loop and the tunnel do at the same time, and whichever of them is
\* killed (StateLock, send_with_sequence, bump_sequence_for_tunnel).
SequenceNeverReused ==
    \A r, s \in signed : (r.seq = s.seq /\ r.epoch = s.epoch) => r = s

\* A sequence is on disk before it is sent: what a later process reads is never
\* behind what the service may have seen.
NeverBehind ==
    Readable(disk.state) => \A r \in signed : r.epoch = epoch => r.seq <= disk.state.seq

\* A process that reads the state under the lock never finds a file that
\* another is in the middle of writing, unless that one was killed.
LockedReadsWhole == \A p \in Procs : (proc[p].pc = "read" /\ disk.state = Torn) => died

\* No concurrent renewal or tunnel attempt writes back the flag that `tunnel
\* disable` cleared (tunnel/commands.rs disable).
DisableNotLost ==
    (\E c \in load.commands : Kind(c) = "tunnel_disable" /\ proc[c].pc = "done" /\ proc[c].result = "ok")
    /\ ~(\E c \in load.commands : Kind(c) = "tunnel_enable")
    /\ Readable(disk.state)
    => ~disk.state.tunnel

\* The listener never serves a certificate with the key of another, though the
\* two files are replaced one after the other while it reads them
\* (parse_certified_key).
ServedPairMatches == listener # None => listener.key = listener.cert /\ listener.key # Torn

\* The marker this process wrote says `connected` only while a tunnel is live.
MarkerTruth == (fresh /\ serve # "down" /\ disk.tunnel = TRUE) => tun.pc = "serving"

\* However the relay answers, at most MaxResyncs + 1 connections are attempted
\* without waiting in between (BackoffState.next_action).
NoHammering == rush <= MaxResyncs + 1

\* The loopback API is called with whole bodies, and only for heads that were
\* accepted.
CalledWhole ==
    \A c \in called :
        /\ c.body = BodyOf(load.frames, c.id)
        /\ \E i \in DOMAIN load.frames : load.frames[i].kind = "request" /\ load.frames[i].id = c.id
                                          /\ validate_request_path(load.frames[i].path)

\* Every command comes to an end: the lock is always given back.
EveryCommandFinishes == <>[](\A c \in load.commands : proc[c].pc \in {"done", "dead"})

\* While the name is linked and the state can be read, the tunnel does not stay
\* in its reconnect loop: it is live or has ended.
TunnelSettles ==
    <>[](Readable(disk.state) /\ svc[disk.state.name].owner = "us")
        => <>[](tun.pc \in {"off", "serving", "stopped"})

\* A shutdown ends the process, whatever the two tasks are doing.
ShutdownCompletes == serve = "stopping" ~> serve = "down"

\* On a socket that stays up every request the relay completed is answered.
Completed(id) == \E i \in DOMAIN load.frames : load.frames[i].id = id /\ load.frames[i].kind = "body"
                                               /\ load.frames[i].done
Undisturbed == \A e \in {"drop", "supersede", "stop", "kill"} : load.env[e] = 0
RequestsAnswered ==
    (tun.pc = "serving" /\ Undisturbed)
        ~> (\A id \in Ids : Completed(id) => \E i \in DOMAIN out : out[i].id = id /\ out[i].done)

\* Commands, the renewal loop and the tunnel share the link directory: no
\* sequence is reused, no file read half-written, no flag or pair mixed up.
DirectorySound ==
    TypeOK /\ SequenceNeverReused /\ NeverBehind /\ LockedReadsWhole /\ DisableNotLost /\ ServedPairMatches

\* The tunnel says what it does, does not hammer the relay, and carries whole
\* requests and responses.
TunnelSound == MarkerTruth /\ NoHammering /\ ResponsesWellFormed /\ CalledWhole

\* Commands end, the tunnel settles, a shutdown completes, requests are answered.
LinkProgress == EveryCommandFinishes /\ TunnelSettles /\ ShutdownCompletes /\ RequestsAnswered

=============================================================================
