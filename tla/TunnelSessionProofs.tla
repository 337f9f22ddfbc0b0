------------------------- MODULE TunnelSessionProofs -------------------------
(***************************************************************************)
(* The link directory and the tunnel of TunnelSession are sound for every  *)
(* set of commands, names and addresses, whatever the service and the      *)
(* relay answer, and whichever process is killed.                          *)
(*                                                                         *)
(* The argument.  Whoever has read the state under the lock is alone until *)
(* it returns, because the lock file it holds is the one the directory     *)
(* has: so what it computed from the state it read is still newer than     *)
(* everything on disk when it writes, and the sequence it drew is above    *)
(* all that were signed.  The tunnel task signs after it has given the     *)
(* lock back: its sequence is accounted for as one that is drawn already.  *)
(***************************************************************************)
EXTENDS TunnelSession, TLAPS

\* First-order reasoning, unless a step names another prover.
USE Zenon

-----------------------------------------------------------------------------
(* The inductive invariant.                                                *)

\* A process that holds its lock, one that has read the state under it and
\* goes on, and one whose state is the one on disk.
Inside == {"read", "write", "send", "wait", "answered", "certify", "unmark", "return"}
Decided == Inside \ {"read"}
Settled == Decided \ {"write"}

At(p, pcs) == proc[p].pc \in pcs

\* What is left to write ends with the state.
StateWrite(st) == [file |-> "state", to |-> st]
Plan(m) ==
    \/ m.writes = <<StateWrite(m.st)>>
    \/ m.writes = <<[file |-> "cert", to |-> m.gen], StateWrite(m.st)>>
    \/ m.writes = <<[file |-> "key", to |-> m.gen], [file |-> "cert", to |-> m.gen], StateWrite(m.st)>>

Fields == DOMAIN Idle
Carried(m) == m.jump \in Nat /\ m.gen \in Nat \cup {None} /\ m.ips \in Ips \cup {None}
MemoryOK(m) ==
    /\ DOMAIN m = Fields /\ m.pc \in Pcs /\ Carried(m)
    /\ m.pc \in Decided => m.st \in LinkState
    /\ m.pc = "write" => /\ Plan(m) /\ m.cut \in BOOLEAN
                         /\ m.then \in {"send", "certify", "unmark", "return"}

ProcInv ==
    /\ DOMAIN proc = Procs
    /\ \A p \in Procs : MemoryOK(proc[p])
    /\ \A p \in Procs : proc[p].pc # "idle" => p \in load.commands \cup {AutoRenew, TunnelBump}
    /\ \A p \in Procs : proc[p].req = "delete" => Kind(p) = "link_disable"
    /\ ~At(TunnelBump, {"send", "wait", "answered", "certify", "unmark"})
    /\ At(TunnelBump, {"write"}) => proc[TunnelBump].then = "return"
    /\ \A m \in wire : m.by \in Procs
    /\ \A r \in signed : r.epoch \in 0..epoch /\ r.seq \in Nat

DiskInv ==
    /\ DOMAIN disk = DOMAIN NoFiles
    /\ disk.state \in LinkState \cup {None, Torn}
    /\ disk.bound \in {TRUE, FALSE, None} /\ disk.tunnel \in {TRUE, FALSE, None}

\* Who is inside holds the lock file they opened, and nobody who found a state
\* is inside once the directory is gone.
LockInv ==
    /\ epoch \in {0, 1}
    /\ held \in [0..MaxEpoch -> Procs \cup {None}]
    /\ \A p \in Procs : At(p, Inside \cup {"lock"}) => proc[p].lock \in 0..epoch
    /\ \A p \in Procs : At(p, Inside) => held[proc[p].lock] = p
    /\ \A p \in Procs : At(p, Decided) => epoch = 0
    /\ epoch # 0 => disk.state = None /\ \A c \in load.commands : Kind(c) # "link_enable"

\* Only a process that is inside has a state that differs from the disk, or the
\* file cut.
StateInv ==
    /\ \A p \in Procs : At(p, Settled) => disk.state = proc[p].st
    /\ disk.state = Torn =>
          died \/ \E p \in Procs : At(p, {"write"}) /\ proc[p].cut /\ proc[p].writes = <<StateWrite(proc[p].st)>>

\* The sequences drawn in this directory: those signed, and the one the tunnel
\* task has but did not sign yet.
Reserved ==
    \/ At(TunnelBump, {"return"})
    \/ At(TunnelBump, {"done"}) /\ proc[TunnelBump].result = "ok" /\ tun.pc = "prepare"
Drawn == {r.seq : r \in {s \in signed : s.epoch = epoch}}
         \cup (IF Reserved THEN {proc[TunnelBump].st.seq} ELSE {})

\* A process about to use the sequence it drew.
Fresh(p) == At(p, {"send"}) \/ (At(p, {"write"}) /\ (proc[p].then = "send" \/ p = TunnelBump))

\* Every sequence drawn is at most n, or less than n.
Below(n) == \A d \in Drawn : d <= n
Under(n) == \A d \in Drawn : d < n

SeqInv ==
    /\ Reserved => proc[TunnelBump].st \in LinkState
    /\ disk.state \in LinkState => Below(disk.state.seq)
    /\ (disk.state = None /\ epoch = 0) => Drawn = {}
    /\ \A p \in Procs : At(p, {"write"}) => Below(proc[p].st.seq)
    /\ \A p \in Procs : Fresh(p) => Under(proc[p].st.seq)
    /\ Reserved => \A r \in signed : r.epoch = epoch => r.seq # proc[TunnelBump].st.seq
    /\ SequenceNeverReused

\* After `tunnel disable` has cleared the flag nobody has a state that sets it.
Cleared ==
    /\ \E c \in load.commands : /\ Kind(c) = "tunnel_disable"
                                /\ At(c, {"done"}) /\ proc[c].result = "ok"
    /\ ~\E c \in load.commands : Kind(c) = "tunnel_enable"
FlagInv ==
    /\ \A p \in Procs : (Kind(p) = "tunnel_disable" /\ At(p, Decided)) => ~proc[p].st.tunnel
    /\ Cleared => /\ disk.state \in LinkState => ~disk.state.tunnel
                  /\ \A p \in Procs : At(p, Decided) => ~proc[p].st.tunnel

\* The tunnel task waits for its bump, and counts its attempts.
TunOK(t) ==
    /\ DOMAIN t = DOMAIN TunnelOff
    /\ t.pc \in {"off", "load", "top", "prepare", "dial", "auth", "serving", "wait", "stopped"}
    /\ t.attempt \in 0..MaxExp /\ t.streak \in 0..(MaxResyncs + 1) /\ t.jump \in Nat

TunInv ==
    /\ TunOK(tun)
    /\ rush \in 0..(MaxResyncs + 1)
    /\ At(TunnelBump, Inside \cup {"start", "lock"}) => tun.pc = "prepare"
    /\ tun.pc \in {"top", "prepare"} => rush <= tun.streak /\ (tun.streak <= MaxResyncs \/ rush = 0)
    /\ tun.pc \in {"dial", "auth"} => rush <= tun.streak + 1 /\ (tun.streak <= MaxResyncs \/ rush <= 1)
    /\ tun.pc \in {"off", "load"} => rush = 0 \/ serve = "down"
    /\ fresh \in BOOLEAN
    /\ MarkerTruth

\* The rest of the types, and the pair that is served.
HostInv ==
    /\ load \in Workloads
    /\ budget \in [Events -> Nat]
    /\ lan \in Ips /\ gens \in Nat /\ expiring \in 0..gens
    /\ serve \in {"down", "up", "stopping"}
    /\ serve = "down" => tun.pc = "off"
    /\ ServedPairMatches

FrameInv ==
    /\ inbox \in Seq(Frame)
    /\ DOMAIN pending \subseteq Ids /\ IsFiniteSet(DOMAIN pending)
    /\ Cardinality(DOMAIN pending) <= MaxPending
    /\ \A i \in DOMAIN pending : pending[i] \in 0..MaxBody

DirInv == ProcInv /\ DiskInv /\ LockInv /\ StateInv /\ SeqInv /\ FlagInv
LinkInv == DirInv /\ TunInv /\ HostInv /\ FrameInv

-----------------------------------------------------------------------------
(* What the operators of the model do to the memory of a process.           *)

LEMMA ProcFacts ==
    /\ None \notin Procs
    /\ AutoRenew \in Procs /\ TunnelBump \in Procs /\ Commands \subseteq Procs
    /\ Kind(AutoRenew) = "link_renew" /\ Kind(TunnelBump) = "tunnel_bump"
    /\ \A c \in Commands : /\ Kind(c) = CommandKind[c] /\ c # TunnelBump /\ c # AutoRenew
                           /\ Kind(c) \in {"link_enable", "link_disable", "link_renew",
                                           "tunnel_enable", "tunnel_disable"}
  BY LinkAssumption DEF Procs, Kind

\* Only the tunnel task bumps, and only commands link, remove or set the flag.
LEMMA Kinds ==
    ASSUME NEW p \in Procs
    PROVE  /\ Kind(p) = "tunnel_bump" <=> p = TunnelBump
           /\ Kind(p) \in {"link_enable", "link_disable", "tunnel_enable", "tunnel_disable"} => p \in Commands
  BY ProcFacts DEF Procs

LEMMA FieldsAre ==
    Fields = {"pc", "lock", "st", "req", "again", "gen", "ips", "jump", "writes", "cut", "then", "result"}
  BY SMT DEF Fields, Idle

LEMMA IdleOK ==
    MemoryOK(Idle) /\ Idle.pc = "idle" /\ Idle.req = None
  <1>1. Idle.pc = "idle" /\ Idle.req = None /\ Idle.jump = 0 /\ Idle.gen = None /\ Idle.ips = None
    BY DEF Idle
  <1> QED
    BY <1>1, SMT DEF MemoryOK, Carried, Fields, Pcs, Decided, Inside

LEMMA Upds ==
    ASSUME DOMAIN proc = Procs, NEW p \in Procs, NEW m, Upd(p, m)
    PROVE  DOMAIN proc' = Procs /\ proc'[p] = m /\ \A q \in Procs : q # p => proc'[q] = proc[q]
  BY DEF Upd

\* Process memory m is to save st, and what follows.
Saved(m, n, st, then) ==
    /\ DOMAIN n = Fields /\ n.pc = "write" /\ n.st = st /\ n.cut = FALSE /\ n.then = then
    /\ n.lock = m.lock /\ Plan(n) /\ Carried(n)

\* ... and only the state is to be written.
OneWrite(m, n, st, then) ==
    /\ DOMAIN n = Fields /\ n.pc = "write" /\ n.st = st /\ n.cut = FALSE /\ n.then = then
    /\ n.lock = m.lock /\ n.jump = m.jump /\ n.writes = <<StateWrite(st)>>

LEMMA SavingFields ==
    ASSUME NEW m, DOMAIN m = Fields, NEW st, NEW then
    PROVE  /\ OneWrite(m, Saving(m, st, then), st, then) /\ Saving(m, st, then).req = m.req
           /\ Saving(m, st, then).gen = m.gen /\ Saving(m, st, then).ips = m.ips
  <1> DEFINE n == Saving(m, st, then)
  <1>1. n = [m EXCEPT !.pc = "write", !.st = st, !.writes = <<StateWrite(st)>>, !.cut = FALSE, !.then = then]
    BY DEF Saving, Writing, StateWrite
  <1> HIDE DEF n
  <1>2. /\ DOMAIN n = Fields /\ n.pc = "write" /\ n.st = st /\ n.cut = FALSE /\ n.then = then
        /\ n.lock = m.lock /\ n.jump = m.jump /\ n.writes = <<StateWrite(st)>>
        /\ n.req = m.req /\ n.gen = m.gen /\ n.ips = m.ips
    BY <1>1, FieldsAre
  <1> QED
    BY <1>2 DEF n, OneWrite

\* A later change of what is not about the files.
LEMMA OneWriteStays ==
    ASSUME NEW m, NEW n, NEW st, NEW then, OneWrite(m, n, st, then), NEW k, DOMAIN k = Fields,
           \A f \in Fields \ {"req", "again", "ips", "gen"} : k[f] = n[f]
    PROVE  OneWrite(m, k, st, then)
  BY FieldsAre DEF OneWrite

LEMMA OneWriteSaves ==
    ASSUME NEW m, NEW n, NEW st, NEW then, OneWrite(m, n, st, then), m.jump \in Nat,
           n.gen \in Nat \cup {None}, n.ips \in Ips \cup {None}
    PROVE  Saved(m, n, st, then)
  BY DEF OneWrite, Saved, Plan, Carried

LEMMA SavingSaves ==
    ASSUME NEW m, DOMAIN m = Fields, Carried(m), NEW st, NEW then
    PROVE  Saved(m, Saving(m, st, then), st, then) /\ Saving(m, st, then).req = m.req
  <1> DEFINE n == Saving(m, st, then)
  <1>1. OneWrite(m, n, st, then) /\ n.req = m.req /\ n.gen = m.gen /\ n.ips = m.ips
    BY SavingFields
  <1> HIDE DEF n
  <1>2. Saved(m, n, st, then)
    BY <1>1, OneWriteSaves DEF Carried
  <1> QED
    BY <1>1, <1>2 DEF n

LEMMA SignFields ==
    ASSUME NEW m, DOMAIN m = Fields, NEW st, NEW req
    PROVE  /\ OneWrite(m, Sign(m, st, req), st, "send") /\ Sign(m, st, req).req = req
           /\ Sign(m, st, req).gen = m.gen /\ Sign(m, st, req).ips = m.ips
  <1> DEFINE n == Saving(m, st, "send")
             k == Sign(m, st, req)
  <1>1. OneWrite(m, n, st, "send") /\ n.gen = m.gen /\ n.ips = m.ips
    BY SavingFields
  <1>2. DOMAIN n = Fields
    BY <1>1 DEF OneWrite
  <1>3. k = [n EXCEPT !.req = req, !.again = FALSE]
    BY DEF Sign
  <1> HIDE DEF n, k
  <1>4. /\ DOMAIN k = Fields /\ k.req = req /\ k.gen = n.gen /\ k.ips = n.ips
        /\ \A f \in Fields \ {"req", "again", "ips", "gen"} : k[f] = n[f]
    BY <1>3, <1>2, FieldsAre
  <1> QED
    BY <1>1, <1>4, OneWriteStays DEF k

\* ... and the addresses or the key pair are remembered.
SignIps(m, st, req, v) == [Sign(m, st, req) EXCEPT !.ips = v]
SignGen(m, st, req, v) == [Sign(m, st, req) EXCEPT !.gen = v]

\* n is to save st and then to send a request.
Signed(m, n, st, req) ==
    OneWrite(m, n, st, "send") /\ n.req = req /\ n.gen \in Nat \cup {None} /\ n.ips \in Ips \cup {None}

LEMMA SignSigned ==
    ASSUME NEW m, DOMAIN m = Fields, Carried(m), NEW st, NEW req
    PROVE  /\ Signed(m, Sign(m, st, req), st, req)
           /\ \A v \in Ips : Signed(m, SignIps(m, st, req, v), st, req)
           /\ \A v \in Nat : Signed(m, SignGen(m, st, req, v), st, req)
  <1> DEFINE k == Sign(m, st, req)
  <1>1. OneWrite(m, k, st, "send") /\ k.req = req /\ k.gen = m.gen /\ k.ips = m.ips
    BY SignFields, SMT
  <1>2. DOMAIN k = Fields
    BY <1>1 DEF OneWrite
  <1>3. ASSUME NEW v \in Ips PROVE Signed(m, SignIps(m, st, req, v), st, req)
    <2> DEFINE n == SignIps(m, st, req, v)
    <2>1. n = [k EXCEPT !.ips = v]
      BY DEF SignIps
    <2> HIDE DEF k, n
    <2>2. /\ DOMAIN n = Fields /\ n.req = k.req /\ n.gen = k.gen /\ n.ips = v
          /\ \A f \in Fields \ {"req", "again", "ips", "gen"} : n[f] = k[f]
      BY <2>1, <1>2, FieldsAre
    <2>3. OneWrite(m, n, st, "send")
      BY <1>1, <2>2, OneWriteStays
    <2> QED
      BY <1>1, <2>2, <2>3 DEF Signed, Carried, n
  <1>4. ASSUME NEW v \in Nat PROVE Signed(m, SignGen(m, st, req, v), st, req)
    <2> DEFINE n == SignGen(m, st, req, v)
    <2>1. n = [k EXCEPT !.gen = v]
      BY DEF SignGen
    <2> HIDE DEF k, n
    <2>2. /\ DOMAIN n = Fields /\ n.req = k.req /\ n.gen = v /\ n.ips = k.ips
          /\ \A f \in Fields \ {"req", "again", "ips", "gen"} : n[f] = k[f]
      BY <2>1, <1>2, FieldsAre
    <2>3. OneWrite(m, n, st, "send")
      BY <1>1, <2>2, OneWriteStays
    <2> QED
      BY <1>1, <2>2, <2>3 DEF Signed, Carried, n
  <1>5. Signed(m, k, st, req)
    <2> HIDE DEF k
    <2> QED
      BY <1>1 DEF Signed, Carried
  <1> QED
    BY <1>3, <1>4, <1>5

-----------------------------------------------------------------------------
(* The steps of one process.                                                *)

LEMMA StateTypes ==
    ASSUME NEW st \in LinkState
    PROVE  st.seq \in Nat /\ st.tunnel \in BOOLEAN /\ st # None /\ st # Torn
  BY LinkAssumption, SMT DEF LinkState

LEMMA LoadCommands ==
    ASSUME HostInv
    PROVE  load.commands \subseteq Commands
  BY WorkloadAssumption DEF HostInv

\* Whoever has read the state and goes on is the only one inside.
LEMMA Alone ==
    ASSUME LockInv, NEW p \in Procs, NEW q \in Procs, At(p, Decided), At(q, Inside)
    PROVE  p = q
  <1>1. At(p, Inside) /\ epoch = 0
    BY DEF LockInv, Decided, At
  <1>2. proc[p].lock \in 0..0 /\ proc[q].lock \in 0..0
    BY <1>1 DEF LockInv, At
  <1>3. \A n \in 0..0 : n = 0
    BY SMT
  <1>4. held[proc[p].lock] = p /\ held[proc[q].lock] = q
    BY <1>1 DEF LockInv
  <1> QED
    BY <1>2, <1>3, <1>4

LEMMA DrawnShrinks ==
    ASSUME signed' = signed, epoch' = epoch,
           Reserved' => Reserved /\ proc'[TunnelBump].st = proc[TunnelBump].st
    PROVE  Drawn' \subseteq Drawn
  BY DEF Drawn

\* Sequences are numbers.
LEMMA DrawnNats ==
    ASSUME DirInv
    PROVE  Drawn \subseteq Nat
  <1>1. \A r \in signed : r.seq \in Nat
    BY DEF DirInv, ProcInv
  <1>2. Reserved => proc[TunnelBump].st \in LinkState
    BY DEF DirInv, SeqInv
  <1>3. \A st \in LinkState : st.seq \in Nat
    BY StateTypes
  <1> QED
    BY <1>1, <1>2, <1>3 DEF Drawn

\* Nothing is drawn, and what is on disk or to be written is not behind.
LEMMA SeqKept ==
    ASSUME SeqInv, signed' = signed, epoch' = epoch,
           Reserved' => Reserved /\ proc'[TunnelBump].st = proc[TunnelBump].st,
           \/ disk'.state \in {disk.state, Torn}
           \/ disk'.state \in LinkState /\ Below(disk'.state.seq),
           \A q \in Procs : At(q, {"write"})' => Below(proc'[q].st.seq),
           \A q \in Procs : Fresh(q)' => Under(proc'[q].st.seq)
    PROVE  SeqInv'
  <1>1. Drawn' \subseteq Drawn
    BY DrawnShrinks
  <1>2. Torn \notin LinkState /\ None \notin LinkState /\ Torn # None
    BY LinkAssumption
  <1>3. disk'.state \in LinkState => \A d \in Drawn' : d <= disk'.state.seq
    BY <1>1, <1>2 DEF SeqInv, Below
  <1>4. (disk'.state = None /\ epoch' = 0) => Drawn' = {}
    BY <1>1, <1>2 DEF SeqInv
  <1>5. \A q \in Procs : At(q, {"write"})' => \A d \in Drawn' : d <= proc'[q].st.seq
    BY <1>1 DEF Below
  <1>6. \A q \in Procs : Fresh(q)' => \A d \in Drawn' : d < proc'[q].st.seq
    BY <1>1 DEF Under
  <1>7. Reserved' => /\ proc'[TunnelBump].st \in LinkState
                     /\ \A r \in signed' : r.epoch = epoch' => r.seq # proc'[TunnelBump].st.seq
    BY DEF SeqInv
  <1>8. SequenceNeverReused'
    BY DEF SeqInv, SequenceNeverReused
  <1> QED
    BY <1>3, <1>4, <1>5, <1>6, <1>7, <1>8 DEF SeqInv, Below, Under

Only(p) == DOMAIN proc' = Procs /\ \A q \in Procs : q # p => proc'[q] = proc[q]

\* p takes up a state that is newer than the one on disk, and is to write it.
Saves(p, st, then) ==
    /\ At(p, {"read", "answered", "certify"})
    /\ Only(p) /\ Saved(proc[p], proc'[p], st, then)
    /\ proc'[p].req = "delete" => Kind(p) = "link_disable"
    /\ st \in LinkState /\ then \in {"send", "certify", "unmark", "return"}
    /\ p = TunnelBump => then = "return"
    /\ \/ disk.state = None /\ st.seq > 0 /\ ~st.tunnel /\ Kind(p) = "link_enable"
       \/ /\ disk.state \in LinkState /\ st.seq >= disk.state.seq
          /\ (then = "send" \/ p = TunnelBump) => st.seq > disk.state.seq
          /\ st.tunnel => disk.state.tunnel \/ Kind(p) = "tunnel_enable"
    /\ Kind(p) = "tunnel_disable" => ~st.tunnel
    /\ load' = load /\ disk' = disk /\ epoch' = epoch /\ held' = held
    /\ wire' = wire /\ signed' = signed /\ died' = died /\ tun' = tun

LEMMA SavesKeeps ==
    ASSUME DirInv, HostInv, NEW p \in Procs, NEW st, NEW then, Saves(p, st, then)
    PROVE  DirInv'
  <1> DEFINE n == proc'[p]
  <1> HIDE DEF n
  <1>a. /\ DOMAIN n = Fields /\ n.pc = "write" /\ n.st = st /\ n.cut = FALSE /\ n.then = then
        /\ n.lock = proc[p].lock /\ Carried(n)
        /\ Plan(n) /\ (n.req = "delete" => Kind(p) = "link_disable")
    BY DEF Saves, Saved, n
  <1>b. \A q \in Procs : proc'[q] = IF q = p THEN n ELSE proc[q]
    BY DEF Saves, Only, n
  <1>c. p \in load.commands \cup {AutoRenew, TunnelBump} /\ proc[p].pc \in Inside
    BY DEF Saves, At, DirInv, ProcInv, Inside, MemoryOK
  <1>d. epoch = 0
    <2>1. CASE disk.state = None /\ Kind(p) = "link_enable"
      BY <2>1, <1>c, Kinds, ProcFacts DEF DirInv, LockInv
    <2>2. CASE disk.state \in LinkState
      BY <2>2, LinkAssumption DEF DirInv, LockInv
    <2> QED
      BY <2>1, <2>2 DEF Saves
  <1>e. Reserved' => Reserved /\ p # TunnelBump
    BY <1>a, <1>b, ProcFacts DEF Reserved, At, Saves
  <1>f. Drawn' \subseteq Drawn
    BY <1>e, <1>b, ProcFacts, DrawnShrinks DEF Saves
  <1>g. \A q \in Procs : At(q, Decided) => q = p
    BY <1>c, Alone DEF DirInv, At, Decided
  <1>1. ProcInv'
    <2>0. st \in LinkState /\ then \in {"send", "certify", "unmark", "return"}
      BY DEF Saves
    <2>1. MemoryOK(n)
      BY <2>0, <1>a DEF MemoryOK, Pcs
    <2>2. DOMAIN proc' = Procs /\ \A q \in Procs : MemoryOK(proc'[q])
      BY <2>1, <1>b DEF Saves, Only, DirInv, ProcInv
    <2>3. /\ ~At(TunnelBump, {"send", "wait", "answered", "certify", "unmark"})'
          /\ At(TunnelBump, {"write"})' => proc'[TunnelBump].then = "return"
      BY <1>a, <1>b, ProcFacts DEF At, Saves, DirInv, ProcInv
    <2> QED
      BY <2>2, <2>3, <1>a, <1>b, <1>c DEF ProcInv, DirInv, Saves
  <1>2. DiskInv'
    BY DEF DiskInv, DirInv, Saves
  <1>3. LockInv'
    <2>1. \A q \in Procs : proc'[q].lock = proc[q].lock /\ (At(q, Inside \cup {"lock"})' => At(q, Inside \cup {"lock"}))
                           /\ (At(q, Inside)' => At(q, Inside))
      BY <1>a, <1>b, <1>c DEF At
    <2> QED
      BY <2>1, <1>d DEF LockInv, DirInv, Saves
  <1>4. StateInv'
    BY <1>a, <1>b, <1>c DEF StateInv, DirInv, Saves, At, Settled, Decided, Inside
  <1>5. SeqInv'
    <2>1. Below(st.seq) /\ (then = "send" \/ p = TunnelBump => Under(st.seq))
      BY <1>d, StateTypes, DrawnNats, SMT DEF Saves, DirInv, SeqInv, Below, Under
    <2>2. \A q \in Procs : At(q, {"write"})' => q = p
      BY <1>b, <1>g DEF At, Decided, Inside
    <2>3. Fresh(p)' => then = "send" \/ p = TunnelBump
      BY <1>a, <1>b DEF Fresh, At
    <2>4. \A q \in Procs : Fresh(q)' => q = p
      BY <1>a, <1>b, <1>g DEF Fresh, At, Decided, Inside
    <2>5. proc'[p].st = st
      BY <1>a, <1>b
    <2> QED
      BY <2>1, <2>2, <2>3, <2>4, <2>5, <1>b, <1>e, <1>f, ProcFacts, SeqKept DEF Saves, DirInv
  <1>6. FlagInv'
    <2>1. Cleared' => Cleared
      <3>1. \A c \in load.commands : At(c, {"done"})' => proc'[c] = proc[c]
        BY <1>a, <1>b, LoadCommands, ProcFacts DEF At
      <3> QED
        BY <3>1 DEF Cleared, At, Saves
    <2>2. ASSUME Cleared, st.tunnel PROVE FALSE
      <3>1. Kind(p) # "tunnel_enable"
        BY <2>2, <1>c, Kinds, ProcFacts DEF Cleared
      <3>2. disk.state \in LinkState => ~disk.state.tunnel
        BY <2>2 DEF DirInv, FlagInv
      <3> QED
        BY <2>2, <3>1, <3>2 DEF Saves
    <2>3. Kind(p) = "tunnel_disable" => ~st.tunnel
      BY DEF Saves
    <2>4. proc'[p].st = st
      BY <1>a, <1>b
    <2>5. \A q \in Procs : At(q, Decided)' => q = p \/ (proc'[q] = proc[q] /\ At(q, Decided))
      BY <1>b DEF At
    <2> QED
      BY <2>1, <2>2, <2>3, <2>4, <2>5 DEF FlagInv, DirInv, Saves
  <1> QED
    BY <1>1, <1>2, <1>3, <1>4, <1>5, <1>6 DEF DirInv

\* The processes of P leave the directory alone, or wait for its lock.
Leaves(P) ==
    /\ P \subseteq Procs /\ DOMAIN proc' = Procs
    /\ \A q \in Procs \ P : proc'[q] = proc[q]
    /\ \A q \in P : /\ MemoryOK(proc'[q]) /\ proc'[q].pc \notin Decided
                    /\ proc'[q].req = "delete" => Kind(q) = "link_disable"
                    /\ proc'[q].pc # "idle" => q \in load.commands \cup {AutoRenew, TunnelBump}
    /\ load' = load /\ epoch' = epoch /\ signed' = signed /\ wire' \subseteq wire
    /\ disk'.state = disk.state /\ DiskInv'
    /\ died' \/ (~died /\ \A q \in P : ~At(q, {"write"}))
    /\ Reserved' => Reserved /\ proc'[TunnelBump].st = proc[TunnelBump].st

LEMMA LeavesKeeps ==
    ASSUME DirInv, NEW P, Leaves(P), LockInv', FlagInv'
    PROVE  DirInv'
  <1>a. \A q \in Procs : proc'[q].pc \in Decided => q \notin P /\ proc'[q] = proc[q]
    BY DEF Leaves
  <1>1. ProcInv'
    <2>1. \A q \in Procs : MemoryOK(proc'[q]) /\ (proc'[q].req = "delete" => Kind(q) = "link_disable")
      BY DEF Leaves, DirInv, ProcInv
    <2>2. \A q \in Procs : proc'[q].pc # "idle" => q \in load.commands \cup {AutoRenew, TunnelBump}
      BY DEF Leaves, DirInv, ProcInv
    <2>3. /\ ~At(TunnelBump, {"send", "wait", "answered", "certify", "unmark"})'
          /\ At(TunnelBump, {"write"})' => proc'[TunnelBump].then = "return"
      BY <1>a, ProcFacts DEF At, DirInv, ProcInv, Decided, Inside
    <2> QED
      BY <2>1, <2>2, <2>3 DEF ProcInv, DirInv, Leaves
  <1>2. StateInv'
    <2>1. \A q \in Procs : At(q, Settled)' => disk'.state = proc'[q].st
      BY <1>a DEF Leaves, DirInv, StateInv, At, Settled
    <2>2. ASSUME disk'.state = Torn, ~died'
          PROVE  \E q \in Procs : At(q, {"write"})' /\ proc'[q].cut /\ proc'[q].writes = <<StateWrite(proc'[q].st)>>
      <3>1. disk.state = Torn /\ ~died /\ \A q \in P : ~At(q, {"write"})
        BY <2>2 DEF Leaves
      <3>2. PICK q \in Procs : At(q, {"write"}) /\ proc[q].cut /\ proc[q].writes = <<StateWrite(proc[q].st)>>
        BY <3>1 DEF DirInv, StateInv
      <3>3. proc'[q] = proc[q]
        BY <3>1, <3>2 DEF Leaves
      <3> QED
        BY <3>2, <3>3 DEF At
    <2> QED
      BY <2>1, <2>2 DEF StateInv
  <1>3. SeqInv'
    <2>1. \A q \in Procs : At(q, {"write"})' => Below(proc'[q].st.seq)
      BY <1>a DEF DirInv, SeqInv, At, Decided, Inside
    <2>2. \A q \in Procs : Fresh(q)' => Under(proc'[q].st.seq)
      BY <1>a DEF DirInv, SeqInv, At, Fresh, Decided, Inside
    <2> QED
      BY <2>1, <2>2, SeqKept DEF Leaves, DirInv
  <1> QED
    BY <1>1, <1>2, <1>3 DEF DirInv, Leaves

\* They give back their locks and no others.
LEMMA LeavesLock ==
    ASSUME DirInv, NEW P, Leaves(P), held' \in [0..MaxEpoch -> Procs \cup {None}],
           \A e \in 0..MaxEpoch : held[e] \notin P => held'[e] = held[e],
           \A q \in P : proc'[q].pc \notin Inside \cup {"lock"}
    PROVE  LockInv'
  <1>1. \A q \in Procs : proc'[q].pc \in Inside \cup {"lock"} => q \notin P /\ proc'[q] = proc[q]
    BY DEF Leaves
  <1>2. \A q \in Procs : At(q, Inside \cup {"lock"})' => proc'[q].lock \in 0..epoch'
    BY <1>1 DEF At, Leaves, DirInv, LockInv
  <1>3. ASSUME NEW q \in Procs, At(q, Inside)' PROVE held'[proc'[q].lock] = q
    <2>1. q \notin P /\ proc'[q] = proc[q] /\ At(q, Inside)
      BY <1>1, <1>3 DEF At
    <2>2. held[proc[q].lock] = q /\ proc[q].lock \in 0..epoch
      BY <2>1 DEF DirInv, LockInv, At
    <2>3. proc[q].lock \in 0..MaxEpoch
      BY <2>2, LinkAssumption, SMT DEF DirInv, LockInv
    <2> QED
      BY <2>1, <2>2, <2>3
  <1>4. \A q \in Procs : At(q, Decided)' => epoch' = 0
    BY <1>1 DEF At, Leaves, DirInv, LockInv, Decided
  <1> QED
    BY <1>2, <1>3, <1>4 DEF LockInv, DirInv, Leaves

LEMMA LeavesFlag ==
    ASSUME DirInv, NEW P, Leaves(P), Cleared' => Cleared
    PROVE  FlagInv'
  <1>1. \A q \in Procs : At(q, Decided)' => At(q, Decided) /\ proc'[q] = proc[q]
    BY DEF Leaves, At
  <1> QED
    BY <1>1 DEF FlagInv, DirInv, Leaves

\* A command that had not returned before has not returned now.
LEMMA LeavesCleared ==
    ASSUME DirInv, HostInv, NEW P, Leaves(P),
           \A q \in P : Kind(q) = "tunnel_disable" /\ proc'[q].pc = "done" => proc'[q].result # "ok"
    PROVE  Cleared' => Cleared
  <1>1. load.commands \subseteq Procs
    BY LoadCommands, ProcFacts
  <1>2. \A c \in load.commands : Kind(c) = "tunnel_disable" /\ At(c, {"done"})' /\ proc'[c].result = "ok"
                                  => proc'[c] = proc[c]
    BY <1>1 DEF Leaves, At
  <1> QED
    BY <1>2 DEF Cleared, Leaves, At

\* Nobody moves: what the tunnel task and the listener do.
LEMMA QuietKeeps ==
    ASSUME DirInv, HostInv, proc' = proc, load' = load, epoch' = epoch, signed' = signed, wire' \subseteq wire,
           held' = held, died' = died, disk'.state = disk.state, DiskInv', Reserved' => Reserved
    PROVE  DirInv'
  <1>1. Leaves({})
    BY ProcFacts DEF Leaves, DirInv, ProcInv
  <1>2. LockInv'
    BY <1>1, LeavesLock DEF DirInv, LockInv
  <1>3. FlagInv'
    BY <1>1, LeavesFlag, LeavesCleared
  <1> QED
    BY <1>1, <1>2, <1>3, LeavesKeeps

\* What DirInv says of one process.
LEMMA OfProc ==
    ASSUME DirInv, NEW p \in Procs
    PROVE  /\ DOMAIN proc = Procs /\ MemoryOK(proc[p]) /\ DOMAIN proc[p] = Fields /\ Carried(proc[p])
           /\ proc[p].req = "delete" => Kind(p) = "link_disable"
           /\ proc[p].pc # "idle" => p \in load.commands \cup {AutoRenew, TunnelBump}
           /\ proc[p].pc \in Inside \cup {"lock"} => proc[p].lock \in 0..MaxEpoch
  <1>1. proc[p].pc \in Inside \cup {"lock"} => proc[p].lock \in 0..MaxEpoch
    BY LinkAssumption, SMT DEF DirInv, LockInv, At
  <1> QED
    BY <1>1 DEF DirInv, ProcInv, MemoryOK

\* A command returns and gives the lock back.
LEMMA FinishKeeps ==
    ASSUME DirInv, HostInv, NEW p \in Procs, NEW result, Finish(p, result),
           At(p, Inside), ~At(p, {"write"}),
           p = TunnelBump /\ result = "ok" => At(p, {"return"}),
           Kind(p) = "tunnel_disable" /\ result = "ok" => At(p, Settled) \/ disk.state = None,
           load' = load, epoch' = epoch, signed' = signed, wire' = wire, died' = died, tun' = tun,
           disk'.state = disk.state, DiskInv'
    PROVE  DirInv'
  <1>0. /\ DOMAIN proc' = Procs /\ \A q \in Procs : q # p => proc'[q] = proc[q]
        /\ proc'[p] = [proc[p] EXCEPT !.pc = "done", !.result = result, !.writes = << >>, !.cut = FALSE]
    BY OfProc, Upds DEF Finish
  <1>1. /\ DOMAIN proc' = Procs /\ \A q \in Procs : q # p => proc'[q] = proc[q]
        /\ DOMAIN proc'[p] = Fields /\ proc'[p].pc = "done" /\ proc'[p].st = proc[p].st
        /\ proc'[p].req = proc[p].req /\ Carried(proc'[p]) /\ proc'[p].result = result
    BY <1>0, OfProc, FieldsAre DEF Carried
  <1>2. MemoryOK(proc'[p]) /\ "done" \notin Decided /\ "done" \notin Inside \cup {"lock"}
    BY <1>1, OfProc DEF MemoryOK, Decided, Inside, Pcs
  <1>3. Reserved' => Reserved /\ proc'[TunnelBump].st = proc[TunnelBump].st
    BY <1>1, ProcFacts DEF Reserved, At
  <1>4. proc[p].pc # "idle"
    BY DEF At, Inside
  <1>5. Leaves({p})
    BY <1>1, <1>2, <1>3, <1>4, OfProc DEF Leaves
  <1>6. LockInv'
    <2>1. held[proc[p].lock] = p /\ proc[p].lock \in 0..MaxEpoch
      BY OfProc DEF DirInv, LockInv, At
    <2>2. held' \in [0..MaxEpoch -> Procs \cup {None}]
      BY DEF Finish, DirInv, LockInv
    <2>3. \A e \in 0..MaxEpoch : held[e] \notin {p} => held'[e] = held[e]
      BY <2>1 DEF Finish, DirInv, LockInv
    <2> QED
      BY <2>2, <2>3, <1>1, <1>2, <1>5, LeavesLock
  <1>7. FlagInv'
    <2>1. CASE Kind(p) = "tunnel_disable" /\ result = "ok"
      <3>1. \A q \in Procs : ~At(q, Decided)'
        BY <1>1, <1>2, Alone DEF At, DirInv
      <3>2. disk'.state \in LinkState => ~disk'.state.tunnel
        BY <2>1, LinkAssumption DEF DirInv, FlagInv, StateInv, At, Settled
      <3> QED
        BY <3>1, <3>2 DEF FlagInv
    <2>2. CASE ~(Kind(p) = "tunnel_disable" /\ result = "ok")
      BY <2>2, <1>1, <1>5, LeavesCleared, LeavesFlag
    <2> QED
      BY <2>1, <2>2
  <1> QED
    BY <1>5, <1>6, <1>7, LeavesKeeps

LEMMA OpenLockKeeps ==
    ASSUME DirInv, HostInv, NEW p \in Procs, OpenLock(p), tun' = tun
    PROVE  DirInv'
  <1>0. /\ DOMAIN proc' = Procs /\ \A q \in Procs : q # p => proc'[q] = proc[q]
        /\ proc'[p] = [proc[p] EXCEPT !.pc = "lock", !.lock = epoch]
    BY OfProc, Upds DEF OpenLock
  <1>1. /\ DOMAIN proc' = Procs /\ \A q \in Procs : q # p => proc'[q] = proc[q]
        /\ DOMAIN proc'[p] = Fields /\ proc'[p].pc = "lock" /\ proc'[p].lock = epoch
        /\ proc'[p].req = proc[p].req /\ Carried(proc'[p])
    BY <1>0, OfProc, FieldsAre DEF Carried
  <1>2. MemoryOK(proc'[p]) /\ "lock" \notin Decided /\ "lock" \notin Inside
    BY <1>1, OfProc DEF MemoryOK, Decided, Inside, Pcs
  <1>3. /\ load' = load /\ epoch' = epoch /\ signed' = signed /\ wire' = wire /\ died' = died
        /\ disk' = disk /\ held' = held /\ proc[p].pc = "start"
    BY DEF OpenLock, fileVars, serviceVars
  <1>4. Reserved' => Reserved /\ proc'[TunnelBump].st = proc[TunnelBump].st
    BY <1>1, ProcFacts DEF Reserved, At
  <1>5. Leaves({p})
    BY <1>1, <1>2, <1>3, <1>4, OfProc DEF Leaves, DirInv, DiskInv, At
  <1>6. LockInv'
    <2>1. epoch \in 0..epoch
      BY SMT DEF DirInv, LockInv
    <2>2. \A q \in Procs : At(q, Inside \cup {"lock"})' => proc'[q].lock \in 0..epoch'
      BY <2>1, <1>1, <1>3 DEF At, DirInv, LockInv
    <2>3. \A q \in Procs : At(q, Inside)' => q # p /\ proc'[q] = proc[q]
      BY <1>1, <1>2 DEF At
    <2> QED
      BY <2>2, <2>3, <1>3 DEF LockInv, DirInv, At, Decided
  <1>7. FlagInv'
    BY <1>1, <1>5, LeavesCleared, LeavesFlag
  <1> QED
    BY <1>5, <1>6, <1>7, LeavesKeeps

LEMMA TakeLockKeeps ==
    ASSUME DirInv, HostInv, NEW p \in Procs, TakeLock(p), tun' = tun
    PROVE  DirInv'
  <1>0. /\ DOMAIN proc' = Procs /\ \A q \in Procs : q # p => proc'[q] = proc[q]
        /\ proc'[p] = [proc[p] EXCEPT !.pc = "read"]
    BY OfProc, Upds DEF TakeLock
  <1>1. /\ DOMAIN proc' = Procs /\ \A q \in Procs : q # p => proc'[q] = proc[q]
        /\ DOMAIN proc'[p] = Fields /\ proc'[p].pc = "read" /\ proc'[p].lock = proc[p].lock
        /\ proc'[p].req = proc[p].req /\ Carried(proc'[p])
    BY <1>0, OfProc, FieldsAre DEF Carried
  <1>2. MemoryOK(proc'[p]) /\ "read" \notin Decided
    BY <1>1, OfProc DEF MemoryOK, Decided, Inside, Pcs
  <1>3. /\ load' = load /\ epoch' = epoch /\ signed' = signed /\ wire' = wire /\ died' = died
        /\ disk' = disk /\ proc[p].pc = "lock" /\ held[proc[p].lock] = None
        /\ held' = [held EXCEPT ![proc[p].lock] = p]
    BY DEF TakeLock, fileVars, serviceVars, Exclusive
  <1>4. Reserved' => Reserved /\ proc'[TunnelBump].st = proc[TunnelBump].st
    BY <1>1, ProcFacts DEF Reserved, At
  <1>5. Leaves({p})
    BY <1>1, <1>2, <1>3, <1>4, OfProc DEF Leaves, DirInv, DiskInv, At
  <1>6. LockInv'
    <2>1. proc[p].lock \in 0..MaxEpoch /\ proc[p].lock \in 0..epoch
      BY <1>3, OfProc DEF DirInv, LockInv, At
    <2>2. \A q \in Procs : At(q, Inside \cup {"lock"})' => proc'[q].lock \in 0..epoch'
      BY <2>1, <1>1, <1>3 DEF At, DirInv, LockInv
    <2>3. held' \in [0..MaxEpoch -> Procs \cup {None}] /\ held'[proc[p].lock] = p
      BY <1>3, <2>1 DEF DirInv, LockInv
    <2>4. ASSUME NEW q \in Procs, At(q, Inside)', q # p PROVE held'[proc'[q].lock] = q
      <3>1. proc'[q] = proc[q] /\ held[proc[q].lock] = q
        BY <1>1, <2>4 DEF DirInv, LockInv, At
      <3>2. proc[q].lock \in 0..MaxEpoch
        BY <3>1, <2>4, OfProc DEF At
      <3> QED
        BY <3>1, <3>2, <1>3, ProcFacts DEF DirInv, LockInv
    <2>5. \A q \in Procs : At(q, Decided)' => proc'[q] = proc[q]
      BY <1>1, <1>2 DEF At
    <2> QED
      BY <2>2, <2>3, <2>4, <2>5, <1>1, <1>3 DEF LockInv, DirInv, At
  <1>7. FlagInv'
    BY <1>1, <1>5, LeavesCleared, LeavesFlag
  <1> QED
    BY <1>5, <1>6, <1>7, LeavesKeeps

\* What is written first, and what is left.
LEMMA PlanParts ==
    ASSUME NEW m, Plan(m)
    PROVE  \/ /\ m.writes = <<StateWrite(m.st)>>
              /\ Head(m.writes).file = "state" /\ Head(m.writes).to = m.st /\ Tail(m.writes) = << >>
           \/ /\ Head(m.writes).file \in {"key", "cert"} /\ Tail(m.writes) # << >>
              /\ \A n : (n.writes = Tail(m.writes) /\ n.st = m.st /\ n.gen = m.gen) => Plan(n)
  <1> DEFINE S == StateWrite(m.st)
             C == [file |-> "cert", to |-> m.gen]
             K == [file |-> "key", to |-> m.gen]
  <1>0. S.file = "state" /\ S.to = m.st /\ C.file = "cert" /\ K.file = "key"
    BY DEF StateWrite
  <1>1. CASE m.writes = <<S>>
    <2>1. Head(<<S>>) = S /\ Tail(<<S>>) = << >>
      BY SMT
    <2> QED
      BY <1>0, <1>1, <2>1
  <1>2. CASE m.writes = <<C, S>>
    <2>1. Head(<<C, S>>) = C /\ Tail(<<C, S>>) = <<S>> /\ <<S>> # << >>
      BY SMT
    <2> QED
      BY <1>0, <1>2, <2>1 DEF Plan
  <1>3. CASE m.writes = <<K, C, S>>
    <2>1. Head(<<K, C, S>>) = K /\ Tail(<<K, C, S>>) = <<C, S>> /\ <<C, S>> # << >>
      BY SMT
    <2> QED
      BY <1>0, <1>3, <2>1 DEF Plan
  <1> QED
    BY <1>1, <1>2, <1>3 DEF Plan

LEMMA DiskFields ==
    DOMAIN NoFiles = {"state", "key", "cert", "bound", "tunnel"}
  BY SMT DEF NoFiles

\* A process that has decided goes on, and does not touch the state.
Continues(p) ==
    /\ At(p, Decided) /\ Only(p) /\ MemoryOK(proc'[p]) /\ proc'[p].pc \in Decided
    /\ proc'[p].lock = proc[p].lock /\ proc'[p].st = proc[p].st /\ proc'[p].req = proc[p].req
    /\ p = TunnelBump => proc'[p].pc \in {"write", "return"} /\ proc'[p].then = "return"
    /\ load' = load /\ epoch' = epoch /\ held' = held /\ died' = died /\ tun' = tun
    /\ DiskInv' /\ \A m \in wire' : m.by \in Procs
    /\ \A r \in signed' : r.epoch \in 0..epoch /\ r.seq \in Nat

\* Its part of the invariant: who is inside, and with what.
LEMMA ContinuesKeeps ==
    ASSUME DirInv, HostInv, NEW p \in Procs, Continues(p)
    PROVE  ProcInv' /\ LockInv' /\ (\A q \in Procs : At(q, Decided)' => q = p)
  <1>0. DOMAIN proc' = Procs /\ \A q \in Procs : q # p => proc'[q] = proc[q]
    BY DEF Continues, Only
  <1>1. \A q \in Procs : At(q, Decided)' => q = p
    BY <1>0, Alone DEF Continues, DirInv, At, Decided
  <1>2. ProcInv'
    <2>1. /\ ~At(TunnelBump, {"send", "wait", "answered", "certify", "unmark"})'
          /\ At(TunnelBump, {"write"})' => proc'[TunnelBump].then = "return"
      BY <1>0, ProcFacts DEF At, Continues, DirInv, ProcInv
    <2>2. \A q \in Procs : MemoryOK(proc'[q]) /\ (proc'[q].req = "delete" => Kind(q) = "link_disable")
      BY <1>0, OfProc DEF Continues
    <2>3. proc[p].pc # "idle"
      BY DEF Continues, At, Decided, Inside
    <2>4. \A q \in Procs : proc'[q].pc # "idle" => q \in load.commands \cup {AutoRenew, TunnelBump}
      BY <1>0, <2>3, OfProc
    <2> QED
      BY <1>0, <2>1, <2>2, <2>4 DEF ProcInv, DirInv, Continues
  <1>3. LockInv'
    <2>1. At(p, Inside) /\ "lock" \notin Decided
      BY DEF Continues, At, Decided, Inside
    <2>2. \A q \in Procs : /\ proc'[q].lock = proc[q].lock
                           /\ At(q, Inside \cup {"lock"})' => At(q, Inside \cup {"lock"})
                           /\ At(q, Inside)' => At(q, Inside)
                           /\ At(q, Decided)' => At(q, Decided)
      BY <1>0, <2>1 DEF At, Continues
    <2>3. epoch = 0
      BY DEF Continues, DirInv, LockInv
    <2> QED
      BY <2>2, <2>3 DEF LockInv, DirInv, Continues
  <1> QED
    BY <1>1, <1>2, <1>3

\* The flag stays cleared: p has the state it had.
LEMMA ContinuesFlag ==
    ASSUME DirInv, HostInv, NEW p \in Procs, Continues(p), disk'.state \in {disk.state, Torn, proc[p].st}
    PROVE  FlagInv'
  <1>0. DOMAIN proc' = Procs /\ \A q \in Procs : q # p => proc'[q] = proc[q]
    BY DEF Continues, Only
  <1>1. \A q \in Procs : proc'[q].st = proc[q].st /\ (At(q, Decided)' => At(q, Decided))
    BY <1>0 DEF Continues, At
  <1>2. Cleared' => Cleared
    <2>1. load.commands \subseteq Procs
      BY LoadCommands, ProcFacts
    <2>2. \A c \in load.commands : At(c, {"done"})' => proc'[c] = proc[c]
      BY <1>0, <2>1 DEF At, Continues, Decided, Inside
    <2> QED
      BY <2>2 DEF Cleared, At, Continues
  <1>3. Cleared /\ disk'.state \in LinkState => ~disk'.state.tunnel
    BY LinkAssumption DEF DirInv, FlagInv, Continues
  <1> QED
    BY <1>1, <1>2, <1>3 DEF FlagInv, DirInv

LEMMA TruncateKeeps ==
    ASSUME DirInv, HostInv, NEW p \in Procs, Truncate(p), tun' = tun
    PROVE  DirInv'
  <1> DEFINE w == Head(proc[p].writes)
  <1>0. /\ proc[p].pc = "write" /\ ~proc[p].cut /\ disk' = [disk EXCEPT ![w.file] = Torn]
        /\ DOMAIN proc' = Procs /\ \A q \in Procs : q # p => proc'[q] = proc[q]
        /\ proc'[p] = [proc[p] EXCEPT !.cut = TRUE]
        /\ load' = load /\ epoch' = epoch /\ held' = held /\ wire' = wire /\ signed' = signed /\ died' = died
    BY OfProc, Upds DEF Truncate, serviceVars
  <1>1. /\ DOMAIN proc'[p] = Fields /\ proc'[p].pc = "write" /\ proc'[p].lock = proc[p].lock
        /\ proc'[p].st = proc[p].st /\ proc'[p].req = proc[p].req /\ Carried(proc'[p])
        /\ proc'[p].then = proc[p].then /\ proc'[p].gen = proc[p].gen /\ proc'[p].writes = proc[p].writes
        /\ proc'[p].cut = TRUE
    BY <1>0, OfProc, FieldsAre DEF Carried
  <1>2. MemoryOK(proc'[p])
    <2>1. Plan(proc[p])
      BY <1>0, OfProc DEF MemoryOK
    <2>2. Plan(proc'[p])
      BY <2>1, <1>1 DEF Plan
    <2> QED
      BY <2>2, <1>0, <1>1, OfProc DEF MemoryOK
  <1>3. \/ w.file = "state" /\ proc[p].writes = <<StateWrite(proc[p].st)>>
        \/ w.file \in {"key", "cert"}
    BY <1>0, OfProc, PlanParts DEF MemoryOK
  <1>4. /\ DOMAIN disk' = DOMAIN NoFiles /\ disk'.bound = disk.bound /\ disk'.tunnel = disk.tunnel
        /\ (w.file = "state" /\ disk'.state = Torn) \/ (w.file # "state" /\ disk'.state = disk.state)
    BY <1>0, <1>3, DiskFields DEF DirInv, DiskInv
  <1>5. Continues(p)
    <2>1. p = TunnelBump => proc'[p].then = "return"
      BY <1>0, <1>1 DEF DirInv, ProcInv, At
    <2>2. DiskInv'
      BY <1>4 DEF DirInv, DiskInv
    <2>3. "write" \in Decided
      BY DEF Decided, Inside
    <2> QED
      BY <1>0, <1>1, <1>2, <2>1, <2>2, <2>3 DEF Continues, Only, At, DirInv, ProcInv
  <1>6. \A q \in Procs : At(q, Decided)' => q = p
    BY <1>5, ContinuesKeeps
  <1>7. StateInv'
    <2>1. \A q \in Procs : ~At(q, Settled)'
      BY <1>1, <1>6 DEF At, Settled
    <2>2. CASE w.file = "state"
      BY <2>1, <2>2, <1>1, <1>3 DEF StateInv, At
    <2>3. CASE w.file # "state"
      <3>1. disk'.state = Torn => died
        BY <2>3, <1>0, <1>4, Alone DEF DirInv, StateInv, At, Decided, Inside
      <3> QED
        BY <2>1, <3>1, <1>0 DEF StateInv
    <2> QED
      BY <2>2, <2>3
  <1>8. SeqInv'
    <2>1. Reserved' => Reserved /\ proc'[TunnelBump].st = proc[TunnelBump].st
      BY <1>0, <1>1, ProcFacts DEF Reserved, At
    <2>0. \A q \in Procs : /\ proc'[q].st = proc[q].st /\ proc'[q].pc = proc[q].pc
                           /\ proc'[q].then = proc[q].then
      BY <1>0, <1>1
    <2>2. \A q \in Procs : /\ proc'[q].st = proc[q].st
                           /\ At(q, {"write"})' => At(q, {"write"})
                           /\ Fresh(q)' => Fresh(q)
      BY <2>0 DEF At, Fresh
    <2> QED
      BY <2>1, <2>2, <1>0, <1>4, SeqKept DEF DirInv, SeqInv
  <1> QED
    BY <1>4, <1>5, <1>7, <1>8, ContinuesKeeps, ContinuesFlag DEF DirInv, Continues

\* A sequence above the drawn ones is not one that was signed.
LEMMA DrawnUnder ==
    ASSUME DirInv, NEW st \in LinkState, Under(st.seq)
    PROVE  \A r \in signed : r.epoch = epoch => r.seq \in Nat /\ r.seq < st.seq /\ r.seq # st.seq
  <1>1. \A r \in signed : r.epoch = epoch => r.seq \in Drawn
    BY DEF Drawn
  <1>2. \A d \in Drawn : d \in Nat /\ d < st.seq
    BY DrawnNats DEF Under
  <1>3. st.seq \in Nat
    BY StateTypes
  <1>4. \A d \in Nat : d < st.seq => d # st.seq
    BY <1>3, SMT
  <1> QED
    BY <1>1, <1>2, <1>4

\* The sequence of st, which is on disk, joins the drawn ones.
LEMMA SeqDraws ==
    ASSUME DirInv, NEW st \in LinkState, Under(st.seq), disk'.state = st, epoch' = epoch,
           Drawn' \subseteq Drawn \cup {st.seq},
           \A q \in Procs : ~At(q, {"write"})' /\ ~Fresh(q)',
           Reserved' => proc'[TunnelBump].st \in LinkState,
           Reserved' => \A r \in signed' : r.epoch = epoch => r.seq # proc'[TunnelBump].st.seq,
           SequenceNeverReused'
    PROVE  SeqInv'
  <1>1. \A d \in Drawn : d \in Nat /\ d < st.seq
    BY DrawnNats DEF Under
  <1>2. st.seq \in Nat /\ st # None
    BY StateTypes
  <1>3. \A d \in Drawn \cup {st.seq} : d <= st.seq
    BY <1>1, <1>2, SMT
  <1> QED
    BY <1>2, <1>3 DEF SeqInv, Below

LEMMA FillKeeps ==
    ASSUME DirInv, HostInv, NEW p \in Procs, Fill(p), tun' = tun
    PROVE  DirInv'
  <1> DEFINE w == Head(proc[p].writes)
             rest == Tail(proc[p].writes)
             m == proc[p]
             n == proc'[p]
  <1>0. /\ m.pc = "write" /\ disk' = [disk EXCEPT ![w.file] = w.to]
        /\ DOMAIN proc' = Procs /\ \A q \in Procs : q # p => proc'[q] = proc[q]
        /\ n = [m EXCEPT !.cut = FALSE, !.writes = rest, !.pc = IF rest = << >> THEN m.then ELSE "write"]
        /\ load' = load /\ epoch' = epoch /\ held' = held /\ wire' = wire /\ signed' = signed /\ died' = died
    BY OfProc, Upds DEF Fill, serviceVars
  <1>1. /\ DOMAIN n = Fields /\ n.pc = IF rest = << >> THEN m.then ELSE "write"
        /\ n.lock = m.lock /\ n.st = m.st /\ n.req = m.req /\ Carried(n)
        /\ n.then = m.then /\ n.gen = m.gen /\ n.writes = rest /\ n.cut = FALSE
    BY <1>0, OfProc, FieldsAre DEF Carried
  <1>2. /\ m.st \in LinkState /\ Carried(m) /\ Plan(m) /\ m.cut \in BOOLEAN
        /\ m.then \in {"send", "certify", "unmark", "return"}
        /\ p = TunnelBump => m.then = "return"
    BY <1>0, OfProc DEF MemoryOK, Decided, Inside, DirInv, ProcInv, At
  <1>3. \/ w.file = "state" /\ w.to = m.st /\ n.pc = m.then
        \/ w.file \in {"key", "cert"} /\ n.pc = "write" /\ Plan(n)
    BY <1>1, <1>2, PlanParts
  <1>4. /\ DOMAIN disk' = DOMAIN NoFiles /\ disk'.bound = disk.bound /\ disk'.tunnel = disk.tunnel
        /\ (w.file = "state" /\ disk'.state = m.st) \/ (w.file # "state" /\ disk'.state = disk.state)
    BY <1>0, <1>3, DiskFields DEF DirInv, DiskInv
  <1> HIDE DEF w, rest
  <1>5. Continues(p)
    <2>1. MemoryOK(n)
      BY <1>1, <1>2, <1>3 DEF MemoryOK, Pcs
    <2>2. DiskInv'
      BY <1>2, <1>4 DEF DirInv, DiskInv
    <2>3. m.pc \in Decided /\ n.pc \in Decided /\ (p = TunnelBump => n.pc \in {"write", "return"})
      BY <1>0, <1>2, <1>3 DEF Decided, Inside
    <2> QED
      BY <1>0, <1>1, <1>2, <2>1, <2>2, <2>3 DEF Continues, Only, At, DirInv, ProcInv
  <1>6. \A q \in Procs : At(q, Decided)' => q = p
    BY <1>5, ContinuesKeeps
  <1>7. StateInv'
    <2>1. CASE w.file = "state"
      <3>1. disk'.state = n.st /\ disk'.state # Torn
        BY <2>1, <1>1, <1>2, <1>4, StateTypes
      <3>2. \A q \in Procs : At(q, Settled)' => q = p
        BY <1>6 DEF At, Settled
      <3> QED
        BY <3>1, <3>2 DEF StateInv
    <2>2. CASE w.file # "state"
      <3>1. n.pc = "write" /\ disk'.state = disk.state
        BY <2>2, <1>3, <1>4
      <3>2. \A q \in Procs : ~At(q, Settled)'
        BY <3>1, <1>6 DEF At, Settled
      <3>3. m.writes # <<StateWrite(m.st)>>
        BY <2>2, SMT DEF w, StateWrite
      <3>4. disk.state = Torn => died
        BY <3>3, <1>0, Alone DEF DirInv, StateInv, At, Decided, Inside
      <3> QED
        BY <3>1, <3>2, <3>4, <1>0 DEF StateInv
    <2> QED
      BY <2>1, <2>2
  <1>8. SeqInv'
    <2>0. Below(m.st.seq) /\ (p = TunnelBump \/ m.then = "send" => Under(m.st.seq))
      BY <1>0 DEF DirInv, SeqInv, At, Fresh
    <2>1. \A q \in Procs : At(q, {"write"})' => Below(proc'[q].st.seq)
      BY <2>0, <1>1, <1>6 DEF At, Decided, Inside
    <2>2. \A q \in Procs : Fresh(q)' => Under(proc'[q].st.seq)
      <3>1. \A q \in Procs : Fresh(q)' => q = p
        BY <1>6 DEF Fresh, At, Decided, Inside
      <3>2. Fresh(p)' => p = TunnelBump \/ m.then = "send"
        BY <1>1, <1>3 DEF Fresh, At
      <3> QED
        BY <3>1, <3>2, <2>0, <1>1
    <2>3. CASE ~(p = TunnelBump /\ n.pc = "return")
      <3>1. Reserved' => Reserved /\ proc'[TunnelBump].st = proc[TunnelBump].st
        BY <2>3, <1>0, <1>3, <1>2, ProcFacts DEF Reserved, At
      <3>2. disk'.state = disk.state \/ (disk'.state \in LinkState /\ Below(disk'.state.seq))
        BY <1>2, <1>4, <2>0
      <3> QED
        BY <2>1, <2>2, <3>1, <3>2, <1>0, SeqKept DEF DirInv
    <2>4. CASE p = TunnelBump /\ n.pc = "return"
      <3>1. disk'.state = m.st
        BY <2>4, <1>3, <1>4
      <3>2. \A q \in Procs : ~At(q, {"write"})' /\ ~Fresh(q)'
        BY <2>4, <1>6 DEF Fresh, At, Decided, Inside
      <3>3. Drawn' \subseteq Drawn \cup {m.st.seq}
        BY <2>4, <1>0, <1>1 DEF Drawn
      <3>4. \A r \in signed : r.epoch = epoch => r.seq # m.st.seq
        BY <2>0, <2>4, <1>2, DrawnUnder
      <3>5. /\ Reserved' => proc'[TunnelBump].st \in LinkState
            /\ Reserved' => \A r \in signed' : r.epoch = epoch => r.seq # proc'[TunnelBump].st.seq
        <4>1. proc'[TunnelBump].st = m.st
          BY <2>4, <1>1
        <4> QED
          BY <4>1, <3>4, <1>0, <1>2
      <3>6. SequenceNeverReused'
        BY <1>0 DEF DirInv, SeqInv, SequenceNeverReused
      <3> QED
        BY <3>1, <3>2, <3>3, <3>5, <3>6, <2>0, <2>4, <1>0, <1>2, SeqDraws
    <2> QED
      BY <2>3, <2>4
  <1> QED
    BY <1>4, <1>5, <1>7, <1>8, ContinuesKeeps, ContinuesFlag DEF DirInv, Continues

LEMMA SendKeeps ==
    ASSUME DirInv, HostInv, NEW p \in Procs, Send(p), tun' = tun
    PROVE  DirInv'
  <1> DEFINE m == proc[p]
             n == proc'[p]
             r == Request(p)
  <1>0. /\ m.pc = "send" /\ disk' = disk
        /\ DOMAIN proc' = Procs /\ \A q \in Procs : q # p => proc'[q] = proc[q]
        /\ n = [m EXCEPT !.pc = "wait"] /\ wire' = wire \cup {r} /\ signed' = signed \cup {r}
        /\ load' = load /\ epoch' = epoch /\ held' = held /\ died' = died
    BY OfProc, Upds DEF Send, fileVars
  <1>1. /\ DOMAIN n = Fields /\ n.pc = "wait" /\ n.lock = m.lock /\ n.st = m.st /\ n.req = m.req
        /\ Carried(n)
    BY <1>0, OfProc, FieldsAre DEF Carried
  <1>2. m.st \in LinkState /\ Carried(m) /\ p # TunnelBump /\ disk.state = m.st /\ Under(m.st.seq)
    BY <1>0, OfProc DEF MemoryOK, Settled, Decided, Inside, DirInv, ProcInv, StateInv, SeqInv, Fresh, At
  <1>3. r.by = p /\ r.seq = m.st.seq /\ r.epoch = epoch
    BY DEF Request
  <1> HIDE DEF r
  <1>4. \A s \in signed' : s.epoch \in 0..epoch /\ s.seq \in Nat
    <2>1. epoch \in 0..epoch
      BY SMT DEF DirInv, LockInv
    <2> QED
      BY <2>1, <1>0, <1>2, <1>3, StateTypes DEF DirInv, ProcInv
  <1>5. Continues(p)
    <2>1. MemoryOK(n)
      BY <1>1, <1>2 DEF MemoryOK, Pcs
    <2>2. "send" \in Decided /\ "wait" \in Decided
      BY DEF Decided, Inside
    <2> QED
      BY <1>0, <1>1, <1>2, <1>3, <1>4, <2>1, <2>2 DEF Continues, Only, At, DirInv, ProcInv, DiskInv
  <1>6. \A q \in Procs : At(q, Decided)' => q = p
    BY <1>5, ContinuesKeeps
  <1>7. StateInv'
    <2>1. \A q \in Procs : At(q, Settled)' => q = p
      BY <1>6 DEF At, Settled
    <2>2. disk'.state # Torn
      BY <1>0, <1>2, StateTypes
    <2> QED
      BY <2>1, <2>2, <1>0, <1>1, <1>2 DEF StateInv
  <1>8. SeqInv'
    <2>1. \A q \in Procs : ~At(q, {"write"})' /\ ~Fresh(q)'
      BY <1>1, <1>6 DEF Fresh, At, Decided, Inside
    <2>2. proc'[TunnelBump] = proc[TunnelBump] /\ (Reserved' <=> Reserved)
      BY <1>0, <1>2, ProcFacts DEF Reserved, At
    <2>3. Drawn' \subseteq Drawn \cup {m.st.seq}
      BY <2>2, <1>0, <1>3 DEF Drawn
    <2>4. \A s \in signed : s.epoch = epoch => s.seq # m.st.seq
      BY <1>2, DrawnUnder
    <2>5. Reserved => proc[TunnelBump].st.seq # m.st.seq
      BY <1>2, DrawnNats, StateTypes, SMT DEF Drawn, Under
    <2>6. /\ Reserved' => proc'[TunnelBump].st \in LinkState
          /\ Reserved' => \A s \in signed' : s.epoch = epoch => s.seq # proc'[TunnelBump].st.seq
      BY <2>2, <2>5, <1>0, <1>3 DEF DirInv, SeqInv
    <2>7. SequenceNeverReused'
      <3>1. ASSUME NEW a \in signed', NEW b \in signed', a.seq = b.seq, a.epoch = b.epoch PROVE a = b
        <4>1. \A c \in signed : ~(c.epoch = r.epoch /\ c.seq = r.seq)
          BY <2>4, <1>3
        <4>2. CASE a \in signed /\ b \in signed
          BY <4>2, <3>1 DEF DirInv, SeqInv, SequenceNeverReused
        <4> QED
          BY <4>1, <4>2, <3>1, <1>0
      <3> QED
        BY <3>1 DEF SequenceNeverReused
    <2> QED
      BY <2>1, <2>3, <2>6, <2>7, <1>0, <1>2, SeqDraws
  <1> QED
    BY <1>0, <1>5, <1>7, <1>8, ContinuesKeeps, ContinuesFlag DEF DirInv, Continues

\* An answer arrives, or the client gives up waiting.
LEMMA HearsKeeps ==
    ASSUME DirInv, HostInv, NEW p \in Procs, NEW result, proc[p].pc = "wait",
           Upd(p, [proc[p] EXCEPT !.pc = "answered", !.result = result]),
           load' = load, epoch' = epoch, held' = held, signed' = signed, wire' \subseteq wire,
           died' = died, disk' = disk, tun' = tun
    PROVE  DirInv'
  <1> DEFINE m == proc[p]
             n == proc'[p]
  <1>0. /\ DOMAIN proc' = Procs /\ \A q \in Procs : q # p => proc'[q] = proc[q]
        /\ n = [m EXCEPT !.pc = "answered", !.result = result]
    BY OfProc, Upds
  <1>1. /\ DOMAIN n = Fields /\ n.pc = "answered" /\ n.lock = m.lock /\ n.st = m.st /\ n.req = m.req
        /\ Carried(n)
    BY <1>0, OfProc, FieldsAre DEF Carried
  <1>2. m.st \in LinkState /\ Carried(m) /\ p # TunnelBump /\ disk.state = m.st
    BY OfProc DEF MemoryOK, Settled, Decided, Inside, DirInv, ProcInv, StateInv, At
  <1>3. Continues(p)
    <2>1. MemoryOK(n)
      BY <1>1, <1>2 DEF MemoryOK, Pcs
    <2>2. "answered" \in Decided /\ "wait" \in Decided
      BY DEF Decided, Inside
    <2> QED
      BY <1>0, <1>1, <1>2, <2>1, <2>2 DEF Continues, Only, At, DirInv, ProcInv, DiskInv
  <1>4. \A q \in Procs : At(q, Decided)' => q = p
    BY <1>3, ContinuesKeeps
  <1>5. StateInv'
    <2>1. \A q \in Procs : At(q, Settled)' => q = p
      BY <1>4 DEF At, Settled
    <2>2. disk'.state # Torn
      BY <1>2, StateTypes
    <2> QED
      BY <2>1, <2>2, <1>1, <1>2 DEF StateInv
  <1>6. SeqInv'
    <2>1. \A q \in Procs : ~At(q, {"write"})' /\ ~Fresh(q)'
      BY <1>1, <1>4 DEF Fresh, At, Decided, Inside
    <2>2. Reserved' => Reserved /\ proc'[TunnelBump].st = proc[TunnelBump].st
      BY <1>0, <1>2, ProcFacts DEF Reserved, At
    <2> QED
      BY <2>1, <2>2, SeqKept DEF DirInv
  <1> QED
    BY <1>3, <1>5, <1>6, ContinuesKeeps, ContinuesFlag DEF DirInv, Continues

\* `link disable` removes the directory, and with it the lock file it holds.
LEMMA RemoveKeeps ==
    ASSUME NeverRelinked, DirInv, HostInv, NEW p \in Procs, RemoveLinkDir(p), tun' = tun
    PROVE  DirInv'
  <1> DEFINE m == proc[p]
             n == proc'[p]
  <1>0. PICK result :
        /\ m.pc = "answered" /\ m.req = "delete" /\ disk' = NoFiles /\ epoch' = epoch + 1
        /\ DOMAIN proc' = Procs /\ \A q \in Procs : q # p => proc'[q] = proc[q]
        /\ n = [m EXCEPT !.pc = "done", !.result = result, !.writes = << >>, !.cut = FALSE]
        /\ held' = [held EXCEPT ![m.lock] = None]
        /\ load' = load /\ signed' = signed /\ wire' = wire /\ died' = died
    BY OfProc, Upds DEF RemoveLinkDir, Finish, serviceVars
  <1>1. /\ DOMAIN n = Fields /\ n.pc = "done" /\ n.st = m.st /\ n.req = m.req /\ Carried(n)
    BY <1>0, OfProc, FieldsAre DEF Carried
  <1>2. /\ MemoryOK(n) /\ "done" \notin Inside \cup {"lock"} /\ "done" \notin Decided
        /\ "answered" \in Decided /\ "answered" \in Inside /\ m.pc # "idle" /\ Decided \subseteq Inside
    BY <1>0, <1>1, OfProc DEF MemoryOK, Decided, Inside, Pcs
  <1>3. Kind(p) = "link_disable" /\ p \in Commands /\ p # TunnelBump /\ p \in load.commands
    BY <1>0, <1>2, OfProc, Kinds, ProcFacts
  <1>4. \A c \in load.commands : Kind(c) # "link_enable"
    BY <1>3 DEF NeverRelinked, HostInv
  <1>5. epoch = 0 /\ epoch' = 1
    <2>1. epoch = 0
      BY <1>0, <1>2 DEF DirInv, LockInv, At
    <2> QED
      BY <2>1, <1>0, SMT
  <1>6. \A q \in Procs : At(q, Inside)' => FALSE
    BY <1>0, <1>1, <1>2, Alone DEF DirInv, At
  <1>7. \A q \in Procs : At(q, Decided)' => FALSE
    BY <1>6, <1>2 DEF At
  <1>8. ProcInv'
    <2>1. \A q \in Procs : MemoryOK(proc'[q]) /\ (proc'[q].req = "delete" => Kind(q) = "link_disable")
      BY <1>0, <1>1, <1>2, <1>3, OfProc
    <2>2. \A q \in Procs : proc'[q].pc # "idle" => q \in load.commands \cup {AutoRenew, TunnelBump}
      BY <1>0, <1>3, OfProc
    <2>3. /\ ~At(TunnelBump, {"send", "wait", "answered", "certify", "unmark"})'
          /\ At(TunnelBump, {"write"})' => proc'[TunnelBump].then = "return"
      BY <1>7, ProcFacts DEF At, Decided, Inside
    <2>4. \A r \in signed : r.epoch \in 0..1
      BY <1>5, SMT DEF DirInv, ProcInv
    <2> QED
      BY <2>1, <2>2, <2>3, <2>4, <1>0, <1>5 DEF ProcInv, DirInv
  <1>9. DiskInv' /\ disk'.state = None
    <2>1. disk'.state = None /\ disk'.bound = None /\ disk'.tunnel = None
      BY <1>0 DEF NoFiles
    <2> QED
      BY <2>1, <1>0 DEF DiskInv
  <1>10. LockInv'
    <2>1. held' \in [0..MaxEpoch -> Procs \cup {None}]
      BY <1>0 DEF DirInv, LockInv
    <2>2. \A q \in Procs : At(q, Inside \cup {"lock"})' => proc'[q].lock \in 0..epoch'
      <3>1. \A q \in Procs : At(q, Inside \cup {"lock"})' => proc'[q].lock \in 0..0
        <4>1. \A q \in Procs : At(q, Inside \cup {"lock"})' => proc'[q] = proc[q] /\ At(q, Inside \cup {"lock"})
          BY <1>0, <1>1, <1>2 DEF At
        <4>2. \A q \in Procs : At(q, Inside \cup {"lock"}) => proc[q].lock \in 0..epoch
          BY DEF DirInv, LockInv
        <4> QED
          BY <4>1, <4>2, <1>5
      <3>2. 0..0 \subseteq 0..1
        BY SMT
      <3> QED
        BY <3>1, <3>2, <1>5
    <2> QED
      BY <2>1, <2>2, <1>0, <1>4, <1>5, <1>6, <1>7, <1>9 DEF LockInv
  <1>11. StateInv'
    <2>1. \A q \in Procs : ~At(q, Settled)'
      BY <1>7 DEF At, Settled
    <2> QED
      BY <2>1, <1>9, LinkAssumption DEF StateInv
  <1>12. SeqInv'
    <2>1. \A q \in Procs : ~At(q, {"write"})' /\ ~Fresh(q)'
      BY <1>7 DEF Fresh, At, Decided, Inside
    <2>2. \A r \in signed' : r.epoch # epoch'
      BY <1>0, <1>5, SMT DEF DirInv, ProcInv
    <2>3. Reserved' => Reserved /\ proc'[TunnelBump].st = proc[TunnelBump].st
      BY <1>0, <1>3, ProcFacts DEF Reserved, At
    <2>4. Reserved' => proc'[TunnelBump].st \in LinkState
      BY <2>3 DEF DirInv, SeqInv
    <2>5. SequenceNeverReused' /\ None \notin LinkState
      BY <1>0, LinkAssumption DEF DirInv, SeqInv, SequenceNeverReused
    <2>6. epoch' # 0
      BY <1>5, SMT
    <2> QED
      BY <2>1, <2>2, <2>4, <2>5, <2>6, <1>9 DEF SeqInv
  <1>13. FlagInv'
    BY <1>7, <1>9, LinkAssumption DEF FlagInv
  <1> QED
    BY <1>8, <1>9, <1>10, <1>11, <1>12, <1>13 DEF DirInv

-----------------------------------------------------------------------------
(* The states that are computed from the one that was read.                 *)

LEMMA StateParts ==
    ASSUME NEW st \in LinkState
    PROVE  /\ DOMAIN st = {"name", "seq", "ips", "cert", "tunnel"}
           /\ st.name \in Names /\ st.seq \in Nat /\ st.ips \in Ips \cup {None}
           /\ st.cert \in Nat \cup {None} /\ st.tunnel \in BOOLEAN
  BY SMT DEF LinkState

LEMMA StateOf ==
    ASSUME NEW n \in Names, NEW s \in Nat, NEW i \in Ips \cup {None}, NEW c \in Nat \cup {None}, NEW t \in BOOLEAN
    PROVE  [name |-> n, seq |-> s, ips |-> i, cert |-> c, tunnel |-> t] \in LinkState
  BY SMT DEF LinkState

LEMMA NewState ==
    ASSUME NEW name \in Names
    PROVE  /\ NewLinkState(name) \in LinkState
           /\ NewLinkState(name).seq = 0 /\ NewLinkState(name).tunnel = FALSE
  <1>1. NewLinkState(name) \in LinkState
    BY StateOf, 0 \in Nat, FALSE \in BOOLEAN DEF NewLinkState
  <1> QED
    BY <1>1 DEF NewLinkState

\* One field is replaced.
LEMMA StateUpdates ==
    ASSUME NEW st \in LinkState
    PROVE  /\ \A n \in Names : [st EXCEPT !.name = n] \in LinkState
           /\ \A k \in Nat : [st EXCEPT !.seq = @ + k] \in LinkState
           /\ \A i \in Ips \cup {None} : [st EXCEPT !.ips = i] \in LinkState
           /\ \A c \in Nat \cup {None} : [st EXCEPT !.cert = c] \in LinkState
           /\ \A t \in BOOLEAN : [st EXCEPT !.tunnel = t] \in LinkState
  BY SMT DEF LinkState

LEMMA StateUpdated ==
    ASSUME NEW st \in LinkState, NEW v
    PROVE  /\ [st EXCEPT !.name = v].seq = st.seq /\ [st EXCEPT !.name = v].tunnel = st.tunnel
           /\ [st EXCEPT !.seq = v].seq = v /\ [st EXCEPT !.seq = v].tunnel = st.tunnel
           /\ [st EXCEPT !.ips = v].seq = st.seq /\ [st EXCEPT !.ips = v].tunnel = st.tunnel
           /\ [st EXCEPT !.cert = v].seq = st.seq /\ [st EXCEPT !.cert = v].tunnel = st.tunnel
           /\ [st EXCEPT !.tunnel = v].seq = st.seq /\ [st EXCEPT !.tunnel = v].tunnel = v
  BY StateParts

LEMMA NextSequence ==
    ASSUME NEW st \in LinkState
    PROVE  /\ next_sequence(st) \in LinkState
           /\ next_sequence(st).seq = st.seq + 1 /\ next_sequence(st).tunnel = st.tunnel
  <1>1. next_sequence(st) = [st EXCEPT !.seq = st.seq + 1]
    BY DEF next_sequence
  <1>2. [st EXCEPT !.seq = st.seq + 1] \in LinkState
    BY SMT DEF LinkState
  <1>3. /\ [st EXCEPT !.seq = st.seq + 1].seq = st.seq + 1
        /\ [st EXCEPT !.seq = st.seq + 1].tunnel = st.tunnel
    BY StateUpdated
  <1> QED
    BY <1>1, <1>2, <1>3

-----------------------------------------------------------------------------
(* Every action of a process, by its shape.                                 *)

LEMMA FinishSame ==
    ASSUME DirInv, HostInv, NEW p \in Procs, NEW result, Finish(p, result),
           At(p, Inside), ~At(p, {"write"}),
           p = TunnelBump /\ result = "ok" => At(p, {"return"}),
           Kind(p) = "tunnel_disable" /\ result = "ok" => At(p, Settled) \/ disk.state = None,
           load' = load, disk' = disk, epoch' = epoch, signed' = signed, wire' = wire, died' = died, tun' = tun
    PROVE  DirInv'
  <1>1. DiskInv'
    BY DEF DirInv, DiskInv
  <1> QED
    BY <1>1, FinishKeeps

LEMMA UpdSaves ==
    ASSUME DirInv, HostInv, NEW p \in Procs, At(p, {"read", "answered", "certify"}),
           NEW n, Upd(p, n), NEW st \in LinkState, NEW then \in {"send", "certify", "unmark", "return"},
           Saved(proc[p], n, st, then), n.req = "delete" => Kind(p) = "link_disable",
           p = TunnelBump => then = "return",
           \/ disk.state = None /\ st.seq > 0 /\ ~st.tunnel /\ Kind(p) = "link_enable"
           \/ /\ disk.state \in LinkState /\ st.seq >= disk.state.seq
              /\ (then = "send" \/ p = TunnelBump) => st.seq > disk.state.seq
              /\ st.tunnel => disk.state.tunnel \/ Kind(p) = "tunnel_enable",
           Kind(p) = "tunnel_disable" => ~st.tunnel,
           load' = load, disk' = disk, epoch' = epoch, held' = held,
           wire' = wire, signed' = signed, died' = died, tun' = tun
    PROVE  DirInv'
  <1>1. Saves(p, st, then)
    BY OfProc, Upds DEF Saves, Only
  <1> QED
    BY <1>1, SavesKeeps

\* A request is signed with the next sequence of a state that is not behind the disk.
LEMMA SignKeeps ==
    ASSUME DirInv, HostInv, NEW p \in Procs, At(p, {"read", "certify"}), p # TunnelBump,
           NEW st \in LinkState, Kind(p) = "tunnel_disable" => ~st.tunnel,
           NEW req, req = "delete" => Kind(p) = "link_disable",
           NEW n, Upd(p, n), Signed(proc[p], n, next_sequence(st), req),
           \/ disk.state = None /\ ~st.tunnel /\ Kind(p) = "link_enable"
           \/ disk.state \in LinkState /\ st.seq >= disk.state.seq /\ (st.tunnel => disk.state.tunnel),
           load' = load, disk' = disk, epoch' = epoch, held' = held,
           wire' = wire, signed' = signed, died' = died, tun' = tun
    PROVE  DirInv'
  <1> DEFINE s == next_sequence(st)
  <1>1. s \in LinkState /\ s.seq = st.seq + 1 /\ s.tunnel = st.tunnel
    BY NextSequence
  <1>4. /\ OneWrite(proc[p], n, s, "send") /\ n.req = req
        /\ n.gen \in Nat \cup {None} /\ n.ips \in Ips \cup {None}
    BY DEF Signed
  <1> HIDE DEF s
  <1>5. Saved(proc[p], n, s, "send")
    BY <1>4, OfProc, OneWriteSaves DEF Carried
  <1>6. /\ s.seq > 0
        /\ disk.state \in LinkState /\ st.seq >= disk.state.seq =>
              s.seq > disk.state.seq /\ s.seq >= disk.state.seq
    BY <1>1, StateTypes, SMT
  <1>7. \/ disk.state = None /\ s.seq > 0 /\ ~s.tunnel /\ Kind(p) = "link_enable"
        \/ /\ disk.state \in LinkState /\ s.seq >= disk.state.seq
           /\ s.seq > disk.state.seq
           /\ s.tunnel => disk.state.tunnel
    BY <1>1, <1>6
  <1>8. At(p, {"read", "answered", "certify"})
    BY DEF At
  <1> QED
    BY <1>1, <1>4, <1>5, <1>7, <1>8, UpdSaves

LEMMA RefusalsKeep ==
    ASSUME DirInv, HostInv, NEW p \in Procs, ReadUnparsable(p) \/ Refused(p) \/ GiveUp(p) \/ Return(p), tun' = tun
    PROVE  DirInv'
  <1>1. /\ proc[p].pc \in {"read", "answered", "return"}
        /\ Finish(p, "error") \/ (Finish(p, "ok") /\ proc[p].pc = "return")
        /\ load' = load /\ disk' = disk /\ epoch' = epoch /\ signed' = signed /\ wire' = wire /\ died' = died
    BY DEF ReadUnparsable, Refused, GiveUp, Return, fileVars, serviceVars
  <1>2. At(p, Inside) /\ ~At(p, {"write"}) /\ (proc[p].pc = "return" => At(p, Settled) /\ At(p, {"return"}))
    BY <1>1 DEF At, Settled, Decided, Inside
  <1>3. CASE Finish(p, "error")
    BY <1>1, <1>2, <1>3, FinishSame
  <1>4. CASE Finish(p, "ok") /\ proc[p].pc = "return"
    BY <1>1, <1>2, <1>4, FinishSame
  <1> QED
    BY <1>1, <1>3, <1>4

LEMMA UnmarkKeeps ==
    ASSUME DirInv, HostInv, NEW p \in Procs, Unmark(p), tun' = tun
    PROVE  DirInv'
  <1>1. /\ proc[p].pc = "unmark" /\ Finish(p, "ok") /\ disk' = [disk EXCEPT !.tunnel = None]
        /\ load' = load /\ epoch' = epoch /\ signed' = signed /\ wire' = wire /\ died' = died
    BY DEF Unmark, serviceVars
  <1>2. At(p, Inside) /\ ~At(p, {"write"}) /\ At(p, Settled) /\ p # TunnelBump
    BY <1>1 DEF At, Settled, Decided, Inside, DirInv, ProcInv
  <1>3. disk'.state = disk.state /\ disk'.bound = disk.bound /\ disk'.tunnel = None /\ DOMAIN disk' = DOMAIN disk
    BY <1>1, DiskFields DEF DirInv, DiskInv
  <1>4. DiskInv'
    BY <1>3 DEF DirInv, DiskInv
  <1> QED
    BY <1>1, <1>2, <1>3, <1>4, FinishKeeps

\* The state that was read, if there is one.
LEMMA ReadState ==
    ASSUME DirInv, HostInv, NEW p \in Procs, proc[p].pc = "read"
    PROVE  /\ At(p, Inside) /\ ~At(p, {"write"}) /\ At(p, {"read", "certify"}) /\ At(p, {"read", "answered", "certify"})
           /\ DOMAIN proc[p] = Fields /\ Carried(proc[p])
           /\ disk.state = Torn \/ disk.state = None \/ disk.state \in LinkState
           /\ disk.state \in LinkState => disk.state.seq >= disk.state.seq
           /\ lan \in Ips /\ gens + 1 \in Nat
  <1>1. disk.state \in LinkState => disk.state.seq >= disk.state.seq
    BY StateTypes, SMT
  <1>2. gens + 1 \in Nat
    BY SMT DEF HostInv
  <1> QED
    BY <1>1, <1>2, OfProc DEF At, Inside, DirInv, DiskInv, HostInv

LEMMA ReadForEnableKeeps ==
    ASSUME DirInv, HostInv, NEW p \in Procs, ReadForEnable(p), tun' = tun
    PROVE  DirInv'
  <1> DEFINE st == IF disk.state = None THEN NewLinkState(CommandName[p])
                   ELSE [disk.state EXCEPT !.name = CommandName[p]]
             n == SignIps(proc[p], next_sequence(st), "claim", lan)
  <1>1. /\ proc[p].pc = "read" /\ Kind(p) = "link_enable" /\ disk.state # Torn /\ Upd(p, n)
        /\ load' = load /\ disk' = disk /\ epoch' = epoch /\ held' = held
        /\ signed' = signed /\ wire' = wire /\ died' = died
    BY DEF ReadForEnable, SignIps, fileVars, serviceVars
  <1>2. CommandName[p] \in Names /\ p # TunnelBump
    BY <1>1, Kinds, ProcFacts, LinkAssumption
  <1>3. /\ st \in LinkState
        /\ \/ disk.state = None /\ ~st.tunnel
           \/ disk.state \in LinkState /\ st.seq >= disk.state.seq /\ (st.tunnel => disk.state.tunnel)
    <2>1. CASE disk.state = None
      BY <2>1, <1>2, NewState
    <2>2. CASE disk.state # None
      <3>1. disk.state \in LinkState /\ disk.state.seq >= disk.state.seq
        BY <2>2, <1>1, ReadState
      <3>2. st = [disk.state EXCEPT !.name = CommandName[p]]
        BY <2>2
      <3> HIDE DEF st
      <3>3. st \in LinkState
        BY <3>1, <3>2, <1>2, StateUpdates
      <3>4. st.seq = disk.state.seq /\ st.tunnel = disk.state.tunnel
        BY <3>1, <3>2, StateUpdated
      <3> QED
        BY <3>1, <3>3, <3>4
    <2> QED
      BY <2>1, <2>2
  <1> HIDE DEF st
  <1>4. Signed(proc[p], n, next_sequence(st), "claim")
    BY <1>1, ReadState, SignSigned
  <1> HIDE DEF n
  <1> QED
    BY <1>1, <1>2, <1>3, <1>4, ReadState, SignKeeps

LEMMA ReadForDisableKeeps ==
    ASSUME DirInv, HostInv, NEW p \in Procs, ReadForDisable(p), tun' = tun
    PROVE  DirInv'
  <1> DEFINE n == Sign(proc[p], next_sequence(disk.state), "delete")
  <1>1. /\ proc[p].pc = "read" /\ Kind(p) = "link_disable" /\ disk.state # Torn /\ p # TunnelBump
        /\ IF disk.state = None THEN Finish(p, "ok") ELSE Upd(p, n) /\ held' = held
        /\ load' = load /\ disk' = disk /\ epoch' = epoch
        /\ signed' = signed /\ wire' = wire /\ died' = died
    BY Kinds, ProcFacts DEF ReadForDisable, fileVars, serviceVars
  <1>2. CASE disk.state = None
    BY <1>1, <1>2, ReadState, FinishSame
  <1>3. CASE disk.state # None
    <2>1. disk.state \in LinkState /\ disk.state.seq >= disk.state.seq
      BY <1>1, <1>3, ReadState
    <2>2. Signed(proc[p], n, next_sequence(disk.state), "delete")
      BY <1>1, ReadState, SignSigned
    <2> HIDE DEF n
    <2>3. Upd(p, n) /\ held' = held /\ At(p, {"read", "certify"})
      BY <1>1, <1>3, ReadState
    <2> QED
      BY <1>1, <2>1, <2>2, <2>3, SignKeeps
  <1> QED
    BY <1>2, <1>3

LEMMA ReadForRenewKeeps ==
    ASSUME DirInv, HostInv, NEW p \in Procs, ReadForRenew(p), tun' = tun
    PROVE  DirInv'
  <1> DEFINE s == next_sequence(disk.state)
             i == SignIps(proc[p], s, "claim", lan)
             g == SignGen(proc[p], s, "cert", gens + 1)
  <1>1. /\ proc[p].pc = "read" /\ Kind(p) = "link_renew" /\ disk.state # Torn /\ p # TunnelBump
        /\ \/ disk.state = None /\ Finish(p, "error")
           \/ disk.state # None /\ (Upd(p, i) \/ Upd(p, g)) /\ held' = held
        /\ load' = load /\ disk' = disk /\ epoch' = epoch
        /\ signed' = signed /\ wire' = wire /\ died' = died
    BY Kinds, ProcFacts DEF ReadForRenew, Certify, SignIps, SignGen, fileVars, serviceVars
  <1>2. CASE disk.state = None
    BY <1>1, <1>2, ReadState, FinishSame
  <1>3. CASE disk.state # None
    <2>1. disk.state \in LinkState /\ disk.state.seq >= disk.state.seq
      BY <1>1, <1>3, ReadState
    <2>2. Signed(proc[p], i, s, "claim")
      BY <1>1, ReadState, SignSigned
    <2>3. Signed(proc[p], g, s, "cert")
      BY <1>1, ReadState, SignSigned
    <2> HIDE DEF i, g
    <2>4. (Upd(p, i) \/ Upd(p, g)) /\ held' = held /\ At(p, {"read", "certify"})
      BY <1>1, <1>3, ReadState
    <2>5. CASE Upd(p, i)
      BY <1>1, <2>1, <2>2, <2>4, <2>5, SignKeeps
    <2>6. CASE Upd(p, g)
      BY <1>1, <2>1, <2>3, <2>4, <2>6, SignKeeps
    <2> QED
      BY <2>4, <2>5, <2>6
  <1> QED
    BY <1>2, <1>3

LEMMA ReadForTunnelFlagKeeps ==
    ASSUME DirInv, HostInv, NEW p \in Procs, ReadForTunnelFlag(p), tun' = tun
    PROVE  DirInv'
  <1> DEFINE on == Kind(p) = "tunnel_enable"
             st == [disk.state EXCEPT !.tunnel = on]
             then == IF st.tunnel THEN "return" ELSE "unmark"
             n == Saving(proc[p], st, then)
  <1>1. /\ proc[p].pc = "read" /\ Kind(p) \in {"tunnel_enable", "tunnel_disable"}
        /\ disk.state # Torn /\ p # TunnelBump
        /\ IF disk.state = None THEN Finish(p, "error") \/ Finish(p, "ok") ELSE Upd(p, n) /\ held' = held
        /\ load' = load /\ disk' = disk /\ epoch' = epoch
        /\ signed' = signed /\ wire' = wire /\ died' = died
    BY Kinds, ProcFacts DEF ReadForTunnelFlag, fileVars, serviceVars
  <1>2. CASE disk.state = None
    BY <1>1, <1>2, ReadState, FinishSame
  <1>3. CASE disk.state # None
    <2>1. disk.state \in LinkState /\ disk.state.seq >= disk.state.seq
      BY <1>1, <1>3, ReadState
    <2>2. Saved(proc[p], n, st, then) /\ n.req = proc[p].req
      <3> HIDE DEF st, then
      <3> QED
        BY <1>1, ReadState, SavingSaves
    <2>3. st \in LinkState /\ st.seq = disk.state.seq /\ st.tunnel = on
      <3>1. st \in LinkState
        BY <2>1, StateUpdates
      <3>2. st.seq = disk.state.seq /\ st.tunnel = on
        BY <2>1, StateParts
      <3> QED
        BY <3>1, <3>2
    <2>4. then \in {"send", "certify", "unmark", "return"} /\ then # "send"
      OBVIOUS
    <2>5. Upd(p, n) /\ held' = held /\ At(p, {"read", "answered", "certify"})
      BY <1>1, <1>3, ReadState
    <2>6. n.req = "delete" => Kind(p) = "link_disable"
      BY <2>2, OfProc
    <2> HIDE DEF n, st, then
    <2>7. /\ st.seq >= disk.state.seq /\ (st.tunnel => Kind(p) = "tunnel_enable")
          /\ Kind(p) = "tunnel_disable" => ~st.tunnel
      BY <2>1, <2>3
    <2> QED
      BY <1>1, <2>1, <2>2, <2>3, <2>4, <2>5, <2>6, <2>7, UpdSaves
  <1> QED
    BY <1>2, <1>3

LEMMA ReadForTunnelKeeps ==
    ASSUME DirInv, HostInv, NEW p \in Procs, ReadForTunnel(p), tun' = tun
    PROVE  DirInv'
  <1> DEFINE s == next_sequence(disk.state)
             st == [s EXCEPT !.seq = s.seq + proc[p].jump]
             n == Saving(proc[p], st, "return")
  <1>1. /\ proc[p].pc = "read" /\ Kind(p) = "tunnel_bump" /\ disk.state # Torn /\ p = TunnelBump
        /\ \/ Finish(p, "error") \/ Finish(p, "disabled")
           \/ disk.state # None /\ Upd(p, n) /\ held' = held
        /\ load' = load /\ disk' = disk /\ epoch' = epoch
        /\ signed' = signed /\ wire' = wire /\ died' = died
    BY Kinds DEF ReadForTunnel, fileVars, serviceVars
  <1>2. CASE Finish(p, "error") \/ Finish(p, "disabled")
    BY <1>1, <1>2, ReadState, FinishSame
  <1>3. CASE disk.state # None /\ Upd(p, n) /\ held' = held
    <2>1. disk.state \in LinkState
      BY <1>1, <1>3, ReadState
    <2>2. Saved(proc[p], n, st, "return") /\ n.req = proc[p].req
      <3>1. DOMAIN proc[p] = Fields /\ Carried(proc[p])
        BY <1>1, ReadState
      <3> HIDE DEF st
      <3> QED
        BY <3>1, SavingSaves
    <2>3. s \in LinkState /\ s.seq = disk.state.seq + 1 /\ s.tunnel = disk.state.tunnel
      BY <2>1, NextSequence
    <2> HIDE DEF s
    <2>4. st.seq = s.seq + proc[p].jump /\ st.tunnel = s.tunnel
      BY <2>3, StateParts
    <2>5. proc[p].jump \in Nat
      BY OfProc DEF Carried
    <2>6. st \in LinkState
      BY <2>3, <2>5, StateUpdates
    <2>7. n.req = "delete" => Kind(p) = "link_disable"
      BY <2>2, OfProc
    <2> HIDE DEF n, st
    <2>8. st.seq >= disk.state.seq /\ st.seq > disk.state.seq
      BY <2>1, <2>3, <2>4, <2>5, StateTypes, SMT
    <2>9. At(p, {"read", "answered", "certify"})
      BY <1>1, ReadState
    <2> QED
      BY <1>1, <1>3, <2>1, <2>2, <2>3, <2>4, <2>6, <2>7, <2>8, <2>9, UpdSaves
  <1> QED
    BY <1>1, <1>2, <1>3

\* A process that was answered has the state that is on disk.
LEMMA AnsweredState ==
    ASSUME DirInv, HostInv, NEW p \in Procs, proc[p].pc \in {"answered", "certify"}
    PROVE  /\ At(p, {"read", "answered", "certify"}) /\ p # TunnelBump
           /\ DOMAIN proc[p] = Fields /\ Carried(proc[p])
           /\ proc[p].st \in LinkState /\ disk.state = proc[p].st
           /\ proc[p].st.seq \in Nat /\ proc[p].st.seq >= proc[p].st.seq
           /\ Kind(p) = "tunnel_disable" => ~proc[p].st.tunnel
           /\ proc[p].req = "delete" => Kind(p) = "link_disable"
           /\ gens + 1 \in Nat
  <1>1. proc[p].st \in LinkState /\ At(p, Settled) /\ At(p, Decided)
    BY OfProc DEF MemoryOK, At, Settled, Decided, Inside
  <1>2. proc[p].st.seq \in Nat
    BY <1>1, StateTypes
  <1>3. proc[p].st.seq >= proc[p].st.seq
    BY <1>2, SMT
  <1>4. gens + 1 \in Nat
    BY SMT DEF HostInv
  <1> QED
    BY <1>1, <1>2, <1>3, <1>4, OfProc DEF At, DirInv, StateInv, FlagInv, ProcInv

LEMMA ResyncKeeps ==
    ASSUME DirInv, HostInv, NEW p \in Procs, Resync(p), tun' = tun
    PROVE  DirInv'
  <1> DEFINE m == proc[p]
             st == [m.st EXCEPT !.seq = m.st.seq + ResyncJump]
             k == Saving(m, st, "send")
             n == [k EXCEPT !.again = TRUE]
  <1>1. /\ m.pc = "answered" /\ Upd(p, n)
        /\ load' = load /\ disk' = disk /\ epoch' = epoch /\ held' = held
        /\ signed' = signed /\ wire' = wire /\ died' = died
    BY DEF Resync, fileVars, serviceVars
  <1>2. st.seq = m.st.seq + ResyncJump /\ st.tunnel = m.st.tunnel
    BY <1>1, AnsweredState, StateParts
  <1>3. st \in LinkState
    BY <1>1, AnsweredState, StateUpdates, LinkAssumption
  <1> HIDE DEF st
  <1>4. st.seq >= m.st.seq /\ st.seq > m.st.seq
    BY <1>1, <1>2, AnsweredState, LinkAssumption, SMT
  <1>5. OneWrite(m, k, st, "send") /\ k.req = m.req /\ k.gen = m.gen /\ k.ips = m.ips
    <2>1. DOMAIN m = Fields
      BY <1>1, AnsweredState
    <2> HIDE DEF m
    <2> QED
      BY <2>1, SavingFields, SMT
  <1> HIDE DEF k
  <1>6. DOMAIN k = Fields
    BY <1>5 DEF OneWrite
  <1>7. /\ DOMAIN n = Fields /\ n.req = m.req /\ n.gen = m.gen /\ n.ips = m.ips
        /\ \A f \in Fields \ {"req", "again", "ips", "gen"} : n[f] = k[f]
    BY <1>5, <1>6, FieldsAre
  <1> HIDE DEF n
  <1>8. OneWrite(m, n, st, "send")
    BY <1>5, <1>7, OneWriteStays
  <1>9. Saved(m, n, st, "send")
    BY <1>1, <1>7, <1>8, AnsweredState, OneWriteSaves DEF Carried
  <1> QED
    BY <1>1, <1>2, <1>3, <1>4, <1>7, <1>9, AnsweredState, UpdSaves

LEMMA ClaimedKeeps ==
    ASSUME DirInv, HostInv, NEW p \in Procs, Claimed(p), tun' = tun
    PROVE  DirInv'
  <1> DEFINE m == proc[p]
             st == [m.st EXCEPT !.ips = m.ips]
             n == Saving(m, st, "certify")
  <1>1. /\ m.pc = "answered" /\ Upd(p, n)
        /\ load' = load /\ disk' = disk /\ epoch' = epoch /\ held' = held
        /\ signed' = signed /\ wire' = wire /\ died' = died
    BY DEF Claimed, fileVars, serviceVars
  <1>2. st.seq = m.st.seq /\ st.tunnel = m.st.tunnel
    BY <1>1, AnsweredState, StateParts
  <1>3. st \in LinkState
    BY <1>1, AnsweredState, StateUpdates DEF Carried
  <1> HIDE DEF st
  <1>4. Saved(m, n, st, "certify") /\ n.req = m.req
    <2>1. DOMAIN m = Fields /\ Carried(m)
      BY <1>1, AnsweredState
    <2> QED
      BY <2>1, SavingSaves
  <1> HIDE DEF n
  <1> QED
    BY <1>1, <1>2, <1>3, <1>4, AnsweredState, UpdSaves

LEMMA AskCertificateKeeps ==
    ASSUME DirInv, HostInv, NEW p \in Procs, AskCertificate(p), tun' = tun
    PROVE  DirInv'
  <1> DEFINE n == SignGen(proc[p], next_sequence(proc[p].st), "cert", gens + 1)
  <1>1. /\ proc[p].pc = "certify" /\ Upd(p, n)
        /\ load' = load /\ disk' = disk /\ epoch' = epoch /\ held' = held
        /\ signed' = signed /\ wire' = wire /\ died' = died
    BY DEF AskCertificate, Certify, SignGen, fileVars, serviceVars
  <1>2. Signed(proc[p], n, next_sequence(proc[p].st), "cert")
    BY <1>1, AnsweredState, SignSigned
  <1> HIDE DEF n
  <1>3. At(p, {"read", "certify"})
    BY <1>1 DEF At
  <1> QED
    BY <1>1, <1>2, <1>3, AnsweredState, SignKeeps

LEMMA IssuedKeeps ==
    ASSUME DirInv, HostInv, NEW p \in Procs, Issued(p), tun' = tun
    PROVE  DirInv'
  <1> DEFINE m == proc[p]
             st == [m.st EXCEPT !.cert = m.gen]
             writes == <<[file |-> "key", to |-> m.gen], [file |-> "cert", to |-> m.gen], StateWrite(st)>>
             n == Writing(m, st, writes, "return")
  <1>1. /\ m.pc = "answered" /\ Upd(p, n)
        /\ load' = load /\ disk' = disk /\ epoch' = epoch /\ held' = held
        /\ signed' = signed /\ wire' = wire /\ died' = died
    BY DEF Issued, StateWrite, fileVars, serviceVars
  <1>2. st.seq = m.st.seq /\ st.tunnel = m.st.tunnel
    BY <1>1, AnsweredState, StateParts
  <1>3. st \in LinkState
    BY <1>1, AnsweredState, StateUpdates DEF Carried
  <1>4. n = [m EXCEPT !.pc = "write", !.st = st, !.writes = writes, !.cut = FALSE, !.then = "return"]
    BY DEF Writing
  <1> HIDE DEF st, n
  <1>5. /\ DOMAIN n = Fields /\ n.pc = "write" /\ n.st = st /\ n.cut = FALSE /\ n.then = "return"
        /\ n.lock = m.lock /\ n.jump = m.jump /\ n.req = m.req /\ n.gen = m.gen /\ n.ips = m.ips
        /\ n.writes = writes
    <2> HIDE DEF writes
    <2> QED
      BY <1>1, <1>4, AnsweredState, FieldsAre
  <1>6. Plan(n)
    BY <1>5 DEF Plan
  <1>7. Saved(m, n, st, "return")
    BY <1>1, <1>5, <1>6, AnsweredState DEF Saved, Carried
  <1> QED
    BY <1>1, <1>2, <1>3, <1>5, <1>7, AnsweredState, UpdSaves

LEMMA StepKeeps ==
    ASSUME NeverRelinked, DirInv, HostInv, NEW p \in Procs, Step(p), tun' = tun
    PROVE  DirInv'
  BY OpenLockKeeps, TakeLockKeeps, RefusalsKeep, ReadForEnableKeeps, ReadForDisableKeeps, ReadForRenewKeeps,
     ReadForTunnelFlagKeeps, ReadForTunnelKeeps, TruncateKeeps, FillKeeps, SendKeeps, ResyncKeeps, RemoveKeeps,
     ClaimedKeeps, AskCertificateKeeps, IssuedKeeps, UnmarkKeeps
  DEF Step, Read

-----------------------------------------------------------------------------
(* What the service, the host and `serve` do.                               *)

\* Processes that end or start have nothing of the directory.
LEMMA OutsideKeeps ==
    ASSUME DirInv, HostInv, NEW P, Leaves(P), held' \in [0..MaxEpoch -> Procs \cup {None}],
           \A e \in 0..MaxEpoch : held[e] \notin P => held'[e] = held[e],
           \A q \in P : proc'[q].pc \in {"idle", "start", "dead"}
    PROVE  DirInv'
  <1>1. \A q \in P : proc'[q].pc \notin Inside \cup {"lock"} /\ proc'[q].pc # "done"
    BY DEF Inside
  <1>2. LockInv'
    BY <1>1, LeavesLock
  <1>3. Cleared' => Cleared
    BY <1>1, LeavesCleared
  <1>4. FlagInv'
    BY <1>3, LeavesFlag
  <1> QED
    BY <1>2, <1>4, LeavesKeeps

LEMMA HeldType ==
    ASSUME DirInv
    PROVE  held \in [0..MaxEpoch -> Procs \cup {None}]
  BY DEF DirInv, LockInv

LEMMA HandleKeeps ==
    ASSUME DirInv, HostInv, NEW m \in wire, NEW verdict, Handle(m, verdict) \/ Lose(m), tun' = tun
    PROVE  DirInv'
  <1>1. /\ wire' \subseteq wire /\ load' = load /\ disk' = disk /\ epoch' = epoch /\ held' = held
        /\ signed' = signed /\ died' = died
        /\ \/ proc' = proc
           \/ \E r : proc[m.by].pc = "wait" /\ Upd(m.by, [proc[m.by] EXCEPT !.pc = "answered", !.result = r])
    BY DEF Handle, Lose, fileVars
  <1>2. m.by \in Procs
    BY DEF DirInv, ProcInv
  <1>3. CASE proc' = proc
    <2>1. Reserved' => Reserved
      BY <1>3 DEF Reserved, At
    <2>2. DiskInv'
      BY <1>1 DEF DirInv, DiskInv
    <2> QED
      BY <1>1, <1>3, <2>1, <2>2, QuietKeeps
  <1>4. ASSUME NEW r, proc[m.by].pc = "wait", Upd(m.by, [proc[m.by] EXCEPT !.pc = "answered", !.result = r])
        PROVE  DirInv'
    BY <1>1, <1>2, <1>4, HearsKeeps
  <1> QED
    BY <1>1, <1>3, <1>4

LEMMA NoAnswerKeeps ==
    ASSUME DirInv, HostInv, NEW p \in Procs, NoAnswer(p), tun' = tun
    PROVE  DirInv'
  <1>1. /\ wire' \subseteq wire /\ load' = load /\ disk' = disk /\ epoch' = epoch /\ held' = held
        /\ signed' = signed /\ died' = died /\ proc[p].pc = "wait"
        /\ Upd(p, [proc[p] EXCEPT !.pc = "answered", !.result = "error"])
    BY DEF NoAnswer, fileVars, serviceVars
  <1> QED
    BY <1>1, HearsKeeps

LEMMA KillKeeps ==
    ASSUME DirInv, HostInv, NEW c \in Commands, Kill(c), tun' = tun
    PROVE  DirInv'
  <1>0. c \in Procs /\ c # TunnelBump /\ TunnelBump \in Procs
    BY ProcFacts
  <1>1. /\ proc[c].pc # "idle" /\ DOMAIN proc' = Procs /\ \A q \in Procs : q # c => proc'[q] = proc[q]
        /\ proc'[c] = [proc[c] EXCEPT !.pc = "dead"]
        /\ held' = [e \in DOMAIN held |-> IF held[e] = c THEN None ELSE held[e]]
        /\ died' /\ load' = load /\ disk' = disk /\ epoch' = epoch /\ signed' = signed /\ wire' = wire
    BY <1>0, OfProc, Upds DEF Kill, fileVars, serviceVars
  <1>2. /\ DOMAIN proc'[c] = Fields /\ proc'[c].pc = "dead" /\ proc'[c].req = proc[c].req /\ Carried(proc'[c])
    BY <1>0, <1>1, OfProc, FieldsAre DEF Carried
  <1>3. MemoryOK(proc'[c]) /\ "dead" \notin Decided
    BY <1>2 DEF MemoryOK, Pcs, Decided, Inside
  <1>4. Reserved' => Reserved /\ proc'[TunnelBump].st = proc[TunnelBump].st
    BY <1>0, <1>1 DEF Reserved, At
  <1>5. Leaves({c})
    <2>1. /\ proc'[c].req = "delete" => Kind(c) = "link_disable"
          /\ c \in load.commands \cup {AutoRenew, TunnelBump}
      BY <1>0, <1>1, <1>2, OfProc
    <2>2. DiskInv'
      BY <1>1 DEF DirInv, DiskInv
    <2> QED
      BY <1>0, <1>1, <1>2, <1>3, <1>4, <2>1, <2>2 DEF Leaves
  <1>6. held' \in [0..MaxEpoch -> Procs \cup {None}] /\ \A e \in 0..MaxEpoch : held[e] \notin {c} => held'[e] = held[e]
    BY <1>1, HeldType
  <1> QED
    BY <1>2, <1>5, <1>6, OutsideKeeps

LEMMA LoaderKeeps ==
    ASSUME DirInv, HostInv, LoaderStep, tun' = tun
    PROVE  DirInv'
  <1>1. CASE RenewReturned
    <2>1. /\ DOMAIN proc' = Procs /\ (\A q \in Procs : q # AutoRenew => proc'[q] = proc[q])
          /\ proc'[AutoRenew] = Idle /\ proc[AutoRenew].pc = "done" /\ died' = died
          /\ held' = held /\ load' = load /\ disk' = disk /\ epoch' = epoch /\ signed' = signed /\ wire' = wire
      BY <1>1, ProcFacts, OfProc DEF RenewReturned, fileVars, serviceVars
    <2>2. Reserved' => Reserved /\ proc'[TunnelBump].st = proc[TunnelBump].st
      BY <2>1, ProcFacts, LinkAssumption DEF Reserved, At
    <2>3. "idle" \notin Decided /\ None # "delete" /\ ~At(AutoRenew, {"write"})
      BY <2>1, LinkAssumption DEF Decided, Inside, At
    <2>4. Leaves({AutoRenew})
      BY <2>1, <2>2, <2>3, ProcFacts, IdleOK DEF Leaves, DirInv, DiskInv
    <2> QED
      BY <2>1, <2>4, HeldType, IdleOK, OutsideKeeps
  <1>2. CASE ~RenewReturned
    <2>1. /\ proc' = proc /\ held' = held /\ load' = load /\ epoch' = epoch /\ signed' = signed
          /\ wire' \subseteq wire /\ died' = died
          /\ disk' = disk \/ disk' = [disk EXCEPT !.bound = TRUE] \/ disk' = [disk EXCEPT !.bound = FALSE]
      BY <1>2 DEF LoaderStep, LoadState, LoadKey, LoadCert, Bind, Reload, fileVars, serviceVars
    <2>2. disk'.state = disk.state /\ DiskInv'
      BY <2>1, DiskFields DEF DirInv, DiskInv
    <2>3. Reserved' => Reserved
      BY <2>1 DEF Reserved, At
    <2> QED
      BY <2>1, <2>2, <2>3, QuietKeeps
  <1> QED
    BY <1>1, <1>2

LEMMA RenewTickKeeps ==
    ASSUME DirInv, HostInv, RenewTick, tun' = tun
    PROVE  DirInv'
  <1>1. /\ DOMAIN proc' = Procs /\ (\A q \in Procs : q # AutoRenew => proc'[q] = proc[q])
        /\ proc'[AutoRenew] = [proc[AutoRenew] EXCEPT !.pc = "start"] /\ proc[AutoRenew].pc = "idle"
        /\ died' = died /\ held' = held /\ load' = load /\ disk' = disk /\ epoch' = epoch
        /\ signed' = signed /\ wire' = wire
    BY ProcFacts, OfProc, Upds DEF RenewTick, fileVars, serviceVars
  <1>2. /\ DOMAIN proc'[AutoRenew] = Fields /\ proc'[AutoRenew].pc = "start"
        /\ proc'[AutoRenew].req = proc[AutoRenew].req /\ Carried(proc'[AutoRenew])
    BY <1>1, ProcFacts, OfProc, FieldsAre DEF Carried
  <1>3. MemoryOK(proc'[AutoRenew]) /\ "start" \notin Decided
    BY <1>2 DEF MemoryOK, Pcs, Decided, Inside
  <1>4. Reserved' => Reserved /\ proc'[TunnelBump].st = proc[TunnelBump].st
    BY <1>1, ProcFacts, LinkAssumption DEF Reserved, At
  <1>5. proc'[AutoRenew].req = "delete" => Kind(AutoRenew) = "link_disable"
    BY <1>2, ProcFacts, OfProc
  <1>6. DiskInv' /\ ~At(AutoRenew, {"write"})
    BY <1>1 DEF DirInv, DiskInv, At
  <1>7. Leaves({AutoRenew})
    BY <1>1, <1>2, <1>3, <1>4, <1>5, <1>6, ProcFacts DEF Leaves
  <1> QED
    BY <1>1, <1>2, <1>7, HeldType, OutsideKeeps

\* The processes go on, the service answers, and what happens to them.
LEMMA LinkKeeps ==
    ASSUME NeverRelinked, DirInv, HostInv, LinkSteps \/ LinkEvents, tun' = tun
    PROVE  DirInv'
  <1>1. CASE HostMoves \/ CertificatesAge
    <2>1. /\ proc' = proc /\ held' = held /\ load' = load /\ epoch' = epoch /\ signed' = signed
          /\ wire' = wire /\ died' = died /\ disk' = disk
      BY <1>1 DEF HostMoves, CertificatesAge, fileVars, serviceVars
    <2>2. DiskInv' /\ (Reserved' => Reserved)
      BY <2>1 DEF DirInv, DiskInv, Reserved, At
    <2> QED
      BY <2>1, <2>2, QuietKeeps
  <1>2. ASSUME NEW m \in wire, Answer(m) \/ IssuanceFails(m) \/ Lose(m) PROVE DirInv'
    BY <1>2, HandleKeeps DEF Answer, IssuanceFails
  <1> QED
    BY <1>1, <1>2, StepKeeps, NoAnswerKeeps, KillKeeps, LoaderKeeps, RenewTickKeeps DEF LinkSteps, LinkEvents

\* The tunnel task goes on without a bump under way, and may write its marker.
Marks == \E v \in {TRUE, FALSE, None} : disk' = [disk EXCEPT !.tunnel = v]
Alongside ==
    /\ proc' = proc /\ load' = load /\ epoch' = epoch /\ signed' = signed /\ wire' = wire
    /\ held' = held /\ died' = died

LEMMA AlongsideKeeps ==
    ASSUME DirInv, HostInv, Alongside, disk' = disk \/ Marks, tun' = tun \/ tun'.pc # "prepare"
    PROVE  DirInv'
  <1>1. disk'.state = disk.state /\ DiskInv'
    <2>1. CASE disk' = disk
      BY <2>1 DEF DirInv, DiskInv
    <2>2. ASSUME NEW v \in {TRUE, FALSE, None}, disk' = [disk EXCEPT !.tunnel = v]
          PROVE  disk'.state = disk.state /\ DiskInv'
      <3>1. disk'.state = disk.state /\ disk'.bound = disk.bound /\ disk'.tunnel = v /\ DOMAIN disk' = DOMAIN disk
        BY <2>2, DiskFields DEF DirInv, DiskInv
      <3> QED
        BY <3>1 DEF DirInv, DiskInv
    <2> QED
      BY <2>1, <2>2 DEF Marks
  <1>2. Reserved' => Reserved
    BY DEF Reserved, At, Alongside
  <1>3. wire' \subseteq wire
    BY DEF Alongside
  <1> QED
    BY <1>1, <1>2, <1>3, QuietKeeps DEF Alongside

LEMMA PrepareKeeps ==
    ASSUME DirInv, HostInv, TunInv, Prepare
    PROVE  DirInv'
  <1>1. /\ DOMAIN proc' = Procs /\ (\A q \in Procs : q # TunnelBump => proc'[q] = proc[q])
        /\ proc'[TunnelBump] = [Idle EXCEPT !.pc = "start", !.jump = tun.jump]
        /\ died' = died /\ held' = held /\ load' = load /\ disk' = disk /\ epoch' = epoch
        /\ signed' = signed /\ wire' = wire /\ tun.pc = "top"
    BY ProcFacts, OfProc, Upds DEF Prepare, ButDisk, serviceVars
  <1>2. /\ DOMAIN proc'[TunnelBump] = Fields /\ proc'[TunnelBump].pc = "start"
        /\ proc'[TunnelBump].req = None /\ Carried(proc'[TunnelBump])
    <2> DEFINE n == proc'[TunnelBump]
    <2>1. DOMAIN Idle = Fields /\ Idle.req = None /\ Idle.gen = None /\ Idle.ips = None
      BY DEF Idle, Fields
    <2>2. tun.jump \in Nat
      BY DEF TunInv, TunOK
    <2>3. n = [Idle EXCEPT !.pc = "start", !.jump = tun.jump]
      BY <1>1
    <2> HIDE DEF n
    <2>4. /\ DOMAIN n = Fields /\ n.pc = "start" /\ n.jump = tun.jump
          /\ n.req = None /\ n.gen = None /\ n.ips = None
      BY <2>1, <2>3, FieldsAre
    <2> QED
      BY <2>2, <2>4 DEF Carried, n
  <1>3. MemoryOK(proc'[TunnelBump]) /\ "start" \notin Decided
    BY <1>2 DEF MemoryOK, Pcs, Decided, Inside
  <1>4. ~Reserved'
    BY <1>2 DEF Reserved, At
  <1>5. ~At(TunnelBump, {"write"})
    BY <1>1 DEF TunInv, At, Inside
  <1>6. DiskInv' /\ None # "delete"
    BY <1>1, LinkAssumption DEF DirInv, DiskInv
  <1>7. Leaves({TunnelBump})
    BY <1>1, <1>2, <1>3, <1>4, <1>5, <1>6, ProcFacts DEF Leaves
  <1> QED
    BY <1>1, <1>2, <1>7, HeldType, OutsideKeeps

LEMMA TunFields ==
    DOMAIN TunnelOff = {"pc", "attempt", "streak", "jump"}
  BY SMT DEF TunnelOff

\* The sequence that was drawn for the tunnel is signed now.
LEMMA PreparedKeeps ==
    ASSUME DirInv, HostInv, TunInv, Prepared
    PROVE  DirInv'
  <1> DEFINE m == proc[TunnelBump]
             r == Request(TunnelBump)
  <1>1. /\ tun.pc = "prepare" /\ m.pc = "done" /\ m.result = "ok" /\ tun' = [tun EXCEPT !.pc = "dial"]
        /\ signed' = signed \cup {r}
        /\ proc' = proc /\ load' = load /\ epoch' = epoch /\ wire' = wire
        /\ held' = held /\ died' = died /\ disk' = disk
    BY DEF Prepared, fileVars
  <1>2. Reserved /\ m.st \in LinkState /\ \A s \in signed : s.epoch = epoch => s.seq # m.st.seq
    BY <1>1 DEF Reserved, At, DirInv, SeqInv
  <1>3. tun'.pc = "dial" /\ ~Reserved'
    BY <1>1, TunFields DEF TunInv, TunOK, Reserved, At
  <1>4. r.seq = m.st.seq /\ r.epoch = epoch
    BY DEF Request
  <1> HIDE DEF r
  <1>5. m.st.seq \in Nat /\ epoch \in 0..epoch
    <2>1. epoch \in 0..epoch
      BY SMT DEF DirInv, LockInv
    <2> QED
      BY <2>1, <1>2, StateTypes
  <1>6. Drawn' \subseteq Drawn
    BY <1>1, <1>2, <1>3, <1>4 DEF Drawn
  <1>7. ProcInv'
    <2>1. \A s \in signed' : s.epoch \in 0..epoch' /\ s.seq \in Nat
      BY <1>1, <1>4, <1>5 DEF DirInv, ProcInv
    <2> QED
      BY <1>1, <2>1 DEF DirInv, ProcInv, At
  <1>8. DiskInv' /\ LockInv' /\ StateInv' /\ FlagInv'
    BY <1>1 DEF DirInv, DiskInv, LockInv, StateInv, FlagInv, Cleared, At
  <1>9. SeqInv'
    <2>1. SequenceNeverReused'
      <3>1. ASSUME NEW a \in signed', NEW b \in signed', a.seq = b.seq, a.epoch = b.epoch PROVE a = b
        <4>1. \A c \in signed : ~(c.epoch = r.epoch /\ c.seq = r.seq)
          BY <1>2, <1>4
        <4>2. CASE a \in signed /\ b \in signed
          BY <4>2, <3>1 DEF DirInv, SeqInv, SequenceNeverReused
        <4> QED
          BY <4>1, <4>2, <3>1, <1>1
      <3> QED
        BY <3>1 DEF SequenceNeverReused
    <2>2. \A q \in Procs : (At(q, {"write"})' => At(q, {"write"})) /\ (Fresh(q)' => Fresh(q))
      BY <1>1 DEF At, Fresh
    <2>3. \A q \in Procs : At(q, {"write"})' => \A d \in Drawn' : d <= proc'[q].st.seq
      BY <1>1, <1>6, <2>2 DEF DirInv, SeqInv, Below
    <2>4. \A q \in Procs : Fresh(q)' => \A d \in Drawn' : d < proc'[q].st.seq
      BY <1>1, <1>6, <2>2 DEF DirInv, SeqInv, Under
    <2>5. /\ disk'.state \in LinkState => \A d \in Drawn' : d <= disk'.state.seq
          /\ (disk'.state = None /\ epoch' = 0) => Drawn' = {}
      BY <1>1, <1>6 DEF DirInv, SeqInv, Below
    <2> QED
      BY <1>3, <2>1, <2>3, <2>4, <2>5 DEF SeqInv, Below, Under
  <1> QED
    BY <1>7, <1>8, <1>9 DEF DirInv

\* `serve` ends, orderly or killed, and what it was doing with it.
LEMMA ServeEndsKeeps ==
    ASSUME DirInv, HostInv, TunInv, ServeExits \/ ServeDies
    PROVE  DirInv'
  <1>1. CASE ServeExits
    <2>1. /\ DOMAIN proc' = Procs /\ (\A q \in Procs : q # TunnelBump => proc'[q] = proc[q])
          /\ proc'[TunnelBump] = Idle /\ tun.pc = "stopped" /\ died' = died
          /\ held' = held /\ load' = load /\ disk' = disk /\ epoch' = epoch /\ signed' = signed /\ wire' = wire
      BY <1>1, ProcFacts, OfProc DEF ServeExits, fileVars, serviceVars
    <2>2. ~At(TunnelBump, {"write"}) /\ ~Reserved'
      BY <2>1, IdleOK DEF TunInv, At, Inside, Reserved
    <2>3. "idle" \notin Decided /\ None # "delete" /\ DiskInv'
      BY <2>1, LinkAssumption DEF Decided, Inside, DirInv, DiskInv
    <2>4. Leaves({TunnelBump})
      BY <2>1, <2>2, <2>3, ProcFacts, IdleOK DEF Leaves
    <2> QED
      BY <2>1, <2>4, HeldType, IdleOK, OutsideKeeps
  <1>2. CASE ServeDies
    <2> DEFINE P == {AutoRenew, TunnelBump}
    <2>0. /\ proc' = [proc EXCEPT ![AutoRenew] = Idle, ![TunnelBump] = Idle] /\ died'
          /\ held' = [e \in DOMAIN held |-> IF held[e] \in P THEN None ELSE held[e]]
          /\ load' = load /\ disk' = disk /\ epoch' = epoch /\ signed' = signed /\ wire' = wire
      BY <1>2 DEF ServeDies, fileVars, serviceVars
    <2>a. DOMAIN proc = Procs /\ AutoRenew \in Procs /\ TunnelBump \in Procs
      BY ProcFacts, OfProc
    <2>b. /\ DOMAIN proc' = Procs /\ (\A q \in Procs : q \notin P => proc'[q] = proc[q])
          /\ (\A q \in P : proc'[q] = Idle)
      BY <2>0, <2>a
    <2>1. /\ DOMAIN proc' = Procs /\ (\A q \in Procs : q \notin P => proc'[q] = proc[q])
          /\ (\A q \in P : proc'[q] = Idle) /\ died'
          /\ held' = [e \in DOMAIN held |-> IF held[e] \in P THEN None ELSE held[e]]
          /\ load' = load /\ disk' = disk /\ epoch' = epoch /\ signed' = signed /\ wire' = wire
      BY <2>0, <2>b
    <2>2. ~Reserved' /\ P \subseteq Procs
      BY <2>1, ProcFacts, IdleOK DEF At, Reserved
    <2>3. "idle" \notin Decided /\ None # "delete" /\ DiskInv'
      BY <2>1, LinkAssumption DEF Decided, Inside, DirInv, DiskInv
    <2>4. held' \in [0..MaxEpoch -> Procs \cup {None}] /\ \A e \in 0..MaxEpoch : held[e] \notin P => held'[e] = held[e]
      BY <2>1, HeldType
    <2> HIDE DEF P
    <2>5. Leaves(P)
      BY <2>1, <2>2, <2>3, IdleOK DEF Leaves
    <2> QED
      BY <2>1, <2>4, <2>5, IdleOK, OutsideKeeps
  <1> QED
    BY <1>1, <1>2

-----------------------------------------------------------------------------
(* The tunnel task.                                                         *)

\* What BackoffState makes of an outcome.
LEMMA Outcomes ==
    ASSUME TunInv
    PROVE  /\ TunOK(Failed(tun)) /\ Failed(tun).pc = "wait"
           /\ TunOK(Acked(tun)) /\ Acked(tun).pc = "serving"
           /\ TunOK(Stale(tun))
           /\ \/ Stale(tun).pc = "wait"
              \/ /\ Stale(tun).pc = "top" /\ Stale(tun).streak = tun.streak + 1
                 /\ Stale(tun).streak <= MaxResyncs
  <1>0. DOMAIN tun = {"pc", "attempt", "streak", "jump"}
    BY TunFields DEF TunInv, TunOK
  <1>1. /\ tun.attempt \in 0..MaxExp /\ tun.streak \in 0..(MaxResyncs + 1) /\ tun.jump \in Nat
        /\ MaxExp \in Nat /\ MaxResyncs \in Nat /\ ResyncJump \in Nat
    BY TunnelAssumption, LinkAssumption DEF TunInv, TunOK
  <1> DEFINE a == Least(tun.attempt + 1, MaxExp)
             s == Least(tun.streak + 1, MaxResyncs + 1)
  <1>2. a \in 0..MaxExp /\ 0 \in 0..MaxExp
    BY <1>1, SMT DEF Least
  <1>3. s \in 0..(MaxResyncs + 1) /\ 0 \in 0..(MaxResyncs + 1)
    BY <1>1, SMT DEF Least
  <1>4. Failed(tun) = [tun EXCEPT !.streak = 0, !.attempt = a, !.pc = "wait", !.jump = 0]
    BY DEF Failed
  <1> HIDE DEF a, s
  <1>5. TunOK(Failed(tun)) /\ Failed(tun).pc = "wait"
    <2> DEFINE t == Failed(tun)
    <2>1. t = [tun EXCEPT !.streak = 0, !.attempt = a, !.pc = "wait", !.jump = 0]
      BY <1>4
    <2> HIDE DEF t
    <2>2. DOMAIN t = DOMAIN tun /\ t.pc = "wait" /\ t.attempt = a /\ t.streak = 0 /\ t.jump = 0
      BY <1>0, <2>1
    <2>3. 0 \in Nat
      OBVIOUS
    <2> QED
      BY <1>0, <1>2, <1>3, <2>2, <2>3, TunFields DEF TunOK, t
  <1>6. TunOK(Acked(tun)) /\ Acked(tun).pc = "serving"
    <2> DEFINE t == Acked(tun)
    <2>1. t = [tun EXCEPT !.attempt = 0, !.streak = 0, !.pc = "serving"]
      BY DEF Acked
    <2> HIDE DEF t
    <2>2. DOMAIN t = DOMAIN tun /\ t.pc = "serving" /\ t.attempt = 0 /\ t.streak = 0 /\ t.jump = tun.jump
      BY <1>0, <2>1
    <2> QED
      BY <1>0, <1>1, <1>2, <1>3, <2>2, TunFields DEF TunOK, t
  <1>7. /\ TunOK(Stale(tun))
        /\ \/ Stale(tun).pc = "wait"
           \/ /\ Stale(tun).pc = "top" /\ Stale(tun).streak = tun.streak + 1
              /\ Stale(tun).streak <= MaxResyncs
    <2> DEFINE t == Stale(tun)
    <2>1. CASE tun.streak + 1 > MaxResyncs
      <3>1. t = [tun EXCEPT !.streak = s, !.attempt = a, !.pc = "wait", !.jump = 0]
        BY <2>1 DEF Stale, s, a
      <3> HIDE DEF t
      <3>2. DOMAIN t = DOMAIN tun /\ t.pc = "wait" /\ t.attempt = a /\ t.streak = s /\ t.jump = 0
        BY <1>0, <3>1
      <3>3. 0 \in Nat
        OBVIOUS
      <3> QED
        BY <1>0, <1>2, <1>3, <3>2, <3>3, TunFields DEF TunOK, t
    <2>2. CASE ~(tun.streak + 1 > MaxResyncs)
      <3>1. t = [tun EXCEPT !.streak = tun.streak + 1, !.pc = "top", !.jump = ResyncJump]
        BY <2>2 DEF Stale
      <3> HIDE DEF t
      <3>2. /\ DOMAIN t = DOMAIN tun /\ t.pc = "top" /\ t.attempt = tun.attempt
            /\ t.streak = tun.streak + 1 /\ t.jump = ResyncJump
        BY <1>0, <3>1
      <3>3. tun.streak + 1 \in 0..(MaxResyncs + 1) /\ tun.streak + 1 <= MaxResyncs
        BY <2>2, <1>1, SMT
      <3> QED
        BY <1>0, <1>1, <3>2, <3>3, TunFields DEF TunOK, t
    <2> QED
      BY <2>1, <2>2
  <1> QED
    BY <1>5, <1>6, <1>7

LEMMA Spent ==
    ASSUME HostInv, NEW e \in Events, May(e), Spend(e)
    PROVE  budget' \in [Events -> Nat]
  <1>1. budget \in [Events -> Nat] /\ budget[e] > 0
    BY DEF HostInv, May
  <1>2. budget[e] - 1 \in Nat
    BY <1>1, SMT
  <1> QED
    BY <1>1, <1>2 DEF Spend

\* The host, the listener and the workload stay as they are.
HostStays ==
    /\ load' = load /\ lan' = lan /\ gens' = gens /\ expiring' = expiring
    /\ serve' = serve /\ listener' = listener /\ budget' \in [Events -> Nat]

\* An attempt is over: the task waits or ends, and says so in its marker.
Yields ==
    /\ Alongside /\ HostStays
    /\ disk' = [disk EXCEPT !.tunnel = FALSE] \/ disk' = [disk EXCEPT !.tunnel = None]
    /\ fresh' = TRUE /\ rush' = rush
    /\ TunOK(tun') /\ tun'.pc \in {"wait", "stopped"}
    /\ tun.pc # "off" /\ (tun.pc # "prepare" \/ proc[TunnelBump].pc = "done")

LEMMA YieldsKeeps ==
    ASSUME DirInv, TunInv, HostInv, Yields
    PROVE  DirInv' /\ TunInv' /\ HostInv'
  <1>1. DirInv'
    <2>1. Alongside /\ Marks /\ tun'.pc # "prepare"
      BY DEF Yields, Marks
    <2> QED
      BY <2>1, AlongsideKeeps
  <1>2. TunInv'
    <2>1. disk'.tunnel = FALSE \/ disk'.tunnel = None
      BY DiskFields DEF Yields, DirInv, DiskInv
    <2>2. disk'.tunnel # TRUE
      BY <2>1, LinkAssumption
    <2>3. ~At(TunnelBump, Inside \cup {"start", "lock"})'
      BY DEF TunInv, At, Yields, Alongside, Inside
    <2> QED
      BY <2>2, <2>3 DEF TunInv, Yields, MarkerTruth
  <1>3. HostInv'
    <2>1. serve # "down"
      BY DEF HostInv, Yields
    <2> QED
      BY <2>1 DEF HostInv, Yields, HostStays, ServedPairMatches
  <1> QED
    BY <1>1, <1>2, <1>3

\* The task ends.
LEMMA Ended ==
    ASSUME TunInv
    PROVE  /\ TunOK([tun EXCEPT !.pc = "stopped"])
           /\ [tun EXCEPT !.pc = "stopped"].pc = "stopped"
  <1> DEFINE t == [tun EXCEPT !.pc = "stopped"]
  <1>1. DOMAIN tun = {"pc", "attempt", "streak", "jump"}
    BY TunFields DEF TunInv, TunOK
  <1>2. /\ DOMAIN t = DOMAIN tun /\ t.pc = "stopped" /\ t.attempt = tun.attempt
        /\ t.streak = tun.streak /\ t.jump = tun.jump
    BY <1>1
  <1> HIDE DEF t
  <1>3. TunOK(t) /\ t.pc = "stopped"
    BY <1>2 DEF TunInv, TunOK
  <1> QED
    BY <1>3 DEF t

LEMMA EndsYield ==
    ASSUME TunInv, HostInv, TunnelEnds \/ PreparedDisabled \/ Superseded \/ Hangup
    PROVE  Yields
  <1>1. /\ tun' = [tun EXCEPT !.pc = "stopped"]
        /\ disk' = [disk EXCEPT !.tunnel = FALSE] \/ disk' = [disk EXCEPT !.tunnel = None]
        /\ fresh' = TRUE /\ rush' = rush
        /\ tun.pc \in {"top", "wait", "prepare", "auth", "serving"}
        /\ tun.pc # "prepare" \/ proc[TunnelBump].pc = "done"
    BY DEF TunnelEnds, PreparedDisabled, Superseded, Hangup, Mark, ClearMark
  <1>2. Alongside
    BY DEF TunnelEnds, PreparedDisabled, Superseded, Hangup, ButDisk, Alongside, serviceVars
  <1>3. HostStays
    <2>1. budget' \in [Events -> Nat]
      BY Spent DEF TunnelEnds, PreparedDisabled, Superseded, Hangup, Events, HostInv
    <2> QED
      BY <2>1 DEF TunnelEnds, PreparedDisabled, Superseded, Hangup, ButDisk, HostStays, hostVars, serveVars
  <1>4. TunOK(tun') /\ tun'.pc = "stopped"
    BY <1>1, Ended
  <1> QED
    BY <1>1, <1>2, <1>3, <1>4 DEF Yields

LEMMA FailuresYield ==
    ASSUME TunInv, HostInv,
           PrepareFailed \/ ConnectFails \/ AckLost \/ RejectArrives \/ Drops
              \/ (StaleArrives /\ Stale(tun).pc = "wait")
    PROVE  Yields
  <1>1. /\ tun' = Failed(tun) \/ (tun' = Stale(tun) /\ Stale(tun).pc = "wait")
        /\ disk' = [disk EXCEPT !.tunnel = FALSE]
        /\ fresh' = TRUE /\ rush' = rush
        /\ tun.pc \in {"prepare", "dial", "auth", "serving"}
        /\ tun.pc # "prepare" \/ proc[TunnelBump].pc = "done"
    BY DEF PrepareFailed, ConnectFails, AckLost, RejectArrives, Drops, StaleArrives, Mark
  <1>2. Alongside
    BY DEF PrepareFailed, ConnectFails, AckLost, RejectArrives, Drops, StaleArrives, ButDisk, Alongside, serviceVars
  <1>3. HostStays
    <2>1. budget' \in [Events -> Nat]
      BY Spent DEF PrepareFailed, ConnectFails, AckLost, RejectArrives, Drops, StaleArrives, Events, HostInv
    <2> QED
      BY <2>1 DEF PrepareFailed, ConnectFails, AckLost, RejectArrives, Drops, StaleArrives, ButDisk, HostStays,
                  hostVars, serveVars
  <1>4. TunOK(tun') /\ tun'.pc = "wait"
    BY <1>1, Outcomes
  <1> QED
    BY <1>1, <1>2, <1>3, <1>4 DEF Yields

LEMMA HostKept ==
    ASSUME HostInv, HostStays, tun.pc # "off"
    PROVE  HostInv'
  BY DEF HostInv, HostStays, ServedPairMatches

\* What a move of the tunnel task to another place leaves of its record.
LEMMA TunMoves ==
    ASSUME TunInv, NEW pc \in {"top", "stopped", "prepare", "dial", "auth"}, NEW jump \in Nat,
           tun' = [tun EXCEPT !.pc = pc] \/ tun' = [tun EXCEPT !.pc = pc, !.jump = jump]
    PROVE  TunOK(tun') /\ tun'.pc = pc /\ tun'.streak = tun.streak
  <1>1. DOMAIN tun = {"pc", "attempt", "streak", "jump"}
    BY TunFields DEF TunInv, TunOK
  <1>2. CASE tun' = [tun EXCEPT !.pc = pc]
    <2>1. /\ DOMAIN tun' = DOMAIN tun /\ tun'.pc = pc /\ tun'.attempt = tun.attempt
          /\ tun'.streak = tun.streak /\ tun'.jump = tun.jump
      BY <1>1, <1>2
    <2> QED
      BY <2>1 DEF TunInv, TunOK
  <1>3. CASE tun' = [tun EXCEPT !.pc = pc, !.jump = jump]
    <2>1. /\ DOMAIN tun' = DOMAIN tun /\ tun'.pc = pc /\ tun'.attempt = tun.attempt
          /\ tun'.streak = tun.streak /\ tun'.jump = jump
      BY <1>1, <1>3
    <2> QED
      BY <2>1 DEF TunInv, TunOK
  <1> QED
    BY <1>2, <1>3

LEMMA SpawnKeeps ==
    ASSUME DirInv, TunInv, HostInv, TunnelSpawn
    PROVE  DirInv' /\ TunInv' /\ HostInv'
  <1>1. PICK pc \in {"top", "stopped"} :
        /\ tun.pc = "load" /\ tun' = [tun EXCEPT !.pc = pc] /\ Alongside /\ disk' = disk
        /\ fresh' = fresh /\ rush' = rush /\ HostStays
    BY DEF TunnelSpawn, linkVars, fileVars, serviceVars, hostVars, serveVars, Alongside, HostStays, HostInv
  <1>2. TunOK(tun') /\ tun'.pc = pc /\ tun'.streak = tun.streak
    BY <1>1, TunMoves, 0 \in Nat
  <1>3. DirInv'
    BY <1>1, <1>2, AlongsideKeeps
  <1>4. HostInv'
    BY <1>1, HostKept
  <1>5. TunInv'
    <2>1. rush = 0 /\ rush \in 0..(MaxResyncs + 1)
      BY <1>1 DEF TunInv, HostInv
    <2>2. 0 <= tun.streak
      BY SMT DEF TunInv, TunOK
    <2>3. ~At(TunnelBump, Inside \cup {"start", "lock"})'
      BY <1>1 DEF TunInv, At, Alongside
    <2>4. MarkerTruth' /\ fresh' \in BOOLEAN
      BY <1>1 DEF TunInv, MarkerTruth, HostStays
    <2> QED
      BY <1>1, <1>2, <2>1, <2>2, <2>3, <2>4 DEF TunInv
  <1> QED
    BY <1>3, <1>4, <1>5

LEMMA PrepareTunKeeps ==
    ASSUME DirInv, TunInv, HostInv, Prepare
    PROVE  TunInv' /\ HostInv'
  <1>1. /\ tun.pc = "top" /\ tun' = [tun EXCEPT !.pc = "prepare", !.jump = 0] /\ disk' = disk
        /\ fresh' = fresh /\ rush' = rush /\ HostStays
    BY DEF Prepare, ButDisk, serviceVars, hostVars, serveVars, HostStays, HostInv
  <1>2. TunOK(tun') /\ tun'.pc = "prepare" /\ tun'.streak = tun.streak
    BY <1>1, TunMoves, 0 \in Nat
  <1>3. HostInv'
    BY <1>1, HostKept
  <1>4. MarkerTruth' /\ fresh' \in BOOLEAN
    BY <1>1 DEF TunInv, MarkerTruth, HostStays
  <1>5. TunInv'
    BY <1>1, <1>2, <1>4 DEF TunInv
  <1> QED
    BY <1>3, <1>5

LEMMA PreparedTunKeeps ==
    ASSUME DirInv, TunInv, HostInv, Prepared
    PROVE  TunInv' /\ HostInv'
  <1>1. /\ tun.pc = "prepare" /\ proc[TunnelBump].pc = "done" /\ proc' = proc
        /\ tun' = [tun EXCEPT !.pc = "dial"] /\ disk' = disk
        /\ fresh' = fresh /\ rush' = rush + 1 /\ HostStays
    BY DEF Prepared, fileVars, hostVars, serveVars, HostStays, HostInv
  <1>2. TunOK(tun') /\ tun'.pc = "dial" /\ tun'.streak = tun.streak
    BY <1>1, TunMoves, 0 \in Nat
  <1>3. HostInv'
    BY <1>1, HostKept
  <1>4. MarkerTruth' /\ fresh' \in BOOLEAN
    BY <1>1 DEF TunInv, MarkerTruth, HostStays
  <1>5. /\ rush + 1 \in 0..(MaxResyncs + 1) /\ rush + 1 <= tun.streak + 1
        /\ tun.streak <= MaxResyncs \/ rush + 1 <= 1
    <2>1. /\ rush \in 0..(MaxResyncs + 1) /\ rush <= tun.streak /\ (tun.streak <= MaxResyncs \/ rush = 0)
          /\ tun.streak \in 0..(MaxResyncs + 1) /\ MaxResyncs \in Nat
      BY <1>1, TunnelAssumption DEF TunInv, TunOK
    <2> QED
      BY <2>1, SMT
  <1>6. ~At(TunnelBump, Inside \cup {"start", "lock"})'
    BY <1>1 DEF At, Inside
  <1>7. TunInv'
    BY <1>1, <1>2, <1>4, <1>5, <1>6 DEF TunInv
  <1> QED
    BY <1>3, <1>7

LEMMA DialKeeps ==
    ASSUME DirInv, TunInv, HostInv, Dial
    PROVE  DirInv' /\ TunInv' /\ HostInv'
  <1>1. /\ tun.pc = "dial" /\ tun' = [tun EXCEPT !.pc = "auth"] /\ Alongside /\ disk' = disk
        /\ fresh' = fresh /\ rush' = rush /\ HostStays
    BY DEF Dial, linkVars, fileVars, serviceVars, hostVars, serveVars, Alongside, HostStays, HostInv
  <1>2. TunOK(tun') /\ tun'.pc = "auth" /\ tun'.streak = tun.streak
    BY <1>1, TunMoves, 0 \in Nat
  <1>3. DirInv'
    BY <1>1, <1>2, AlongsideKeeps
  <1>4. HostInv'
    BY <1>1, HostKept
  <1>5. TunInv'
    <2>1. ~At(TunnelBump, Inside \cup {"start", "lock"})'
      BY <1>1 DEF TunInv, At, Alongside
    <2>2. MarkerTruth' /\ fresh' \in BOOLEAN
      BY <1>1 DEF TunInv, MarkerTruth, HostStays
    <2> QED
      BY <1>1, <1>2, <2>1, <2>2 DEF TunInv
  <1> QED
    BY <1>3, <1>4, <1>5

LEMMA AckKeeps ==
    ASSUME DirInv, TunInv, HostInv, AckArrives
    PROVE  DirInv' /\ TunInv' /\ HostInv'
  <1>1. /\ tun.pc = "auth" /\ tun' = Acked(tun) /\ Alongside /\ disk' = [disk EXCEPT !.tunnel = TRUE]
        /\ fresh' = TRUE /\ rush' = 0 /\ HostStays
    BY DEF AckArrives, Mark, hostVars, serveVars, Alongside, HostStays, HostInv
  <1>2. TunOK(tun') /\ tun'.pc = "serving"
    BY <1>1, Outcomes
  <1>3. DirInv'
    BY <1>1, <1>2, AlongsideKeeps DEF Marks
  <1>4. HostInv'
    BY <1>1, HostKept
  <1>5. TunInv'
    <2>1. 0 \in 0..(MaxResyncs + 1)
      BY TunnelAssumption, SMT
    <2>2. ~At(TunnelBump, Inside \cup {"start", "lock"})'
      BY <1>1 DEF TunInv, At, Alongside
    <2> QED
      BY <1>1, <1>2, <2>1, <2>2 DEF TunInv, MarkerTruth
  <1> QED
    BY <1>3, <1>4, <1>5

LEMMA ResyncTunKeeps ==
    ASSUME DirInv, TunInv, HostInv, StaleArrives, Stale(tun).pc # "wait"
    PROVE  DirInv' /\ TunInv' /\ HostInv'
  <1>1. /\ tun.pc = "auth" /\ tun' = Stale(tun) /\ Alongside /\ disk' = [disk EXCEPT !.tunnel = FALSE]
        /\ fresh' = TRUE /\ rush' = rush /\ HostStays
    BY DEF StaleArrives, Mark, ButDisk, serviceVars, hostVars, serveVars, Alongside, HostStays, HostInv
  <1>2. TunOK(tun') /\ tun'.pc = "top" /\ tun'.streak = tun.streak + 1 /\ tun'.streak <= MaxResyncs
    BY <1>1, Outcomes
  <1>3. DirInv'
    BY <1>1, <1>2, AlongsideKeeps DEF Marks
  <1>4. HostInv'
    BY <1>1, HostKept
  <1>5. TunInv'
    <2>1. rush \in 0..(MaxResyncs + 1) /\ rush <= tun.streak + 1
      BY <1>1 DEF TunInv
    <2>2. ~At(TunnelBump, Inside \cup {"start", "lock"})'
      BY <1>1 DEF TunInv, At, Alongside
    <2>3. disk'.tunnel = FALSE
      BY <1>1, DiskFields DEF DirInv, DiskInv
    <2> QED
      BY <1>1, <1>2, <2>1, <2>2, <2>3 DEF TunInv, MarkerTruth
  <1> QED
    BY <1>3, <1>4, <1>5

LEMMA RetryKeeps ==
    ASSUME DirInv, TunInv, HostInv, Retry
    PROVE  DirInv' /\ TunInv' /\ HostInv'
  <1>1. /\ tun.pc = "wait" /\ tun' = [tun EXCEPT !.pc = "top"] /\ Alongside /\ disk' = disk
        /\ fresh' = fresh /\ rush' = 0 /\ HostStays
    BY DEF Retry, linkVars, fileVars, serviceVars, hostVars, serveVars, Alongside, HostStays, HostInv
  <1>2. TunOK(tun') /\ tun'.pc = "top" /\ tun'.streak = tun.streak
    BY <1>1, TunMoves, 0 \in Nat
  <1>3. DirInv'
    BY <1>1, <1>2, AlongsideKeeps
  <1>4. HostInv'
    BY <1>1, HostKept
  <1>5. TunInv'
    <2>1. 0 \in 0..(MaxResyncs + 1) /\ 0 <= tun.streak
      BY TunnelAssumption, SMT DEF TunInv, TunOK
    <2>2. ~At(TunnelBump, Inside \cup {"start", "lock"})'
      BY <1>1 DEF TunInv, At, Alongside
    <2>3. MarkerTruth' /\ fresh' \in BOOLEAN
      BY <1>1 DEF TunInv, MarkerTruth, HostStays
    <2> QED
      BY <1>1, <1>2, <2>1, <2>2, <2>3 DEF TunInv
  <1> QED
    BY <1>3, <1>4, <1>5

LEMMA TaskKeeps ==
    ASSUME DirInv, TunInv, HostInv,
           TunnelStep \/ PrepareFailed \/ ConnectFails \/ AckLost \/ RejectArrives \/ Drops \/ Superseded
    PROVE  DirInv' /\ TunInv' /\ HostInv'
  <1>1. CASE \/ TunnelEnds \/ PreparedDisabled \/ Superseded \/ Hangup
             \/ PrepareFailed \/ ConnectFails \/ AckLost \/ RejectArrives \/ Drops
             \/ (StaleArrives /\ Stale(tun).pc = "wait")
    BY <1>1, EndsYield, FailuresYield, YieldsKeeps
  <1>2. CASE Prepare \/ Prepared
    BY <1>2, PrepareKeeps, PreparedKeeps, PrepareTunKeeps, PreparedTunKeeps
  <1>3. CASE \/ TunnelSpawn \/ Dial \/ AckArrives \/ Retry \/ (StaleArrives /\ Stale(tun).pc # "wait")
    BY <1>3, SpawnKeeps, DialKeeps, AckKeeps, RetryKeeps, ResyncTunKeeps
  <1> QED
    BY <1>1, <1>2, <1>3 DEF TunnelStep

-----------------------------------------------------------------------------
(* The `serve` process, and the link beside the tunnel.                     *)

LEMMA OffTun ==
    ASSUME NEW pc \in {"off", "load"}, NEW t, t = [TunnelOff EXCEPT !.pc = pc]
    PROVE  TunOK(t) /\ t.pc = pc
  <1>1. TunnelOff.attempt = 0 /\ TunnelOff.streak = 0 /\ TunnelOff.jump = 0
    BY DEF TunnelOff
  <1>2. /\ DOMAIN t = DOMAIN TunnelOff /\ t.pc = pc /\ t.attempt = 0 /\ t.streak = 0 /\ t.jump = 0
    BY <1>1, TunFields
  <1>3. 0 \in 0..MaxExp /\ 0 \in 0..(MaxResyncs + 1) /\ 0 \in Nat
    BY TunnelAssumption, SMT
  <1> QED
    BY <1>2, <1>3 DEF TunOK

LEMMA ServeKeeps ==
    ASSUME DirInv, TunInv, HostInv, ServeStarts \/ ServeStops \/ ListenerStops
    PROVE  DirInv' /\ TunInv' /\ HostInv'
  <1>1. /\ Alongside /\ disk' = disk /\ lan' = lan /\ gens' = gens /\ expiring' = expiring
        /\ budget' \in [Events -> Nat]
    <2>1. budget' \in [Events -> Nat]
      BY Spent DEF ServeStarts, ServeStops, ListenerStops, Events, HostInv
    <2> QED
      BY <2>1 DEF ServeStarts, ServeStops, ListenerStops, fileVars, serviceVars, hostVars, Alongside
  <1>2. CASE ServeStarts
    <2>1. /\ serve = "down" /\ serve' = "up" /\ tun' = [TunnelOff EXCEPT !.pc = "load"] /\ fresh' = FALSE
          /\ rush' = 0 /\ listener' = listener
      BY <1>2 DEF ServeStarts
    <2>2. TunOK(tun') /\ tun'.pc = "load" /\ tun.pc = "off"
      BY <2>1, OffTun DEF HostInv
    <2>3. DirInv'
      BY <1>1, <2>2, AlongsideKeeps
    <2>4. 0 \in 0..(MaxResyncs + 1)
      BY TunnelAssumption, SMT
    <2>5. ~At(TunnelBump, Inside \cup {"start", "lock"})'
      BY <1>1, <2>2 DEF TunInv, At, Alongside
    <2>6. TunInv'
      BY <2>1, <2>2, <2>4, <2>5 DEF TunInv, MarkerTruth
    <2>7. HostInv'
      BY <1>1, <2>1 DEF HostInv, Alongside, ServedPairMatches
    <2> QED
      BY <2>3, <2>6, <2>7
  <1>3. CASE ServeStops \/ ListenerStops
    <2>1. /\ tun' = tun /\ fresh' = fresh /\ rush' = rush
          /\ \/ serve = "up" /\ serve' = "stopping" /\ listener' = listener
             \/ serve' = serve /\ listener' = None
      BY <1>3 DEF ServeStops, ListenerStops, tunnelVars
    <2>2. DirInv'
      BY <1>1, <2>1, AlongsideKeeps
    <2>3. TunInv'
      BY <1>1, <2>1 DEF TunInv, MarkerTruth, Alongside, At
    <2>4. HostInv'
      BY <1>1, <2>1 DEF HostInv, Alongside, ServedPairMatches
    <2> QED
      BY <2>2, <2>3, <2>4
  <1> QED
    BY <1>2, <1>3

LEMMA ServeEndsTunKeeps ==
    ASSUME DirInv, TunInv, HostInv, ServeExits \/ ServeDies
    PROVE  TunInv' /\ HostInv'
  <1>1. /\ serve' = "down" /\ tun' = TunnelOff /\ fresh' = fresh /\ rush' = rush
        /\ listener' \in {listener, None} /\ load' = load /\ lan' = lan /\ gens' = gens /\ expiring' = expiring
    BY DEF ServeExits, ServeDies, hostVars
  <1>2. budget' \in [Events -> Nat]
    BY Spent DEF ServeExits, ServeDies, Events, HostInv
  <1>3. proc'[TunnelBump] = Idle
    <2>1. DOMAIN proc = Procs /\ TunnelBump \in Procs
      BY ProcFacts, OfProc
    <2> QED
      BY <2>1 DEF ServeExits, ServeDies
  <1>4. TunOK(tun') /\ tun'.pc = "off"
    <2>1. TunnelOff = [TunnelOff EXCEPT !.pc = "off"]
      BY SMT DEF TunnelOff
    <2> QED
      BY <2>1, <1>1, OffTun
  <1>5. ~At(TunnelBump, Inside \cup {"start", "lock"})'
    BY <1>3, IdleOK DEF At, Inside
  <1>6. TunInv'
    BY <1>1, <1>4, <1>5 DEF TunInv, MarkerTruth
  <1>7. HostInv'
    BY <1>1, <1>2, <1>4 DEF HostInv, ServedPairMatches
  <1> QED
    BY <1>6, <1>7

\* Places where a process of the directory is under way.
Active == Inside \cup {"start", "lock"}

\* The tunnel task is not told, and its bump goes on only if it was under way.
LEMMA BesideTun ==
    ASSUME TunInv, tun' = tun, rush' = rush, fresh' = fresh, serve' = serve, disk'.tunnel \in {disk.tunnel, None},
           proc'[TunnelBump] = proc[TunnelBump] \/ At(TunnelBump, Active)
    PROVE  TunInv'
  <1>1. At(TunnelBump, Active)' => tun.pc = "prepare"
    BY DEF TunInv, At, Active
  <1>2. MarkerTruth'
    BY LinkAssumption DEF TunInv, MarkerTruth
  <1> QED
    BY <1>1, <1>2 DEF TunInv, Active

\* Which process moves, and from where.
LEMMA StepMoves ==
    ASSUME NEW p, Step(p)
    PROVE  proc[p].pc \in Active /\ \E m : Upd(p, m)
  <1>1. CASE OpenLock(p) \/ TakeLock(p) \/ Truncate(p) \/ Fill(p) \/ Send(p)
    BY <1>1 DEF OpenLock, TakeLock, Truncate, Fill, Send, Active, Inside
  <1>2. CASE ReadUnparsable(p) \/ Refused(p) \/ ReadForEnable(p) \/ ReadForDisable(p)
    BY <1>2 DEF ReadUnparsable, Refused, ReadForEnable, ReadForDisable, Finish, Active, Inside
  <1>3. CASE ReadForRenew(p) \/ ReadForTunnelFlag(p) \/ ReadForTunnel(p)
    BY <1>3 DEF ReadForRenew, Certify, ReadForTunnelFlag, ReadForTunnel, Finish, Active, Inside
  <1>4. CASE Resync(p) \/ GiveUp(p) \/ RemoveLinkDir(p) \/ Claimed(p) \/ AskCertificate(p)
    BY <1>4 DEF Resync, GiveUp, RemoveLinkDir, Claimed, AskCertificate, Certify, Finish, Active, Inside
  <1>5. CASE Issued(p) \/ Unmark(p) \/ Return(p)
    BY <1>5 DEF Issued, Unmark, Return, Finish, Active, Inside
  <1> QED
    BY <1>1, <1>2, <1>3, <1>4, <1>5 DEF Step, Read

\* A step never writes the marker, but may remove it.
LEMMA StepDisk ==
    ASSUME DirInv, NEW p \in Procs, Step(p)
    PROVE  disk'.tunnel \in {disk.tunnel, None}
  <1>1. CASE Truncate(p) \/ Fill(p)
    <2> DEFINE w == Head(proc[p].writes)
    <2>1. /\ proc[p].pc = "write"
          /\ disk' = [disk EXCEPT ![w.file] = Torn] \/ disk' = [disk EXCEPT ![w.file] = w.to]
      BY <1>1 DEF Truncate, Fill
    <2>2. w.file \in {"state", "key", "cert"}
      BY <2>1, OfProc, PlanParts DEF MemoryOK
    <2> HIDE DEF w
    <2> QED
      BY <2>1, <2>2, DiskFields DEF DirInv, DiskInv
  <1>2. CASE Unmark(p)
    BY <1>2, DiskFields DEF Unmark, DirInv, DiskInv
  <1>3. CASE RemoveLinkDir(p)
    BY <1>3 DEF RemoveLinkDir, NoFiles
  <1>4. CASE OpenLock(p) \/ TakeLock(p) \/ Read(p) \/ Send(p) \/ Resync(p)
    BY <1>4 DEF OpenLock, TakeLock, Read, Send, Resync, ReadUnparsable, Refused, ReadForEnable, ReadForDisable,
                ReadForRenew, ReadForTunnelFlag, ReadForTunnel, fileVars
  <1>5. CASE GiveUp(p) \/ Claimed(p) \/ AskCertificate(p) \/ Issued(p) \/ Return(p)
    BY <1>5 DEF GiveUp, Claimed, AskCertificate, Issued, Return, fileVars
  <1> QED
    BY <1>1, <1>2, <1>3, <1>4, <1>5 DEF Step

\* ... and leaves the host alone, but for a key pair.
LEMMA StepHost ==
    ASSUME HostInv, NEW p \in Procs, Step(p)
    PROVE  /\ load' = load /\ lan' = lan /\ expiring' = expiring /\ gens' \in {gens, gens + 1}
           /\ serve' = serve /\ listener' = listener /\ budget' \in [Events -> Nat]
  <1>1. CASE OpenLock(p) \/ TakeLock(p) \/ Truncate(p) \/ Fill(p) \/ Send(p)
    BY <1>1 DEF OpenLock, TakeLock, Truncate, Fill, Send, hostVars, serveVars, HostInv
  <1>2. CASE ReadUnparsable(p) \/ ReadForEnable(p) \/ ReadForDisable(p)
    BY <1>2 DEF ReadUnparsable, ReadForEnable, ReadForDisable, hostVars, serveVars, HostInv
  <1>3. CASE ReadForRenew(p) \/ ReadForTunnelFlag(p) \/ ReadForTunnel(p)
    BY <1>3 DEF ReadForRenew, Certify, ReadForTunnelFlag, ReadForTunnel, hostVars, serveVars, HostInv
  <1>4. CASE Resync(p) \/ GiveUp(p) \/ RemoveLinkDir(p) \/ Claimed(p) \/ AskCertificate(p)
    BY <1>4 DEF Resync, GiveUp, RemoveLinkDir, Claimed, AskCertificate, Certify, hostVars, serveVars, HostInv
  <1>5. CASE Issued(p) \/ Unmark(p) \/ Return(p)
    BY <1>5 DEF Issued, Unmark, Return, hostVars, serveVars, HostInv
  <1>6. CASE Refused(p)
    <2>1. budget' \in [Events -> Nat]
      BY <1>6, Spent DEF Refused, Events
    <2> QED
      BY <2>1, <1>6 DEF Refused, hostVars, serveVars
  <1> QED
    BY <1>1, <1>2, <1>3, <1>4, <1>5, <1>6 DEF Step, Read

LEMMA BesideHost ==
    ASSUME HostInv, tun' = tun, load' = load, serve' = serve, budget' \in [Events -> Nat], lan' \in Ips,
           \/ gens' = gens /\ expiring' \in {expiring, gens}
           \/ gens' = gens + 1 /\ expiring' = expiring,
           listener' = listener \/ (listener' # None => listener'.key = listener'.cert /\ listener'.key # Torn)
    PROVE  HostInv'
  <1>1. gens' \in Nat /\ expiring' \in 0..gens'
    BY SMT DEF HostInv
  <1> QED
    BY <1>1 DEF HostInv, ServedPairMatches

LEMMA StepTunKeeps ==
    ASSUME DirInv, TunInv, HostInv, NEW p \in Procs, Step(p), UNCHANGED tunnelVars
    PROVE  TunInv' /\ HostInv'
  <1>1. tun' = tun /\ fresh' = fresh /\ rush' = rush
    BY DEF tunnelVars
  <1>2. PICK m : proc[p].pc \in Active /\ Upd(p, m)
    BY StepMoves
  <1>3. proc'[TunnelBump] = proc[TunnelBump] \/ At(TunnelBump, Active)
    BY <1>2, ProcFacts, OfProc, Upds DEF At
  <1>4. serve' = serve
    BY StepHost
  <1>5. TunInv'
    BY <1>1, <1>3, <1>4, StepDisk, BesideTun
  <1>6. /\ load' = load /\ lan' \in Ips /\ expiring' = expiring /\ gens' \in {gens, gens + 1}
        /\ listener' = listener /\ budget' \in [Events -> Nat]
    BY StepHost DEF HostInv
  <1>7. HostInv'
    BY <1>1, <1>4, <1>6, BesideHost
  <1> QED
    BY <1>5, <1>7

\* An answer, a timeout or the death of a command is not the tunnel's affair.
LEMMA HeardTunKeeps ==
    ASSUME DirInv, TunInv, HostInv, UNCHANGED tunnelVars, NEW p \in Procs,
           proc' = proc \/ ((\E m : Upd(p, m)) /\ (At(p, {"wait"}) \/ p # TunnelBump)),
           disk' = disk, load' = load, UNCHANGED <<hostVars, serveVars>>, budget' \in [Events -> Nat]
    PROVE  TunInv' /\ HostInv'
  <1>1. /\ tun' = tun /\ fresh' = fresh /\ rush' = rush
        /\ lan' = lan /\ gens' = gens /\ expiring' = expiring /\ serve' = serve /\ listener' = listener
    BY DEF tunnelVars, hostVars, serveVars
  <1>2. proc'[TunnelBump] = proc[TunnelBump] \/ At(TunnelBump, Active)
    BY ProcFacts, OfProc, Upds DEF At, Active, Inside
  <1>3. TunInv'
    BY <1>1, <1>2, BesideTun
  <1>4. lan' \in Ips
    BY <1>1 DEF HostInv
  <1>5. HostInv'
    BY <1>1, <1>4, BesideHost
  <1> QED
    BY <1>3, <1>5

LEMMA AnswersTunKeep ==
    ASSUME DirInv, TunInv, HostInv, UNCHANGED tunnelVars, NEW m \in wire,
           Answer(m) \/ IssuanceFails(m) \/ Lose(m)
    PROVE  TunInv' /\ HostInv'
  <1>1. m.by \in Procs
    BY DEF DirInv, ProcInv
  <1>2. budget' \in [Events -> Nat]
    <2>1. budget' = budget \/ (May("silence") /\ Spend("silence"))
      BY DEF Answer, IssuanceFails, Lose
    <2>2. "silence" \in Events
      BY DEF Events
    <2> QED
      BY <2>1, <2>2, Spent DEF HostInv
  <1>3. (\E verdict : Handle(m, verdict)) \/ Lose(m)
    BY DEF Answer, IssuanceFails
  <1>4. /\ proc' = proc \/ ((\E n : Upd(m.by, n)) /\ At(m.by, {"wait"}))
        /\ disk' = disk /\ load' = load /\ UNCHANGED <<hostVars, serveVars>>
    BY <1>3 DEF Handle, Lose, At, fileVars
  <1> QED
    BY <1>1, <1>2, <1>4, HeardTunKeeps

LEMMA EndsTunKeep ==
    ASSUME DirInv, TunInv, HostInv, UNCHANGED tunnelVars,
           (\E p \in Procs : NoAnswer(p)) \/ (\E c \in Commands : Kill(c)) \/ RenewTick
    PROVE  TunInv' /\ HostInv'
  <1>1. AutoRenew # TunnelBump /\ "silence" \in Events /\ "kill" \in Events /\ "tick" \in Events
    BY LinkAssumption DEF Events
  <1>2. ASSUME NEW p \in Procs, NoAnswer(p) PROVE TunInv' /\ HostInv'
    <2>1. /\ (\E m : Upd(p, m)) /\ At(p, {"wait"}) /\ disk' = disk /\ load' = load
          /\ UNCHANGED <<hostVars, serveVars>> /\ May("silence") /\ Spend("silence")
      BY <1>2 DEF NoAnswer, At, fileVars
    <2> QED
      BY <1>1, <2>1, Spent, HeardTunKeeps
  <1>3. ASSUME NEW c \in Commands, Kill(c) PROVE TunInv' /\ HostInv'
    <2>1. /\ (\E m : Upd(c, m)) /\ disk' = disk /\ load' = load
          /\ UNCHANGED <<hostVars, serveVars>> /\ May("kill") /\ Spend("kill")
      BY <1>3 DEF Kill, fileVars
    <2>2. c \in Procs /\ c # TunnelBump
      BY ProcFacts
    <2> QED
      BY <1>1, <2>1, <2>2, Spent, HeardTunKeeps
  <1>4. CASE RenewTick
    <2>1. /\ (\E m : Upd(AutoRenew, m)) /\ disk' = disk /\ load' = load
          /\ UNCHANGED <<hostVars, serveVars>> /\ May("tick") /\ Spend("tick")
      BY <1>4 DEF RenewTick, fileVars
    <2> QED
      BY <1>1, <2>1, ProcFacts, Spent, HeardTunKeeps
  <1> QED
    BY <1>2, <1>3, <1>4

LEMMA LoaderTunKeeps ==
    ASSUME DirInv, TunInv, HostInv, UNCHANGED tunnelVars, LoaderStep \/ HostMoves \/ CertificatesAge
    PROVE  TunInv' /\ HostInv'
  <1>1. /\ tun' = tun /\ fresh' = fresh /\ rush' = rush
        /\ load' = load /\ serve' = serve /\ gens' = gens
    BY DEF tunnelVars, LoaderStep, LoadState, LoadKey, LoadCert, Bind, Reload, RenewReturned, HostMoves,
           CertificatesAge, hostVars, serveVars
  <1>2. lan' \in Ips /\ expiring' \in {expiring, gens}
    BY DEF LoaderStep, LoadState, LoadKey, LoadCert, Bind, Reload, RenewReturned, HostMoves,
           CertificatesAge, hostVars, HostInv
  <1>3. proc'[TunnelBump] = proc[TunnelBump]
    <2>1. proc' = proc \/ proc' = [proc EXCEPT ![AutoRenew] = Idle]
      BY DEF LoaderStep, LoadState, LoadKey, LoadCert, Bind, Reload, RenewReturned, HostMoves, CertificatesAge
    <2> QED
      BY <2>1, LinkAssumption, OfProc, ProcFacts
  <1>4. disk'.tunnel = disk.tunnel
    <2>1. disk' = disk \/ disk' = [disk EXCEPT !.bound = TRUE] \/ disk' = [disk EXCEPT !.bound = FALSE]
      BY DEF LoaderStep, LoadState, LoadKey, LoadCert, Bind, Reload, RenewReturned, HostMoves, CertificatesAge,
             fileVars
    <2> QED
      BY <2>1, DiskFields DEF DirInv, DiskInv
  <1>5. budget' \in [Events -> Nat]
    <2>1. \/ budget' = budget
          \/ \E e \in {"bind", "move", "age"} : May(e) /\ Spend(e)
      BY DEF LoaderStep, LoadState, LoadKey, LoadCert, Bind, Reload, RenewReturned, HostMoves, CertificatesAge
    <2>2. {"bind", "move", "age"} \subseteq Events
      BY DEF Events
    <2> QED
      BY <2>1, <2>2, Spent DEF HostInv
  <1>6. listener' = listener \/ (listener' # None => listener'.key = listener'.cert /\ listener'.key # Torn)
    <2>1. \/ listener' = listener \/ listener' = None
          \/ Certified(loader.key, loader.cert) /\ listener' = [key |-> loader.key, cert |-> loader.cert]
      BY DEF LoaderStep, LoadState, LoadKey, LoadCert, Bind, Reload, RenewReturned, HostMoves, CertificatesAge,
             serveVars
    <2> DEFINE l == listener'
    <2>2. ASSUME Certified(loader.key, loader.cert), l = [key |-> loader.key, cert |-> loader.cert]
          PROVE  l.key = l.cert /\ l.key # Torn
      BY <2>2 DEF Certified
    <2> QED
      BY <2>1, <2>2
  <1>7. TunInv'
    BY <1>1, <1>3, <1>4, BesideTun
  <1>8. HostInv'
    BY <1>1, <1>2, <1>5, <1>6, BesideHost
  <1> QED
    BY <1>7, <1>8

\* The link goes on beside the tunnel.
LEMMA BesideKeeps ==
    ASSUME NeverRelinked, DirInv, TunInv, HostInv, LinkSteps \/ LinkEvents, UNCHANGED tunnelVars
    PROVE  DirInv' /\ TunInv' /\ HostInv'
  <1>1. DirInv'
    BY LinkKeeps DEF tunnelVars
  <1>2. TunInv' /\ HostInv'
    BY StepTunKeeps, AnswersTunKeep, EndsTunKeep, LoaderTunKeeps DEF LinkSteps, LinkEvents
  <1> QED
    BY <1>1, <1>2

-----------------------------------------------------------------------------
(* The frames of a live tunnel.                                             *)

\* Finite sets; the library's notions are those of the model.
Sets == INSTANCE FiniteSetTheorems

LEMMA SameNotions ==
    \A S : Sets!Cardinality(S) = Cardinality(S) /\ (Sets!IsFiniteSet(S) <=> IsFiniteSet(S))
  <1>1. \A S : Sets!Cardinality(S) = Cardinality(S)
    BY DEF Sets!Cardinality, Cardinality
  <1>2. \A S : Sets!IsFiniteSet(S) <=> IsFiniteSet(S)
    BY DEF Sets!IsFiniteSet, IsFiniteSet
  <1> QED
    BY <1>1, <1>2

\* Requests that are being reassembled, within the bounds.
PendingOK(f) ==
    /\ DOMAIN f \subseteq Ids /\ IsFiniteSet(DOMAIN f) /\ Cardinality(DOMAIN f) <= MaxPending
    /\ \A i \in DOMAIN f : f[i] \in 0..MaxBody

LEMMA NothingOK ==
    PendingOK(Nothing)
  <1>1. DOMAIN Nothing = {}
    BY DEF Nothing
  <1>2. IsFiniteSet({}) /\ Cardinality({}) = 0
    BY Sets!FS_EmptySet, SameNotions
  <1>3. 0 <= MaxPending
    BY FramesAssumption, SMT
  <1> QED
    BY <1>1, <1>2, <1>3 DEF PendingOK

LEMMA WithoutOK ==
    ASSUME PendingOK(pending), NEW id
    PROVE  PendingOK(Without(id))
  <1>1. /\ DOMAIN Without(id) = DOMAIN pending \ {id}
        /\ \A i \in DOMAIN pending \ {id} : Without(id)[i] = pending[i]
    BY DEF Without
  <1>2. /\ IsFiniteSet(DOMAIN pending \ {id})
        /\ Cardinality(DOMAIN pending \ {id}) <= Cardinality(DOMAIN pending)
    BY Sets!FS_Subset, SameNotions DEF PendingOK
  <1>3. Cardinality(DOMAIN pending \ {id}) <= MaxPending
    <2>1. Cardinality(DOMAIN pending) \in Nat /\ Cardinality(DOMAIN pending \ {id}) \in Nat
      BY <1>2, Sets!FS_CardinalityType, SameNotions DEF PendingOK
    <2> QED
      BY <1>2, <2>1, FramesAssumption, SMT DEF PendingOK
  <1> QED
    BY <1>1, <1>2, <1>3 DEF PendingOK

LEMMA WithOK ==
    ASSUME PendingOK(pending), NEW id \in Ids, NEW n \in 0..MaxBody, Room \/ id \in DOMAIN pending
    PROVE  PendingOK(With(id, n))
  <1>1. /\ DOMAIN With(id, n) = DOMAIN pending \cup {id}
        /\ \A i \in DOMAIN pending \cup {id} : With(id, n)[i] = IF i = id THEN n ELSE pending[i]
    BY DEF With
  <1>2. IsFiniteSet(DOMAIN pending) /\ Cardinality(DOMAIN pending) \in Nat
    BY Sets!FS_CardinalityType, SameNotions DEF PendingOK
  <1>3. /\ IsFiniteSet(DOMAIN pending \cup {id})
        /\ \/ id \in DOMAIN pending /\ Cardinality(DOMAIN pending \cup {id}) = Cardinality(DOMAIN pending)
           \/ Room /\ Cardinality(DOMAIN pending \cup {id}) = Cardinality(DOMAIN pending) + 1
    BY <1>2, Sets!FS_AddElement, SameNotions
  <1>4. Cardinality(DOMAIN pending \cup {id}) <= MaxPending
    BY <1>2, <1>3, FramesAssumption, SMT DEF PendingOK, Room
  <1> QED
    BY <1>1, <1>3, <1>4 DEF PendingOK

LEMMA FrameFields ==
    ASSUME NEW f \in Frame
    PROVE  f.id \in Ids /\ (f.kind = "body" => f.size \in Nat)
  BY SMT DEF Frame

LEMMA HandleFrameKeeps ==
    ASSUME FrameInv, handle_frame
    PROVE  FrameInv'
  <1> DEFINE f == Head(inbox)
  <1>1. f \in Frame /\ inbox' \in Seq(Frame)
    BY SMT DEF FrameInv, handle_frame
  <1>2. PendingOK(pending)
    BY DEF FrameInv, PendingOK
  <1>3. f.id \in Ids /\ (f.kind = "body" => f.size \in Nat)
    BY <1>1, FrameFields
  <1>4. OnRequest(f) \/ OnBody(f) \/ OnError(f)
    BY DEF handle_frame
  <1> HIDE DEF f
  <1>5. \/ pending' = pending \/ pending' = Without(f.id)
        \/ \E n \in 0..MaxBody : pending' = With(f.id, n) /\ (Room \/ f.id \in DOMAIN pending)
    <2>1. CASE OnRequest(f) \/ OnError(f)
      <3>1. 0 \in 0..MaxBody
        BY FramesAssumption, SMT
      <3> QED
        BY <2>1, <3>1 DEF OnRequest, OnError
    <2>2. CASE OnBody(f)
      <3>1. /\ f.kind = "body"
            /\ \/ pending' = pending \/ pending' = Without(f.id)
               \/ /\ f.id \in DOMAIN pending /\ (f.size = 0 \/ Fits(f.id, f.size))
                  /\ pending' = With(f.id, Extended(f.id, f.size))
        BY <2>2 DEF OnBody
      <3>2. ASSUME f.id \in DOMAIN pending, f.size = 0 \/ Fits(f.id, f.size)
            PROVE  Extended(f.id, f.size) \in 0..MaxBody
        <4>1. pending[f.id] \in 0..MaxBody /\ f.size \in Nat /\ MaxBody \in Nat
          BY <1>2, <1>3, <3>1, <3>2, FramesAssumption DEF PendingOK
        <4> QED
          BY <3>2, <4>1, SMT DEF Extended, Fits
      <3> QED
        BY <3>1, <3>2
    <2> QED
      BY <1>4, <2>1, <2>2
  <1>6. PendingOK(pending')
    BY <1>2, <1>3, <1>5, WithoutOK, WithOK
  <1> QED
    BY <1>1, <1>6 DEF FrameInv, PendingOK

\* Every action: frames are handled, a socket opens or ends, or nothing happens.
LEMMA FramesKeep ==
    ASSUME FrameInv, load \in Workloads,
           \/ handle_frame \/ TasksStep \/ SocketEnds \/ RuntimeEnds \/ SocketOpens(load.frames)
           \/ UNCHANGED frameVars
    PROVE  FrameInv'
  <1>1. CASE handle_frame
    BY <1>1, HandleFrameKeeps
  <1>2. CASE TasksStep \/ UNCHANGED frameVars
    <2>1. inbox' = inbox /\ pending' = pending
      BY <1>2 DEF TasksStep, TaskStep, CallFails, CallAnswers, SendError, SendHead, SendChunk, frameVars
    <2> QED
      BY <2>1 DEF FrameInv
  <1>3. CASE SocketEnds \/ RuntimeEnds
    <2>1. inbox' = << >> /\ pending' = Nothing
      BY <1>3 DEF SocketEnds, RuntimeEnds
    <2>2. << >> \in Seq(Frame)
      BY SMT
    <2> QED
      BY <2>1, <2>2, NothingOK DEF FrameInv, PendingOK
  <1>4. CASE SocketOpens(load.frames)
    <2>1. inbox' \in Seq(Frame) /\ pending' = pending
      BY <1>4, WorkloadAssumption DEF SocketOpens
    <2> QED
      BY <2>1 DEF FrameInv
  <1> QED
    BY <1>1, <1>2, <1>3, <1>4

-----------------------------------------------------------------------------
(* The invariant holds.                                                     *)

LEMMA InitMemory ==
    ASSUME NEW pc \in {"start", "idle"}, NEW m, m = [Idle EXCEPT !.pc = pc]
    PROVE  MemoryOK(m) /\ m.pc = pc /\ m.req = None
  <1>1. DOMAIN Idle = Fields /\ Idle.req = None /\ Idle.gen = None /\ Idle.ips = None /\ Idle.jump = 0
    BY DEF Idle, Fields
  <1>2. DOMAIN m = Fields /\ m.pc = pc /\ m.req = None /\ m.gen = None /\ m.ips = None /\ m.jump = 0
    BY <1>1, FieldsAre
  <1>3. Carried(m)
    BY <1>2, 0 \in Nat DEF Carried
  <1> QED
    BY <1>2, <1>3 DEF MemoryOK, Pcs, Decided, Inside

LEMMA FilesParts ==
    ASSUME NEW f \in Files
    PROVE  /\ DOMAIN f = {"state", "key", "cert", "bound", "tunnel"} /\ f.state \in LinkState \cup {None}
           /\ f.bound \in BOOLEAN \cup {None} /\ f.tunnel \in BOOLEAN \cup {None}
  BY SMT DEF Files

LEMMA InitDir ==
    ASSUME Init
    PROVE  DirInv
  <1>1. /\ load \in Workloads /\ disk = load.files /\ epoch = 0 /\ held = [e \in 0..MaxEpoch |-> None]
        /\ proc = [p \in Procs |-> [Idle EXCEPT !.pc = IF p \in load.commands THEN "start" ELSE "idle"]]
        /\ wire = {} /\ signed = {} /\ tun.pc = "off"
    BY DEF Init, LinkInit, TunnelOff
  <1>2. load.commands \subseteq Commands /\ load.files \in Files
    BY <1>1, WorkloadAssumption
  <1>3. DOMAIN proc = Procs /\ \A p \in Procs : MemoryOK(proc[p]) /\ proc[p].pc \in {"start", "idle"}
                               /\ proc[p].req = None /\ (proc[p].pc # "idle" => p \in load.commands)
    <2>1. DOMAIN proc = Procs
      BY <1>1
    <2>2. ASSUME NEW p \in Procs
          PROVE  /\ MemoryOK(proc[p]) /\ proc[p].pc \in {"start", "idle"} /\ proc[p].req = None
                 /\ proc[p].pc # "idle" => p \in load.commands
      <3>1. PICK pc \in {"start", "idle"} :
               proc[p] = [Idle EXCEPT !.pc = pc] /\ (pc # "idle" => p \in load.commands)
        BY <1>1
      <3> QED
        BY <3>1, InitMemory
    <2> QED
      BY <2>1, <2>2
  <1>4. ~Reserved
    BY <1>3, ProcFacts DEF Reserved, At
  <1>5. Drawn = {}
    BY <1>1, <1>4 DEF Drawn
  <1>6. \A p \in Procs : ~At(p, Inside \cup {"lock", "done"})
    BY <1>3 DEF At, Inside
  <1>7. /\ DOMAIN disk = DOMAIN NoFiles /\ disk.state \in LinkState \cup {None}
        /\ disk.bound \in {TRUE, FALSE, None} /\ disk.tunnel \in {TRUE, FALSE, None}
    BY <1>1, <1>2, FilesParts, DiskFields
  <1>8. ProcInv
    BY <1>1, <1>3, <1>6, ProcFacts, LinkAssumption DEF ProcInv, At, Inside
  <1>9. DiskInv
    BY <1>7 DEF DiskInv
  <1>10. LockInv
    BY <1>1, <1>6 DEF LockInv, At, Decided
  <1>11. StateInv
    BY <1>6, <1>7, LinkAssumption DEF StateInv, At, Settled, Decided
  <1>12. SeqInv
    BY <1>1, <1>4, <1>5, <1>6 DEF SeqInv, Below, Under, Fresh, At, Inside, SequenceNeverReused
  <1>13. FlagInv
    <2>1. ~Cleared
      BY <1>2, <1>6, ProcFacts DEF Cleared, At
    <2> QED
      BY <1>6, <2>1 DEF FlagInv, At, Decided
  <1> QED
    BY <1>8, <1>9, <1>10, <1>11, <1>12, <1>13 DEF DirInv

LEMMA InitInv ==
    Init => LinkInv
  <1> SUFFICES ASSUME Init PROVE LinkInv
    OBVIOUS
  <1>1. /\ load \in Workloads /\ budget = load.env /\ lan = load.lan /\ gens = load.gens /\ expiring = 0
        /\ serve = "down" /\ listener = None /\ tun = TunnelOff /\ fresh = FALSE /\ rush = 0
        /\ inbox = << >> /\ pending = Nothing
    BY DEF Init, LinkInit, FramesInit
  <1>2. TunOK(tun) /\ tun.pc = "off"
    <2>1. TunnelOff = [TunnelOff EXCEPT !.pc = "off"]
      BY SMT DEF TunnelOff
    <2> QED
      BY <1>1, <2>1, OffTun
  <1>3. DirInv
    BY InitDir
  <1>4. ~At(TunnelBump, Inside \cup {"start", "lock"})
    <2>1. TunnelBump \in Procs /\ TunnelBump \notin load.commands
      BY <1>1, ProcFacts, WorkloadAssumption
    <2>2. proc[TunnelBump] = [Idle EXCEPT !.pc = "idle"]
      BY <2>1 DEF Init, LinkInit
    <2>3. proc[TunnelBump].pc = "idle"
      BY <2>2, InitMemory
    <2> QED
      BY <2>3 DEF At, Inside
  <1>5. TunInv
    <2>1. 0 \in 0..(MaxResyncs + 1)
      BY TunnelAssumption, SMT
    <2> QED
      BY <1>1, <1>2, <1>4, <2>1 DEF TunInv, MarkerTruth
  <1>6. HostInv
    <2>1. budget \in [Events -> Nat] /\ lan \in Ips /\ gens \in Nat
      BY <1>1, WorkloadAssumption
    <2>2. 0 \in 0..gens
      BY <2>1, SMT
    <2> QED
      BY <1>1, <1>2, <2>1, <2>2 DEF HostInv, ServedPairMatches
  <1>7. FrameInv
    <2>1. << >> \in Seq(Frame)
      BY SMT
    <2> QED
      BY <1>1, <2>1, NothingOK DEF FrameInv, PendingOK
  <1> QED
    BY <1>3, <1>5, <1>6, <1>7 DEF LinkInv

LEMMA NextKeeps ==
    ASSUME NeverRelinked, LinkInv, [Next]_vars
    PROVE  LinkInv'
  <1>1. DirInv /\ TunInv /\ HostInv /\ FrameInv /\ load \in Workloads
    BY DEF LinkInv, HostInv
  <1>2. CASE LinkPart(LinkSteps) \/ LinkPart(LinkEvents)
    <2>1. (LinkSteps \/ LinkEvents) /\ UNCHANGED tunnelVars /\ UNCHANGED frameVars
      BY <1>2 DEF LinkPart
    <2> QED
      BY <1>1, <2>1, BesideKeeps, FramesKeep DEF LinkInv
  <1>3. CASE TunnelStep \/ PrepareFailed \/ ConnectFails \/ AckLost \/ RejectArrives \/ Drops \/ Superseded
    <2>1. SocketEnds \/ SocketOpens(load.frames) \/ UNCHANGED frameVars
      BY <1>3 DEF TunnelStep, TunnelSpawn, TunnelEnds, Prepare, Prepared, PreparedDisabled, PrepareFailed, Dial,
                  AckArrives, StaleArrives, Hangup, Retry, ConnectFails, AckLost, RejectArrives, Drops, Superseded
    <2> QED
      BY <1>1, <1>3, <2>1, TaskKeeps, FramesKeep DEF LinkInv
  <1>4. CASE ServeStarts \/ ServeStops \/ ListenerStops
    <2>1. UNCHANGED frameVars
      BY <1>4 DEF ServeStarts, ServeStops, ListenerStops
    <2> QED
      BY <1>1, <1>4, <2>1, ServeKeeps, FramesKeep DEF LinkInv
  <1>5. CASE ServeExits \/ ServeDies
    <2>1. RuntimeEnds
      BY <1>5 DEF ServeExits, ServeDies
    <2> QED
      BY <1>1, <1>5, <2>1, ServeEndsKeeps, ServeEndsTunKeeps, FramesKeep DEF LinkInv
  <1>6. CASE Frames \/ UNCHANGED vars
    <2>1. UNCHANGED linkVars /\ UNCHANGED tunnelVars
      BY <1>6 DEF Frames, vars
    <2>2. handle_frame \/ TasksStep \/ UNCHANGED frameVars
      BY <1>6 DEF Frames, vars
    <2>3. /\ Alongside /\ disk' = disk /\ tun' = tun /\ fresh' = fresh /\ rush' = rush
          /\ load' = load /\ lan' = lan /\ gens' = gens /\ expiring' = expiring
          /\ serve' = serve /\ listener' = listener /\ budget' = budget
      BY <2>1 DEF Alongside, linkVars, fileVars, serviceVars, hostVars, serveVars, tunnelVars
    <2>4. DirInv'
      BY <1>1, <2>3, AlongsideKeeps
    <2>5. TunInv'
      BY <1>1, <2>3 DEF TunInv, At, MarkerTruth, Alongside
    <2>6. HostInv'
      BY <1>1, <2>3 DEF HostInv, ServedPairMatches
    <2> QED
      BY <1>1, <2>2, <2>4, <2>5, <2>6, FramesKeep DEF LinkInv
  <1> QED
    BY <1>2, <1>3, <1>4, <1>5, <1>6 DEF Next

-----------------------------------------------------------------------------
(* The theorems.                                                            *)

LEMMA InvIsSound ==
    ASSUME LinkInv
    PROVE  DirectorySound
  <1>1. DirInv /\ TunInv /\ HostInv /\ FrameInv
    BY DEF LinkInv
  <1>2. TypeOK
    <2>1. epoch \in 0..MaxEpoch
      BY <1>1, LinkAssumption, SMT DEF DirInv, LockInv
    <2>2. \A i \in DOMAIN pending : pending[i] <= MaxBody
      BY <1>1, FramesAssumption, SMT DEF FrameInv
    <2>3. \A p \in Procs : proc[p].pc \in Pcs
      BY <1>1 DEF DirInv, ProcInv, MemoryOK
    <2>4. held \in [0..MaxEpoch -> Procs \cup {None}]
      BY <1>1, HeldType
    <2>5. disk.bound \in {TRUE, FALSE, None} /\ disk.tunnel \in {TRUE, FALSE, None}
      BY <1>1 DEF DirInv, DiskInv
    <2> QED
      BY <1>1, <2>1, <2>2, <2>3, <2>4, <2>5 DEF TypeOK, TunInv, TunOK, HostInv, FrameInv
  <1>3. Readable(disk.state) => disk.state \in LinkState
    BY <1>1 DEF DirInv, DiskInv, Readable
  <1>4. SequenceNeverReused
    BY <1>1 DEF DirInv, SeqInv
  <1>5. NeverBehind
    <2>1. \A r \in signed : r.epoch = epoch => r.seq \in Drawn
      BY DEF Drawn
    <2> QED
      BY <1>1, <1>3, <2>1 DEF NeverBehind, DirInv, SeqInv, Below
  <1>6. LockedReadsWhole
    <2> SUFFICES ASSUME NEW p \in Procs, proc[p].pc = "read", disk.state = Torn, ~died PROVE FALSE
      BY DEF LockedReadsWhole
    <2>1. PICK q \in Procs : At(q, {"write"})
      BY <1>1 DEF DirInv, StateInv
    <2>2. At(q, Decided) /\ At(p, Inside) /\ LockInv
      BY <1>1, <2>1 DEF At, Decided, Inside, DirInv
    <2>3. p = q
      BY <2>2, Alone
    <2> QED
      BY <2>1, <2>3 DEF At
  <1>7. DisableNotLost
    BY <1>1, <1>3 DEF DisableNotLost, DirInv, FlagInv, Cleared, At
  <1>8. ServedPairMatches
    BY <1>1 DEF HostInv
  <1> QED
    BY <1>2, <1>4, <1>5, <1>6, <1>7, <1>8 DEF DirectorySound

LEMMA InvIsModest ==
    ASSUME LinkInv
    PROVE  MarkerTruth /\ NoHammering
  <1>1. rush \in 0..(MaxResyncs + 1) /\ MarkerTruth
    BY DEF LinkInv, TunInv
  <1>2. NoHammering
    BY <1>1, TunnelAssumption, SMT DEF NoHammering
  <1> QED
    BY <1>1, <1>2

(***************************************************************************)
(* For any commands, names, addresses and bounds, whatever the service and *)
(* the relay answer or lose and whichever process is killed: no sequence is *)
(* signed twice for a directory or is ahead of the one on disk, a state    *)
(* read under the lock is whole, a flag that `tunnel disable` cleared stays *)
(* so, and the listener's key fits its certificate (StateLock,             *)
(* send_with_sequence, bump_sequence_for_tunnel, parse_certified_key).     *)
(***************************************************************************)
THEOREM DirectoryIsSound ==
    ASSUME NeverRelinked
    PROVE  Spec => []DirectorySound
  <1>1. Init => LinkInv
    BY InitInv
  <1>2. LinkInv /\ [Next]_vars => LinkInv'
    BY NextKeeps
  <1>3. LinkInv => DirectorySound
    BY InvIsSound
  <1> QED
    BY <1>1, <1>2, <1>3, PTL DEF Spec

(***************************************************************************)
(* However often the relay answers that a sequence is stale, drops or      *)
(* replaces the connection, the tunnel task waits after at most            *)
(* MaxResyncs + 1 attempts, and its marker says `connected` only while a   *)
(* tunnel is live (BackoffState.next_action, record_state, clear_state).   *)
(***************************************************************************)
THEOREM TunnelIsModest ==
    ASSUME NeverRelinked
    PROVE  Spec => [](MarkerTruth /\ NoHammering)
  <1>1. Init => LinkInv
    BY InitInv
  <1>2. LinkInv /\ [Next]_vars => LinkInv'
    BY NextKeeps
  <1>3. LinkInv => MarkerTruth /\ NoHammering
    BY InvIsModest
  <1> QED
    BY <1>1, <1>2, <1>3, PTL DEF Spec

=============================================================================
