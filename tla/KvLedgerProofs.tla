--------------------------- MODULE KvLedgerProofs ---------------------------
(***************************************************************************)
(* The inductive invariant of KvLedger holds for every set of keys,        *)
(* spaces, events and requests, both engines, and any failures, replays    *)
(* and restarts.                                                           *)
(*                                                                         *)
(* The argument.  A request owns the guard of every key it writes from     *)
(* before its first read until it answers, so nobody else writes a row of  *)
(* these keys in between: what it read of them (the live value, the write  *)
(* a deletion hides, a sequence number above all versions) is still true   *)
(* when it commits, although its statements saw different states.  On      *)
(* SQLite the connection gives the same for the epochs of whole spaces.    *)
(*                                                                         *)
(* From it, what the clients see: histories in line, a map to which events *)
(* are applied at their commit (KvStore), and listings that agree with     *)
(* reads.                                                                  *)
(***************************************************************************)
EXTENDS KvLedgerSteps, FiniteSetTheorems, WellFoundedInduction

\* First-order reasoning, unless a step names another prover.
USE Zenon

-----------------------------------------------------------------------------
(* What a commit adds to the versions of a key and the history of a space. *)

\* A committed key gets one version, above all others.
LEMMA OneVersionAdded ==
    ASSUME LedgerInv, NEW r \in Requests, pc[r] = "commit", NEW ids \in NewIds(r), Commits(r, ids),
           Fresh(r), NEW k \in Puts(r)
    PROVE  \E w : /\ WritesOf(k)' = WritesOf(k) \cup {w}
                  /\ w.key = k /\ w.event = Event(r) /\ w.value = Ops[Event(r)][k]
                  /\ w.seq = seqs[r][SpaceOf[k]] /\ w.seq \in Nat /\ w.epoch \in Nat
                  /\ \A v \in WritesOf(k) : v.seq < w.seq
  <1> DEFINE w == WriteRow(r, ids, k)
  <1>1. w \in NewWrites(r, ids)
    BY DEF NewWrites
  <1>2. /\ w.key = k /\ w.event = Event(r) /\ w.value = Ops[Event(r)][k]
        /\ w.seq = seqs[r][SpaceOf[k]]
    BY WriteFields, SMT
  <1>3. WritesOf(k)' = WritesOf(k) \cup {w}
    <2>1. w \in writes' /\ writes \subseteq writes'
      BY CommittedWrites
    <2>2. \A v \in writes' : v.key = k => v \in writes \/ v = w
      BY CommittedWrites, WriteFields, SMT
    <2> HIDE DEF w
    <2> QED
      BY <1>2, <2>1, <2>2 DEF WritesOf
  <1>4. \A v \in WritesOf(k) : v.seq < w.seq
    BY <1>2 DEF LedgerInv, NumberedInv, Numbered, Puts
  <1>5. w.seq \in Nat /\ w.epoch \in Nat
    BY <1>1, NewRowsTyped, SMT DEF EpochIds
  <1> HIDE DEF w
  <1> QED
    BY <1>2, <1>3, <1>4, <1>5

\* A key that is not put keeps its versions.
LEMMA NoVersionAdded ==
    ASSUME LedgerInv, NEW r \in Requests, NEW ids, Commits(r, ids), NEW k,
           ~Fresh(r) \/ k \notin Puts(r)
    PROVE  WritesOf(k)' = WritesOf(k)
  BY CommittedWrites, WriteFields, SMT DEF WritesOf

\* The epoch e is what the commit of request r adds to space s, under an id that
\* nothing refers to.
Added(r, s, e) ==
    /\ EpochsOf(s)' = EpochsOf(s) \cup {e}
    /\ e.space = s /\ e.event = Event(r) /\ e.seq = seqs[r][s] /\ e.seq \in Nat
    /\ e.parents = tips[r][s]
    /\ \A f \in epochs : e.id # f.id /\ e.id \notin f.parents
    /\ e.id \notin e.parents

\* A space gets at most one epoch.
LEMMA OneEpochAdded ==
    ASSUME LedgerInv, NEW r \in Requests, pc[r] = "commit", NEW ids \in NewIds(r), Commits(r, ids),
           NEW s \in DOMAIN seqs[r]
    PROVE  \E e : Added(r, s, e)
  <1> DEFINE e == EpochRow(r, ids, s)
  <1>1. e.space = s /\ e.event = Event(r) /\ e.seq = seqs[r][s] /\ e.parents = tips[r][s] /\ e.id = ids[s]
    BY EpochFields, SMT
  <1>2. \A f \in epochs' : f.space = s => f \in epochs \/ f = e
    BY CommittedEpochs, EpochFields, SMT
  <1>3. EpochsOf(s)' = EpochsOf(s) \cup {e}
    <2>1. e \in epochs' /\ epochs \subseteq epochs'
      BY CommittedEpochs
    <2> HIDE DEF e
    <2> QED
      BY <1>1, <1>2, <2>1 DEF EpochsOf
  <1>4. ids[s] \notin {f.id : f \in epochs}
    BY DEF NewIds
  <1>5. tips[r][s] \subseteq {f.id : f \in epochs}
    BY DEF LedgerInv, TippedInv, Tipped
  <1>6. \A f \in epochs : f.parents \subseteq {g.id : g \in epochs}
    BY DEF LedgerInv, EpochInv
  <1>7. seqs[r][s] \in Nat
    BY DEF LedgerInv, TypeOK
  <1>8. Added(r, s, e)
    <2> HIDE DEF e
    <2> QED
      BY <1>1, <1>3, <1>4, <1>5, <1>6, <1>7 DEF Added
  <1> QED
    BY <1>8

LEMMA NoEpochAdded ==
    ASSUME NEW r \in Requests, NEW ids, Commits(r, ids), NEW s, s \notin DOMAIN seqs[r]
    PROVE  EpochsOf(s)' = EpochsOf(s)
  BY CommittedEpochs, EpochFields, SMT DEF EpochsOf

-----------------------------------------------------------------------------
(* The rows stay consistent.                                               *)

LEMMA VersionsKept ==
    ASSUME LedgerInv, [Next]_vars
    PROVE  VersionInv'
  <1>1. CASE UNCHANGED rows
    BY <1>1 DEF rows, LedgerInv, VersionInv, VersionsOrdered, WritesOf, EpochsOf
  <1>2. ASSUME NEW r \in Requests, pc[r] = "commit", NEW ids \in NewIds(r), Commits(r, ids)
        PROVE  VersionInv'
    <2>1. \A k \in Keys : \A v, w \in WritesOf(k)' : v # w => v.seq # w.seq
      <3> SUFFICES ASSUME NEW k \in Keys
                   PROVE  \A v, w \in WritesOf(k)' : v # w => v.seq # w.seq
        OBVIOUS
      <3>1. \A v, w \in WritesOf(k) : v # w => v.seq # w.seq
        BY DEF LedgerInv, VersionInv, VersionsOrdered, WritesOf
      <3>2. \A v \in WritesOf(k) : v.seq \in Nat
        BY DEF LedgerInv, TypeOK, WritesOf
      <3>3. CASE Fresh(r) /\ k \in Puts(r)
        BY <1>2, <3>1, <3>2, <3>3, OneVersionAdded, SMT
      <3>4. CASE ~Fresh(r) \/ k \notin Puts(r)
        BY <1>2, <3>1, <3>4, NoVersionAdded
      <3> QED
        BY <3>3, <3>4
    <2>2. \A w \in writes' : w.key \in Keys
      BY RowTypesKept
    <2>3. VersionsOrdered'
      BY <2>1, <2>2 DEF VersionsOrdered, WritesOf
    <2>4. \A w \in writes' : w.event \in recorded'
      <3>1. recorded' = recorded \cup {Event(r)}
        BY <1>2 DEF Commits
      <3>2. \A w \in writes : w.event \in recorded
        BY DEF LedgerInv, VersionInv
      <3> QED
        BY <1>2, <3>1, <3>2, CommittedWrites, WriteFields, SMT
    <2>5. \A t \in deletes' : t.deleted \in recorded'
      <3>1. ASSUME NEW k \in Dels(r), Fresh(r) PROVE hidden[r][k] \in recorded
        <4>1. k \in Keys /\ WritesOf(k) # {} /\ hidden[r][k] = Latest(k).event
          BY <1>2, <3>1, RequestFacts DEF LedgerInv, SavedInv, Saved, Dels
        <4> QED
          BY <4>1, LatestVersion DEF LedgerInv, VersionInv, WritesOf
      <3> QED
        <4>1. recorded \subseteq recorded'
          BY <1>2 DEF Commits
        <4>2. \A t \in deletes : t.deleted \in recorded
          BY DEF LedgerInv, VersionInv
        <4> QED
          BY <1>2, <3>1, <4>1, <4>2, CommittedDeletes, DeleteFields, SMT
    <2>6. \A w \in writes' : \E e \in EpochsOf(SpaceOf[w.key])' : e.seq = w.seq
      <3>1. \A w \in writes : \E e \in EpochsOf(SpaceOf[w.key])' : e.seq = w.seq
        <4>1. epochs \subseteq epochs'
          BY <1>2, CommittedEpochs
        <4> QED
          BY <4>1 DEF LedgerInv, VersionInv, EpochsOf
      <3>2. ASSUME Fresh(r), NEW k \in Puts(r)
            PROVE  \E e \in EpochsOf(SpaceOf[k])' : e.seq = seqs[r][SpaceOf[k]]
        <4>1. SpaceOf[k] \in DOMAIN seqs[r]
          BY <1>2, <3>2, KeysNumbered DEF LedgerInv, Numbered, Puts
        <4> QED
          <5>1. PICK e : Added(r, SpaceOf[k], e)
            BY <1>2, <4>1, OneEpochAdded
          <5> QED
            BY <5>1 DEF Added
      <3>3. \A w \in writes' \ writes : Fresh(r) /\ \E k \in Puts(r) : w.key = k /\ w.seq = seqs[r][SpaceOf[k]]
        BY <1>2, CommittedWrites, WriteFields, SMT
      <3> QED
        BY <3>1, <3>2, <3>3, SMT
    <2>7. \A k \in Keys : WritesOf(k)' # {} =>
             \E w \in WritesOf(k)' : \A v \in WritesOf(k)' : v.seq <= w.seq
      <3> SUFFICES ASSUME NEW k \in Keys, WritesOf(k)' # {}
                   PROVE  \E w \in WritesOf(k)' : \A v \in WritesOf(k)' : v.seq <= w.seq
        OBVIOUS
      <3>1. CASE Fresh(r) /\ k \in Puts(r)
        <4>1. \A v \in WritesOf(k) : v.seq \in Nat
          BY DEF LedgerInv, TypeOK, WritesOf
        <4> QED
          BY <1>2, <3>1, <4>1, OneVersionAdded, SMT
      <3>2. CASE ~Fresh(r) \/ k \notin Puts(r)
        <4>1. WritesOf(k)' = WritesOf(k)
          BY <1>2, <3>2, NoVersionAdded
        <4> QED
          BY <4>1 DEF LedgerInv, VersionInv
      <3> QED
        BY <3>1, <3>2
    <2> QED
      BY <2>3, <2>4, <2>5, <2>6, <2>7 DEF VersionInv
  <1> QED
    BY <1>1, <1>2, OnlyCommitsWrite, CommitWrites DEF LedgerInv

LEMMA EpochsKept ==
    ASSUME LedgerInv, [Next]_vars
    PROVE  EpochInv'
  <1>1. CASE UNCHANGED rows
    BY <1>1 DEF rows, LedgerInv, EpochInv, EpochsOf
  <1>2. ASSUME NEW r \in Requests, pc[r] = "commit", NEW ids \in NewIds(r), Commits(r, ids)
        PROVE  EpochInv'
    <2>1. \A f \in epochs' : f.parents \subseteq {e.id : e \in epochs'}
      <3>1. epochs \subseteq epochs'
        BY <1>2 DEF Commits
      <3>2. \A s \in DOMAIN seqs[r] : tips[r][s] \subseteq {e.id : e \in epochs}
        BY <1>2 DEF LedgerInv, TippedInv, Tipped
      <3>3. \A f \in epochs : f.parents \subseteq {e.id : e \in epochs}
        BY DEF LedgerInv, EpochInv
      <3>4. \A f \in epochs' : f.parents \subseteq {e.id : e \in epochs}
        <4> SUFFICES ASSUME NEW f \in epochs' PROVE f.parents \subseteq {e.id : e \in epochs}
          OBVIOUS
        <4>1. CASE f \in epochs
          BY <3>3, <4>1
        <4>2. ASSUME NEW s \in DOMAIN seqs[r], f = EpochRow(r, ids, s)
              PROVE  f.parents \subseteq {e.id : e \in epochs}
          BY <3>2, <4>2, EpochFields, SMT
        <4> QED
          BY <1>2, <4>1, <4>2, CommittedEpochs
      <3> QED
        BY <3>1, <3>4
    <2>2. \A s \in Spaces : EpochsOf(s)' # {} =>
             \E e \in EpochsOf(s)' : \A f \in EpochsOf(s)' : f.seq <= e.seq
      <3> SUFFICES ASSUME NEW s \in Spaces, EpochsOf(s)' # {}
                   PROVE  \E e \in EpochsOf(s)' : \A f \in EpochsOf(s)' : f.seq <= e.seq
        OBVIOUS
      <3>1. \A f \in EpochsOf(s) : f.seq \in Nat
        BY DEF LedgerInv, TypeOK, EpochsOf
      <3>2. CASE s \notin DOMAIN seqs[r]
        BY <1>2, <3>2, NoEpochAdded DEF LedgerInv, EpochInv
      <3>3. CASE s \in DOMAIN seqs[r]
        <4>0. PICK e : Added(r, s, e)
          BY <1>2, <3>3, OneEpochAdded
        <4>1. EpochsOf(s)' = EpochsOf(s) \cup {e} /\ e.seq \in Nat
          BY <4>0 DEF Added
        <4>2. CASE EpochsOf(s) = {}
          BY <4>1, <4>2, SMT
        <4>3. CASE EpochsOf(s) # {}
          <5>1. PICK m \in EpochsOf(s) : \A f \in EpochsOf(s) : f.seq <= m.seq
            BY <4>3 DEF LedgerInv, EpochInv
          <5>2. CASE m.seq <= e.seq
            BY <3>1, <4>1, <5>1, <5>2, SMT
          <5>3. CASE e.seq <= m.seq
            BY <3>1, <4>1, <5>1, <5>3
          <5> QED
            BY <3>1, <4>1, <5>2, <5>3, SMT
        <4> QED
          BY <4>2, <4>3
      <3> QED
        BY <3>2, <3>3
    <2> QED
      BY <2>1, <2>2 DEF EpochInv
  <1> QED
    BY <1>1, <1>2, OnlyCommitsWrite, CommitWrites DEF LedgerInv

LEMMA BlobsKept ==
    ASSUME LedgerInv, [Next]_vars
    PROVE  RowsHaveBlobs'
  <1>1. blobs \subseteq blobs'
    BY RowsOnlyAdded DEF LedgerInv
  <1>2. CASE UNCHANGED rows
    BY <1>1, <1>2 DEF rows, LedgerInv, RowsHaveBlobs
  <1>3. ASSUME NEW r \in Requests, pc[r] = "commit", NEW ids \in NewIds(r), Commits(r, ids)
        PROVE  RowsHaveBlobs'
    <2>1. \A k \in Puts(r) : <<SpaceOf[k], Ops[Event(r)][k]>> \in blobs
      BY <1>3 DEF LedgerInv, SavedInv, Saved
    <2>2. \A w \in writes : <<SpaceOf[w.key], w.value>> \in blobs
      BY DEF LedgerInv, RowsHaveBlobs
    <2>3. \A w \in writes' : <<SpaceOf[w.key], w.value>> \in blobs
      <3> SUFFICES ASSUME NEW w \in writes' PROVE <<SpaceOf[w.key], w.value>> \in blobs
        OBVIOUS
      <3>1. ASSUME NEW k \in Puts(r), w = WriteRow(r, ids, k)
            PROVE  <<SpaceOf[w.key], w.value>> \in blobs
        BY <2>1, <3>1, WriteFields, SMT
      <3> QED
        BY <1>3, <2>2, <3>1, CommittedWrites
    <2> QED
      BY <1>1, <2>3 DEF RowsHaveBlobs
  <1> QED
    BY <1>2, <1>3, OnlyCommitsWrite, CommitWrites DEF LedgerInv

LEMMA OrderKept ==
    ASSUME LedgerInv, [Next]_vars
    PROVE  OrderedWhereHosted'
  <1>1. CASE UNCHANGED rows
    BY <1>1 DEF rows, LedgerInv, OrderedWhereHosted
  <1>2. ASSUME NEW r \in Requests, pc[r] = "commit", NEW ids \in NewIds(r), Commits(r, ids)
        PROVE  OrderedWhereHosted'
    <2>1. \A e \in epochs' : e.space \in hosted'
      <3>1. hosted' = hosted \cup NewSpaces(r)
        BY <1>2 DEF Commits
      <3>2. \A e \in epochs : e.space \in hosted
        BY DEF LedgerInv, OrderedWhereHosted
      <3>3. DOMAIN seqs[r] \subseteq hosted \cup NewSpaces(r)
        BY <1>2 DEF LedgerInv, NumberedInv, Numbered
      <3> QED
        BY <1>2, <3>1, <3>2, <3>3, CommittedEpochs, EpochFields, SMT
    <2>2. ASSUME NEW e \in recorded \cap Cached
          PROVE  Touches[e] \subseteq {f.space : f \in {f \in epochs' : f.event = e}}
      <3>1. Touches[e] \subseteq {f.space : f \in {f \in epochs : f.event = e}}
        BY <2>2 DEF LedgerInv, OrderedWhereHosted
      <3>2. epochs \subseteq epochs'
        BY <1>2, CommittedEpochs
      <3> QED
        BY <3>1, <3>2
    <2>3. ASSUME Event(r) \in Cached
          PROVE  Touches[Event(r)] \subseteq {f.space : f \in {f \in epochs' : f.event = Event(r)}}
      <3>1. DOMAIN seqs[r] = Touches[Event(r)]
        BY <1>2, <2>3, RequestFacts DEF LedgerInv, NumberedInv, Numbered
      <3>2. \A s \in DOMAIN seqs[r] : \E f \in epochs' : f.space = s /\ f.event = Event(r)
        <4> SUFFICES ASSUME NEW s \in DOMAIN seqs[r]
                     PROVE  \E f \in epochs' : f.space = s /\ f.event = Event(r)
          OBVIOUS
        <4>1. EpochRow(r, ids, s) \in epochs'
          BY <1>2, CommittedEpochs
        <4>2. EpochRow(r, ids, s).space = s /\ EpochRow(r, ids, s).event = Event(r)
          BY EpochFields, SMT
        <4> QED
          BY <4>1, <4>2
      <3> QED
        BY <3>1, <3>2
    <2>4. recorded' = recorded \cup {Event(r)}
      BY <1>2 DEF Commits
    <2>5. \A e \in recorded' \cap Cached :
             Touches[e] \subseteq {f.space : f \in {f \in epochs' : f.event = e}}
      BY <2>2, <2>3, <2>4
    <2> QED
      BY <2>1, <2>5 DEF OrderedWhereHosted
  <1> QED
    BY <1>1, <1>2, OnlyCommitsWrite, CommitWrites DEF LedgerInv

LEMMA LineKept ==
    ASSUME LedgerInv, [Next]_vars
    PROVE  LinearInv'
  <1> SUFFICES ASSUME SingleConnection
               PROVE  /\ \A s \in Spaces : \A i, j \in Tips(s)' : i = j
                      /\ \A e, f \in epochs' : e.space = f.space /\ e.id \in f.parents => e.seq < f.seq
    BY OnlyCommitsWrite DEF LinearInv, SingleConnection
  <1>1. CASE UNCHANGED rows
    BY <1>1 DEF rows, LedgerInv, LinearInv, Tips, EpochsOf
  <1>2. ASSUME NEW r \in Requests, pc[r] = "commit", NEW ids \in NewIds(r), Commits(r, ids),
               NEW s \in Spaces
        PROVE  /\ \A i, j \in Tips(s)' : i = j
               /\ \A e, f \in EpochsOf(s)' : e.id \in f.parents => e.seq < f.seq
    <2>1. /\ \A i, j \in Tips(s) : i = j
          /\ \A e, f \in EpochsOf(s) : e.id \in f.parents => e.seq < f.seq
      BY DEF LedgerInv, LinearInv, EpochsOf
    <2>2. CASE s \notin DOMAIN seqs[r]
      <3>1. EpochsOf(s)' = EpochsOf(s)
        BY <1>2, <2>2, NoEpochAdded
      <3> QED
        BY <2>1, <3>1, ChoicesAreOfRows
    <2>3. CASE s \in DOMAIN seqs[r]
      <3>0. PICK n : Added(r, s, n)
        BY <1>2, <2>3, OneEpochAdded
      <3>1. /\ EpochsOf(s)' = EpochsOf(s) \cup {n}
            /\ n.space = s /\ n.event = Event(r) /\ n.seq = seqs[r][s] /\ n.seq \in Nat
            /\ n.parents = tips[r][s]
            /\ \A f \in epochs : n.id # f.id /\ n.id \notin f.parents
            /\ n.id \notin n.parents
        BY <3>0 DEF Added
      <3>2. n.seq = NextSeq(s) /\ n.parents = Tips(s)
        BY <1>2, <2>3, <3>1 DEF LedgerInv, SerialInv, TippedInv, Numbered, Tipped
      <3>3. \A f \in EpochsOf(s) : f.seq < n.seq
        BY <3>2, NextNumber DEF LedgerInv
      <3>4. \A i \in Tips(s)' : i = n.id
        <4> SUFFICES ASSUME NEW f \in EpochsOf(s), \A g \in EpochsOf(s)' : f.id \notin g.parents
                     PROVE  FALSE
          BY <3>1 DEF Tips
        <4>1. f.id \in Tips(s)
          BY <3>1 DEF Tips
        <4> QED
          BY <3>1, <3>2, <4>1
      <3>5. \A e, f \in EpochsOf(s)' : e.id \in f.parents => e.seq < f.seq
        BY <2>1, <3>1, <3>3 DEF EpochsOf
      <3> QED
        BY <3>4, <3>5
    <2> QED
      BY <2>2, <2>3
  <1>3. \A e \in epochs' : e.space \in Spaces
    BY TypesKept DEF TypeOK
  <1>4. ASSUME NEW r \in Requests, pc[r] = "commit", NEW ids \in NewIds(r), Commits(r, ids)
        PROVE  /\ \A s \in Spaces : \A i, j \in Tips(s)' : i = j
               /\ \A e, f \in epochs' : e.space = f.space /\ e.id \in f.parents => e.seq < f.seq
    BY <1>2, <1>3, <1>4 DEF EpochsOf
  <1> QED
    BY <1>1, <1>4, OnlyCommitsWrite, CommitWrites DEF LedgerInv

-----------------------------------------------------------------------------
(* The invariant holds.                                                    *)

LEMMA InvInitially ==
    ASSUME Init
    PROVE  LedgerInv
  <1> USE DEF Init
  <1>1. TypeOK
    BY LedgerAssumption DEF TypeOK, Nothing, InFlight
  <1>2. GuardInv /\ ConnInv
    BY DEF GuardInv, ConnInv, InTransaction
  <1>3. VersionInv /\ EpochInv /\ RowsHaveBlobs /\ OrderedWhereHosted
    BY DEF VersionInv, EpochInv, VersionsOrdered, WritesOf, EpochsOf, RowsHaveBlobs, OrderedWhereHosted
  <1>4. CheckedInv /\ NumberedInv /\ TippedInv /\ SavedInv /\ SerialInv
    BY DEF CheckedInv, NumberedInv, TippedInv, SavedInv, SerialInv, Checked, Numbered, Tipped, Saved
  <1>5. LinearInv
    BY DEF LinearInv, Tips, EpochsOf
  <1> QED
    BY <1>1, <1>2, <1>3, <1>4, <1>5 DEF LedgerInv

LEMMA InvKept ==
    ASSUME LedgerInv, [Next]_vars
    PROVE  LedgerInv'
  BY TypesKept, GuardsKept, ConnKept, VersionsKept, EpochsKept, BlobsKept, OrderKept,
     CheckedKept, NumberedKept, TippedKept, SavedKept, SerialKept, LineKept DEF LedgerInv

LEMMA Invariance == Spec => []LedgerInv
  <1>1. Init => LedgerInv
    BY InvInitially
  <1>2. LedgerInv /\ [Next]_vars => LedgerInv'
    BY InvKept
  <1> QED
    BY <1>1, <1>2, PTL DEF Spec

(***************************************************************************)
(* The rows, the guards and the locals of a request have their types.      *)
(***************************************************************************)
THEOREM LedgerTypes == Spec => []TypeOK
  BY Invariance, PTL DEF LedgerInv

(***************************************************************************)
(* A committed row never refers to a blob, a space or a place in the       *)
(* history that is missing, whatever crashed or failed around the commit   *)
(* (invoke_with_options, transact).                                        *)
(***************************************************************************)
THEOREM RowsAreBacked == Spec => []RowsBacked
  <1>1. LedgerInv => RowsBacked
    BY DEF LedgerInv, RowsBacked
  <1> QED
    BY <1>1, Invariance, PTL

(***************************************************************************)
(* Two versions of a key never share a sequence number, on either engine:  *)
(* the guards alone order them (lock_kv_write_targets).                    *)
(***************************************************************************)
THEOREM VersionsAreOrdered == Spec => []VersionsOrdered
  <1>1. LedgerInv => VersionsOrdered
    BY DEF LedgerInv, VersionInv
  <1> QED
    BY <1>1, Invariance, PTL

-----------------------------------------------------------------------------
(* What the clients see.                                                   *)

(***************************************************************************)
(* On SQLite a space has one tip and its epochs grow along their parents   *)
(* (transact on the single connection).                                    *)
(***************************************************************************)
THEOREM HistoriesAreLinear == Spec => []HistoryIsLinear
  <1>1. ASSUME NEW T, \A i, j \in T : i = j
        PROVE  Cardinality(T) <= 1
    <2>1. CASE T = {}
      BY <2>1, FS_EmptySet, SMT
    <2>2. ASSUME NEW i \in T PROVE Cardinality(T) <= 1
      <3>1. T = {i}
        BY <1>1, <2>2
      <3>2. Cardinality({i}) = 1
        BY FS_Singleton, Zenon
      <3> QED
        BY <3>1, <3>2, SMT
    <2> QED
      BY <2>1, <2>2
  <1>2. LedgerInv => HistoryIsLinear
    BY <1>1 DEF LedgerInv, LinearInv, HistoryIsLinear
  <1> QED
    BY <1>2, Invariance, PTL

-----------------------------------------------------------------------------
(* The ledger implements the store.                                        *)

\* What a fresh commit leaves at the keys it writes.
LEMMA CommitApplies ==
    ASSUME LedgerInv, NEW r \in Requests, pc[r] = "commit", NEW ids \in NewIds(r), Commits(r, ids),
           Fresh(r), NEW k \in Written(r)
    PROVE  Current(k)' = Ops[Event(r)][k]
  <1>0. k \in Keys
    BY RequestFacts
  <1>1. CASE k \in Puts(r)
    <2>1. PICK w : /\ WritesOf(k)' = WritesOf(k) \cup {w}
                   /\ w.key = k /\ w.event = Event(r) /\ w.value = Ops[Event(r)][k]
                   /\ w.seq \in Nat /\ w.epoch \in Nat
                   /\ \A v \in WritesOf(k) : v.seq < w.seq
      BY <1>1, OneVersionAdded
    <2>2. \A v \in WritesOf(k)' : v.seq \in Nat /\ v.epoch \in Nat
      BY <2>1, SMT DEF LedgerInv, TypeOK, WritesOf, EpochIds
    <2>3. Latest(k)' = w
      BY <2>1, <2>2, LatestIsLast, ChoicesAreOfRows
    <2>4. \A t \in deletes : t.deleted # Event(r)
      BY DEF LedgerInv, VersionInv, Fresh
    <2>5. \A t \in NewDeletes(r) : t.key # k
      BY <1>1, DeleteFields, SMT DEF NewDeletes, Dels
    <2>6. ~Tombstoned(Latest(k))'
      BY <2>1, <2>3, <2>4, <2>5 DEF Tombstoned, Commits
    <2> QED
      BY <2>1, <2>3, <2>6 DEF Current
  <1>2. CASE k \in Dels(r)
    <2>1. Ops[Event(r)][k] = Absent
      BY <1>2 DEF Dels, Puts
    <2>2. WritesOf(k)' = WritesOf(k)
      BY <1>2, NoVersionAdded DEF Dels
    <2>3. Latest(k)' = Latest(k)
      BY <2>2, ChoicesAreOfRows
    <2>4. WritesOf(k) # {} /\ hidden[r][k] = Latest(k).event
      BY <1>2 DEF LedgerInv, SavedInv, Saved
    <2>5. Latest(k).key = k
      BY <1>0, <2>4, LatestVersion DEF LedgerInv, WritesOf
    <2>6. \E t \in deletes' : t.key = k /\ t.deleted = hidden[r][k]
      <3>1. DeleteRow(r, k) \in deletes'
        BY <1>2 DEF Commits, NewDeletes
      <3> QED
        BY <3>1, DeleteFields
    <2>7. Tombstoned(Latest(k))'
      BY <2>3, <2>4, <2>5, <2>6 DEF Tombstoned
    <2> QED
      BY <2>1, <2>7 DEF Current
  <1> QED
    BY <1>1, <1>2 DEF Dels

LEMMA StepRefines ==
    ASSUME LedgerInv, [Next]_vars
    PROVE  [Store!Next]_<<[k \in Keys |-> Current(k)], recorded>>
  <1> DEFINE live == [k \in Keys |-> Current(k)]
  <1>1. CASE UNCHANGED rows
    <2>1. \A k \in Keys : WritesOf(k)' = WritesOf(k) /\ TombsOf(k)' = TombsOf(k)
      BY <1>1 DEF rows, WritesOf, TombsOf
    <2>2. \A k \in Keys : Current(k)' = Current(k)
      BY <2>1, SameRowsSameValue
    <2> QED
      BY <1>1, <2>2 DEF rows
  <1>2. ASSUME NEW r \in Requests, pc[r] = "commit", NEW ids \in NewIds(r), Commits(r, ids)
        PROVE  Store!Apply(r) \/ UNCHANGED <<live, recorded>>
    <2>1. \A k \in Keys \ Written(r) : Current(k)' = Current(k)
      BY <1>2, OtherKeysStay
    <2>2. CASE Fresh(r)
      <3>1. \A k \in Written(r) : PreHolds(Request[r].pre, Current(k))
        BY <1>2 DEF LedgerInv, CheckedInv, Checked
      <3>2. \A k \in Written(r) : k \in Keys /\ Current(k)' = Ops[Event(r)][k]
        BY <1>2, <2>2, CommitApplies, RequestFacts
      <3>3. live' = [k \in Keys |-> IF k \in Written(r) THEN Ops[Event(r)][k] ELSE live[k]]
        BY <2>1, <3>2
      <3>4. \A k \in Written(r) : PreHolds(Request[r].pre, live[k])
        BY <3>1, <3>2
      <3>5. recorded' = recorded \cup {Event(r)} /\ Event(r) \notin recorded
        BY <1>2, <2>2 DEF Commits, Fresh
      <3> HIDE DEF live
      <3>6. Store!Apply(r)
        BY <3>3, <3>4, <3>5 DEF Store!Apply, Store!Written, Written, Store!PreHolds, PreHolds, Event, live
      <3> QED
        BY <3>6
    <2>3. CASE ~Fresh(r)
      <3>1. writes' = writes /\ deletes' = deletes /\ recorded' = recorded
        BY <1>2, <2>3 DEF Commits, Fresh
      <3>2. \A k \in Keys : WritesOf(k)' = WritesOf(k) /\ TombsOf(k)' = TombsOf(k)
        BY <3>1 DEF WritesOf, TombsOf
      <3>3. \A k \in Keys : Current(k)' = Current(k)
        BY <3>2, SameRowsSameValue
      <3> QED
        BY <3>1, <3>3
    <2> QED
      BY <2>2, <2>3
  <1> QED
    BY <1>1, <1>2, OnlyCommitsWrite, CommitWrites DEF LedgerInv, Store!Next

(***************************************************************************)
(* Reading the live values is reading a map to which every accepted event  *)
(* is applied once and whole, at its commit, under its precondition: no    *)
(* update is lost, no deletion uncovers an older version, and no replay,   *)
(* failure or restart shows in part.                                       *)
(***************************************************************************)
THEOREM LedgerImplementsStore == Spec => ImplementsKvStore
  <1>1. Init => Store!Init
    BY DEF Init, Store!Init, Current, WritesOf
  <1>2. LedgerInv /\ [Next]_vars => [Store!Next]_<<[k \in Keys |-> Current(k)], recorded>>
    BY StepRefines
  <1> QED
    BY <1>1, <1>2, Invariance, PTL DEF Spec, ImplementsKvStore, Store!Spec

-----------------------------------------------------------------------------
(* Listing and reading agree.                                              *)

\* The first keys of a set, as many as the limit.
FirstOf(L, limit) == {k \in L : Cardinality({j \in L : j < k}) < limit}

LEMMA MoreBelow ==
    ASSUME NEW L, L \subseteq Nat, IsFiniteSet(L), NEW j \in L, NEW k \in L, j < k
    PROVE  /\ Cardinality({i \in L : i < j}) \in Nat /\ Cardinality({i \in L : i < k}) \in Nat
           /\ Cardinality({i \in L : i < j}) < Cardinality({i \in L : i < k})
  <1> DEFINE J == {i \in L : i < j}
             K == {i \in L : i < k}
  <1>1. IsFiniteSet(J) /\ IsFiniteSet(K)
    <2>1. J \subseteq L /\ K \subseteq L
      OBVIOUS
    <2> QED
      BY <2>1, FS_Subset
  <1>2. J \subseteq K /\ j \in K /\ j \notin J
    <2>1. \A i \in L : i \in Nat
      OBVIOUS
    <2>2. \A i \in L : i < j => i < k
      BY <2>1, SMT
    <2>3. ~(j < j)
      BY <2>1, SMT
    <2> QED
      BY <2>2, <2>3
  <1> HIDE DEF J, K
  <1>3. Cardinality(J) \in Nat /\ Cardinality(K) \in Nat
    BY <1>1, FS_CardinalityType
  <1>4. Cardinality(J) <= Cardinality(K) /\ (Cardinality(J) = Cardinality(K) => J = K)
    BY <1>1, <1>2, FS_Subset
  <1>5. Cardinality(J) # Cardinality(K)
    BY <1>2, <1>4
  <1>6. Cardinality(J) < Cardinality(K)
    BY <1>3, <1>4, <1>5, SMT
  <1> QED
    BY <1>3, <1>6 DEF J, K

LEMMA LeastOf ==
    ASSUME NEW T, T \subseteq Nat, T # {}
    PROVE  \E x \in T : \A y \in T : x <= y
  <1>1. PICK x \in T : \A y \in T : <<y, x>> \notin OpToRel(<, Nat)
    BY WFMin, NatLessThanWellFounded
  <1>2. \A y \in T : ~(y < x)
    BY <1>1 DEF OpToRel
  <1> QED
    BY <1>2, SMT

LEMMA GreatestOf ==
    ASSUME NEW L, L \subseteq Nat, IsFiniteSet(L), L # {}
    PROVE  \E m \in L : \A k \in L : k <= m
  <1> DEFINE below(k) == Cardinality({j \in L : j < k})
             above == {Cardinality(L) - below(k) : k \in L}
  <1>1. \A k \in L : below(k) \in Nat /\ below(k) <= Cardinality(L)
    <2> SUFFICES ASSUME NEW k \in L PROVE below(k) \in Nat /\ below(k) <= Cardinality(L)
      OBVIOUS
    <2>1. {j \in L : j < k} \subseteq L
      OBVIOUS
    <2> QED
      BY <2>1, FS_Subset, FS_CardinalityType
  <1>2. Cardinality(L) \in Nat
    BY FS_CardinalityType
  <1>3. \A j, k \in L : j < k => below(j) < below(k)
    BY MoreBelow
  <1> HIDE DEF below
  <1>4. above \subseteq Nat /\ above # {}
    <2>1. \A k \in L : Cardinality(L) - below(k) \in Nat
      BY <1>1, <1>2, SMT
    <2> QED
      BY <2>1
  <1>5. PICK x \in above : \A y \in above : x <= y
    BY <1>4, LeastOf
  <1>6. PICK m \in L : x = Cardinality(L) - below(m)
    BY <1>5
  <1>7. \A k \in L : Cardinality(L) - below(m) <= Cardinality(L) - below(k)
    BY <1>5, <1>6
  <1>8. \A k \in L : below(k) <= below(m)
    BY <1>1, <1>2, <1>7, SMT
  <1>9. \A k \in L : ~(m < k)
    BY <1>1, <1>3, <1>8, SMT
  <1> QED
    BY <1>9, SMT

\* A page is a first part of the set, and all of it exactly when the limit allows.
LEMMA FirstFacts ==
    ASSUME NEW L, L \subseteq Nat, IsFiniteSet(L), NEW limit \in Nat
    PROVE  /\ \A k \in L \ FirstOf(L, limit), j \in FirstOf(L, limit) : j < k
           /\ Cardinality(L) > limit <=> FirstOf(L, limit) # L
  <1> DEFINE below(k) == {j \in L : j < k}
  <1>1. \A k \in L : Cardinality(below(k)) \in Nat
    <2> SUFFICES ASSUME NEW k \in L PROVE Cardinality(below(k)) \in Nat
      OBVIOUS
    <2>1. below(k) \subseteq L
      OBVIOUS
    <2> QED
      BY <2>1, FS_Subset, FS_CardinalityType
  <1>2. Cardinality(L) \in Nat
    BY FS_CardinalityType
  <1>3. FirstOf(L, limit) = {k \in L : Cardinality(below(k)) < limit}
    BY DEF FirstOf
  <1>4. \A j, k \in L : j < k => Cardinality(below(j)) < Cardinality(below(k))
    BY MoreBelow
  <1>5. \A k \in L \ FirstOf(L, limit), j \in FirstOf(L, limit) : j < k
    <2> HIDE DEF below
    <2> SUFFICES ASSUME NEW k \in L \ FirstOf(L, limit), NEW j \in FirstOf(L, limit) PROVE j < k
      OBVIOUS
    <2>1. j \in L /\ Cardinality(below(j)) < limit /\ ~(Cardinality(below(k)) < limit)
      BY <1>3
    <2>2. ~(k < j)
      BY <1>1, <1>4, <2>1, SMT
    <2>3. j \in Nat /\ k \in Nat /\ j # k
      BY <2>1
    <2> QED
      BY <2>2, <2>3, SMT
  <1>6. \A k \in L : Cardinality(below(k)) < Cardinality(L)
    <2> SUFFICES ASSUME NEW k \in L PROVE Cardinality(below(k)) < Cardinality(L)
      OBVIOUS
    <2>1. below(k) \subseteq L
      OBVIOUS
    <2>2. ~(k < k)
      BY SMT
    <2>3. k \notin below(k)
      BY <2>2
    <2> HIDE DEF below
    <2>4. Cardinality(below(k)) <= Cardinality(L) /\ Cardinality(below(k)) # Cardinality(L)
      BY <2>1, <2>3, FS_Subset
    <2> QED
      BY <1>1, <1>2, <2>4, SMT
  <1>7. ASSUME Cardinality(L) > limit PROVE FirstOf(L, limit) # L
    <2>1. L # {}
      BY <1>2, <1>7, FS_EmptySet, SMT
    <2>2. PICK m \in L : \A k \in L : k <= m
      BY <2>1, GreatestOf
    <2>3. below(m) = L \ {m}
      <3>1. \A k \in L : k < m <=> k # m
        BY <2>2, SMT
      <3> QED
        BY <3>1
    <2>4. Cardinality(L \ {m}) = Cardinality(L) - 1
      BY <2>2, FS_RemoveElement
    <2>5. ~(Cardinality(below(m)) < limit)
      BY <1>2, <1>7, <2>3, <2>4, SMT
    <2> QED
      BY <1>3, <2>5
  <1>8. ASSUME FirstOf(L, limit) # L PROVE Cardinality(L) > limit
    <2> HIDE DEF below
    <2>1. PICK k \in L : ~(Cardinality(below(k)) < limit)
      BY <1>3, <1>8
    <2> QED
      BY <1>1, <1>2, <1>6, <2>1, SMT
  <1> QED
    BY <1>5, <1>7, <1>8

\* The keys listed are the keys that can be read.
LEMMA ListedAreLive ==
    ASSUME LedgerInv, NEW s \in Spaces
    PROVE  List(s) = {k \in Keys : SpaceOf[k] = s /\ Current(k) # Absent}
  <1>1. \A w \in writes : w.key \in Keys /\ w.value # Absent /\ w.seq \in Nat /\ w.epoch \in Nat
    BY KvAssumption, SMT DEF LedgerInv, TypeOK, EpochIds
  <1>2. ASSUME NEW w \in writes, ~Tombstoned(w), ~\E v \in writes : v.key = w.key /\ Newer(v, w)
        PROVE  w.key \in Keys /\ Current(w.key) # Absent
    <2>1. w.key \in Keys /\ w \in WritesOf(w.key)
      BY <1>1 DEF WritesOf
    <2>2. /\ Latest(w.key) \in WritesOf(w.key)
          /\ \A v \in WritesOf(w.key) : v # Latest(w.key) => v.seq < Latest(w.key).seq
      BY <2>1, LatestVersion DEF LedgerInv
    <2>3. Latest(w.key) \in writes /\ Latest(w.key).key = w.key
      BY <2>2 DEF WritesOf
    <2>4. Latest(w.key) = w
      BY <1>1, <1>2, <2>1, <2>2, <2>3 DEF Newer
    <2> QED
      BY <1>1, <1>2, <2>1, <2>4 DEF Current
  <1>3. ASSUME NEW k \in Keys, Current(k) # Absent
        PROVE  \E w \in writes : /\ w.key = k /\ ~Tombstoned(w)
                                 /\ ~\E v \in writes : v.key = w.key /\ Newer(v, w)
    <2>1. WritesOf(k) # {} /\ ~Tombstoned(Latest(k))
      BY <1>3 DEF Current
    <2>2. Latest(k) \in WritesOf(k) /\ \A v \in WritesOf(k) : v # Latest(k) => v.seq < Latest(k).seq
      BY <2>1, LatestVersion DEF LedgerInv
    <2>3. Latest(k) \in writes /\ Latest(k).key = k
      BY <2>2 DEF WritesOf
    <2>4. \A v \in writes : v.key = k => ~Newer(v, Latest(k))
      <3> SUFFICES ASSUME NEW v \in writes, v.key = k PROVE ~Newer(v, Latest(k))
        OBVIOUS
      <3>1. v = Latest(k) \/ v.seq < Latest(k).seq
        BY <2>2 DEF WritesOf
      <3> QED
        BY <1>1, <2>3, <3>1, SMT DEF Newer
    <2> QED
      BY <2>1, <2>3, <2>4
  <1> QED
    BY <1>2, <1>3 DEF List

(***************************************************************************)
(* A page of a listing is the first of the keys that can be read, and says *)
(* truly whether there are more, for any number of keys and any limit      *)
(* (list_bounded against get_kv_entity).                                   *)
(***************************************************************************)
THEOREM ListingsAreExact == Spec => []ListingExact
  <1>1. ASSUME LedgerInv PROVE ListingExact
    <2> SUFFICES ASSUME NEW s \in Spaces, NEW limit \in 1..Cardinality(Keys)
                 PROVE  LET live == {k \in Keys : SpaceOf[k] = s /\ Current(k) # Absent}
                        IN  /\ Page(s, limit) \subseteq live
                            /\ Truncated(s, limit) <=> Page(s, limit) # live
                            /\ \A k \in live \ Page(s, limit), j \in Page(s, limit) : j < k
      BY DEF ListingExact
    <2> DEFINE live == {k \in Keys : SpaceOf[k] = s /\ Current(k) # Absent}
    <2>1. live \subseteq Keys
      OBVIOUS
    <2>2. List(s) = live
      BY <1>1, ListedAreLive
    <2> HIDE DEF live
    <2>3. live \subseteq Nat /\ IsFiniteSet(live)
      BY <2>1, KvAssumption, FS_Subset
    <2>4. Page(s, limit) = FirstOf(live, limit) /\ (Truncated(s, limit) <=> Cardinality(live) > limit)
      BY <2>2 DEF Page, FirstOf, Truncated
    <2>5. limit \in Nat
      BY KvAssumption, FS_CardinalityType, SMT
    <2>6. FirstOf(live, limit) \subseteq live
      BY DEF FirstOf
    <2> QED
      BY <2>3, <2>4, <2>5, <2>6, FirstFacts DEF live
  <1> QED
    BY <1>1, Invariance, PTL

=============================================================================
