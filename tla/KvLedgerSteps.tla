--------------------------- MODULE KvLedgerSteps ----------------------------
(***************************************************************************)
(* What the steps of KvLedger do: the inductive invariant of the ledger,   *)
(* the statements a request passes, the rows a commit adds, that types,    *)
(* guards and the connection keep their part of the invariant, and that    *)
(* what a request read of the keys it guards stays true.                   *)
(***************************************************************************)
EXTENDS KvLedger, TLAPS

\* First-order reasoning, unless a step names another prover.
USE Zenon

-----------------------------------------------------------------------------
(* The inductive invariant.                                                *)

\* The requests that have decided their precondition, read their sequence
\* numbers, read the tips as well, and found what their deletions hide.
Checked == {"seq", "tips", "save", "persist", "commit"}
Numbered == {"tips", "save", "persist", "commit"}
Tipped == {"save", "persist", "commit"}
Saved == {"persist", "commit"}

GuardInv ==
    /\ \A r, q \in Requests : r # q => held[r] \cap held[q] = {}
    /\ \A r \in Requests : held[r] \subseteq Written(r)
    /\ \A r \in Requests : pc[r] \in InTransaction => held[r] = Written(r)

ConnInv ==
    SingleConnection => \A r \in Requests : pc[r] \in InTransaction => conn = r

\* Every version of a key is in the history of its space, and one is the last.
VersionInv ==
    /\ VersionsOrdered
    /\ \A w \in writes : w.event \in recorded
    /\ \A t \in deletes : t.deleted \in recorded
    /\ \A w \in writes : \E e \in EpochsOf(SpaceOf[w.key]) : e.seq = w.seq
    /\ \A k \in Keys : WritesOf(k) # {} =>
          \E w \in WritesOf(k) : \A v \in WritesOf(k) : v.seq <= w.seq

EpochInv ==
    /\ \A f \in epochs : f.parents \subseteq {e.id : e \in epochs}
    /\ \A s \in Spaces : EpochsOf(s) # {} =>
          \E e \in EpochsOf(s) : \A f \in EpochsOf(s) : f.seq <= e.seq

\* What a request has read, as far as it is still true.
CheckedInv ==
    \A r \in Requests : pc[r] \in Checked =>
        \A k \in Written(r) : PreHolds(Request[r].pre, Current(k))

NumberedInv ==
    \A r \in Requests : pc[r] \in Numbered =>
        /\ DOMAIN seqs[r] \subseteq hosted \cup NewSpaces(r)
        /\ Event(r) \notin DOMAIN Hosts => DOMAIN seqs[r] = Touches[Event(r)]
        /\ \A k \in Written(r) : \A w \in WritesOf(k) : w.seq < seqs[r][SpaceOf[k]]

TippedInv ==
    \A r \in Requests : pc[r] \in Tipped =>
        /\ DOMAIN tips[r] = DOMAIN seqs[r]
        /\ \A s \in DOMAIN tips[r] : tips[r][s] \subseteq {e.id : e \in epochs}

SavedInv ==
    \A r \in Requests : pc[r] \in Saved =>
        /\ staged[r] \subseteq Puts(r)
        /\ \A k \in Puts(r) \ staged[r] : <<SpaceOf[k], Ops[Event(r)][k]>> \in blobs
        /\ pc[r] = "commit" => staged[r] = {}
        /\ Fresh(r) => \A k \in Dels(r) :
              WritesOf(k) # {} /\ k \in DOMAIN hidden[r] /\ hidden[r][k] = Latest(k).event

\* On SQLite nothing of a space changes under a transaction.
SerialInv ==
    SingleConnection => \A r \in Requests :
        /\ pc[r] \in Numbered => \A s \in DOMAIN seqs[r] : seqs[r][s] = NextSeq(s)
        /\ pc[r] \in Tipped => \A s \in DOMAIN tips[r] : tips[r][s] = Tips(s)

LinearInv ==
    SingleConnection =>
    /\ \A s \in Spaces : \A i, j \in Tips(s) : i = j
    /\ \A e, f \in epochs : e.space = f.space /\ e.id \in f.parents => e.seq < f.seq

LedgerInv ==
    /\ TypeOK /\ GuardInv /\ ConnInv
    /\ VersionInv /\ EpochInv /\ RowsHaveBlobs /\ OrderedWhereHosted
    /\ CheckedInv /\ NumberedInv /\ TippedInv /\ SavedInv
    /\ SerialInv /\ LinearInv

-----------------------------------------------------------------------------
(* What the constants say of a request, and what the choices choose.       *)

LEMMA RequestFacts ==
    ASSUME NEW r \in Requests
    PROVE  /\ Event(r) \in Events
           /\ Request[r].pre \in {"none", "absent"} \cup Values
           /\ Written(r) \subseteq Keys
           /\ \A k \in Written(r) : SpaceOf[k] \in Spaces /\ SpaceOf[k] \in Touches[Event(r)]
           /\ \A k \in Written(r) : Ops[Event(r)][k] \in Values \cup {Absent}
           /\ Touches[Event(r)] \subseteq Spaces
           /\ NewSpaces(r) \subseteq Touches[Event(r)]
           /\ Event(r) \in DOMAIN Hosts => Written(r) = {} /\ Event(r) \notin Cached
  BY KvAssumption, LedgerAssumption DEF Event, Written, NewSpaces

\* The latest of a set of versions and the number after a set of epochs, as
\* functions of the set alone.
LatestIn(W) == CHOOSE w \in W : \A v \in W : ~Newer(v, w)
NumberAfter(E) == IF E = {} THEN 0 ELSE (CHOOSE e \in E : \A f \in E : f.seq <= e.seq).seq + 1
TipsIn(E) == {e.id : e \in {e \in E : \A f \in E : e.id \notin f.parents}}

LEMMA ChoicesAreOfRows ==
    /\ \A k : Latest(k) = LatestIn(WritesOf(k)) /\ Latest(k)' = LatestIn(WritesOf(k)')
    /\ \A s : NextSeq(s) = NumberAfter(EpochsOf(s)) /\ NextSeq(s)' = NumberAfter(EpochsOf(s)')
    /\ \A s : Tips(s) = TipsIn(EpochsOf(s)) /\ Tips(s)' = TipsIn(EpochsOf(s)')
  BY DEF Latest, LatestIn, Newer, NextSeq, NumberAfter, Tips, TipsIn

LEMMA LatestIsLast ==
    ASSUME NEW W, \A w \in W : w.seq \in Nat /\ w.epoch \in Nat,
           NEW w \in W, \A v \in W : v # w => v.seq < w.seq
    PROVE  LatestIn(W) = w
  <1>1. \A v \in W : ~Newer(v, w)
    BY SMT DEF Newer
  <1>2. \A u \in W : (\A v \in W : ~Newer(v, u)) => u = w
    BY DEF Newer
  <1> QED
    BY <1>1, <1>2 DEF LatestIn

LEMMA NumberIsNew ==
    ASSUME NEW E, \A e \in E : e.seq \in Nat,
           E # {} => \E e \in E : \A f \in E : f.seq <= e.seq
    PROVE  NumberAfter(E) \in Nat /\ \A e \in E : e.seq < NumberAfter(E)
  <1>1. CASE E = {}
    BY <1>1 DEF NumberAfter
  <1>2. CASE E # {}
    <2> DEFINE last == CHOOSE e \in E : \A f \in E : f.seq <= e.seq
    <2>1. last \in E /\ \A f \in E : f.seq <= last.seq
      BY <1>2
    <2>2. NumberAfter(E) = last.seq + 1
      BY <1>2 DEF NumberAfter
    <2> HIDE DEF last
    <2> QED
      BY <2>1, <2>2, SMT
  <1> QED
    BY <1>1, <1>2

\* The versions of one key: the last of them is the one that is read.
LEMMA LatestVersion ==
    ASSUME TypeOK, VersionInv, NEW k \in Keys, WritesOf(k) # {}
    PROVE  /\ Latest(k) \in WritesOf(k)
           /\ \A v \in WritesOf(k) : v # Latest(k) => v.seq < Latest(k).seq
  <1>1. PICK w \in WritesOf(k) : \A v \in WritesOf(k) : v.seq <= w.seq
    BY DEF VersionInv
  <1>2. \A v \in WritesOf(k) : v.seq \in Nat /\ v.epoch \in Nat
    BY SMT DEF TypeOK, WritesOf, EpochIds
  <1>3. \A v \in WritesOf(k) : v # w => v.seq < w.seq
    BY <1>1, <1>2, SMT DEF VersionInv, VersionsOrdered, WritesOf
  <1>4. Latest(k) = w
    BY <1>2, <1>3, LatestIsLast, ChoicesAreOfRows
  <1> QED
    BY <1>3, <1>4

LEMMA NextNumber ==
    ASSUME TypeOK, EpochInv, NEW s \in Spaces
    PROVE  NextSeq(s) \in Nat /\ \A e \in EpochsOf(s) : e.seq < NextSeq(s)
  <1>1. \A e \in EpochsOf(s) : e.seq \in Nat
    BY DEF TypeOK, EpochsOf
  <1>2. EpochsOf(s) # {} => \E e \in EpochsOf(s) : \A f \in EpochsOf(s) : f.seq <= e.seq
    BY DEF EpochInv
  <1> QED
    BY <1>1, <1>2, NumberIsNew, ChoicesAreOfRows

-----------------------------------------------------------------------------
(* A step of one request leaves the others where they are.                 *)

Stays(q) ==
    /\ pc'[q] = pc[q] /\ held'[q] = held[q]
    /\ seqs'[q] = seqs[q] /\ tips'[q] = tips[q]
    /\ hidden'[q] = hidden[q] /\ staged'[q] = staged[q]

LEMMA RepliesAlone ==
    ASSUME TypeOK, NEW r \in Requests, NEW out, Reply(r, out)
    PROVE  pc'[r] = "done" /\ \A q \in Requests \ {r} : Stays(q)
  BY DEF TypeOK, Reply, Stays

LEMMA OthersStay ==
    ASSUME TypeOK, NEW r \in Requests, Serve(r), NEW q \in Requests, q # r
    PROVE  Stays(q)
  <1>0. (\E out : Reply(r, out)) => Stays(q)
    BY RepliesAlone
  <1>1. CASE Arrive(r)
    BY <1>0, <1>1 DEF Arrive, TypeOK, Goto, locals, Stays
  <1>2. CASE LockNext(r)
    BY <1>2 DEF LockNext, TypeOK, Stays
  <1>3. CASE Begin(r)
    BY <1>3 DEF Begin, TypeOK, Goto, locals, Stays
  <1>4. CASE ReadCurrent(r)
    <2>1. \/ \E out : Reply(r, out)
          \/ /\ seqs' = [seqs EXCEPT ![r] = SeqsRead(r)] /\ tips' = [tips EXCEPT ![r] = TipsRead(Ordered(r))]
             /\ pc' = [pc EXCEPT ![r] = "save"] /\ UNCHANGED <<held, hidden, staged>>
          \/ pc' = [pc EXCEPT ![r] = "seq"] /\ UNCHANGED locals
      BY <1>4 DEF ReadCurrent, Goto
    <2> QED
      BY <1>0, <2>1 DEF TypeOK, locals, Stays
  <1>5. CASE ReadSeq(r)
    BY <1>0, <1>5 DEF ReadSeq, TypeOK, Goto, Stays
  <1>6. CASE ReadTips(r)
    BY <1>6 DEF ReadTips, TypeOK, Goto, Stays
  <1>7. CASE Save(r)
    BY <1>0, <1>7 DEF Save, TypeOK, Goto, Stays
  <1>8. CASE Persist(r)
    BY <1>8 DEF Persist, TypeOK, Goto, locals, Stays
  <1>9. CASE Commit(r)
    BY <1>0, <1>9 DEF Commit
  <1>10. CASE Fail(r)
    BY <1>0, <1>10 DEF Fail
  <1> QED
    BY <1>1, <1>2, <1>3, <1>4, <1>5, <1>6, <1>7, <1>8, <1>9, <1>10 DEF Serve

\* Only a commit writes rows.
LEMMA OnlyCommitsWrite ==
    ASSUME [Next]_vars
    PROVE  /\ load' = load
           /\ UNCHANGED rows \/ \E r \in Requests : Commit(r)
  <1>1. CASE UNCHANGED vars
    BY <1>1 DEF vars
  <1>2. CASE Restart /\ UNCHANGED load
    BY <1>2 DEF Restart
  <1>3. ASSUME NEW r \in Requests, Serve(r), UNCHANGED load
        PROVE  UNCHANGED rows \/ Commit(r)
    BY <1>3 DEF Serve, Arrive, LockNext, Begin, ReadCurrent, ReadSeq, ReadTips, Save, Persist, Fail
  <1> QED
    BY <1>1, <1>2, <1>3 DEF Next, Finished, vars

-----------------------------------------------------------------------------
(* How a request may get to where it is after a step.                      *)

Enters(q) ==
    pc'[q] \in InTransaction =>
        /\ held'[q] = held[q]
        /\ \/ pc[q] \in InTransaction
           \/ /\ held[q] = Written(q)
              /\ SingleConnection => conn = NoRequest /\ conn' = q

Checks(q) ==
    pc'[q] \in Checked =>
        \/ pc[q] \in Checked
        \/ /\ pc[q] = "read" /\ UNCHANGED rows
           /\ \A k \in Written(q) : PreHolds(Request[q].pre, Current(k))

Numbers(q) ==
    pc'[q] \in Numbered =>
        \/ pc[q] \in Numbered /\ seqs'[q] = seqs[q]
        \/ pc[q] \in {"read", "seq"} /\ UNCHANGED rows /\ SpacesFound(q) /\ seqs'[q] = SeqsRead(q)

TakesTips(q) ==
    pc'[q] \in Tipped =>
        \/ pc[q] \in Tipped /\ seqs'[q] = seqs[q] /\ tips'[q] = tips[q]
        \/ pc[q] \in {"read", "tips"} /\ UNCHANGED rows /\ tips'[q] = TipsRead(DOMAIN seqs'[q])

Saves(q) ==
    pc'[q] \in Saved =>
        \/ /\ pc[q] \in Saved /\ hidden'[q] = hidden[q] /\ staged'[q] \subseteq staged[q]
           /\ \A k \in staged[q] \ staged'[q] : <<SpaceOf[k], Ops[Event(q)][k]>> \in blobs'
           /\ pc'[q] = "commit" => staged'[q] = {} \/ (pc[q] = "commit" /\ staged'[q] = staged[q])
        \/ /\ pc[q] = "save" /\ pc'[q] = "persist" /\ UNCHANGED rows
           /\ ~SaveFails(q) /\ staged'[q] = Puts(q)
           /\ hidden'[q] = IF Fresh(q) THEN [k \in Dels(q) |-> Latest(k).event] ELSE Nothing

Moves(q) == Enters(q) /\ Checks(q) /\ Numbers(q) /\ TakesTips(q) /\ Saves(q)

\* Outside a transaction there is nothing to show.
LEMMA OutsideTransactions ==
    ASSUME NEW q, pc'[q] \notin InTransaction
    PROVE  Moves(q)
  BY DEF Moves, Enters, Checks, Numbers, TakesTips, Saves,
         InTransaction, Checked, Numbered, Tipped, Saved

LEMMA Transitions ==
    ASSUME TypeOK, [Next]_vars, NEW q \in Requests
    PROVE  Moves(q)
  <1>0. pc'[q] \in {"idle", "lock", "done"} => Moves(q)
    BY OutsideTransactions DEF InTransaction
  <1>1. CASE UNCHANGED vars
    BY <1>1 DEF vars, locals, Moves, Enters, Checks, Numbers, TakesTips, Saves
  <1>2. CASE Restart
    BY <1>0, <1>2 DEF Restart, InFlight, TypeOK
  <1>3. ASSUME NEW r \in Requests, Serve(r), r # q PROVE Moves(q)
    BY <1>3, OthersStay DEF Stays, Moves, Enters, Checks, Numbers, TakesTips, Saves
  <1>4. ASSUME Serve(q) PROVE Moves(q)
    <2>0. (\E out : Reply(q, out)) => Moves(q)
      BY <1>0, RepliesAlone
    <2>1. CASE Arrive(q)
      BY <1>0, <2>0, <2>1 DEF Arrive, Goto, TypeOK
    <2>2. CASE LockNext(q)
      BY <1>0, <2>2 DEF LockNext
    <2>3. CASE Begin(q)
      BY <2>3 DEF Begin, Goto, TypeOK, locals, Moves, Enters, Checks, Numbers, TakesTips, Saves,
                  InTransaction, Checked, Numbered, Tipped, Saved
    <2>4. CASE ReadCurrent(q)
      <3>1. DOMAIN SeqsRead(q) = Ordered(q)
        BY DEF SeqsRead
      <3>2. CASE \E out : Reply(q, out)
        BY <2>0, <3>2
      <3>3. ASSUME ~\E out : Reply(q, out)
            PROVE  /\ UNCHANGED rows /\ pc[q] = "read" /\ held' = held
                   /\ \A k \in Written(q) : PreHolds(Request[q].pre, Current(k))
                   /\ \/ pc'[q] = "seq"
                      \/ /\ pc'[q] = "save" /\ SpacesFound(q)
                         /\ seqs'[q] = SeqsRead(q) /\ tips'[q] = TipsRead(Ordered(q))
        BY <2>4, <3>3 DEF ReadCurrent, Goto, TypeOK, locals
      <3> QED
        BY <3>1, <3>2, <3>3 DEF Moves, Enters, Checks, Numbers, TakesTips, Saves,
                                InTransaction, Checked, Numbered, Tipped, Saved
    <2>5. CASE ReadSeq(q)
      BY <2>0, <2>5 DEF ReadSeq, Goto, TypeOK, Moves, Enters, Checks, Numbers, TakesTips, Saves,
                        InTransaction, Checked, Numbered, Tipped, Saved
    <2>6. CASE ReadTips(q)
      BY <2>6 DEF ReadTips, Goto, TypeOK, Moves, Enters, Checks, Numbers, TakesTips, Saves,
                  InTransaction, Checked, Numbered, Tipped, Saved
    <2>7. CASE Save(q)
      BY <2>0, <2>7 DEF Save, Goto, TypeOK, Moves, Enters, Checks, Numbers, TakesTips, Saves,
                        InTransaction, Checked, Numbered, Tipped, Saved
    <2>8. CASE Persist(q)
      <3>1. /\ pc[q] = "persist" /\ pc'[q] \in {"persist", "commit"}
            /\ held' = held /\ seqs' = seqs /\ tips' = tips /\ hidden' = hidden
        BY <2>8 DEF Persist, Goto, TypeOK, locals
      <3>2. /\ staged'[q] \subseteq staged[q]
            /\ \A k \in staged[q] \ staged'[q] : <<SpaceOf[k], Ops[Event(q)][k]>> \in blobs'
            /\ pc'[q] = "commit" => staged'[q] = {}
        BY <2>8, SMT DEF Persist, Goto, TypeOK, locals
      <3>3. Saves(q)
        BY <3>1, <3>2 DEF Saves, Saved
      <3> QED
        BY <3>1, <3>3 DEF Moves, Enters, Checks, Numbers, TakesTips,
                          InTransaction, Checked, Numbered, Tipped
    <2>9. CASE Commit(q)
      BY <2>0, <2>9 DEF Commit
    <2>10. CASE Fail(q)
      BY <2>0, <2>10 DEF Fail
    <2> QED
      BY <1>4, <2>1, <2>2, <2>3, <2>4, <2>5, <2>6, <2>7, <2>8, <2>9, <2>10 DEF Serve
  <1> QED
    BY <1>1, <1>2, <1>3, <1>4 DEF Next, Finished

-----------------------------------------------------------------------------
(* What a commit writes.                                                   *)

EpochRow(r, ids, s) ==
    [space |-> s, id |-> ids[s], seq |-> seqs[r][s], parents |-> tips[r][s], event |-> Event(r)]

WriteRow(r, ids, k) ==
    [key |-> k, event |-> Event(r), value |-> Ops[Event(r)][k],
     seq |-> seqs[r][SpaceOf[k]], epoch |-> ids[SpaceOf[k]]]

DeleteRow(r, k) == [key |-> k, event |-> Event(r), deleted |-> hidden[r][k]]

NewEpochs(r, ids) == {EpochRow(r, ids, s) : s \in DOMAIN seqs[r]}
NewWrites(r, ids) == {WriteRow(r, ids, k) : k \in Puts(r)}
NewDeletes(r) == {DeleteRow(r, k) : k \in Dels(r)}

Commits(r, ids) ==
    /\ epochs' = epochs \cup NewEpochs(r, ids)
    /\ writes' = writes \cup (IF Fresh(r) THEN NewWrites(r, ids) ELSE {})
    /\ deletes' = deletes \cup (IF Fresh(r) THEN NewDeletes(r) ELSE {})
    /\ recorded' = recorded \cup {Event(r)}
    /\ hosted' = hosted \cup NewSpaces(r)

LEMMA EpochFields ==
    ASSUME NEW r, NEW ids, NEW s
    PROVE  /\ EpochRow(r, ids, s).space = s
           /\ EpochRow(r, ids, s).id = ids[s]
           /\ EpochRow(r, ids, s).seq = seqs[r][s]
           /\ EpochRow(r, ids, s).parents = tips[r][s]
           /\ EpochRow(r, ids, s).event = Event(r)
  BY DEF EpochRow

LEMMA WriteFields ==
    ASSUME NEW r, NEW ids, NEW k
    PROVE  /\ WriteRow(r, ids, k).key = k
           /\ WriteRow(r, ids, k).event = Event(r)
           /\ WriteRow(r, ids, k).value = Ops[Event(r)][k]
           /\ WriteRow(r, ids, k).seq = seqs[r][SpaceOf[k]]
  BY DEF WriteRow

LEMMA DeleteFields ==
    ASSUME NEW r, NEW k
    PROVE  DeleteRow(r, k).key = k /\ DeleteRow(r, k).deleted = hidden[r][k]
  BY DEF DeleteRow

\* The rows after a commit are those before and the new ones.
LEMMA CommittedEpochs ==
    ASSUME NEW r, NEW ids, Commits(r, ids)
    PROVE  /\ epochs \subseteq epochs'
           /\ \A s \in DOMAIN seqs[r] : EpochRow(r, ids, s) \in epochs'
           /\ \A e \in epochs' : e \in epochs \/ \E s \in DOMAIN seqs[r] : e = EpochRow(r, ids, s)
  BY DEF Commits, NewEpochs

LEMMA CommittedWrites ==
    ASSUME NEW r, NEW ids, Commits(r, ids)
    PROVE  /\ writes \subseteq writes'
           /\ Fresh(r) => \A k \in Puts(r) : WriteRow(r, ids, k) \in writes'
           /\ \A w \in writes' : w \in writes \/ (Fresh(r) /\ \E k \in Puts(r) : w = WriteRow(r, ids, k))
  BY DEF Commits, NewWrites

LEMMA CommittedDeletes ==
    ASSUME NEW r, NEW ids, Commits(r, ids)
    PROVE  /\ deletes \subseteq deletes'
           /\ \A t \in deletes' : t \in deletes \/ (Fresh(r) /\ \E k \in Dels(r) : t = DeleteRow(r, k))
  BY DEF Commits, NewDeletes

\* A request that commits has read a number for the space of every key.
LEMMA KeysNumbered ==
    ASSUME NumberedInv, NEW r \in Requests, pc[r] \in Numbered
    PROVE  \A k \in Written(r) : SpaceOf[k] \in DOMAIN seqs[r]
  BY RequestFacts DEF NumberedInv

LEMMA CommitWrites ==
    ASSUME TypeOK, NEW r \in Requests, Commit(r)
    PROVE  /\ pc[r] = "commit" /\ pc'[r] = "done" /\ UNCHANGED blobs
           /\ UNCHANGED rows \/ \E ids \in NewIds(r) : Commits(r, ids)
  <1>1. pc[r] = "commit" /\ pc'[r] = "done" /\ UNCHANGED blobs
    BY DEF Commit, Reply, TypeOK
  <1>2. CASE EpochExists(r)
    BY <1>1, <1>2 DEF Commit
  <1>3. CASE ~EpochExists(r)
    BY <1>1, <1>3 DEF Commit, Commits, NewEpochs, NewWrites, NewDeletes, EpochRow, WriteRow, DeleteRow
  <1> QED
    BY <1>1, <1>2, <1>3

LEMMA NewRowsTyped ==
    ASSUME LedgerInv, NEW r \in Requests, pc[r] = "commit", NEW ids \in NewIds(r)
    PROVE  /\ NewEpochs(r, ids) \subseteq
                 [space : Spaces, id : EpochIds, seq : Nat, parents : SUBSET EpochIds, event : Events]
           /\ NewWrites(r, ids) \subseteq
                 [key : Keys, event : Events, value : Values, seq : Nat, epoch : EpochIds]
           /\ Fresh(r) => NewDeletes(r) \subseteq [key : Keys, event : Events, deleted : Events]
  <1>0. TypeOK /\ NumberedInv /\ TippedInv /\ SavedInv
    BY DEF LedgerInv
  <1> USE <1>0, RequestFacts
  <1>1. ids \in [DOMAIN seqs[r] -> EpochIds]
    BY DEF NewIds
  <1>2. seqs[r] \in [DOMAIN seqs[r] -> Nat] /\ DOMAIN seqs[r] \subseteq Spaces
    BY DEF TypeOK
  <1>3. tips[r] \in [DOMAIN seqs[r] -> SUBSET EpochIds]
    BY DEF TypeOK, TippedInv, Tipped
  <1>4. NewEpochs(r, ids) \subseteq
           [space : Spaces, id : EpochIds, seq : Nat, parents : SUBSET EpochIds, event : Events]
    <2> SUFFICES ASSUME NEW s \in DOMAIN seqs[r]
                 PROVE  /\ s \in Spaces /\ ids[s] \in EpochIds /\ seqs[r][s] \in Nat
                        /\ tips[r][s] \in SUBSET EpochIds /\ Event(r) \in Events
      BY SMT DEF NewEpochs, EpochRow
    <2> QED
      BY <1>1, <1>2, <1>3
  <1>5. \A k \in Written(r) : SpaceOf[k] \in DOMAIN seqs[r]
    BY KeysNumbered DEF Numbered
  <1>6. NewWrites(r, ids) \subseteq
           [key : Keys, event : Events, value : Values, seq : Nat, epoch : EpochIds]
    <2> SUFFICES ASSUME NEW k \in Puts(r)
                 PROVE  /\ k \in Keys /\ Event(r) \in Events /\ Ops[Event(r)][k] \in Values
                        /\ seqs[r][SpaceOf[k]] \in Nat /\ ids[SpaceOf[k]] \in EpochIds
      BY SMT DEF NewWrites, WriteRow
    <2> QED
      BY <1>1, <1>2, <1>5 DEF Puts
  <1>7. Fresh(r) => NewDeletes(r) \subseteq [key : Keys, event : Events, deleted : Events]
    <2> SUFFICES ASSUME Fresh(r), NEW k \in Dels(r)
                 PROVE  k \in Keys /\ Event(r) \in Events /\ hidden[r][k] \in Events
      BY SMT DEF NewDeletes, DeleteRow
    <2>1. k \in Keys /\ k \in DOMAIN hidden[r]
      BY DEF Dels, SavedInv, Saved
    <2> QED
      BY <2>1 DEF TypeOK
  <1> QED
    BY <1>4, <1>6, <1>7

-----------------------------------------------------------------------------
(* What a request reads is of the right type.                              *)

LEMMA ReadsTyped ==
    ASSUME LedgerInv, NEW r \in Requests
    PROVE  /\ DOMAIN SeqsRead(r) \subseteq Spaces /\ SeqsRead(r) \in [DOMAIN SeqsRead(r) -> Nat]
           /\ \A S \in SUBSET Spaces : TipsRead(S) \in [S -> SUBSET EpochIds]
           /\ ~SaveFails(r) /\ Fresh(r) =>
                 /\ Dels(r) \subseteq Keys
                 /\ \A k \in Dels(r) : WritesOf(k) # {}
                 /\ [k \in Dels(r) |-> Latest(k).event] \in [Dels(r) -> Events]
  <1> USE RequestFacts DEF LedgerInv
  <1>1. \A s \in Spaces : NextSeq(s) \in Nat
    BY NextNumber
  <1>2. Ordered(r) \subseteq Spaces
    BY DEF Ordered
  <1>3. \A s : Tips(s) \subseteq EpochIds
    BY DEF Tips, EpochsOf, TypeOK
  <1>4. ASSUME ~SaveFails(r), Fresh(r)
        PROVE  \A k \in Dels(r) : k \in Keys /\ WritesOf(k) # {} /\ Latest(k).event \in Events
    <2> SUFFICES ASSUME NEW k \in Dels(r)
                 PROVE  k \in Keys /\ WritesOf(k) # {} /\ Latest(k).event \in Events
      OBVIOUS
    <2>1. k \in Keys /\ WritesOf(k) # {}
      BY <1>4 DEF SaveFails, NothingToHide, Dels
    <2>2. Latest(k) \in writes
      BY <2>1, LatestVersion DEF WritesOf
    <2> QED
      BY <2>1, <2>2 DEF TypeOK
  <1> QED
    BY <1>1, <1>2, <1>3, <1>4 DEF SeqsRead, TipsRead

LEMMA RowTypesKept ==
    ASSUME LedgerInv, [Next]_vars
    PROVE  /\ load' \in Workloads
           /\ writes' \subseteq [key : Keys, event : Events, value : Values, seq : Nat, epoch : EpochIds]
           /\ deletes' \subseteq [key : Keys, event : Events, deleted : Events]
           /\ epochs' \subseteq [space : Spaces, id : EpochIds, seq : Nat, parents : SUBSET EpochIds,
                                 event : Events]
           /\ recorded' \subseteq Events
           /\ hosted' \subseteq Spaces
  <1>1. CASE UNCHANGED rows
    BY <1>1, OnlyCommitsWrite DEF rows, LedgerInv, TypeOK
  <1>2. ASSUME NEW r \in Requests, pc[r] = "commit", NEW ids \in NewIds(r), Commits(r, ids)
        PROVE  /\ writes' \subseteq [key : Keys, event : Events, value : Values, seq : Nat, epoch : EpochIds]
               /\ deletes' \subseteq [key : Keys, event : Events, deleted : Events]
               /\ epochs' \subseteq [space : Spaces, id : EpochIds, seq : Nat, parents : SUBSET EpochIds,
                                     event : Events]
               /\ recorded' \subseteq Events
               /\ hosted' \subseteq Spaces
    BY <1>2, NewRowsTyped, RequestFacts DEF Commits, LedgerInv, TypeOK
  <1> QED
    BY <1>1, <1>2, OnlyCommitsWrite, CommitWrites DEF LedgerInv, TypeOK

\* The part of TypeOK that is about the process.
ProcessTypes ==
    /\ blobs \subseteq Spaces \X Values
    /\ seen \subseteq Cached
    /\ conn \in Requests \cup {NoRequest}
    /\ pc \in [Requests -> {"idle", "done"} \cup InFlight]
    /\ held \in [Requests -> SUBSET Keys]
    /\ staged \in [Requests -> SUBSET Keys]
    /\ DOMAIN seqs = Requests /\ DOMAIN tips = Requests /\ DOMAIN hidden = Requests
    /\ \A r \in Requests :
          /\ DOMAIN seqs[r] \subseteq Spaces /\ seqs[r] \in [DOMAIN seqs[r] -> Nat]
          /\ DOMAIN tips[r] \subseteq Spaces /\ tips[r] \in [DOMAIN tips[r] -> SUBSET EpochIds]
          /\ DOMAIN hidden[r] \subseteq Keys /\ hidden[r] \in [DOMAIN hidden[r] -> Events]

LEMMA ReplyTyped ==
    ASSUME ProcessTypes, NEW r \in Requests, NEW out, Reply(r, out), UNCHANGED <<blobs, seen>>
    PROVE  ProcessTypes'
  BY DEF ProcessTypes, Reply, Nothing, InFlight, InTransaction

LEMMA ProcessTypesKept ==
    ASSUME LedgerInv, [Next]_vars
    PROVE  ProcessTypes'
  <1>0. ProcessTypes
    BY DEF LedgerInv, TypeOK, ProcessTypes
  <1>1. CASE UNCHANGED vars
    BY <1>0, <1>1 DEF vars, locals, ProcessTypes
  <1>2. CASE Restart
    BY <1>0, <1>2 DEF Restart, ProcessTypes, Nothing, InFlight, InTransaction
  <1>3. ASSUME NEW r \in Requests, Serve(r) PROVE ProcessTypes'
    <2> USE <1>0 DEF Goto, locals
    <2>1. CASE Arrive(r)
      BY <2>1, ReplyTyped DEF Arrive, ProcessTypes, InFlight, InTransaction
    <2>2. CASE LockNext(r)
      <3>1. PICK k \in Keys : /\ held' = [held EXCEPT ![r] = @ \cup {k}]
                            /\ UNCHANGED <<blobs, seen, conn, pc, seqs, tips, hidden, staged>>
        BY <2>2, RequestFacts DEF LockNext
      <3> QED
        BY <3>1 DEF ProcessTypes
    <2>3. CASE Begin(r)
      BY <2>3 DEF Begin, ProcessTypes, InFlight, InTransaction
    <2>4. CASE ReadCurrent(r)
      <3>1. CASE \E out : Reply(r, out) /\ UNCHANGED <<blobs, seen>>
        BY <3>1, ReplyTyped
      <3>2. CASE /\ seqs' = [seqs EXCEPT ![r] = SeqsRead(r)]
                 /\ tips' = [tips EXCEPT ![r] = TipsRead(Ordered(r))]
                 /\ pc' = [pc EXCEPT ![r] = "save"]
                 /\ UNCHANGED <<blobs, seen, conn, held, hidden, staged>>
        <4>1. DOMAIN SeqsRead(r) = Ordered(r)
          BY DEF SeqsRead
        <4>2. TipsRead(Ordered(r)) \in [Ordered(r) -> SUBSET EpochIds]
          BY <4>1, ReadsTyped
        <4>3. SeqsRead(r) \in [Ordered(r) -> Nat] /\ Ordered(r) \subseteq Spaces
          BY <4>1, ReadsTyped
        <4> HIDE DEF Goto, locals
        <4> QED
          BY <3>2, <4>2, <4>3 DEF ProcessTypes, InFlight, InTransaction
      <3>3. CASE /\ pc' = [pc EXCEPT ![r] = "seq"]
                 /\ UNCHANGED <<blobs, seen, conn, locals>>
        BY <3>3 DEF ProcessTypes, InFlight, InTransaction
      <3> QED
        BY <2>4, <3>1, <3>2, <3>3 DEF ReadCurrent
    <2>5. CASE ReadSeq(r)
      <3>1. CASE SpacesFound(r)
        <4>1. DOMAIN SeqsRead(r) \subseteq Spaces /\ SeqsRead(r) \in [DOMAIN SeqsRead(r) -> Nat]
          BY <3>1, ReadsTyped
        <4> QED
          BY <2>5, <3>1, <4>1 DEF ReadSeq, ProcessTypes, InFlight, InTransaction
      <3>2. CASE ~SpacesFound(r)
        BY <2>5, <3>2, ReplyTyped DEF ReadSeq
      <3> QED
        BY <3>1, <3>2
    <2>6. CASE ReadTips(r)
      BY <2>6, ReadsTyped DEF ReadTips, ProcessTypes, InFlight, InTransaction
    <2>7. CASE Save(r)
      <3> DEFINE found == IF Fresh(r) THEN [k \in Dels(r) |-> Latest(k).event] ELSE Nothing
      <3>1. CASE SaveFails(r)
        BY <2>7, <3>1, ReplyTyped DEF Save
      <3>2. CASE ~SaveFails(r)
        <4>1. DOMAIN found \subseteq Keys /\ found \in [DOMAIN found -> Events]
          BY <3>2, ReadsTyped DEF Nothing
        <4>2. hidden' = [hidden EXCEPT ![r] = found] /\ staged' = [staged EXCEPT ![r] = Puts(r)]
          BY <2>7, <3>2 DEF Save
        <4>3. Puts(r) \subseteq Keys
          BY RequestFacts DEF Puts
        <4> HIDE DEF found
        <4> QED
          BY <2>7, <3>2, <4>1, <4>2, <4>3 DEF Save, ProcessTypes, InFlight, InTransaction
      <3> QED
        BY <3>1, <3>2
    <2>8. CASE Persist(r)
      <3>1. \A k \in staged[r] : <<SpaceOf[k], Ops[Event(r)][k]>> \in Spaces \X Values
        BY <2>8, RequestFacts DEF Persist, LedgerInv, SavedInv, Saved, Puts
      <3>2. CASE pc' = [pc EXCEPT ![r] = "commit"] /\ UNCHANGED <<blobs, seen, conn, locals>>
        BY <3>2 DEF ProcessTypes, InFlight, InTransaction
      <3>3. ASSUME NEW k \in staged[r],
                   blobs' = blobs \cup {<<SpaceOf[k], Ops[Event(r)][k]>>},
                   staged' = [staged EXCEPT ![r] = @ \ {k}], pc' = [pc EXCEPT ![r] = "persist"],
                   UNCHANGED <<seen, conn, held, seqs, tips, hidden>>
            PROVE  ProcessTypes'
        BY <3>1, <3>3 DEF ProcessTypes, InFlight, InTransaction
      <3> QED
        BY <2>8, <3>2, <3>3 DEF Persist
    <2>9. CASE Commit(r)
      BY <2>9, ReplyTyped DEF Commit
    <2>10. CASE Fail(r)
      BY <2>10, ReplyTyped DEF Fail
    <2> QED
      BY <1>3, <2>1, <2>2, <2>3, <2>4, <2>5, <2>6, <2>7, <2>8, <2>9, <2>10 DEF Serve
  <1> QED
    BY <1>1, <1>2, <1>3 DEF Next, Finished

LEMMA TypesKept ==
    ASSUME LedgerInv, [Next]_vars
    PROVE  TypeOK'
  BY RowTypesKept, ProcessTypesKept DEF TypeOK, ProcessTypes

-----------------------------------------------------------------------------
(* Guards and the connection.                                              *)

\* Guards are given back, or taken one at a time from nobody.
LEMMA GuardsMove ==
    ASSUME TypeOK, [Next]_vars
    PROVE  \/ \A r \in Requests : held'[r] \subseteq held[r]
           \/ \E r \in Requests, k \in Keys :
                 /\ pc[r] = "lock" /\ k \in Written(r) /\ Free(r, k)
                 /\ held' = [held EXCEPT ![r] = @ \cup {k}]
  <1>1. CASE UNCHANGED held
    BY <1>1
  <1>2. CASE Restart
    BY <1>2 DEF Restart
  <1>3. ASSUME NEW r \in Requests, LockNext(r)
        PROVE  \E k \in Keys : /\ pc[r] = "lock" /\ k \in Written(r) /\ Free(r, k)
                               /\ held' = [held EXCEPT ![r] = @ \cup {k}]
    BY <1>3, RequestFacts DEF LockNext
  <1>4. ASSUME NEW r \in Requests, Serve(r), ~LockNext(r)
        PROVE  \/ UNCHANGED held
               \/ held' = [held EXCEPT ![r] = {}]
    <2>1. (\E out : Reply(r, out)) => held' = [held EXCEPT ![r] = {}]
      BY DEF Reply
    <2> QED
      BY <1>4, <2>1 DEF Serve, Arrive, Begin, ReadCurrent, ReadSeq, ReadTips, Save, Persist, Commit,
                        Fail, locals
  <1>5. ASSUME NEW r \in Requests, held' = [held EXCEPT ![r] = {}]
        PROVE  \A q \in Requests : held'[q] \subseteq held[q]
    BY <1>5 DEF TypeOK
  <1> QED
    BY <1>1, <1>2, <1>3, <1>4, <1>5 DEF Next, Finished, vars, locals

LEMMA GuardsKept ==
    ASSUME LedgerInv, [Next]_vars
    PROVE  GuardInv'
  <1>0. TypeOK /\ GuardInv
    BY DEF LedgerInv
  <1>1. ASSUME \A r \in Requests : held'[r] \subseteq held[r]
        PROVE  /\ \A p, q \in Requests : p # q => held'[p] \cap held'[q] = {}
               /\ \A q \in Requests : held'[q] \subseteq Written(q)
    <2>1. \A r, q \in Requests : r # q => held'[r] \cap held'[q] = {}
      BY <1>0, <1>1 DEF GuardInv
    <2>2. \A r \in Requests : held'[r] \subseteq Written(r)
      BY <1>0, <1>1 DEF GuardInv
    <2> QED
      BY <2>1, <2>2
  <1>2. ASSUME NEW r \in Requests, NEW k \in Keys, k \in Written(r), Free(r, k),
               held' = [held EXCEPT ![r] = @ \cup {k}]
        PROVE  /\ \A p, q \in Requests : p # q => held'[p] \cap held'[q] = {}
               /\ \A q \in Requests : held'[q] \subseteq Written(q)
    <2>1. \A p, q \in Requests : p # q => held'[p] \cap held'[q] = {}
      BY <1>0, <1>2, SMT DEF GuardInv, Free, TypeOK
    <2>2. \A q \in Requests : held'[q] \subseteq Written(q)
      BY <1>0, <1>2 DEF GuardInv, TypeOK
    <2> QED
      BY <2>1, <2>2
  <1>3. \A r \in Requests : pc'[r] \in InTransaction => held'[r] = Written(r)
    BY <1>0, Transitions DEF Moves, Enters, GuardInv
  <1>4. /\ \A p, q \in Requests : p # q => held'[p] \cap held'[q] = {}
        /\ \A q \in Requests : held'[q] \subseteq Written(q)
    BY <1>0, <1>1, <1>2, GuardsMove
  <1> QED
    BY <1>3, <1>4 DEF GuardInv, Written, Event

LEMMA ConnKept ==
    ASSUME LedgerInv, [Next]_vars
    PROVE  ConnInv'
  <1>0. TypeOK /\ ConnInv
    BY DEF LedgerInv
  <1> SUFFICES ASSUME SingleConnection, NEW q \in Requests, pc'[q] \in InTransaction
               PROVE  conn' = q
    BY <1>0, OnlyCommitsWrite DEF ConnInv, SingleConnection
  <1>1. conn = q \/ (conn = NoRequest /\ conn' = q)
    BY <1>0, Transitions DEF Moves, Enters, ConnInv
  <1>2. CASE UNCHANGED conn
    BY <1>1, <1>2
  <1>3. ASSUME NEW r \in Requests, conn' = r, conn = NoRequest
        PROVE  conn' = q
    BY <1>1, <1>3, LedgerAssumption
  <1>4. ASSUME NEW r \in Requests, conn' = IF conn = r THEN NoRequest ELSE conn, pc'[r] = "done"
        PROVE  conn' = q
    BY <1>1, <1>4 DEF InTransaction
  <1>5. CASE Restart
    BY <1>0, <1>5 DEF Restart, InTransaction, InFlight, TypeOK
  <1>6. ASSUME NEW r \in Requests, Serve(r)
        PROVE  \/ UNCHANGED conn
               \/ conn' = r /\ conn = NoRequest
               \/ conn' = (IF conn = r THEN NoRequest ELSE conn) /\ pc'[r] = "done"
    <2>1. (\E out : Reply(r, out)) => conn' = (IF conn = r THEN NoRequest ELSE conn) /\ pc'[r] = "done"
      BY <1>0 DEF Reply, TypeOK
    <2> QED
      BY <1>6, <2>1 DEF Serve, Arrive, LockNext, Begin, ReadCurrent, ReadSeq, ReadTips, Save, Persist,
                        Commit, Fail
  <1> QED
    BY <1>2, <1>3, <1>4, <1>5, <1>6 DEF Next, Finished, vars

-----------------------------------------------------------------------------
(* What a guard protects.                                                  *)

TombsOf(k) == {t \in deletes : t.key = k}

\* The value of a key depends on its own rows only.
LEMMA SameRowsSameValue ==
    ASSUME LedgerInv, NEW k \in Keys, WritesOf(k)' = WritesOf(k), TombsOf(k)' = TombsOf(k)
    PROVE  Latest(k)' = Latest(k) /\ Current(k)' = Current(k)
  <1>1. Latest(k)' = Latest(k)
    BY ChoicesAreOfRows
  <1>2. CASE WritesOf(k) = {}
    BY <1>1, <1>2 DEF Current
  <1>3. CASE WritesOf(k) # {}
    <2>1. Latest(k).key = k
      BY <1>3, LatestVersion DEF LedgerInv, WritesOf
    <2>2. Tombstoned(Latest(k))' <=> Tombstoned(Latest(k))
      BY <1>1, <2>1 DEF Tombstoned, TombsOf
    <2> QED
      BY <1>1, <2>2 DEF Current
  <1> QED
    BY <1>1, <1>2, <1>3

\* A commit writes rows of the request's own keys.
LEMMA OtherKeysStay ==
    ASSUME LedgerInv, NEW r \in Requests, NEW ids, Commits(r, ids), NEW k \in Keys, k \notin Written(r)
    PROVE  WritesOf(k)' = WritesOf(k) /\ TombsOf(k)' = TombsOf(k)
           /\ Latest(k)' = Latest(k) /\ Current(k)' = Current(k)
  <1>1. WritesOf(k)' = WritesOf(k)
    BY CommittedWrites, WriteFields, SMT DEF WritesOf, Puts
  <1>2. TombsOf(k)' = TombsOf(k)
    BY CommittedDeletes, DeleteFields, SMT DEF TombsOf, Dels
  <1> QED
    BY <1>1, <1>2, SameRowsSameValue

\* While a request is in its transaction nothing happens to its keys ...
LEMMA GuardedKeysStay ==
    ASSUME LedgerInv, [Next]_vars, NEW q \in Requests,
           pc[q] \in InTransaction, pc'[q] \in InTransaction, NEW k \in Written(q)
    PROVE  WritesOf(k)' = WritesOf(k) /\ Latest(k)' = Latest(k) /\ Current(k)' = Current(k)
  <1>0. k \in Keys
    BY RequestFacts
  <1>1. CASE UNCHANGED rows
    <2>1. WritesOf(k)' = WritesOf(k) /\ TombsOf(k)' = TombsOf(k)
      BY <1>1 DEF rows, WritesOf, TombsOf
    <2> QED
      BY <1>0, <2>1, SameRowsSameValue
  <1>2. ASSUME NEW r \in Requests, Commit(r), NEW ids \in NewIds(r), Commits(r, ids)
        PROVE  WritesOf(k)' = WritesOf(k) /\ Latest(k)' = Latest(k) /\ Current(k)' = Current(k)
    <2>1. pc[r] = "commit" /\ r # q
      BY <1>2, CommitWrites DEF LedgerInv, InTransaction
    <2>2. held[r] = Written(r) /\ held[q] = Written(q) /\ held[r] \cap held[q] = {}
      BY <2>1 DEF LedgerInv, GuardInv, InTransaction
    <2>3. k \notin Written(r)
      BY <2>2
    <2> QED
      BY <1>0, <1>2, <2>3, OtherKeysStay
  <1> QED
    BY <1>1, <1>2, OnlyCommitsWrite, CommitWrites DEF LedgerInv

\* ... and on SQLite nothing at all.
LEMMA SerialRowsStay ==
    ASSUME LedgerInv, [Next]_vars, SingleConnection, NEW q \in Requests,
           pc[q] \in InTransaction, pc'[q] \in InTransaction
    PROVE  UNCHANGED rows
  <1> SUFFICES ASSUME NEW r \in Requests, Commit(r) PROVE UNCHANGED rows
    BY OnlyCommitsWrite
  <1>1. pc[r] = "commit" /\ r # q
    BY CommitWrites DEF LedgerInv, InTransaction
  <1>2. conn = r /\ conn = q
    BY <1>1 DEF LedgerInv, ConnInv, InTransaction
  <1> QED
    BY <1>1, <1>2

\* Rows and blobs are only added.
LEMMA RowsOnlyAdded ==
    ASSUME TypeOK, [Next]_vars
    PROVE  /\ writes \subseteq writes' /\ epochs \subseteq epochs' /\ recorded \subseteq recorded'
           /\ hosted \subseteq hosted' /\ blobs \subseteq blobs'
  <1>1. writes \subseteq writes' /\ epochs \subseteq epochs' /\ recorded \subseteq recorded'
        /\ hosted \subseteq hosted'
    BY OnlyCommitsWrite, CommitWrites DEF rows, Commits
  <1>2. blobs \subseteq blobs'
    BY DEF Next, Serve, Restart, Finished, vars, Arrive, LockNext, Begin, ReadCurrent, ReadSeq, ReadTips,
           Save, Persist, Commit, Fail
  <1> QED
    BY <1>1, <1>2

-----------------------------------------------------------------------------
(* What a request has read stays true.                                     *)

LEMMA CheckedKept ==
    ASSUME LedgerInv, [Next]_vars
    PROVE  CheckedInv'
  <1> SUFFICES ASSUME NEW q \in Requests, pc'[q] \in Checked, NEW k \in Written(q)
               PROVE  PreHolds(Request[q].pre, Current(k)')
    BY DEF CheckedInv, PreHolds
  <1>1. pc[q] \in InTransaction /\ PreHolds(Request[q].pre, Current(k))
    BY Transitions DEF LedgerInv, Moves, Checks, CheckedInv, Checked, InTransaction
  <1>2. Current(k)' = Current(k)
    BY <1>1, GuardedKeysStay DEF Checked, InTransaction
  <1> QED
    BY <1>1, <1>2

\* A sequence number that was just read is above every version of the space.
LEMMA NumbersAreNew ==
    ASSUME LedgerInv, NEW q \in Requests, SpacesFound(q)
    PROVE  /\ DOMAIN SeqsRead(q) \subseteq hosted \cup NewSpaces(q)
           /\ Event(q) \notin DOMAIN Hosts => DOMAIN SeqsRead(q) = Touches[Event(q)]
           /\ \A k \in Written(q) : \A w \in WritesOf(k) : w.seq < SeqsRead(q)[SpaceOf[k]]
  <1> USE RequestFacts DEF LedgerInv
  <1>1. DOMAIN SeqsRead(q) = Ordered(q)
    BY DEF SeqsRead
  <1>2. Event(q) \notin DOMAIN Hosts => Ordered(q) = Touches[Event(q)]
    BY DEF Ordered, SpacesFound
  <1>3. ASSUME NEW k \in Written(q), NEW w \in WritesOf(k)
        PROVE  w.seq < SeqsRead(q)[SpaceOf[k]]
    <2>1. SpaceOf[k] \in Ordered(q) /\ SpaceOf[k] \in Spaces
      BY <1>2
    <2>2. SeqsRead(q)[SpaceOf[k]] = NextSeq(SpaceOf[k])
      BY <2>1 DEF SeqsRead
    <2>3. PICK e \in EpochsOf(SpaceOf[k]) : e.seq = w.seq
      BY DEF VersionInv, WritesOf
    <2> QED
      BY <2>1, <2>2, <2>3, NextNumber
  <1> QED
    BY <1>1, <1>2, <1>3 DEF Ordered

LEMMA NumberedKept ==
    ASSUME LedgerInv, [Next]_vars
    PROVE  NumberedInv'
  <1> SUFFICES ASSUME NEW q \in Requests, pc'[q] \in Numbered
               PROVE  /\ DOMAIN seqs'[q] \subseteq hosted' \cup NewSpaces(q)
                      /\ Event(q) \notin DOMAIN Hosts => DOMAIN seqs'[q] = Touches[Event(q)]
                      /\ \A k \in Written(q) : \A w \in WritesOf(k)' : w.seq < seqs'[q][SpaceOf[k]]
    BY DEF NumberedInv, NewSpaces, Event, Written
  <1>1. pc[q] \in InTransaction /\ pc'[q] \in InTransaction
    BY Transitions DEF LedgerInv, Moves, Numbers, Numbered, InTransaction
  <1>2. \A k \in Written(q) : WritesOf(k)' = WritesOf(k)
    BY <1>1, GuardedKeysStay
  <1>3. hosted \subseteq hosted'
    BY RowsOnlyAdded DEF LedgerInv
  <1>4. CASE pc[q] \in Numbered /\ seqs'[q] = seqs[q]
    BY <1>2, <1>3, <1>4 DEF LedgerInv, NumberedInv
  <1>5. CASE SpacesFound(q) /\ seqs'[q] = SeqsRead(q)
    BY <1>2, <1>3, <1>5, NumbersAreNew
  <1> QED
    BY <1>4, <1>5, Transitions DEF LedgerInv, Moves, Numbers

LEMMA TippedKept ==
    ASSUME LedgerInv, [Next]_vars
    PROVE  TippedInv'
  <1> SUFFICES ASSUME NEW q \in Requests, pc'[q] \in Tipped
               PROVE  /\ DOMAIN tips'[q] = DOMAIN seqs'[q]
                      /\ \A s \in DOMAIN tips'[q] : tips'[q][s] \subseteq {e.id : e \in epochs'}
    BY DEF TippedInv
  <1>1. epochs \subseteq epochs'
    BY RowsOnlyAdded DEF LedgerInv
  <1>2. CASE pc[q] \in Tipped /\ seqs'[q] = seqs[q] /\ tips'[q] = tips[q]
    BY <1>1, <1>2, SMT DEF LedgerInv, TippedInv
  <1>3. CASE tips'[q] = TipsRead(DOMAIN seqs'[q])
    <2>1. \A s : Tips(s) \subseteq {e.id : e \in epochs}
      BY DEF Tips, EpochsOf
    <2> QED
      BY <1>1, <1>3, <2>1, SMT DEF TipsRead
  <1> QED
    BY <1>2, <1>3, Transitions DEF LedgerInv, Moves, TakesTips

LEMMA SavedKept ==
    ASSUME LedgerInv, [Next]_vars
    PROVE  SavedInv'
  <1> SUFFICES ASSUME NEW q \in Requests, pc'[q] \in Saved
               PROVE  /\ staged'[q] \subseteq Puts(q)
                      /\ \A k \in Puts(q) \ staged'[q] : <<SpaceOf[k], Ops[Event(q)][k]>> \in blobs'
                      /\ pc'[q] = "commit" => staged'[q] = {}
                      /\ Event(q) \notin recorded' => \A k \in Dels(q) :
                            /\ WritesOf(k)' # {} /\ k \in DOMAIN hidden'[q]
                            /\ hidden'[q][k] = Latest(k)'.event
    BY DEF SavedInv, Puts, Dels, Written, Event, Fresh
  <1>1. pc[q] \in InTransaction /\ pc'[q] \in InTransaction
    BY Transitions DEF LedgerInv, Moves, Saves, Saved, InTransaction
  <1>2. \A k \in Written(q) : WritesOf(k)' = WritesOf(k) /\ Latest(k)' = Latest(k)
    BY <1>1, GuardedKeysStay
  <1>3. blobs \subseteq blobs' /\ recorded \subseteq recorded'
    BY RowsOnlyAdded DEF LedgerInv
  <1>4. Dels(q) \subseteq Written(q)
    BY DEF Dels
  <1>5. CASE /\ pc[q] \in Saved /\ hidden'[q] = hidden[q] /\ staged'[q] \subseteq staged[q]
             /\ \A k \in staged[q] \ staged'[q] : <<SpaceOf[k], Ops[Event(q)][k]>> \in blobs'
             /\ pc'[q] = "commit" => staged'[q] = {} \/ (pc[q] = "commit" /\ staged'[q] = staged[q])
    BY <1>2, <1>3, <1>4, <1>5 DEF LedgerInv, SavedInv, Fresh
  <1>6. CASE /\ pc[q] = "save" /\ pc'[q] = "persist" /\ UNCHANGED rows
             /\ ~SaveFails(q) /\ staged'[q] = Puts(q)
             /\ hidden'[q] = IF Fresh(q) THEN [k \in Dels(q) |-> Latest(k).event] ELSE Nothing
    <2>1. ASSUME Event(q) \notin recorded'
          PROVE  Fresh(q) /\ \A k \in Dels(q) : WritesOf(k) # {}
      BY <1>3, <1>6, <2>1 DEF Fresh, SaveFails, NothingToHide
    <2> QED
      BY <1>2, <1>4, <1>6, <2>1
  <1> QED
    BY <1>5, <1>6, Transitions DEF LedgerInv, Moves, Saves

LEMMA SerialKept ==
    ASSUME LedgerInv, [Next]_vars
    PROVE  SerialInv'
  <1> SUFFICES ASSUME SingleConnection, NEW q \in Requests
               PROVE  /\ pc'[q] \in Numbered => \A s \in DOMAIN seqs'[q] : seqs'[q][s] = NextSeq(s)'
                      /\ pc'[q] \in Tipped => \A s \in DOMAIN tips'[q] : tips'[q][s] = Tips(s)'
    BY OnlyCommitsWrite DEF SerialInv, SingleConnection
  <1>1. ASSUME pc[q] \in InTransaction, pc'[q] \in InTransaction
        PROVE  \A s : NextSeq(s)' = NextSeq(s) /\ Tips(s)' = Tips(s)
    <2>1. \A s : EpochsOf(s)' = EpochsOf(s)
      BY <1>1, SerialRowsStay DEF rows, EpochsOf
    <2> QED
      BY <2>1, ChoicesAreOfRows
  <1>2. ASSUME pc'[q] \in Numbered
        PROVE  \A s \in DOMAIN seqs'[q] : seqs'[q][s] = NextSeq(s)'
    <2>1. \A s : NextSeq(s)' = NextSeq(s)
      BY <1>1, <1>2, Transitions DEF LedgerInv, Moves, Numbers, Numbered, InTransaction
    <2>2. CASE pc[q] \in Numbered /\ seqs'[q] = seqs[q]
      BY <2>1, <2>2 DEF LedgerInv, SerialInv
    <2>3. CASE seqs'[q] = SeqsRead(q)
      BY <2>1, <2>3 DEF SeqsRead
    <2> QED
      BY <1>2, <2>2, <2>3, Transitions DEF LedgerInv, Moves, Numbers
  <1>3. ASSUME pc'[q] \in Tipped
        PROVE  \A s \in DOMAIN tips'[q] : tips'[q][s] = Tips(s)'
    <2>1. \A s : Tips(s)' = Tips(s)
      BY <1>1, <1>3, Transitions DEF LedgerInv, Moves, TakesTips, Tipped, InTransaction
    <2>2. CASE pc[q] \in Tipped /\ tips'[q] = tips[q]
      BY <2>1, <2>2 DEF LedgerInv, SerialInv
    <2>3. CASE tips'[q] = TipsRead(DOMAIN seqs'[q])
      BY <2>1, <2>3 DEF TipsRead
    <2> QED
      BY <1>3, <2>2, <2>3, Transitions DEF LedgerInv, Moves, TakesTips
  <1> QED
    BY <1>2, <1>3
=============================================================================
