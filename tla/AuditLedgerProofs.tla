-------------------------- MODULE AuditLedgerProofs --------------------------
(***************************************************************************)
(* The chain of AuditLedger, for any writers, clocks and failures.         *)
(*                                                                         *)
(* SingleChain is not inductive: that a writer's hash and number are the   *)
(* next ones when it commits rests on its holding the tenant's row from    *)
(* the time it read the tip.  IInv says so (Exclusive, Current), and that  *)
(* the numbers of the rows are 1 .. n (Chain), from which TipIsLast        *)
(* derives that the query for the tip finds the row numbered n.            *)
(*                                                                         *)
(* What a verification says rests on the same chain: AuditInv says that    *)
(* the records of the pages are the rows 1, 2, ... as long as every link   *)
(* matches, since only the row numbered n + 1 hangs off the row numbered n *)
(* (LinkedPage, by the least position of a page that would be wrong).      *)
(*                                                                         *)
(* UntamperedVerifies is false of the code.  VerifiesInOrder says what     *)
(* would make it true.                                                     *)
(***************************************************************************)
EXTENDS AuditLedger, FiniteSetTheorems, SequenceTheorems, WellFoundedInduction, TLAPS

N == Cardinality(rows)
RowAt(n) == \E r \in rows : r.seq = n

\* The hash that a record numbered n + 1 has to carry.
NextAfter(hash, n) ==
  \/ n = 0 /\ hash = Genesis
  \/ \E p \in rows : p.id = hash /\ p.seq = n

Typed ==
  /\ rows \subseteq RowRecord /\ IsFiniteSet(rows)
  /\ mirror \subseteq RowRecord
  /\ lock \in Writers \cup {NoWriter}
  /\ txn \in [Writers -> Txn]

Chain ==
  /\ \A r \in rows : r.seq \in 1 .. N
  /\ \A n \in 1 .. N : RowAt(n)
  /\ \A r, s \in rows : r.seq = s.seq \/ r.id = s.id => r = s
  /\ \A r \in rows : NextAfter(r.prev, r.seq - 1)

\* Who holds the row, and that a row was written by a transaction that is done.
Exclusive ==
  /\ \A w \in Writers : txn[w].stage \in Holding <=> lock = w
  /\ \A r \in rows : \E w \in Writers, a \in Nat : r.id = <<w, a>> /\ txn[w].stage = "done"

\* What a holder has read is still so.
Current ==
  \A w \in Writers :
    /\ txn[w].stage \in {"linked", "inserted", "mirrored"} => NextAfter(txn[w].prev, N)
    /\ txn[w].stage \in {"inserted", "mirrored"} => txn[w].seq = N + 1 /\ txn[w].time \in Times

Mirrored == \A m \in mirror : NextAfter(m.prev, m.seq - 1)

IInv == Typed /\ Chain /\ Exclusive /\ Current /\ Mirrored

-----------------------------------------------------------------------------
\* The query for the tip finds the last row.
LEMMA TipIsLast ==
  ASSUME IInv, NEW hash \in LatestHashes
  PROVE  NextAfter(hash, N)
<1>1. N \in Nat
  BY FS_CardinalityType DEF IInv, Typed, N
<1>2. CASE Tips = {}
  <2>1. ASSUME N # 0 PROVE FALSE
    <3>1. PICK r \in rows : r.seq = N
      BY <1>1, <2>1 DEF IInv, Chain, RowAt
    <3>2. ASSUME NEW s \in rows, s.prev = r.id PROVE FALSE
      <4>1. r.id # Genesis /\ r.id \in Ids
        BY GenesisAssumption DEF IInv, Typed, RowRecord, Ids
      <4>2. PICK p \in rows : p.id = r.id /\ p.seq = s.seq - 1
        BY <3>2, <4>1 DEF IInv, Chain, NextAfter
      <4>3. p = r
        BY <4>2 DEF IInv, Chain
      <4>4. s.seq \in 1 .. N
        BY DEF IInv, Chain
      <4> QED
        BY <1>1, <3>1, <4>2, <4>3, <4>4
    <3> QED
      BY <1>2, <3>1, <3>2 DEF Tips
  <2>2. hash = Genesis
    BY <1>2 DEF LatestHashes
  <2> QED
    BY <2>1, <2>2 DEF NextAfter
<1>3. CASE Tips # {}
  <2>1. PICK r \in Tips : hash = r.id
    BY <1>3 DEF LatestHashes, LatestTips
  <2>2. r \in rows /\ \A s \in rows : s.prev # r.id
    BY <2>1 DEF Tips
  <2>3. ASSUME r.seq # N PROVE FALSE
    <3>1. r.seq \in 1 .. N
      BY <2>2 DEF IInv, Chain
    <3>2. PICK s \in rows : s.seq = r.seq + 1
      BY <1>1, <2>3, <3>1 DEF IInv, Chain, RowAt
    <3>3. PICK p \in rows : p.id = s.prev /\ p.seq = r.seq
      BY <3>1, <3>2 DEF IInv, Chain, NextAfter
    <3>4. p = r
      BY <2>2, <3>3 DEF IInv, Chain
    <3> QED
      BY <2>2, <3>3, <3>4
  <2> QED
    BY <2>1, <2>2, <2>3 DEF NextAfter
<1> QED
  BY <1>2, <1>3

-----------------------------------------------------------------------------
LEMMA Start == Init => IInv
<1> SUFFICES ASSUME Init PROVE IInv
    OBVIOUS
<1>1. N = 0 /\ IsFiniteSet(rows)
  BY FS_EmptySet DEF N, Init
<1>2. \A w \in Writers : txn[w] = Blank("idle", 1)
  BY DEF Init
<1>3. Blank("idle", 1) \in Txn
  BY DEF Blank, Txn, Stages, Hashes
<1>4. Typed
  BY <1>1, <1>3 DEF Typed, Init
<1>5. Chain /\ Mirrored
  BY <1>1 DEF Chain, Mirrored, Init, RowAt
<1>6. Exclusive /\ Current
  BY <1>2, NoWriterAssumption DEF Exclusive, Current, Blank, Holding, Init
<1> QED
  BY <1>4, <1>5, <1>6 DEF IInv

\* A step that leaves the rows alone and the record in w's hand either alone or
\* current.
LEMMA Keeps ==
  ASSUME IInv, UNCHANGED <<rows, mirror>>,
         lock' \in Writers \cup {NoWriter}, txn' \in [Writers -> Txn], Exclusive', Current'
  PROVE  IInv'
BY DEF IInv, Typed, Chain, Mirrored, NextAfter, N, RowAt

LEMMA BeginStep == ASSUME IInv, NEW w \in Writers, Begin(w) \/ SkipAnonymous(w) PROVE IInv'
<1>1. PICK stage \in {"begun", "done"} : EntersStage(w, stage)
  BY DEF Begin, SkipAnonymous
<1>2. txn[w].stage \in {"idle", "begun"} /\ UNCHANGED <<rows, mirror, lock>>
  BY DEF Begin, SkipAnonymous
<1>3. txn' \in [Writers -> Txn]
  BY <1>1 DEF EntersStage, IInv, Typed, Txn, Stages
<1>4. \A v \in Writers : v # w => txn'[v] = txn[v]
  BY <1>1 DEF EntersStage, IInv, Typed
<1>5. txn'[w].stage = stage
  BY <1>1 DEF EntersStage, IInv, Typed, Txn
<1>6. Exclusive'
  BY <1>2, <1>4, <1>5 DEF IInv, Exclusive, Holding
<1>7. Current'
  BY <1>2, <1>4, <1>5 DEF IInv, Current, NextAfter, N
<1> QED
  BY <1>2, <1>3, <1>6, <1>7, Keeps DEF IInv, Typed

LEMMA LockStep == ASSUME IInv, NEW w \in Writers, Lock(w) PROVE IInv'
<1>1. /\ EntersStage(w, "locked") /\ lock' = w /\ lock = NoWriter
      /\ txn[w].stage = "begun" /\ UNCHANGED <<rows, mirror>>
  BY DEF Lock, TenantRowIsFree
<1>2. txn' \in [Writers -> Txn] /\ txn'[w].stage = "locked"
  BY <1>1 DEF EntersStage, IInv, Typed, Txn, Stages
<1>3. \A v \in Writers : v # w => txn'[v] = txn[v]
  BY <1>1 DEF EntersStage, IInv, Typed
<1>4. Exclusive'
  BY <1>1, <1>2, <1>3, NoWriterAssumption DEF IInv, Exclusive, Holding
<1>5. Current'
  BY <1>1, <1>2, <1>3 DEF IInv, Current, NextAfter, N
<1> QED
  BY <1>1, <1>2, <1>4, <1>5, Keeps

LEMMA LinkStep == ASSUME IInv, NEW w \in Writers, Link(w) PROVE IInv'
<1>1. PICK hash \in LatestHashes : txn' = [txn EXCEPT ![w].stage = "linked", ![w].prev = hash]
  BY DEF Link
<1>2. txn[w].stage = "locked" /\ UNCHANGED <<rows, mirror, lock>>
  BY DEF Link
<1>3. NextAfter(hash, N)
  BY TipIsLast
<1>4. hash \in Hashes
  BY <1>3 DEF NextAfter, IInv, Typed, RowRecord, Hashes
<1>5. txn' \in [Writers -> Txn] /\ txn'[w].stage = "linked" /\ txn'[w].prev = hash
  BY <1>1, <1>4 DEF IInv, Typed, Txn, Stages
<1>6. \A v \in Writers : v # w => txn'[v] = txn[v]
  BY <1>1 DEF IInv, Typed
<1>7. Exclusive'
  BY <1>2, <1>5, <1>6 DEF IInv, Exclusive, Holding
<1>8. Current'
  BY <1>2, <1>3, <1>5, <1>6 DEF IInv, Current, NextAfter, N
<1> QED
  BY <1>2, <1>5, <1>7, <1>8, Keeps DEF IInv, Typed

LEMMA InsertStep == ASSUME IInv, NEW w \in Writers, Insert(w) PROVE IInv'
<1>1. PICK time \in Times :
        txn' = [txn EXCEPT ![w] = [@ EXCEPT !.stage = "inserted", !.time = time, !.seq = N + 1]]
  BY DEF Insert, N
<1>2. txn[w].stage = "linked" /\ UNCHANGED <<rows, mirror, lock>>
  BY DEF Insert
<1>3. N \in Nat /\ time \in Nat
  <2>1. IsFiniteSet(rows)
    BY DEF IInv, Typed
  <2>2. N \in Nat
    BY <2>1, FS_CardinalityType DEF N
  <2> QED
    BY <2>2, TimesAssumption
<1>4. txn' \in [Writers -> Txn]
  <2>1. txn[w] \in Txn
    BY DEF IInv, Typed
  <2>2. [txn[w] EXCEPT !.stage = "inserted", !.time = time, !.seq = N + 1] \in Txn
    <3> DEFINE inserted == [txn[w] EXCEPT !.stage = "inserted"]
               dated == [inserted EXCEPT !.time = time]
    <3>1. inserted \in Txn
      BY <2>1 DEF Txn, Stages
    <3>2. dated \in Txn
      <4> HIDE DEF inserted
      <4> QED
        BY <1>3, <3>1 DEF Txn
    <3>3. [dated EXCEPT !.seq = N + 1] \in Txn
      <4> HIDE DEF dated
      <4>1. N + 1 \in Nat
        BY <1>3
      <4> QED
        BY <3>2, <4>1 DEF Txn
    <3> QED
      BY <3>3
  <2> QED
    BY <1>1, <2>2 DEF IInv, Typed
<1>5. /\ txn'[w].stage = "inserted" /\ txn'[w].prev = txn[w].prev
      /\ txn'[w].seq = N + 1 /\ txn'[w].time = time
  BY <1>1 DEF IInv, Typed, Txn
<1>6. \A v \in Writers : v # w => txn'[v] = txn[v]
  BY <1>1 DEF IInv, Typed
<1>7. Exclusive'
  BY <1>2, <1>5, <1>6 DEF IInv, Exclusive, Holding
<1>8. Current'
  BY <1>2, <1>5, <1>6 DEF IInv, Current, NextAfter, N
<1> QED
  BY <1>2, <1>4, <1>7, <1>8, Keeps DEF IInv, Typed

\* The record in hand is a row of the right number, of an id of its own.
LEMMA InHand ==
  ASSUME IInv, NEW w \in Writers, txn[w].stage \in {"inserted", "mirrored"}
  PROVE  /\ RecordOf(w) \in RowRecord
         /\ RecordOf(w).id = <<w, txn[w].attempt>> /\ RecordOf(w).id \in Ids
         /\ RecordOf(w).seq = N + 1
         /\ NextAfter(RecordOf(w).prev, N)
         /\ \A r \in rows : r.id # RecordOf(w).id
         /\ N \in Nat
<1>1. txn[w] \in Txn
  BY DEF IInv, Typed
<1>2. RecordOf(w) \in RowRecord /\ RecordOf(w).id = <<w, txn[w].attempt>> /\ RecordOf(w).id \in Ids
  <2>1. <<w, txn[w].attempt>> \in Ids
    BY <1>1 DEF Txn, Ids
  <2>2. txn[w].prev \in Hashes /\ txn[w].seq \in Nat /\ txn[w].time \in Times
    BY <1>1 DEF Txn, IInv, Current
  <2> QED
    BY <2>1, <2>2 DEF RecordOf, RowRecord
<1>3. RecordOf(w).seq = N + 1 /\ NextAfter(RecordOf(w).prev, N)
  BY DEF IInv, Current, RecordOf
<1>4. ASSUME NEW r \in rows, r.id = RecordOf(w).id PROVE FALSE
  <2>1. PICK v \in Writers, a \in Nat : r.id = <<v, a>> /\ txn[v].stage = "done"
    BY DEF IInv, Exclusive
  <2>2. v = w
    BY <1>2, <1>4, <2>1
  <2> QED
    BY <2>1, <2>2
<1> QED
  BY <1>2, <1>3, <1>4, FS_CardinalityType DEF IInv, Typed, N

LEMMA MirrorStep == ASSUME IInv, NEW w \in Writers, Mirror(w) PROVE IInv'
<1>1. /\ txn[w].stage = "inserted" /\ UNCHANGED <<rows, lock>> /\ EntersStage(w, "mirrored")
      /\ mirror' \in {mirror, mirror \cup {RecordOf(w)}}
  BY DEF Mirror
<1>2. txn' \in [Writers -> Txn]
  BY <1>1 DEF EntersStage, IInv, Typed, Txn, Stages
<1>3. /\ txn'[w].stage = "mirrored" /\ txn'[w].prev = txn[w].prev
      /\ txn'[w].seq = txn[w].seq /\ txn'[w].time = txn[w].time
  BY <1>1 DEF EntersStage, IInv, Typed, Txn
<1>4. \A v \in Writers : v # w => txn'[v] = txn[v]
  BY <1>1 DEF EntersStage, IInv, Typed
<1>5. Typed' /\ Chain'
  BY <1>1, <1>2, InHand DEF IInv, Typed, Chain, NextAfter, N, RowAt
<1>6. Exclusive'
  BY <1>1, <1>3, <1>4 DEF IInv, Exclusive, Holding
<1>7. Current'
  BY <1>1, <1>3, <1>4 DEF IInv, Current, NextAfter, N
<1>8. Mirrored'
  <2>1. NextAfter(RecordOf(w).prev, RecordOf(w).seq - 1)
    BY <1>1, InHand
  <2> QED
    BY <1>1, <2>1 DEF IInv, Mirrored, NextAfter
<1> QED
  BY <1>5, <1>6, <1>7, <1>8 DEF IInv

LEMMA CommitStep == ASSUME IInv, NEW w \in Writers, Commit(w) PROVE IInv'
<1> DEFINE new == RecordOf(w)
<1>1. /\ txn[w].stage \in {"inserted", "mirrored"} /\ rows' = rows \cup {new}
      /\ lock' = NoWriter /\ UNCHANGED mirror
      /\ txn' = [txn EXCEPT ![w] = Blank("done", txn[w].attempt)]
  BY DEF Commit
<1>2. /\ new \in RowRecord /\ new.id = <<w, txn[w].attempt>> /\ new.seq = N + 1
      /\ NextAfter(new.prev, N) /\ \A r \in rows : r.id # new.id
      /\ N \in Nat
  BY <1>1, InHand
<1>3. new \notin rows /\ IsFiniteSet(rows') /\ N' = N + 1
  BY <1>1, <1>2, FS_AddElement DEF IInv, Typed, N
<1>4. txn[w].attempt \in Nat /\ Blank("done", txn[w].attempt) \in Txn
  BY DEF IInv, Typed, Txn, Blank, Stages, Hashes
<1>5. Typed'
  BY <1>1, <1>2, <1>3, <1>4 DEF IInv, Typed
<1>6. txn'[w].stage = "done" /\ \A v \in Writers : v # w => txn'[v] = txn[v]
  BY <1>1, <1>4 DEF IInv, Typed, Blank
<1>7. \A v \in Writers : v # w => txn[v].stage \notin Holding
  BY <1>1 DEF IInv, Exclusive, Holding
<1>8. ASSUME NEW hash, NEW n, NextAfter(hash, n) PROVE NextAfter(hash, n)'
  BY <1>1, <1>8 DEF NextAfter
<1>9. Chain'
  <2>1. \A r \in rows' : r.seq \in 1 .. N'
    BY <1>1, <1>2, <1>3 DEF IInv, Chain
  <2>2. ASSUME NEW n \in 1 .. N' PROVE RowAt(n)'
    <3>1. CASE n = N + 1
      BY <1>1, <1>2, <3>1 DEF RowAt
    <3>2. CASE n # N + 1
      <4>1. PICK r \in rows : r.seq = n
        BY <1>2, <1>3, <3>2 DEF IInv, Chain, RowAt
      <4> QED
        BY <1>1, <4>1 DEF RowAt
    <3> QED
      BY <3>1, <3>2
  <2>3. \A r, s \in rows' : r.seq = s.seq \/ r.id = s.id => r = s
    BY <1>1, <1>2 DEF IInv, Chain
  <2>4. ASSUME NEW r \in rows' PROVE \/ r.seq - 1 = 0 /\ r.prev = Genesis
                                     \/ \E p \in rows' : p.id = r.prev /\ p.seq = r.seq - 1
    <3>1. CASE r = new
      BY <1>1, <1>2, <3>1 DEF NextAfter
    <3>2. CASE r \in rows
      BY <1>1, <3>2 DEF IInv, Chain, NextAfter
    <3> QED
      BY <1>1, <3>1, <3>2
  <2> QED
    BY <2>1, <2>2, <2>3, <2>4 DEF Chain, NextAfter
<1>10. Exclusive'
  <2>1. \A v \in Writers : txn'[v].stage \in Holding <=> lock' = v
    BY <1>1, <1>6, <1>7, NoWriterAssumption DEF Holding
  <2>2. ASSUME NEW r \in rows'
        PROVE  \E v \in Writers, a \in Nat : r.id = <<v, a>> /\ txn'[v].stage = "done"
    <3>1. CASE r = new
      BY <1>2, <1>4, <1>6, <3>1
    <3>2. CASE r \in rows
      BY <1>6, <3>2 DEF IInv, Exclusive
    <3> QED
      BY <1>1, <3>1, <3>2
  <2> QED
    BY <2>1, <2>2 DEF Exclusive
<1>11. Current'
  BY <1>6, <1>7 DEF Current, Holding
<1>12. Mirrored'
  BY <1>1 DEF IInv, Mirrored, NextAfter
<1> QED
  BY <1>5, <1>9, <1>10, <1>11, <1>12 DEF IInv

LEMMA FailStep == ASSUME IInv, NEW w \in Writers, Fail(w) \/ Deadlock(w) PROVE IInv'
<1>1. /\ txn[w].stage \notin Closed /\ UNCHANGED <<rows, mirror>> /\ lock' = ReleasedBy(w)
      /\ txn' = [txn EXCEPT ![w] = Blank(AfterFailure(w), txn[w].attempt + 1)]
  BY DEF Fail, Deadlock, Sharers, Closed, RollsBack
<1>2. txn[w] \in Txn /\ AfterFailure(w) \in {"idle", "dead", "failed"}
  BY DEF IInv, Typed, AfterFailure
<1>3. Blank(AfterFailure(w), txn[w].attempt + 1) \in Txn
  BY <1>2 DEF Txn, Blank, Stages, Hashes
<1>4. txn' \in [Writers -> Txn] /\ txn'[w].stage \in {"idle", "dead", "failed"}
  BY <1>1, <1>2, <1>3 DEF IInv, Typed, Blank
<1>5. \A v \in Writers : v # w => txn'[v] = txn[v]
  BY <1>1 DEF IInv, Typed
<1>6. lock' = (IF lock = w THEN NoWriter ELSE lock) /\ lock' \in Writers \cup {NoWriter}
  BY <1>1 DEF ReleasedBy, IInv, Typed
<1>7. \A v \in Writers : txn'[v].stage \in Holding <=> lock' = v
  BY <1>1, <1>4, <1>5, <1>6, NoWriterAssumption DEF IInv, Exclusive, Holding
<1>8. \A r \in rows : \E v \in Writers, a \in Nat : r.id = <<v, a>> /\ txn'[v].stage = "done"
  BY <1>1, <1>5 DEF IInv, Exclusive, Closed
<1>9. Exclusive'
  BY <1>1, <1>7, <1>8 DEF Exclusive
<1>10. Current'
  BY <1>1, <1>4, <1>5 DEF IInv, Current, NextAfter, N
<1> QED
  BY <1>1, <1>4, <1>6, <1>9, <1>10, Keeps

-----------------------------------------------------------------------------
LEMMA Step0 ==
  ASSUME IInv, UNCHANGED <<rows, mirror, lock, txn>>
  PROVE  IInv'
BY DEF IInv, Typed, Chain, Exclusive, Current, Mirrored, NextAfter, N, RowAt

LEMMA Preserved == ASSUME IInv, [Next]_vars PROVE IInv'
<1>1. CASE UNCHANGED vars
  BY <1>1, Step0 DEF vars, ledger
<1>2. CASE \E s \in Streams : PublishStream(s)
  BY <1>2, Step0 DEF PublishStream
<1>3. CASE StartAudit \/ AuditPage \/ FinishAudit
  BY <1>3, Step0 DEF StartAudit, AuditPage, FinishAudit, ledger
<1>4. ASSUME NEW w \in Writers, Begin(w) \/ Step(w) \/ Fail(w)
      PROVE  IInv'
  BY <1>4, BeginStep, LockStep, LinkStep, InsertStep, MirrorStep, CommitStep, FailStep DEF Step
<1> QED
  BY <1>1, <1>2, <1>3, <1>4 DEF Next

LEMMA Invariant == Spec => []IInv
<1>1. Init => IInv
  BY Start
<1>2. IInv /\ [Next]_vars => IInv'
  BY Preserved
<1> QED
  BY <1>1, <1>2, PTL DEF Spec

\* The rows form one chain from the genesis hash, without a fork or a gap, in the
\* order of their numbers, for any number of workers and gateway requests that
\* fail at any point (audit_worker.py:62-66, integrity.py:98-122).
THEOREM ChainIsSingle == Spec => []SingleChain
<1>1. IInv => SingleChain
  <2>1. SUFFICES ASSUME IInv, NEW r \in rows
                 PROVE  \/ r.seq = 1 /\ r.prev = Genesis
                        \/ \E p \in rows : p.id = r.prev /\ p.seq = r.seq - 1
    BY DEF IInv, Chain, SingleChain
  <2>2. r \in RowRecord
    BY <2>1 DEF IInv, Typed
  <2>3. r.seq \in Nat
    BY <2>2 DEF RowRecord
  <2>4. NextAfter(r.prev, r.seq - 1)
    BY <2>1 DEF IInv, Chain
  <2> QED
    BY <2>3, <2>4 DEF NextAfter
<1> QED
  BY <1>1, Invariant, PTL

\* A mirrored record, even one that was rolled back, continues the chain of the
\* rows at its number (audit_worker.py:124-147).
THEOREM MirrorIsAnchored == Spec => []MirrorHangsOffLedger
<1>1. IInv => MirrorHangsOffLedger
  <2>1. SUFFICES ASSUME IInv, NEW m \in mirror
                 PROVE  \/ m.seq = 1 /\ m.prev = Genesis
                        \/ \E p \in rows : p.id = m.prev /\ p.seq = m.seq - 1
    BY DEF MirrorHangsOffLedger
  <2>2. m \in RowRecord
    BY <2>1 DEF IInv, Typed
  <2>3. m.seq \in Nat
    BY <2>2 DEF RowRecord
  <2>4. NextAfter(m.prev, m.seq - 1)
    BY <2>1 DEF IInv, Mirrored
  <2> QED
    BY <2>3, <2>4 DEF NextAfter
<1> QED
  BY <1>1, Invariant, PTL

-----------------------------------------------------------------------------
(***************************************************************************)
(* Verification.                                                           *)
(***************************************************************************)
Before == {pair \in Nat \X Nat : pair[1] < pair[2]}

\* A set of numbers that is not empty has a least one.
LEMMA Least ==
  ASSUME NEW T, T \subseteq Nat, T # {}
  PROVE  \E n \in T : \A m \in T : n <= m
<1>1. IsWellFoundedOn(Before, Nat)
  BY NatLessThanWellFounded, SMT DEF Before, OpToRel
<1>2. PICK n \in T : \A m \in T : <<m, n>> \notin Before
  BY <1>1, WFMin
<1>3. ASSUME NEW m \in T PROVE n <= m
  <2>1. m \in Nat /\ n \in Nat /\ <<m, n>> \in Nat \X Nat
    OBVIOUS
  <2>2. ~(m < n)
    BY <1>2, <2>1 DEF Before
  <2> QED
    BY <2>1, <2>2
<1> QED
  BY <1>3

\* Every row that was committed when the verification began is numbered 1 .. n.
Covered(n) == \A r \in rows : r.id \in audit.base => r.seq <= n
Walked == Len(audit.scanned)

\* While no link is broken, the records that were scanned are the rows 1 .. Walked,
\* whatever order they were listed in, and no page but the one that reached the
\* end of the ledger was shorter than the offset says.
AuditInv ==
  /\ audit \in Audit
  /\ \A id \in audit.base : \E r \in rows : r.id = id
  /\ ~audit.breaks =>
       /\ \A i \in 1 .. Walked : \E r \in rows : r.id = audit.scanned[i] /\ r.seq = i
       /\ NextAfter(audit.expected, Walked)
       /\ Walked <= audit.offset
       /\ Walked = audit.offset \/ Covered(Walked)
  /\ audit.phase = "intact" => ~audit.breaks /\ Covered(Walked)

\* The row after the one numbered n is numbered n + 1.
LEMMA NextNumber ==
  ASSUME IInv, NEW n \in Nat, NEW r \in rows, NextAfter(r.prev, n)
  PROVE  r.seq = n + 1
<1>1. /\ r.seq \in 1 .. N /\ N \in Nat
      /\ NextAfter(r.prev, r.seq - 1)
  BY FS_CardinalityType DEF IInv, Chain, Typed, N
<1>2. ASSUME NEW p \in rows PROVE p.id # Genesis
  BY GenesisAssumption DEF IInv, Typed, RowRecord, Ids
<1>3. \A p, q \in rows : p.id = q.id => p = q
  BY DEF IInv, Chain
<1> QED
  BY <1>1, <1>2, <1>3 DEF NextAfter

\* What a query for a page returns, in either direction.
LEMMA PageFacts ==
  ASSUME IInv, NEW listing \in Listings, NEW offset \in Nat,
         NEW page, page = Ascending(PageOf(listing, offset)), page # <<>>
  PROVE  /\ page \in Seq(rows) /\ Len(page) \in Nat \ {0}
         /\ offset + Len(page) = IF N < offset + PageSize THEN N ELSE offset + PageSize
<1> DEFINE last == IF N < offset + PageSize THEN N ELSE offset + PageSize
           slice == PageOf(listing, offset)
<1>1. N \in Nat /\ PageSize \in Nat \ {0} /\ last \in Nat
  BY FS_CardinalityType, PageAssumption DEF IInv, Typed, N
<1>2. listing \in [1 .. N -> rows]
  BY DEF Listings, N
<1>3. listing \in Seq(rows) /\ Len(listing) = N
  BY <1>1, <1>2
<1>4. slice = SubSeq(listing, offset + 1, last)
  BY <1>3 DEF PageOf
<1>5. \A i \in offset + 1 .. last : listing[i] \in rows
  BY <1>1, <1>2
<1>6. /\ slice \in Seq(rows)
      /\ Len(slice) = IF offset + 1 <= last THEN last - (offset + 1) + 1 ELSE 0
  <2> HIDE DEF last, slice
  <2>1. offset + 1 \in Int /\ last \in Int
    BY <1>1
  <2> QED
    BY <1>4, <1>5, <2>1, SubSeqProperties
<1>7. page \in Seq(rows) /\ Len(page) = Len(slice)
  <2>1. CASE page = slice
    BY <1>6, <2>1
  <2>2. CASE page # slice
    <3> HIDE DEF slice
    <3>1. page = [i \in 1 .. Len(slice) |-> slice[Len(slice) + 1 - i]]
      BY <2>2 DEF Ascending, slice
    <3>2. Len(slice) \in Nat /\ \A j \in 1 .. Len(slice) : slice[j] \in rows
      BY <1>6
    <3>3. \A i \in 1 .. Len(slice) : slice[Len(slice) + 1 - i] \in rows
      BY <3>2
    <3>4. page \in [1 .. Len(slice) -> rows]
      BY <3>1, <3>3
    <3> QED
      BY <3>2, <3>4
  <2> QED
    BY <2>1, <2>2
<1>8. Len(page) # 0
  BY <1>7
<1>9. offset + 1 <= last /\ offset + Len(page) = last
  BY <1>1, <1>6, <1>7, <1>8
<1> QED
  BY <1>7, <1>8, <1>9

\* A page whose records are linked to one another and to row n holds the rows
\* that follow row n.
LEMMA LinkedPage ==
  ASSUME IInv, NEW n \in Nat, NEW expected, NextAfter(expected, n),
         NEW page \in Seq(rows),
         \A i \in 1 .. Len(page) : page[i].prev = IF i = 1 THEN expected ELSE page[i - 1].id
  PROVE  \A i \in 1 .. Len(page) : page[i].seq = n + i
<1> DEFINE Wrong == {i \in 1 .. Len(page) : page[i].seq # n + i}
<1>1. Len(page) \in Nat /\ \A i \in 1 .. Len(page) : page[i] \in rows
  BY LenProperties
<1>2. ASSUME Wrong # {} PROVE FALSE
  <2>1. Wrong \subseteq Nat
    BY <1>1
  <2>2. PICK i \in Wrong : \A j \in Wrong : i <= j
    BY <1>2, <2>1, Least
  <2>3. i \in 1 .. Len(page) /\ page[i] \in rows
    BY <1>1, <2>2
  <2>4. CASE i = 1
    <3>1. page[i].prev = expected
      BY <2>3, <2>4
    <3>2. page[i].seq = n + 1
      BY <2>3, <3>1, NextNumber
    <3> QED
      BY <2>2, <2>4, <3>2
  <2>5. CASE i # 1
    <3>1. i - 1 \in 1 .. Len(page) /\ i - 1 \notin Wrong
      BY <1>1, <2>2, <2>3, <2>5
    <3>2. page[i - 1] \in rows /\ page[i - 1].seq = n + i - 1
      BY <1>1, <3>1
    <3>3. page[i].prev = page[i - 1].id
      BY <2>3, <2>5
    <3>4. n + i - 1 \in Nat
      BY <2>3, <1>1
    <3>5. NextAfter(page[i].prev, n + i - 1)
      BY <3>2, <3>3 DEF NextAfter
    <3>6. page[i].seq = n + i - 1 + 1
      BY <2>3, <3>4, <3>5, NextNumber
    <3> QED
      BY <2>2, <3>6, <2>3, <1>1
  <2> QED
    BY <2>4, <2>5
<1> QED
  BY <1>2

\* What a verification has walked stays walked when rows are added.
LEMMA RowsGrow ==
  ASSUME IInv, IInv', AuditInv, UNCHANGED audit,
         rows \subseteq rows', \A r \in rows' : r \in rows \/ \A s \in rows : s.id # r.id
  PROVE  AuditInv'
<1>1. Walked' = Walked
  BY DEF Walked
<1>2. ASSUME NEW n, Covered(n) PROVE Covered(n)'
  <2>1. SUFFICES ASSUME NEW r \in rows', r.id \in audit.base PROVE r.seq <= n
    BY DEF Covered
  <2>2. r \in rows
    BY <2>1 DEF AuditInv
  <2> QED
    BY <1>2, <2>1, <2>2 DEF Covered
<1>3. ASSUME NEW hash, NEW n, NextAfter(hash, n) PROVE NextAfter(hash, n)'
  BY <1>3 DEF NextAfter
<1>4. ASSUME ~audit.breaks
      PROVE  /\ \A i \in 1 .. Walked : \E r \in rows' : r.id = audit.scanned[i] /\ r.seq = i
             /\ NextAfter(audit.expected, Walked)'
             /\ Walked <= audit.offset
             /\ Walked = audit.offset \/ Covered(Walked)'
  <2>1. NextAfter(audit.expected, Walked)'
    BY <1>3, <1>4, <1>1 DEF AuditInv, NextAfter
  <2>2. Covered(Walked) => Covered(Walked)'
    BY <1>1, <1>2 DEF Covered
  <2> QED
    BY <1>4, <2>1, <2>2 DEF AuditInv
<1>5. Covered(Walked) => Covered(Walked)'
  BY <1>1, <1>2 DEF Covered
<1>6. audit' \in Audit /\ \A id \in audit'.base : \E r \in rows' : r.id = id
  BY DEF AuditInv
<1> QED
  BY <1>1, <1>4, <1>5, <1>6 DEF AuditInv

LEMMA StartAuditStep == ASSUME IInv, AuditInv, StartAudit PROVE AuditInv'
<1>1. /\ audit' = [NoAudit EXCEPT !.phase = "paging", !.base = {r.id : r \in rows}]
      /\ UNCHANGED rows
  BY DEF StartAudit, ledger
<1>2. /\ audit'.phase = "paging" /\ audit'.offset = 0 /\ audit'.expected = Genesis
      /\ audit'.breaks = FALSE /\ audit'.scanned = <<>> /\ audit'.base = {r.id : r \in rows}
  BY <1>1 DEF NoAudit
<1>3. audit' \in Audit
  <2>1. {r.id : r \in rows} \subseteq Ids
    BY DEF IInv, Typed, RowRecord
  <2>2. Genesis \in Hashes /\ <<>> \in Seq(Ids)
    BY DEF Hashes
  <2> QED
    BY <1>1, <2>1, <2>2 DEF NoAudit, Audit
<1>4. Walked' = 0
  BY <1>2 DEF Walked
<1>5. NextAfter(audit.expected, Walked)'
  BY <1>2, <1>4 DEF NextAfter
<1> QED
  BY <1>1, <1>2, <1>3, <1>4, <1>5 DEF AuditInv

LEMMA FinishAuditStep == ASSUME IInv, AuditInv, FinishAudit PROVE AuditInv'
<1>1. /\ audit' = [audit EXCEPT !.phase = IF audit.breaks THEN "tampered" ELSE "intact"]
      /\ UNCHANGED rows /\ N <= audit.offset
  BY DEF FinishAudit, ledger, N
<1>2. audit \in Audit
  BY DEF AuditInv
<1>3. /\ audit'.phase = (IF audit.breaks THEN "tampered" ELSE "intact")
      /\ audit'.offset = audit.offset /\ audit'.expected = audit.expected
      /\ audit'.breaks = audit.breaks /\ audit'.scanned = audit.scanned
      /\ audit'.base = audit.base
      /\ audit' \in Audit
  BY <1>1, <1>2 DEF Audit
<1>4. Walked' = Walked /\ (NextAfter(audit.expected, Walked)' <=> NextAfter(audit.expected, Walked))
      /\ (Covered(Walked)' <=> Covered(Walked))
  BY <1>1, <1>3 DEF Walked, NextAfter, Covered
<1>5. ASSUME ~audit.breaks, Walked = audit.offset PROVE Covered(Walked)
  <2>1. N \in Nat /\ \A r \in rows : r.seq \in 1 .. N
    BY FS_CardinalityType DEF IInv, Typed, Chain, N
  <2>2. audit.offset \in Nat
    BY <1>2 DEF Audit
  <2> QED
    BY <1>1, <1>5, <2>1, <2>2 DEF Covered
<1>6. audit'.phase = "intact" => ~audit'.breaks /\ Covered(Walked)'
  BY <1>3, <1>4, <1>5 DEF AuditInv
<1> QED
  BY <1>1, <1>3, <1>4, <1>6 DEF AuditInv

\* After a broken link nothing but the offset of the walk is left.
LEMMA BrokenPage ==
  ASSUME UNCHANGED rows, NEW walk, audit' = Settled(walk), walk.breaks,
         walk.phase = "paging", walk.offset \in Nat
  PROVE  AuditInv'
<1>1. /\ audit' \in Audit
      /\ audit'.phase = "paging" /\ audit'.breaks = TRUE /\ audit'.base = {}
  <2>1. audit' = [NoAudit EXCEPT !.phase = "paging", !.offset = walk.offset, !.breaks = TRUE]
    BY DEF Settled
  <2>2. Genesis \in Hashes /\ <<>> \in Seq(Ids) /\ {} \in SUBSET Ids
    BY DEF Hashes
  <2> QED
    BY <2>1, <2>2 DEF NoAudit, Audit
<1>2. audit'.phase # "intact" /\ ~(~audit'.breaks)
  BY <1>1
<1> QED
  BY <1>1, <1>2 DEF AuditInv

LEMMA AuditPageStep == ASSUME IInv, AuditInv, AuditPage PROVE AuditInv'
<1> DEFINE pageOf(listing) == Ascending(PageOf(listing, audit.offset))
           before(page, i) == IF i = 1 THEN audit.expected ELSE page[i - 1].id
           linked(page) == \A i \in DOMAIN page : page[i].prev = before(page, i)
           ids(page) == [i \in DOMAIN page |-> page[i].id]
           turned(page) == [audit EXCEPT !.offset = NextOffset(page),
                                         !.expected = page[Len(page)].id,
                                         !.breaks = @ \/ ~linked(page),
                                         !.scanned = @ \o ids(page)]
<1>0. PICK listing \in Listings :
        pageOf(listing) # <<>> /\ audit' = Settled(turned(pageOf(listing)))
  BY DEF AuditPage
<1>1. PICK page : page = pageOf(listing) /\ page # <<>> /\ audit' = Settled(turned(page))
  BY <1>0
<1>2. UNCHANGED rows /\ audit.phase = "paging"
  BY DEF AuditPage, ledger
<1> HIDE DEF linked, ids
<1>3. audit \in Audit
  BY DEF AuditInv
<1>4. /\ turned(page).phase = "paging" /\ turned(page).offset \in Nat
       /\ turned(page).breaks \in BOOLEAN
  BY <1>2, <1>3, PageAssumption DEF Audit, NextOffset
<1>5. CASE turned(page).breaks
  <2> HIDE DEF turned
  <2> QED
    BY <1>1, <1>2, <1>4, <1>5, BrokenPage
<1> SUFFICES ASSUME ~turned(page).breaks PROVE AuditInv'
    BY <1>5
<1>6. audit' = turned(page)
  BY <1>1 DEF Settled
<1>7. /\ audit'.phase = "paging" /\ audit'.offset = audit.offset + PageSize
      /\ audit'.expected = page[Len(page)].id
      /\ audit'.breaks = (audit.breaks \/ ~linked(page))
      /\ audit'.scanned = audit.scanned \o ids(page) /\ audit'.base = audit.base
  BY <1>2, <1>3, <1>6 DEF Audit, NextOffset
<1>8. audit.offset \in Nat /\ PageSize \in Nat /\ audit.scanned \in Seq(Ids)
  BY <1>3, PageAssumption DEF Audit
<1>9. /\ page \in Seq(rows) /\ Len(page) \in Nat \ {0}
      /\ audit.offset + Len(page) = IF N < audit.offset + PageSize THEN N ELSE audit.offset + PageSize
  BY <1>1, <1>8, PageFacts
<1>10. /\ DOMAIN page = 1 .. Len(page)
      /\ \A i \in 1 .. Len(page) : page[i] \in rows /\ page[i].id \in Ids
  <2>1. DOMAIN page = 1 .. Len(page) /\ \A i \in 1 .. Len(page) : page[i] \in rows
    BY <1>9
  <2> QED
    BY <2>1 DEF IInv, Typed, RowRecord
<1>11. ids(page) \in Seq(Ids) /\ Len(ids(page)) = Len(page)
      /\ \A i \in 1 .. Len(page) : ids(page)[i] = page[i].id
  BY <1>9, <1>10 DEF ids
<1>12. /\ audit'.scanned \in Seq(Ids) /\ Walked' = Walked + Len(page) /\ Walked \in Nat
      /\ \A i \in 1 .. Walked + Len(page) :
           audit'.scanned[i] = IF i <= Walked THEN audit.scanned[i] ELSE page[i - Walked].id
  <2>1. Walked \in Nat
    BY <1>8 DEF Walked
  <2>2. /\ audit'.scanned \in Seq(Ids) /\ Walked' = Walked + Len(page)
        /\ \A i \in 1 .. Walked + Len(page) :
             audit'.scanned[i] = IF i <= Walked THEN audit.scanned[i] ELSE ids(page)[i - Walked]
    <3>1. PICK old, more : /\ old = audit.scanned /\ more = ids(page)
                           /\ old \in Seq(Ids) /\ more \in Seq(Ids)
      BY <1>8, <1>11
    <3>2. /\ old \o more \in Seq(Ids) /\ Len(old \o more) = Len(old) + Len(more)
          /\ \A i \in 1 .. Len(old) + Len(more) :
               (old \o more)[i] = IF i <= Len(old) THEN old[i] ELSE more[i - Len(old)]
      BY <3>1, ConcatProperties
    <3>3. audit'.scanned = old \o more /\ Walked = Len(old) /\ Len(more) = Len(page)
      BY <1>7, <1>11, <3>1 DEF Walked
    <3>4. Walked' = Len(old \o more)
      BY <3>3 DEF Walked
    <3> QED
      BY <3>1, <3>2, <3>3, <3>4
  <2>3. \A i \in 1 .. Walked + Len(page) : ~(i <= Walked) => i - Walked \in 1 .. Len(page)
    BY <1>9, <2>1
  <2> QED
    BY <1>11, <2>1, <2>2, <2>3
<1>13. audit' \in Audit
  <2>1. page[Len(page)].id \in Hashes
    BY <1>9, <1>10 DEF Hashes
  <2>2. NextOffset(page) \in Nat
    BY <1>8 DEF NextOffset
  <2>3. audit.scanned \o ids(page) \in Seq(Ids)
    BY <1>7, <1>12
  <2>4. (audit.breaks \/ ~linked(page)) \in BOOLEAN
    OBVIOUS
  <2> QED
    BY <1>3, <1>6, <2>1, <2>2, <2>3, <2>4 DEF Audit
<1>14. ASSUME ~audit'.breaks
       PROVE  /\ \A i \in 1 .. Walked' : \E r \in rows' : r.id = audit'.scanned[i] /\ r.seq = i
              /\ NextAfter(audit.expected, Walked)'
              /\ Walked' <= audit'.offset
              /\ Walked' = audit'.offset \/ Covered(Walked)'
  <2>1. ~audit.breaks /\ linked(page)
    BY <1>7, <1>14
  <2>2. /\ \A i \in 1 .. Walked : \E r \in rows : r.id = audit.scanned[i] /\ r.seq = i
        /\ NextAfter(audit.expected, Walked)
        /\ Walked <= audit.offset
        /\ Walked = audit.offset \/ Covered(Walked)
    BY <2>1 DEF AuditInv
  <2>3. \A i \in 1 .. Len(page) :
          page[i].prev = IF i = 1 THEN audit.expected ELSE page[i - 1].id
    BY <1>10, <2>1 DEF linked
  <2>4. \A i \in 1 .. Len(page) : page[i].seq = Walked + i
    BY <1>9, <1>12, <2>2, <2>3, LinkedPage
  <2>5. ASSUME NEW i \in 1 .. Walked'
        PROVE  \E r \in rows' : r.id = audit'.scanned[i] /\ r.seq = i
    <3>1. CASE i <= Walked
      <4>1. i \in 1 .. Walked
        BY <1>12, <3>1
      <4> QED
        BY <1>2, <1>9, <1>12, <2>2, <3>1, <4>1
    <3>2. CASE ~(i <= Walked)
      <4>1. i - Walked \in 1 .. Len(page)
        BY <1>9, <1>12, <3>2
      <4>2. page[i - Walked] \in rows' /\ page[i - Walked].seq = Walked + (i - Walked)
        BY <1>2, <1>10, <2>4, <4>1
      <4>3. page[i - Walked].id = audit'.scanned[i]
        BY <1>9, <1>12, <3>2
      <4>4. page[i - Walked].seq = i
        BY <1>12, <4>1, <4>2
      <4> QED
        BY <4>2, <4>3, <4>4
    <3> QED
      BY <3>1, <3>2
  <2>6. NextAfter(audit.expected, Walked)'
    <3>1. Len(page) \in 1 .. Len(page)
      BY <1>9
    <3>2. page[Len(page)] \in rows' /\ page[Len(page)].seq = Walked'
      BY <1>2, <1>10, <1>12, <2>4, <3>1
    <3> QED
      BY <1>7, <3>2 DEF NextAfter
  <2>7. Walked' <= audit'.offset
    BY <1>7, <1>8, <1>9, <1>12, <2>2, FS_CardinalityType DEF IInv, Typed, N
  <2>8. ASSUME Covered(Walked) PROVE Covered(Walked)'
    <3>1. SUFFICES ASSUME NEW r \in rows, r.id \in audit.base PROVE r.seq <= Walked'
      BY <1>2, <1>7 DEF Covered
    <3>2. r.seq <= Walked /\ r.seq \in Nat
      BY <2>8, <3>1 DEF Covered, IInv, Typed, RowRecord
    <3> QED
      BY <1>9, <1>12, <3>2
  <2>9. ASSUME Walked = audit.offset, Walked' # audit'.offset PROVE Covered(Walked)'
    <3>1. N \in Nat /\ Walked' = N
      BY <1>7, <1>8, <1>9, <1>12, <2>9, FS_CardinalityType DEF IInv, Typed, N
    <3> QED
      BY <1>2, <3>1 DEF Covered, IInv, Chain
  <2> QED
    BY <2>2, <2>5, <2>6, <2>7, <2>8, <2>9
<1>15. \A id \in audit'.base : \E r \in rows' : r.id = id
  BY <1>2, <1>7 DEF AuditInv
<1> QED
  BY <1>7, <1>13, <1>14, <1>15 DEF AuditInv

LEMMA WriterStep ==
  ASSUME IInv, IInv', AuditInv, NEW w \in Writers, Begin(w) \/ Step(w) \/ Fail(w)
  PROVE  AuditInv'
<1>1. CASE Commit(w)
  <2>1. /\ txn[w].stage \in {"inserted", "mirrored"} /\ rows' = rows \cup {RecordOf(w)}
        /\ UNCHANGED audit
    BY <1>1 DEF Commit
  <2> QED
    BY <2>1, InHand, RowsGrow
<1>2. CASE ~Commit(w)
  <2>1. UNCHANGED <<rows, audit>>
    BY <1>2 DEF Begin, Step, Fail, Deadlock, SkipAnonymous, Lock, Link, Insert, Mirror
  <2> QED
    BY <2>1, RowsGrow
<1> QED
  BY <1>1, <1>2

Counted == published \subseteq Events \cup Streams /\ failures \in 0 .. MaxFailures

LEMMA CountedStep == ASSUME IInv, Counted, [Next]_vars PROVE Counted'
<1>1. CASE UNCHANGED <<published, failures>>
  BY <1>1 DEF Counted
<1>2. ASSUME NEW s \in Streams, PublishStream(s) PROVE Counted'
  BY <1>2 DEF PublishStream, Counted
<1>3. ASSUME NEW w \in Writers, Fail(w) PROVE Counted'
  BY <1>3, AttemptsAssumption DEF Fail, Counted
<1> QED
  BY <1>1, <1>2, <1>3
  DEF Next, Step, Begin, SkipAnonymous, Lock, Link, Insert, Mirror, Commit,
      Deadlock, StartAudit, AuditPage, FinishAudit, ledger, vars

LEMMA AuditStep == ASSUME IInv, IInv', AuditInv, [Next]_vars PROVE AuditInv'
<1>1. CASE UNCHANGED vars
  BY <1>1, RowsGrow DEF vars, ledger
<1>2. CASE \E s \in Streams : PublishStream(s)
  BY <1>2, RowsGrow DEF PublishStream
<1>3. CASE StartAudit \/ AuditPage \/ FinishAudit
  BY <1>3, StartAuditStep, AuditPageStep, FinishAuditStep
<1>4. ASSUME NEW w \in Writers, Begin(w) \/ Step(w) \/ Fail(w)
      PROVE  AuditInv'
  BY <1>4, WriterStep
<1> QED
  BY <1>1, <1>2, <1>3, <1>4 DEF Next

LEMMA AuditInvariant == Spec => [](IInv /\ AuditInv /\ Counted)
<1>1. Init => IInv /\ AuditInv /\ Counted
  <2> SUFFICES ASSUME Init PROVE IInv /\ AuditInv /\ Counted
      OBVIOUS
  <2>1. Counted
    BY AttemptsAssumption DEF Init, Counted
  <2>2. audit = NoAudit /\ NoAudit \in Audit
    BY DEF Init, NoAudit, Audit, Hashes
  <2>3. AuditInv
    BY <2>2 DEF AuditInv, NoAudit, Walked, NextAfter
  <2> QED
    BY <2>1, <2>3, Start
<1>2. IInv /\ AuditInv /\ Counted /\ [Next]_vars => (IInv /\ AuditInv /\ Counted)'
  BY Preserved, AuditStep, CountedStep
<1> QED
  BY <1>1, <1>2, PTL DEF Spec

\* Every variable keeps its type: the transactions of the writers, the rows of
\* both stores and what verify_tenant_chain carries from page to page.
THEOREM LedgerTyped == Spec => []TypeOK
<1>1. IInv /\ AuditInv /\ Counted => TypeOK
  BY DEF IInv, Typed, AuditInv, Counted, TypeOK
<1> QED
  BY <1>1, AuditInvariant, PTL

\* A verification that reports the chain intact has scanned every row that was
\* committed when it began, once and in chain order, for any page size, whatever is
\* committed between its pages (verification.py:34-87).
THEOREM IntactIsComplete == Spec => []IntactCoversLedger
<1>1. IInv /\ AuditInv => IntactCoversLedger
  <2>1. SUFFICES ASSUME IInv, AuditInv, audit.phase = "intact"
                 PROVE  /\ \A id \in audit.base : \E i \in DOMAIN audit.scanned : audit.scanned[i] = id
                        /\ \A i \in DOMAIN audit.scanned :
                             \E r \in rows : r.id = audit.scanned[i] /\ r.seq = i
    BY DEF IntactCoversLedger
  <2>2. Covered(Walked) /\ \A i \in 1 .. Walked : \E r \in rows : r.id = audit.scanned[i] /\ r.seq = i
    BY <2>1 DEF AuditInv
  <2>3. DOMAIN audit.scanned = 1 .. Walked /\ Walked \in Nat
    BY <2>1 DEF AuditInv, Audit, Walked
  <2>4. ASSUME NEW id \in audit.base PROVE \E i \in 1 .. Walked : audit.scanned[i] = id
    <3>1. PICK r \in rows : r.id = id
      BY <2>1 DEF AuditInv
    <3>2. r.seq \in 1 .. N /\ N \in Nat
      BY <2>1, FS_CardinalityType DEF IInv, Chain, Typed, N
    <3>3. r.seq \in 1 .. Walked
      BY <2>2, <2>3, <3>1, <3>2 DEF Covered
    <3>4. PICK s \in rows : s.id = audit.scanned[r.seq] /\ s.seq = r.seq
      BY <2>2, <3>3
    <3>5. s = r
      BY <2>1, <3>4 DEF IInv, Chain
    <3> QED
      BY <3>1, <3>3, <3>4, <3>5
  <2> QED
    BY <2>2, <2>3, <2>4
<1> QED
  BY <1>1, AuditInvariant, PTL

-----------------------------------------------------------------------------
(***************************************************************************)
(* When the verification does not cry wolf.                                *)
(***************************************************************************)
\* A function on 1 .. n that falls all the way from n to 1 is n, n - 1, ..., 1.
LEMMA Falling ==
  ASSUME NEW n \in Nat, NEW f \in [1 .. n -> 1 .. n],
         \A i, j \in 1 .. n : i < j => f[j] < f[i]
  PROVE  \A i \in 1 .. n : f[i] = n + 1 - i
<1> DEFINE Above == {i \in 1 .. n : f[i] > n + 1 - i}
           Below == {k \in 0 .. n - 1 : f[n - k] < k + 1}
<1>1. ASSUME Above # {} PROVE FALSE
  <2>1. PICK i \in Above : \A j \in Above : i <= j
    <3>1. Above \subseteq Nat
      OBVIOUS
    <3> HIDE DEF Above
    <3> QED
      BY <1>1, <3>1, Least
  <2>2. i \in 1 .. n /\ f[i] \in 1 .. n /\ f[i] > n + 1 - i
    BY <2>1
  <2>3. i - 1 \in 1 .. n /\ i - 1 \notin Above
    BY <2>1, <2>2
  <2>4. f[i - 1] \in 1 .. n /\ f[i - 1] <= n + 1 - (i - 1)
    BY <2>3
  <2>5. f[i] < f[i - 1]
    BY <2>2, <2>3
  <2> QED
    BY <2>2, <2>4, <2>5
<1>2. ASSUME Below # {} PROVE FALSE
  <2>1. PICK k \in Below : \A l \in Below : k <= l
    <3>1. Below \subseteq Nat
      OBVIOUS
    <3> HIDE DEF Below
    <3> QED
      BY <1>2, <3>1, Least
  <2>2. k \in 0 .. n - 1 /\ n - k \in 1 .. n /\ f[n - k] \in 1 .. n /\ f[n - k] < k + 1
    BY <2>1
  <2>3. k - 1 \in 0 .. n - 1 /\ k - 1 \notin Below
    <3>1. k # 0 /\ k - 1 \in 0 .. n - 1
      BY <2>2
    <3>2. ASSUME k - 1 \in Below PROVE FALSE
      <4> HIDE DEF Below
      <4>1. k <= k - 1
        BY <2>1, <3>2
      <4> QED
        BY <2>2, <4>1
    <3> QED
      BY <3>1, <3>2
  <2>4. n - (k - 1) \in 1 .. n /\ f[n - (k - 1)] \in 1 .. n /\ f[n - (k - 1)] >= k
    BY <2>2, <2>3
  <2>5. f[n - (k - 1)] < f[n - k]
    BY <2>2, <2>4
  <2> QED
    BY <2>2, <2>4, <2>5
<1>3. ASSUME NEW i \in 1 .. n PROVE f[i] = n + 1 - i
  <2>1. i \notin Above /\ n - i \notin Below
    BY <1>1, <1>2
  <2>2. n - i \in 0 .. n - 1 /\ n - (n - i) = i /\ f[i] \in 1 .. n
    OBVIOUS
  <2>3. ~(f[i] > n + 1 - i)
    BY <2>1
  <2>4. ~(f[n - (n - i)] < n - i + 1)
    BY <2>1, <2>2
  <2>5. ~(f[i] < n - i + 1)
    BY <2>2, <2>4
  <2> DEFINE x == f[i]
  <2>6. x \in Int /\ ~(x > n + 1 - i) /\ ~(x < n - i + 1) /\ i \in Int
    BY <2>2, <2>3, <2>5
  <2> HIDE DEF x
  <2>7. x = n + 1 - i
    BY <2>6
  <2> QED
    BY <2>7 DEF x
<1> QED
  BY <1>3

\* A row is later than all that were committed before it.
ClockStep == \A r \in rows' \ rows : \A s \in rows : s.time < r.time
ClocksFollow == [][ClockStep]_vars
OnePage == N <= PageSize

TimesFollow == \A r, s \in rows : r.seq < s.seq => r.time < s.time

OrderInv ==
  /\ TimesFollow
  /\ ~audit.breaks /\ audit.phase # "tampered"
  /\ audit.phase = "paging" =>
       (audit.offset = 0 /\ audit.expected = Genesis) \/ PageSize <= audit.offset

\* The page that lists the whole ledger, read backwards, is the chain.
LEMMA WholeChain ==
  ASSUME IInv, TimesFollow, OnePage, NEW listing \in Listings,
         NEW page, page = Ascending(PageOf(listing, 0)), page # <<>>
  PROVE  /\ page \in Seq(rows) /\ Len(page) = N
         /\ \A i \in 1 .. N : page[i].seq = i
<1>1. N \in Nat /\ PageSize \in Nat \ {0} /\ N <= PageSize
  BY FS_CardinalityType, PageAssumption DEF IInv, Typed, N, OnePage
<1>2. page \in Seq(rows) /\ Len(page) \in Nat \ {0} /\ 0 + Len(page) = N
  BY <1>1, PageFacts
<1>3. listing \in [1 .. N -> rows]
  BY DEF Listings, N
<1>4. \A i, j \in 1 .. N : i < j => listing[i] # listing[j] /\ listing[i].time >= listing[j].time
  BY <1>3 DEF Listings
<1>5. \A r \in rows : r.seq \in 1 .. N /\ r.time \in Nat
  BY TimesAssumption DEF IInv, Chain, Typed, RowRecord
<1>6. \A i, j \in 1 .. N : i < j => listing[j].seq < listing[i].seq
  <2>1. SUFFICES ASSUME NEW i \in 1 .. N, NEW j \in 1 .. N, i < j
                 PROVE  listing[j].seq < listing[i].seq
    OBVIOUS
  <2>2. listing[i] \in rows /\ listing[j] \in rows
    BY <1>3
  <2>3. listing[i].seq # listing[j].seq
    BY <1>4, <2>1, <2>2 DEF IInv, Chain
  <2>4. ~(listing[i].seq < listing[j].seq)
    BY <1>4, <1>5, <2>1, <2>2 DEF TimesFollow
  <2> QED
    BY <1>1, <1>5, <2>2, <2>3, <2>4
<1>7. \A i \in 1 .. N : listing[i].seq = N + 1 - i
  <2> DEFINE f == [i \in 1 .. N |-> listing[i].seq]
  <2>1. f \in [1 .. N -> 1 .. N]
    BY <1>3, <1>5
  <2>2. \A i, j \in 1 .. N : i < j => f[j] < f[i]
    BY <1>6
  <2>3. \A i \in 1 .. N : f[i] = N + 1 - i
    <3> HIDE DEF f
    <3> QED
      BY <1>1, <2>1, <2>2, Falling
  <2> QED
    BY <2>3
<1>8. PageOf(listing, 0) = SubSeq(listing, 1, N)
  <2>1. Len(listing) = N
    BY <1>1, <1>3
  <2> QED
    BY <1>1, <2>1 DEF PageOf
<1>9. PICK slice : /\ slice = PageOf(listing, 0) /\ slice \in Seq(rows) /\ Len(slice) = N
                   /\ \A i \in 1 .. N : slice[i] = listing[i]
  <2>1. \A i \in 1 .. N : listing[i] \in rows
    BY <1>3
  <2>2. SubSeq(listing, 1, N) \in Seq(rows) /\ Len(SubSeq(listing, 1, N)) = N
        /\ \A i \in 1 .. N : SubSeq(listing, 1, N)[i] = listing[i]
    BY <1>1, <2>1
  <2> QED
    BY <1>8, <2>2
<1>10. CASE N = 1
  <2>1. page = slice
    BY <1>9, <1>10 DEF Ascending
  <2> QED
    BY <1>2, <1>7, <1>9, <1>10, <2>1
<1>11. CASE N # 1
  <2>1. N > 1 /\ 1 \in 1 .. N /\ N \in 1 .. N
    BY <1>1, <1>2, <1>11
  <2>2. slice[1] \in rows /\ slice[N] \in rows /\ slice[N].seq < slice[1].seq
    BY <1>3, <1>6, <1>9, <2>1
  <2>3. slice[1].time > slice[N].time
    BY <1>5, <2>2 DEF TimesFollow
  <2>4. page = [i \in 1 .. N |-> slice[N + 1 - i]]
    BY <1>9, <2>1, <2>3 DEF Ascending
  <2>5. ASSUME NEW i \in 1 .. N PROVE page[i].seq = i
    <3>1. N + 1 - i \in 1 .. N /\ page[i] = slice[N + 1 - i]
      BY <1>1, <2>4
    <3>2. page[i].seq = N + 1 - (N + 1 - i)
      BY <1>7, <1>9, <3>1
    <3> QED
      BY <1>1, <3>2
  <2> QED
    BY <1>2, <2>5
<1> QED
  BY <1>10, <1>11

LEMMA OrderedPageStep ==
  ASSUME IInv, AuditInv, OrderInv, OnePage, AuditPage
  PROVE  OrderInv'
<1> DEFINE pageOf(listing) == Ascending(PageOf(listing, audit.offset))
           before(page, i) == IF i = 1 THEN audit.expected ELSE page[i - 1].id
           linked(page) == \A i \in DOMAIN page : page[i].prev = before(page, i)
           ids(page) == [i \in DOMAIN page |-> page[i].id]
           turned(page) == [audit EXCEPT !.offset = NextOffset(page),
                                         !.expected = page[Len(page)].id,
                                         !.breaks = @ \/ ~linked(page),
                                         !.scanned = @ \o ids(page)]
<1>0. PICK listing \in Listings :
        pageOf(listing) # <<>> /\ audit' = Settled(turned(pageOf(listing)))
  BY DEF AuditPage
<1>1. PICK page : page = pageOf(listing) /\ page # <<>> /\ audit' = Settled(turned(page))
  BY <1>0
<1>2. UNCHANGED rows /\ audit.phase = "paging"
  BY DEF AuditPage, ledger
<1> HIDE DEF linked, ids
<1>3. audit \in Audit /\ audit.offset \in Nat /\ PageSize \in Nat \ {0} /\ N \in Nat
  BY FS_CardinalityType, PageAssumption DEF AuditInv, Audit, IInv, Typed, N
<1>4. /\ audit'.phase = "paging" /\ audit'.offset = audit.offset + PageSize
      /\ audit'.breaks = (audit.breaks \/ ~linked(page))
  <2>1. /\ turned(page).phase = "paging"
        /\ turned(page).offset = audit.offset + PageSize
        /\ turned(page).breaks = (audit.breaks \/ ~linked(page))
    BY <1>2, <1>3 DEF Audit, NextOffset
  <2> HIDE DEF turned
  <2> QED
    BY <1>1, <2>1 DEF Settled, NoAudit
<1>5. audit.offset = 0 /\ audit.expected = Genesis
  <2>1. audit.offset + Len(page) \in {N, audit.offset + PageSize} /\ Len(page) \in Nat \ {0}
        /\ (audit.offset + Len(page) = audit.offset + PageSize => audit.offset + PageSize <= N)
    BY <1>1, <1>3, PageFacts
  <2>2. audit.offset < N
    BY <1>3, <2>1
  <2>3. ~(PageSize <= audit.offset)
    BY <1>3, <2>2 DEF OnePage
  <2> QED
    BY <1>2, <2>3 DEF OrderInv
<1>6. page \in Seq(rows) /\ Len(page) = N /\ \A i \in 1 .. N : page[i].seq = i
  BY <1>1, <1>5, WholeChain DEF OrderInv
<1>7. ASSUME NEW i \in 1 .. N PROVE page[i].prev = before(page, i)
  <2>1. page[i] \in rows /\ page[i].seq = i
    BY <1>6
  <2>2. NextAfter(page[i].prev, i - 1)
    BY <2>1 DEF IInv, Chain
  <2>3. \A r \in rows : r.seq \in 1 .. N
    BY DEF IInv, Chain
  <2>4. CASE i = 1
    BY <1>3, <1>5, <2>2, <2>3, <2>4 DEF NextAfter
  <2>5. CASE i # 1
    <3>1. PICK p \in rows : p.id = page[i].prev /\ p.seq = i - 1
      BY <2>2, <2>5 DEF NextAfter
    <3>2. page[i - 1] \in rows /\ page[i - 1].seq = i - 1
      BY <1>3, <1>6, <2>5
    <3>3. p = page[i - 1]
      BY <3>1, <3>2 DEF IInv, Chain
    <3> QED
      BY <2>5, <3>1, <3>3
  <2> QED
    BY <2>4, <2>5
<1>8. linked(page)
  BY <1>6, <1>7 DEF linked
<1>9. audit'.breaks = FALSE
  BY <1>4, <1>8 DEF OrderInv
<1>10. PageSize <= audit'.offset
  BY <1>3, <1>4
<1>11. TimesFollow'
  BY <1>2 DEF OrderInv, TimesFollow
<1> QED
  BY <1>4, <1>9, <1>10, <1>11 DEF OrderInv

LEMMA OrderedStep ==
  ASSUME IInv, AuditInv, OrderInv, OnePage, [Next]_vars, [ClockStep]_vars
  PROVE  OrderInv'
<1>1. CASE UNCHANGED vars
  BY <1>1 DEF vars, ledger, OrderInv, TimesFollow
<1>2. ASSUME NEW w \in Writers, Commit(w) PROVE OrderInv'
  <2>1. /\ txn[w].stage \in {"inserted", "mirrored"} /\ rows' = rows \cup {RecordOf(w)}
        /\ UNCHANGED audit
    BY <1>2 DEF Commit
  <2>2. RecordOf(w).seq = N + 1 /\ N \in Nat /\ \A r \in rows : r.id # RecordOf(w).id
    BY <2>1, InHand
  <2>3. ClockStep
    BY <2>1, <2>2 DEF vars, ledger
  <2>4. \A s \in rows : s.time < RecordOf(w).time /\ s.seq \in 1 .. N
    BY <2>1, <2>2, <2>3 DEF ClockStep, IInv, Chain
  <2>5. TimesFollow'
    BY <2>1, <2>2, <2>4 DEF OrderInv, TimesFollow
  <2> QED
    BY <2>1, <2>5 DEF OrderInv
<1>3. CASE AuditPage
  BY <1>3, OrderedPageStep
<1>4. CASE StartAudit
  <2>1. UNCHANGED rows /\ audit'.breaks = FALSE /\ audit'.phase = "paging"
        /\ audit'.offset = 0 /\ audit'.expected = Genesis
    BY <1>4 DEF StartAudit, ledger, NoAudit
  <2> QED
    BY <2>1 DEF OrderInv, TimesFollow
<1>5. CASE FinishAudit
  <2>1. UNCHANGED rows /\ audit' = [audit EXCEPT !.phase = "intact"]
    BY <1>5 DEF FinishAudit, ledger, OrderInv
  <2>2. audit \in Audit
    BY DEF AuditInv
  <2>3. audit'.phase = "intact" /\ audit'.breaks = audit.breaks
    BY <2>1, <2>2 DEF Audit
  <2> QED
    BY <2>1, <2>3 DEF OrderInv, TimesFollow
<1>6. ASSUME UNCHANGED <<rows, audit>> PROVE OrderInv'
  BY <1>6 DEF OrderInv, TimesFollow
<1>7. ASSUME NEW w \in Writers, Begin(w) \/ Step(w) \/ Fail(w) PROVE OrderInv'
  <2>1. CASE Commit(w)
    BY <1>2, <2>1
  <2>2. CASE ~Commit(w)
    <3>1. UNCHANGED <<rows, audit>>
      BY <1>7, <2>2 DEF Begin, Step, Fail, Deadlock, SkipAnonymous, Lock, Link, Insert, Mirror
    <3> QED
      BY <1>6, <3>1
  <2> QED
    BY <2>1, <2>2
<1>8. ASSUME NEW s \in Streams, PublishStream(s) PROVE OrderInv'
  BY <1>6, <1>8 DEF PublishStream
<1> QED
  BY <1>1, <1>3, <1>4, <1>5, <1>7, <1>8 DEF Next

\* What it takes for the verification never to call an untouched chain tampered:
\* the clocks of the hosts put the records in the order of the chain, and the ledger
\* fits into one page (verification.py:34-87, repository.py:117-128).
THEOREM VerifiesInOrder == Spec /\ ClocksFollow /\ []OnePage => []UntamperedVerifies
<1>1. Init => OrderInv
  BY DEF Init, OrderInv, TimesFollow, NoAudit
<1>2. IInv /\ AuditInv /\ OrderInv /\ OnePage /\ [Next]_vars /\ [ClockStep]_vars => OrderInv'
  BY OrderedStep
<1>3. OrderInv => UntamperedVerifies
  BY DEF OrderInv, UntamperedVerifies
<1> QED
  BY <1>1, <1>2, <1>3, AuditInvariant, PTL DEF Spec, ClocksFollow
=============================================================================
