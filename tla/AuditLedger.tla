----------------------------- MODULE AuditLedger -----------------------------
(***************************************************************************)
(* The audit ledger of one tenant: a hash chain in Postgres, its mirror in *)
(* ClickHouse and its verification (core/audit, workers/audit_worker.py,   *)
(* core/engine/audit.py).                                                  *)
(*                                                                         *)
(* Writers are transactions.  A worker records an event of the audit topic *)
(* in the transaction of the consumer, which admits each event once and    *)
(* tries it again after a failure (EventConsumer).  The gateway records a  *)
(* request in the transaction that stores it, and the start of a stream    *)
(* both directly and through an event that it publishes first.             *)
(*                                                                         *)
(* A hash covers the content of its record and the hash before it, so a    *)
(* record's hash is abstracted to its id, and two hashes are equal only    *)
(* when the records are.  created_at is the clock of the host that made    *)
(* the event: any time of Times.                                           *)
(***************************************************************************)
EXTENDS Integers, FiniteSets, Sequences

CONSTANTS
  Events,       \* events that were published to the audit topic otherwise
  Anonymous,    \* events without a tenant_id, as the end of a stream is
  Requests,     \* requests that the gateway logs
  Streams,      \* streams whose start the gateway logs
  Genesis,      \* GENESIS_HASH
  NoWriter,     \* nobody holds the tenant's row lock
  Times,        \* clock values
  PageSize,     \* limit of verify_tenant_chain, 10 000
  MaxAttempts,  \* max_retries + 1 of the consumer
  MaxFailures   \* bound on failures and crashes

ASSUME AnonymousAssumption == Anonymous \subseteq Events
ASSUME TimesAssumption == Times \subseteq Nat /\ Times # {}
ASSUME PageAssumption == PageSize \in Nat \ {0}
ASSUME AttemptsAssumption == MaxAttempts \in Nat \ {0} /\ MaxFailures \in Nat

Workers == {"worker"} \X (Events \cup Streams)
Gateways == {"gateway"} \X (Requests \cup Streams)
Writers == Workers \cup Gateways

ASSUME GenesisAssumption == Genesis \notin Writers \X Nat
ASSUME NoWriterAssumption == NoWriter \notin Writers

VARIABLES
  published,  \* events that are on the audit topic
  rows,       \* committed rows of audit_logs
  mirror,     \* rows of ClickHouse
  lock,       \* the transaction that holds the tenant's row FOR UPDATE
  txn,        \* per writer: its transaction
  failures,   \* failures so far
  audit       \* the verification in progress or last finished

ledger == <<published, rows, mirror, lock, txn, failures>>
vars == <<ledger, audit>>

\* seq is the record's sequence number, which Postgres does not store: only
\* the mirror shows it, and no step below reads it from rows.
Ids == Writers \X Nat
Hashes == Ids \cup {Genesis}
RowRecord == [id : Ids, prev : Hashes, seq : Nat, time : Times]

Stages == {"idle", "begun", "locked", "linked", "inserted", "mirrored",
           "done", "failed", "dead"}
Txn == [stage : Stages, attempt : Nat, prev : Hashes, seq : Nat, time : Nat]

\* A transaction with no record yet.
Blank(stage, attempt) ==
  [stage |-> stage, attempt |-> attempt, prev |-> Genesis, seq |-> 0, time |-> 0]

Closed == {"idle", "done", "failed", "dead"}
Holding == {"locked", "linked", "inserted", "mirrored"}

\* What verify_tenant_chain keeps between two pages, and ghosts: the records
\* it scanned, in order, and the rows there were when it began.
Audit == [phase : {"none", "paging", "intact", "tampered"}, offset : Nat,
          expected : Hashes, breaks : BOOLEAN, scanned : Seq(Ids), base : SUBSET Ids]

NoAudit == [phase |-> "none", offset |-> 0, expected |-> Genesis,
            breaks |-> FALSE, scanned |-> <<>>, base |-> {}]

TypeOK ==
  /\ published \subseteq Events \cup Streams
  /\ rows \subseteq RowRecord
  /\ mirror \subseteq RowRecord
  /\ lock \in Writers \cup {NoWriter}
  /\ txn \in [Writers -> Txn]
  /\ failures \in 0 .. MaxFailures
  /\ audit \in Audit

Init ==
  /\ published = Events
  /\ rows = {}
  /\ mirror = {}
  /\ lock = NoWriter
  /\ txn = [w \in Writers |-> Blank("idle", 1)]
  /\ failures = 0
  /\ audit = NoAudit

-----------------------------------------------------------------------------
(***************************************************************************)
(* Writing.                                                                *)
(***************************************************************************)
EntersStage(w, stage) == txn' = [txn EXCEPT ![w].stage = stage]

\* publish_stream_started publishes before it touches the database.
PublishStream(s) ==
  /\ txn[<<"gateway", s>>].stage = "idle"
  /\ s \notin published
  /\ published' = published \cup {s}
  /\ UNCHANGED <<rows, mirror, lock, txn, failures, audit>>

FaultyTenantRowIsFree == TRUE
TenantRowIsFree == lock = NoWriter

\* The flush of a gateway_requests row takes a share of the tenant's row for
\* its foreign key.  Shares go together; FOR UPDATE excludes them.
Sharers == {w \in Gateways : w[2] \in Requests /\ txn[w].stage = "begun"}

\* The consumer's processed_events row, which has no foreign key, or the
\* gateway's gateway_requests row is flushed.
Begin(w) ==
  /\ txn[w].stage = "idle"
  /\ w[2] \in published \cup Requests
  /\ w[2] \in Requests => TenantRowIsFree
  /\ EntersStage(w, "begun")
  /\ UNCHANGED <<published, rows, mirror, lock, failures, audit>>

\* The worker passes over an event without a tenant, which counts as handled.
SkipAnonymous(w) ==
  /\ w \in Workers
  /\ w[2] \in Anonymous
  /\ txn[w].stage = "begun"
  /\ EntersStage(w, "done")
  /\ UNCHANGED <<published, rows, mirror, lock, failures, audit>>

\* SELECT ... FOR UPDATE on the tenant, waiting for its holder to end and for
\* the requests that share it.
Lock(w) ==
  /\ txn[w].stage = "begun"
  /\ w[2] \notin Anonymous
  /\ TenantRowIsFree
  /\ Sharers \subseteq {w}
  /\ lock' = w
  /\ EntersStage(w, "locked")
  /\ UNCHANGED <<published, rows, mirror, failures, audit>>

\* Rows whose hash no row has as its previous hash.
Tips == {r \in rows : \A s \in rows : s.prev # r.id}
LatestTips == {r \in Tips : \A s \in Tips : s.time <= r.time}

\* get_latest_hash, or GENESIS_HASH.
FaultyLatestHashes ==
  IF rows = {} THEN {Genesis}
  ELSE {r.id : r \in {s \in rows : \A q \in rows : q.time <= s.time}}
LatestHashes == IF Tips = {} THEN {Genesis} ELSE {r.id : r \in LatestTips}

Link(w) ==
  /\ txn[w].stage = "locked"
  /\ \E hash \in LatestHashes :
       txn' = [txn EXCEPT ![w].stage = "linked", ![w].prev = hash]
  /\ UNCHANGED <<published, rows, mirror, lock, failures, audit>>

\* get_latest_sequence_no counts the rows that are committed by now.
Insert(w) ==
  /\ txn[w].stage = "linked"
  /\ \E time \in Times :
       txn' = [txn EXCEPT ![w] = [@ EXCEPT !.stage = "inserted", !.time = time,
                                           !.seq = Cardinality(rows) + 1]]
  /\ UNCHANGED <<published, rows, mirror, lock, failures, audit>>

FaultyRecordOf(w) == [id |-> <<w, txn[w].attempt>>, prev |-> NoWriter,
                      seq |-> txn[w].seq, time |-> txn[w].time]
RecordOf(w) == [id |-> <<w, txn[w].attempt>>, prev |-> txn[w].prev,
                seq |-> txn[w].seq, time |-> txn[w].time]

\* The worker's best effort: the mirror is written before the commit, and
\* what becomes of the write does not matter.
Mirror(w) ==
  /\ w \in Workers
  /\ txn[w].stage = "inserted"
  /\ mirror' \in {mirror, mirror \cup {RecordOf(w)}}
  /\ EntersStage(w, "mirrored")
  /\ UNCHANGED <<published, rows, lock, failures, audit>>

Commit(w) ==
  /\ txn[w].stage = IF w \in Workers THEN "mirrored" ELSE "inserted"
  /\ rows' = rows \cup {RecordOf(w)}
  /\ lock' = NoWriter
  /\ txn' = [txn EXCEPT ![w] = Blank("done", txn[w].attempt)]
  /\ UNCHANGED <<published, mirror, failures, audit>>

\* A statement or the commit fails, or the process dies: all is rolled back.
\* The consumer tries again and in the end dead-letters the event; the
\* gateway's request fails.
AfterFailure(w) ==
  IF w \in Gateways THEN "failed"
  ELSE IF txn[w].attempt < MaxAttempts THEN "idle" ELSE "dead"

FaultyReleasedBy(w) == lock
ReleasedBy(w) == IF lock = w THEN NoWriter ELSE lock

RollsBack(w) ==
  /\ lock' = ReleasedBy(w)
  /\ txn' = [txn EXCEPT ![w] = Blank(AfterFailure(w), txn[w].attempt + 1)]

Fail(w) ==
  /\ txn[w].stage \notin Closed
  /\ failures < MaxFailures
  /\ failures' = failures + 1
  /\ RollsBack(w)
  /\ UNCHANGED <<published, rows, mirror, audit>>

\* Two requests that share the row both ask for it FOR UPDATE, and each waits
\* for the other: Postgres aborts one, whichever it likes.
Deadlock(w) ==
  /\ w \in Sharers
  /\ Sharers # {w}
  /\ RollsBack(w)
  /\ UNCHANGED <<published, rows, mirror, failures, audit>>

-----------------------------------------------------------------------------
(***************************************************************************)
(* Verification.  Every page is a query of its own, ORDER BY created_at    *)
(* DESC, with records of one time in any order.                            *)
(***************************************************************************)
Listings == {l \in [1 .. Cardinality(rows) -> rows] :
               \A i, j \in DOMAIN l : i < j => l[i] # l[j] /\ l[i].time >= l[j].time}

PageOf(listing, offset) ==
  SubSeq(listing, offset + 1,
         IF Len(listing) < offset + PageSize THEN Len(listing) ELSE offset + PageSize)

\* A page is walked backwards when its first record is later than its last.
Ascending(page) ==
  IF Len(page) > 1 /\ page[1].time > page[Len(page)].time
  THEN [i \in 1 .. Len(page) |-> page[Len(page) + 1 - i]]
  ELSE page

StartAudit ==
  /\ audit.phase = "none"
  /\ audit' = [NoAudit EXCEPT !.phase = "paging", !.base = {r.id : r \in rows}]
  /\ UNCHANGED ledger

FaultyNextOffset(page) == audit.offset + PageSize + 1
NextOffset(page) == audit.offset + PageSize

\* A broken link settles the verdict: the walk goes on and only counts.
Settled(walk) ==
  IF walk.breaks
  THEN [NoAudit EXCEPT !.phase = walk.phase, !.offset = walk.offset, !.breaks = TRUE]
  ELSE walk

AuditPage ==
  /\ audit.phase = "paging"
  /\ \E listing \in Listings :
       LET page == Ascending(PageOf(listing, audit.offset))
           before(i) == IF i = 1 THEN audit.expected ELSE page[i - 1].id
           linked == \A i \in DOMAIN page : page[i].prev = before(i)
           ids == [i \in DOMAIN page |-> page[i].id]
       IN /\ page # <<>>
          /\ audit' = Settled([audit EXCEPT !.offset = NextOffset(page),
                                            !.expected = page[Len(page)].id,
                                            !.breaks = @ \/ ~linked,
                                            !.scanned = @ \o ids])
  /\ UNCHANGED ledger

\* The verdict; the endpoint publishes a security event if it is "tampered".
FinishAudit ==
  /\ audit.phase = "paging"
  /\ Cardinality(rows) <= audit.offset
  /\ audit' = [audit EXCEPT !.phase = IF audit.breaks THEN "tampered" ELSE "intact"]
  /\ UNCHANGED ledger

-----------------------------------------------------------------------------
Step(w) ==
  SkipAnonymous(w) \/ Lock(w) \/ Link(w) \/ Insert(w) \/ Mirror(w) \/ Commit(w) \/ Deadlock(w)

Next ==
  \/ \E s \in Streams : PublishStream(s)
  \/ \E w \in Writers : Begin(w) \/ Step(w) \/ Fail(w)
  \/ StartAudit \/ AuditPage \/ FinishAudit

Spec == Init /\ [][Next]_vars

\* A transaction goes on to its end, the consumer takes up an event that is
\* published, the lock goes to those who wait for it, and a deadlock is found.
FairSpec ==
  /\ Spec
  /\ \A w \in Writers : WF_vars(Step(w))
  /\ \A w \in Workers : WF_vars(Begin(w))

-----------------------------------------------------------------------------
(***************************************************************************)
(* Properties.                                                             *)
(***************************************************************************)
\* The rows form one chain from the genesis hash, without a fork or a gap, in
\* the order of the numbers that writers gave them: the tenant's row lock and
\* the tip query of get_latest_hash hold together for both kinds of writer.
SingleChain ==
  /\ \A r, s \in rows : r.seq = s.seq => r = s
  /\ \A r \in rows :
       \/ r.seq = 1 /\ r.prev = Genesis
       \/ \E p \in rows : p.id = r.prev /\ p.seq = r.seq - 1

\* The worker mirrors a record that may then be rolled back.  Such a record
\* still hangs off the ledger: its predecessor is the row of Postgres with the
\* number before its own, so that what is wrong with the mirror is at most one
\* record at a position.
MirrorHangsOffLedger ==
  \A m \in mirror :
    \/ m.seq = 1 /\ m.prev = Genesis
    \/ \E p \in rows : p.id = m.prev /\ p.seq = m.seq - 1

\* A verification that reports the chain intact has scanned every row that was
\* committed when it began, once and in chain order, though rows are committed
\* between its pages and records of one time come in any order.
IntactCoversLedger ==
  audit.phase = "intact" =>
    /\ \A id \in audit.base : \E i \in DOMAIN audit.scanned : audit.scanned[i] = id
    /\ \A i \in DOMAIN audit.scanned :
         \E r \in rows : r.id = audit.scanned[i] /\ r.seq = i

\* A transaction of the gateway that has begun ends, though it may wait for
\* another that waits for it, and an event on the topic is recorded or
\* dead-lettered.
WritersSettle ==
  /\ \A w \in Gateways : txn[w].stage = "begun" ~> txn[w].stage \in Closed
  /\ \A w \in Workers : w[2] \in published ~> txn[w].stage \in {"done", "dead"}

\* verify_tenant_chain "verifies mathematically that every link is perfectly
\* intact"; no row was altered here, so it should never say tampered.  It walks
\* pages by created_at, which need not be the order of the chain.
UntamperedVerifies == audit.phase # "tampered"
=============================================================================
