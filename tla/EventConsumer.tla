---------------------------- MODULE EventConsumer ----------------------------
(***************************************************************************)
(* A consumer group on one partition (workers/consumer_base.py).           *)
(*                                                                         *)
(* A worker fetches a batch, handles its messages in turn and commits the  *)
(* group's offset after each.  Handling is idempotent: the business effect *)
(* commits in one transaction with a row (event, group) of processed_events*)
(* whose primary key admits it once.  What cannot be handled is published  *)
(* to a dead-letter topic.                                                 *)
(*                                                                         *)
(* commit() without arguments commits the position of the client, which    *)
(* the fetch has moved past the whole batch: this is how aiokafka behaves, *)
(* and so the first commit of a batch covers all of it.                    *)
(*                                                                         *)
(* Messages are numbered from 1: message k is log[k], and a committed      *)
(* offset of k says that messages 1 to k need not be delivered again.      *)
(***************************************************************************)
EXTENDS Naturals, Sequences

CONSTANTS
  Events,       \* event ids; several messages may carry one event
  Malformed,    \* events that do not decode or do not validate
  Workers,      \* members of the group
  NoWorker,     \* nobody is assigned the partition
  MaxRecords,   \* max_records of getmany
  MaxAttempts,  \* max_retries + 1
  MaxLog,       \* bound on the messages produced
  MaxMishaps    \* bound on crashes, rebalances and failures to publish

ASSUME MalformedAssumption == Malformed \subseteq Events
ASSUME NoWorkerAssumption == NoWorker \notin Workers
ASSUME BoundsAssumption == /\ MaxRecords \in Nat \ {0}
                           /\ MaxAttempts \in Nat \ {0}
                           /\ MaxLog \in Nat
                           /\ MaxMishaps \in Nat

VARIABLES
  log,        \* the partition: a sequence of messages
  committed,  \* the group's committed offset
  owner,      \* the member to which the coordinator assigned the partition
  worker,     \* per member: its fetch position and the batch in its hand
  processed,  \* rows of processed_events for this group
  applied,    \* per event: how often its business effect was committed
  dead,       \* events published to the dead-letter topic
  dropped,    \* messages that were in hand when a worker crashed or gave up
  mishaps     \* crashes, rebalances and failures so far

groupVars == <<committed, owner, worker, processed, applied, dead, dropped, mishaps>>
cvars == <<log, groupVars>>

(***************************************************************************)
(* Messages current .. last are in the worker's hand.  stage is where it   *)
(* is with the current one: trying it, inside the transaction that holds   *)
(* its processed_events row, with its offset to commit, refused, or        *)
(* dead-lettered with its offset to commit.                                *)
(***************************************************************************)
WorkerStages == {"poll", "attempt", "open", "done", "refused", "deadLettered"}
WorkerState == [position : Nat, current : Nat, last : Nat,
                attempt : Nat, stage : WorkerStages]

\* A worker with nothing in hand.
Polling(position) == [position |-> position, current |-> 1, last |-> 0,
                      attempt |-> 0, stage |-> "poll"]

InHand(w) == worker[w].current .. worker[w].last
EventOf(w) == log[worker[w].current].event

CTypeOK ==
  /\ log \in Seq([event : Events])
  /\ committed \in 0 .. Len(log)
  /\ owner \in Workers \cup {NoWorker}
  /\ worker \in [Workers -> WorkerState]
  /\ \A w \in Workers : /\ worker[w].stage = "poll" <=> InHand(w) = {}
                        /\ InHand(w) \subseteq DOMAIN log
                        /\ worker[w].position <= Len(log)
  /\ processed \subseteq Events
  /\ applied \in [Events -> Nat]
  /\ dead \subseteq Events
  /\ dropped \subseteq DOMAIN log
  /\ mishaps \in 0 .. MaxMishaps

GroupInit ==
  /\ committed = 0
  /\ owner = NoWorker
  /\ worker = [w \in Workers |-> Polling(0)]
  /\ processed = {}
  /\ applied = [e \in Events |-> 0]
  /\ dead = {}
  /\ dropped = {}
  /\ mishaps = 0

CInit == log = <<>> /\ GroupInit

Mishap == mishaps < MaxMishaps /\ mishaps' = mishaps + 1

-----------------------------------------------------------------------------
\* Somebody publishes an event, perhaps once more.
Produce(e) ==
  /\ Len(log) < MaxLog
  /\ log' = Append(log, [event |-> e])
  /\ UNCHANGED groupVars

\* The coordinator assigns the partition: the member resumes from the
\* committed offset.  Members keep what they have in hand, since the client
\* rebalances in the background while the loop goes on with its batch.
Assign(w) ==
  /\ IF owner = NoWorker THEN UNCHANGED mishaps ELSE Mishap
  /\ owner' = w
  /\ worker' = [worker EXCEPT ![w].position = committed]
  /\ UNCHANGED <<log, committed, processed, applied, dead, dropped>>

Poll(w) ==
  /\ owner = w
  /\ worker[w].stage = "poll"
  /\ \E n \in 1 .. MaxRecords :
       LET first == worker[w].position + 1
           last == worker[w].position + n
       IN /\ last <= Len(log)
          /\ worker' = [worker EXCEPT ![w] =
               [position |-> last, current |-> first, last |-> last,
                attempt |-> 1, stage |-> "attempt"]]
  /\ UNCHANGED <<log, committed, owner, processed, applied, dead, dropped, mishaps>>

-----------------------------------------------------------------------------
(***************************************************************************)
(* One attempt at the current message.                                     *)
(***************************************************************************)
EntersStage(w, stage) == worker' = [worker EXCEPT ![w].stage = stage]

Refuse(w) ==
  /\ worker[w].stage = "attempt"
  /\ EventOf(w) \in Malformed
  /\ EntersStage(w, "refused")
  /\ UNCHANGED <<log, committed, owner, processed, applied, dead, dropped, mishaps>>

FaultyAlreadyProcessed(w) == FALSE
AlreadyProcessed(w) == EventOf(w) \in processed

\* Found by the query or by the flush.
Skip(w) ==
  /\ worker[w].stage = "attempt"
  /\ AlreadyProcessed(w)
  /\ EntersStage(w, "done")
  /\ UNCHANGED <<log, committed, owner, processed, applied, dead, dropped, mishaps>>

FaultyKeyHeld(w) == FALSE

\* The flush waits for any transaction that has inserted the same key, so that
\* whatever the query saw, it is the flush that decides.
KeyHeld(w) ==
  \E v \in Workers \ {w} : worker[v].stage = "open" /\ EventOf(v) = EventOf(w)

Insert(w) ==
  /\ worker[w].stage = "attempt"
  /\ EventOf(w) \notin Malformed
  /\ ~AlreadyProcessed(w)
  /\ ~KeyHeld(w)
  /\ EntersStage(w, "open")
  /\ UNCHANGED <<log, committed, owner, processed, applied, dead, dropped, mishaps>>

Effect(w) ==
  /\ processed' = processed \cup {EventOf(w)}
  /\ applied' = [applied EXCEPT ![EventOf(w)] = @ + 1]

CommitEffect(w) ==
  /\ worker[w].stage = "open"
  /\ Effect(w)
  /\ EntersStage(w, "done")
  /\ UNCHANGED <<log, committed, owner, dead, dropped, mishaps>>

FaultyRetried(v) == [v EXCEPT !.stage = "attempt"]

\* Another attempt, or the end of them.
Retried(v) ==
  IF v.attempt < MaxAttempts
  THEN [v EXCEPT !.attempt = v.attempt + 1, !.stage = "attempt"]
  ELSE [v EXCEPT !.stage = "refused"]

Retry(w) == worker' = [worker EXCEPT ![w] = Retried(worker[w])]

\* The attempt raises: before the transaction, in it, or because the reply to
\* its commit is lost.
FailAttempt(w) ==
  /\ \/ worker[w].stage \in {"attempt", "open"} /\ UNCHANGED <<processed, applied>>
     \/ worker[w].stage = "open" /\ Effect(w)
  /\ Retry(w)
  /\ UNCHANGED <<log, committed, owner, dead, dropped, mishaps>>

-----------------------------------------------------------------------------
(***************************************************************************)
(* After the attempt: dead letter, offset, next message.                   *)
(***************************************************************************)
FaultyAdvanced(v) ==
  IF v.current <= v.last
  THEN [v EXCEPT !.current = v.current + 1, !.attempt = 1, !.stage = "attempt"]
  ELSE Polling(v.position)

Advanced(v) ==
  IF v.current < v.last
  THEN [v EXCEPT !.current = v.current + 1, !.attempt = 1, !.stage = "attempt"]
  ELSE Polling(v.position)

NextMessage(w) == worker' = [worker EXCEPT ![w] = Advanced(worker[w])]

FaultyCommittedBy(w) == IF owner = w THEN worker[w].position + 1 ELSE committed
CommittedBy(w) == IF owner = w THEN worker[w].position ELSE committed

\* For a member that lost the partition the commit covers nothing.
CommitOffset(w) ==
  /\ worker[w].stage \in {"done", "deadLettered"}
  /\ committed' = CommittedBy(w)
  /\ NextMessage(w)
  /\ UNCHANGED <<log, owner, processed, applied, dead, dropped, mishaps>>

\* Inside the try of the loop: one more failed attempt at a handled message.
OffsetFails(w) ==
  /\ worker[w].stage = "done"
  /\ Mishap
  /\ Retry(w)
  /\ UNCHANGED <<log, committed, owner, processed, applied, dead, dropped>>

DeadLetter(w) ==
  /\ worker[w].stage = "refused"
  /\ dead' = dead \cup {EventOf(w)}
  /\ EntersStage(w, "deadLettered")
  /\ UNCHANGED <<log, committed, owner, processed, applied, dropped, mishaps>>

EmptyHand(w) ==
  /\ dropped' = dropped \cup InHand(w)
  /\ worker' = [worker EXCEPT ![w] = Polling(worker[w].position)]

\* An exception in a handler leaves both loops: the poll loop logs it and goes
\* on with the next batch.
AbandonBatch(w) ==
  /\ worker[w].stage \in {"refused", "deadLettered"}
  /\ Mishap
  /\ EmptyHand(w)
  /\ UNCHANGED <<log, committed, owner, processed, applied, dead>>

Crash(w) ==
  /\ Mishap
  /\ EmptyHand(w)
  /\ owner' = IF owner = w THEN NoWorker ELSE owner
  /\ UNCHANGED <<log, committed, processed, applied, dead>>

-----------------------------------------------------------------------------
Handle(w) ==
  \/ Poll(w) \/ Refuse(w) \/ Skip(w) \/ Insert(w) \/ CommitEffect(w)
  \/ FailAttempt(w) \/ CommitOffset(w) \/ OffsetFails(w) \/ DeadLetter(w)
  \/ AbandonBatch(w)

GroupNext == \E w \in Workers : Assign(w) \/ Handle(w) \/ Crash(w)

CNext == (\E e \in Events : Produce(e)) \/ GroupNext

\* The loop of every member runs, and a partition without an owner gets one.
GroupFairness ==
  /\ \A w \in Workers : WF_cvars(Handle(w))
  /\ WF_cvars(owner = NoWorker /\ \E w \in Workers : Assign(w))

CSpec == CInit /\ [][CNext]_cvars /\ GroupFairness
-----------------------------------------------------------------------------
(***************************************************************************)
(* Properties.                                                             *)
(***************************************************************************)
\* However often an event is logged, delivered, retried or handled by a member
\* that has lost the partition, its business effect is committed at most once.
AppliedAtMostOnce == \A e \in Events : applied[e] <= (IF e \in processed THEN 1 ELSE 0)

Handled(k) == k \in DOMAIN log /\ log[k].event \in processed \cup dead

AccountedFor(k) ==
  Handled(k) \/ k \in dropped \/ \E w \in Workers : k \in InHand(w)

\* The offset runs ahead of the work only over a batch: what it covers is
\* handled, in some member's hand, or was in the hand of one that lost it.
CommittedIsAccountedFor == \A k \in 1 .. committed : AccountedFor(k)

PassedOver(k) ==
  k \in dropped /\ (k <= committed \/ \E w \in Workers : owner = w /\ k <= worker[w].position)

\* Every message is processed or dead-lettered in the end, unless a worker lost
\* it from its hand after the offset or the position had gone past it: what a
\* crash drops before that is delivered again.
EveryMessageSettles ==
  \A k \in 1 .. MaxLog : (k <= Len(log)) ~> (Handled(k) \/ PassedOver(k))

\* "Commit offset explicitly after processing": no message below the committed
\* offset is still to be processed.
CommitFollowsProcessing == \A k \in 1 .. committed : Handled(k)
=============================================================================
