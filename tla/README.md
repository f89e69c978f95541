# AuthClaw in TLA+

AuthClaw (`src/`) is a multi-tenant AI-governance service: a FastAPI application
(`src/apps/api/app`) over Postgres, Redis and Kafka, with workers that scan cloud
accounts and write an audit ledger, a gateway in front of model providers, and a
workflow that plans, approves and executes remediations. This directory holds
its specifications, the instances TLC checks and the theorems TLAPS proves.

    tlc -config MCRemediation_serial.cfg MCRemediation.tla
    tlc -config EventBackbone_backbone.cfg EventBackbone.tla
    tlapm RemediationProofs.tla
    tlapm RemediationIsolationProofs.tla

## The system

| Component | State | Operations | What is hard | What makes it correct |
|---|---|---|---|---|
| Remediation workflow: state machine, approvals, dry runs, execution, policy validator (`services/remediation_*.py`, `api/v1/endpoints/remediation.py`) | plans, artifacts, policy checks, approvals, jobs, dry-run and verification results, in Postgres | generate, validate, request approval, approve, reject, revoke, expire, dry run, execute | one transaction per request at READ COMMITTED, rows read once and never refreshed, no `FOR UPDATE`; approvals time out; the validator is redeployed; failure half-way | nothing runs without a grant by someone entitled to it and a rehearsal; closed approvals stay closed; plan, approval and execution agree |
| Worker tokens (`services/worker_token_service.py`) | token records in Redis | issue, validate, revoke | validate reads, tests and marks in three steps | a one-time token validates once |
| Tenant rate limits (`core/rate_limit/`) | Redis counters and cooldowns with expiry | acquire and release of streams, scans and jobs; windows | crash while holding, decrement-then-delete, store errors | slots come back; never more holders than the limit, which the code does not keep |
| Circuit breakers (`services/connectors/resiliency.py`) | state, failures, last failure of a provider in one process | call, success, failure | answers of calls that overlap | closed only below the threshold of failures in a row; recovers |
| Event backbone (`core/events/producer.py`, `workers/consumer_base.py`) | write-ahead log, Kafka topics and offsets, processed events | publish, drain, consume, retry, dead-letter | time-outs that were successes, crashes between send and mark, redelivery | published events are processed, each one once per group |
| Audit ledger (`workers/audit_worker.py`, `core/audit/`) | hash chain of each tenant, ClickHouse mirror | append, list, verify | order of processing against order of time, concurrent appends | one unbroken chain, which verification accepts |
| Connector scans (`workers/connector_worker.py`, `services/finding_inventory.py`) | integrations, Redis lock, findings | discover, scan, persist, resolve | lock expiry, lock released before commit, failed scans | one scan at a time; findings follow the last scan |
| Gateway pipeline and streaming engine (`core/engine/gateway.py`, `core/engine/streaming.py`) | a request, its session, its stream slot, what was sent and released | scan, evaluate, forward, stream, scan the completion, log | policies read twice, scanners and stores that fail, clients that leave, errors after the text went out | nothing that is looked at and blocked leaves; the record says what the client got; slots come back |
| Policy cache and endpoints (`core/policy/cache.py`, `api/v1/endpoints/policies.py`) | policies in Postgres, their compilation in Redis without expiry | get, store, change, invalidate | a load that overlaps an invalidation, an empty policy for one that fails to compile | a stale policy does no harm |
| AI engine, compliance and trust reports, detection, connectors to clouds and model providers, authentication, web console, SDK, infrastructure | | | mostly I/O, data and clients of the API | |

`PROJECT.json` lists every component with its status and every hazard with its line.

Interactions: an execution asks the rate limiter for a slot, issues and consumes
a worker token and publishes events; a scan takes the Redis lock, a slot and a
token, calls the cloud through a breaker, writes findings and publishes events;
consumers turn events into audit records; the gateway reads the policy cache,
asks OPA, takes a stream slot, and writes to the same audit ledger.

## Modules

| Module | What it is |
|---|---|
| `RemediationRules` | statuses, the transition table, roles, approval levels, the MFA rule |
| `Remediation` | the workflow as the API runs it: sessions, transactions, interleavings, failures |
| `RemediationContract` | what the workflow promises: each decision and each execution at once |
| `MCRemediation`, `MCGateway` | constants of the instances |
| `RemediationProofs` | theorems about `Remediation` and their proofs |
| `RemediationIsolationProofs` | what `Remediation` keeps when no request has what it read changed under it, the contract included |
| `EventProducer` | `publish`, `publish_security_event`, the write-ahead log and the recovery daemons of all pods |
| `EventConsumer` | one consumer group on one partition: fetch, idempotent handling, retries, dead letters, offsets |
| `EventBackbone` | the two together: the group reads the topic the producers write |
| `AuditLedger` | the writers of one tenant's hash chain, its mirror, its verification |
| `TenantLimiter` | the concurrency counter of a tenant in Redis |
| `ConnectorScan` | scans of cloud integrations with their locks, slot (it extends `TenantLimiter`), breaker and inventory |
| `Gateway` | chat requests with their stream slot (it extends `TenantLimiter`), the policy cache and the policy endpoints |
| `EventProducerProofs`, `EventConsumerProofs`, `EventBackboneProofs`, `AuditLedgerProofs`, `ConnectorScanProofs`, `GatewayProofs` | theorems about them and their proofs |

### From the code to `Remediation`

The **tables** are functions: `plan` (status), `content` (what the plan and its
artifact are about: risk, adapter, whether the sandbox accepts it), `verdict`
(the policy check of a plan by each validator build; the check's hash covers
`VALIDATOR_VERSION`, so one build has one check per plan), `latest` and
`latestPassed` (the newest check, the newest passing one), `approval`, `job` (the
job with its dry-run result and its verification). `lapsed` holds the approvals
whose `expires_at` has passed. `grants`, `executions`, `executors` and
`rehearsed` are history variables that no action reads.

A **session** serves one request at a time. SQLAlchemy's sessions are opened with
`autoflush=False` and `expire_on_commit=False`, the queries take no `FOR UPDATE`
and an object already loaded is not refreshed by a later query. So a request
decides on the row it read first and writes by primary key. Each read that
another transaction can make stale is a step (`BeginValidate`, `BeginRequest`,
`BeginDecision` then `ReadPlan`, `BeginExecute` then `VerifyExecution`), and what
the request keeps is in `request[s]` (`planView`, `stage`). The writes become
visible together when the endpoint commits: one step (`Commit…`). `approve` and
`execute` flush the approval long before they commit and so hold the row lock
(`GrantApproval`, `ConsumeApproval`, `RowLocked`); every other write of that row
waits. Between the last look at the clock in `GrantApproval` (`remediation_state_machine.py:263`)
and `CommitApprove` come the flush of the plan, several sends to Kafka and the return
to the endpoint, so the time-to-live may run out in between.

| Action | Code |
|---|---|
| `GeneratePlan` | `RemediationPlanGenerator._generate` and the draft shell, artifact and rollback it inserts |
| `BeginValidate`, `CommitValidate` | `validate_plan`, `_validate` |
| `BeginRequest`, `CommitRequest` | `request_approval` |
| `BeginDecision`, `ReadPlan` | the reads of `approve`, `reject`, `revoke_approval` |
| `GrantApproval`, `CommitApprove`, `ApproveTooLate`, `CommitReject`, `CommitRevoke` | the rest of them |
| `ExpireApprovals` | `expire_approvals` |
| `CreateDryRun`, `RerunDryRun` | `create_dry_run_job` with `run_dry_run`; `run_dry_run` of an existing job |
| `BeginExecute` … `CommitExecute` | `create_execution_job`, `execute_job`, `verify_execution` |
| `Abort` | any exception, refusal or crash: the session is closed without a commit |
| `TtlElapses`, `Deploy` | time, and a new validator build |

`CreateDryRun`, `GeneratePlan`, `RerunDryRun` and `ExpireApprovals` are single
steps: the first three insert rows or write what no property compares with a read of theirs.
`expire_approvals` reads the overdue approvals and writes them one by one with events in
between; the model takes it as one step and lets it run only while every session is idle, which
is how the tests call it. A sweep beside other requests could overwrite a decision;
nothing here speaks of it.
`VerifyExecution` takes the several queries of the last verification as one
read; a validation or a deployment can come between it and `ConsumeApproval`.
`created_at` of checks is taken to follow the order of their commits.

Only `risk_flags.execution_adapter` selects the simulated adapter, which the
demo's seed script and the tests set; `expire_approvals` has no caller but the
tests. `Contents` and `ExpirySweep` are constants so that instances with
and without them are checked.

Abstracted data: medium risk stands with low and critical with high, because
every test treats them alike; nonces, hashes, reasons and event payloads are
left out, the bindings they express (an approval belongs to a plan, an artifact
and a check) are kept. A plan has one artifact. The rate limiter and the worker
token of an execution can only refuse: `Abort`.

### From the code to `EventProducer`

`log` is what the broker stores, per topic; `inFlight` what a client holds and
may still deliver; `publication[e]` the one call that publishes `e` (a security
event goes on from call to call of `publish`); `wal` the rows of `wal_events` in
the order of `created_at`; `daemon[p]` the recovery pass of a pod. `connected` holds
the pods whose `_producer` is not `None`: `start` tries the broker once, and a pod
that found it away publishes to the write-ahead log and does not drain until it
is started again.

`asyncio.wait_for` abandons the wait and not the record, which the client
has batched already: after `TimeOut` the record can still arrive (`Deliver`) or not (`Drop`),
and its row in the write-ahead log makes a second copy. A daemon sets
`PUBLISHED` on rows of its session and commits at the end of the pass, so what it has sent
is in `daemon[p].sent` until `DrainCommit`, and a crash or a failed commit sends it again; no
lock keeps the daemons of two pods from reading the same rows.

`Oversized` are the events whose record the client will not take (`Refused`): `publish` fails at once and
writes a row, and every pass of every daemon breaks at that row, with all later rows behind it
(`producer.py:114-117`). `AcceptedIsLogged` says so: what was accepted reaches the log or is
`Blocked` by such a row.

| Action | Code |
|---|---|
| `Send`, `Acknowledged`, `TimeOut` | `publish`: the send and the ways its wait ends |
| `WriteWal`, `WalFails` | `_write_to_wal`; its exception leaves `publish`, and `AfterFailure` is what the callers do next |
| `LastResort` | the last handler of `publish_security_event` |
| `DrainRead`, `DrainSend`, `DrainFails`, `DrainCommit` | one pass of `_recovery_daemon` |
| `Restart` | `start`, after a stop or a crash |
| `BrokerToggles`, `Deliver`, `Drop` | the broker and the client library, seen from the code |

Inserting a row of the log and committing it is one step, since nothing reads
between; `WalFails` includes a commit that took place and whose reply was lost, after which a
security event is published again. `Drop` needs no cause: it stands for every deadline of the client.

### From the code to `EventConsumer`

`worker[w]` is a member of the group: the `position` of its client, and the messages
`current .. last` of the batch in its hand, with the attempt and how far it is. Three facts of
the Kafka client are taken from how the code calls it: `getmany` moves the position past
the batch; `commit()` without arguments commits that position; the rebalance
happens in the background, and a member that has lost the partition goes on
with its batch and commits nothing. `processed` is `processed_events` of this group, `applied`
counts commits of the business effect, `dead` the events in the dead-letter topic;
`dropped` records the messages that a crash or an abandoned batch took from a hand.

| Action | Code |
|---|---|
| `Poll` | `getmany` in `_consume_loop` |
| `Refuse` | `ConsumerMessageError` and `ValidationError` |
| `Skip`, `Insert`, `CommitEffect` | `_process_message_idempotent`: the row exists, the flush of the row, the commit |
| `FailAttempt` | any other exception, before or inside the transaction, or after a commit whose reply is lost |
| `CommitOffset`, `OffsetFails` | `commit()` after the work; inside the `try`, so that its failure is one more failed attempt |
| `DeadLetter`, `AbandonBatch` | `_route_to_dlq`, and an exception of it or of the commit after it, which ends the batch |
| `Assign`, `Crash` | the coordinator and the process |

`KeyHeld` is the wait of one flush for another transaction with the same primary
key. The idempotence query is not a step of its own: it can only see the row early,
and the flush decides. Publishing a dead letter either succeeds, in the
topic or in the write-ahead log, or raises. `process` of a subclass is an
effect in the same transaction; `SecurityWorker`, which writes to Redis
inside it, is outside that description.

`EventBackbone` substitutes `log["events"]` for the partition. `Produce` of `EventConsumer`
is there what reaches the topic by `Deliver`, `DrainSend` or `DrainFails`.

### From the code to `AuditLedger`

`txn[w]` is the transaction of a writer: the worker's for an event, which the consumer
tries again after a failure, and the gateway's for a request or the start of a stream. The flush of
a `gateway_requests` row takes a share of the tenant's row for its foreign key (`Sharers`), and two requests that
share it and then both want it `FOR UPDATE` are a deadlock, of which Postgres
aborts one (`Deadlock`). A writer reads the tip under the tenant's row lock (`lock`), numbers its record by
counting rows, inserts it and, if it is a worker, mirrors it before it commits. A hash covers the
record and the hash before it, so the hash of a record is abstracted to its identity (writer and
attempt). `created_at` is the clock of whoever made the event and need not follow the
chain. Records are only ever added, by these writers.

| Action | Code |
|---|---|
| `PublishStream` | `publish_stream_started`, whose event the worker records a second time |
| `Begin`, `SkipAnonymous`, `Lock` | `process` of `AuditWorker`, `SELECT ... FOR UPDATE`; an event without a tenant is passed over |
| `Link`, `Insert` | `append_canonical_audit_record`: `get_latest_hash`, `get_latest_sequence_no`, the insert |
| `Mirror`, `Commit`, `Fail`, `Deadlock` | the ClickHouse insert whose error is swallowed; the end of the transaction; rollback at any point, and of one of two that wait for each other |
| `StartAudit`, `AuditPage`, `FinishAudit` | `verify_tenant_chain`: a query per page, a walk, a verdict |

The walk of the code goes on after a broken link, but its verdict is settled and only its offset matters
from then on (`Settled`).

### From the code to `TenantLimiter` and `ConnectorScan`

`counter` is the key in Redis and `client` says how far each task is in acquiring or releasing.
Each command is a step (`Incr`, `Decr`, `Delete`), since `_release` deletes the key
after a `DECR` that left nothing and another task may have incremented it in between. The key may
expire at any moment. `lost` counts the increments of tasks that died or met an error of Redis.

`task[t]` is the scan of the polling loop or of the consumer of a pod. `lock` is the Redis
lock with its owner token and time to live, `rowLock` what Postgres holds from the first
`UPDATE` of `cloud_integrations` to the end of the scan's transaction, and `inventory` the
committed status of each finding. The `finally` block gives back slot and lock before the
transaction commits. `seen` is the status on the row as it was loaded; the sessions do not flush
on queries, so the query for stale findings returns rows that the scan has updated already. A batch is a set of findings; two equal items in one
batch would insert twice, whose flush fails (`FlushFails`).

| Action | Code |
|---|---|
| `Load`, `Skip`, `AcquireLock` | `discover_integrations`, `scan_integration_loaded`, `RedisIntegrationLock.acquire` |
| `AskForSlot`, `Refuse`, `RefusalFails`, `MarkFailed`, `Limiting` | `acquire_connector_scan` and the commands of the slot; the event of a refusal, which may raise and then marks the integration in error |
| `MarkSyncing`, `NotAuthorized`, `Call`, `CallReturns`, `CallFails` | the first `UPDATE`, token and credentials, the call through the pod's breaker |
| `ReadInventory`, `Persist`, `FlushFails` | `persist_scan_results`, then `_mark_active`, or `_mark_error` with the findings kept when an event cannot be published; a flush that raises, after which `finally` reads an expired row and releases nothing |
| `ReleaseLock`, `Commit`, `Rollback` | the `finally` block, and the commit of the caller or its failure |
| `Crash`, `LockExpires`, `SlotsExpire` | the process, and time |
| `SetStatus`, `Triage` | the endpoints that edit integrations and findings |

### From the code to `Gateway`

`req[r]` is one chat request. A text is the set of the keywords and entities it holds, each with its place: in
a prompt the role of the message and whether its content is a string or a list of parts, in a
completion the content of the first choice or anything further (other choices, tool calls). `policy`
is what the tenant's active policies block together (`all`) and what the policy blocks that a route may name as its
own (`own`); `cached` is the compiled policy in Redis. `sent`, `released` and `verdicts` are what left the process;
`inForce` is history.

A request on a route without a policy of its own is scanned under the cached policy and evaluated
under the database's, which its session may have loaded before (`seen`, `Evaluated`). On a route with its own
policy that one alone is scanned and evaluated, as the session loaded it (`Begin`, `Applying`); if it is
not active the request is refused. What is scanned is the strings, joined (`Joined`); only if an
entity is found there are the users' messages replaced, lists of parts included (`Payload`). A failed compilation
yields an empty policy, and if it was the database that failed, the transaction with it (`dead`).

| Action | Code |
|---|---|
| `Update`, `Invalidate` | the policy endpoints: commit, event, `invalidate` |
| `ReadCache`, `Load`, `Store` | `PolicyCache.get` |
| `Begin`, `Refuse`, `ScanPrompt`, `Evaluate` | `process_chat_request` up to the authoritative decision |
| `Forward`, `ProviderAnswers`, `ScanCompletion`, `Log` | a request that is not streamed |
| `AskForSlot`, `Limiting`, `Acquire`, `AcquireRefused`, `Abandon` | `stream_response`: the slot is taken before the generator is made, by the single commands of `TenantLimiter` |
| `Open`, `Collect`, `ScanStream`, `Complete`, `ReportFailure`, `Raised`, `Disconnect`, `Close` | the generator, its handlers and its `finally` |
| `SlotsExpire` | the counter's time-to-live |

The flags of the security pipeline are on, shadow mode is off; `FF_STREAM_SCAN`, whose default
in `.env.example` is off, is on as well, for without it there is no scan to speak of. OPA can only refuse
more (`Refuse`). Reversible tokens, which the gateway turns back for its own client, and
entities below critical risk are left out. All chunks are one text, since the generator
collects them before it scans.

**What the gateway does not hold back**, and no property says it does: the contents of lists of parts, unless an
entity in a string makes them be replaced; entities in messages of other roles; keywords of the tenant's other
policies on a route with its own; of a completion that is not streamed, keywords, further choices and tool
calls, and everything when its first content is empty. The completion is scanned under the tenant's cached policy,
also on a route with its own. `ScanStream` runs in a session for
which no tenant is set (`streaming.py:144`); row-level security then hides the policies, and
the empty policy is cached for everybody (`InTenant`, `Visible`). A prompt without an own
policy is still held to the second reading, and entities are masked without a rule that says
so; that is what `BlockedKeywordsStay` and `DetectedEntitiesStay` state. Nor is it claimed that no more
streams run than the plan allows: see `NoPhantomSlots` and `LimitHolds` below.

## Properties and runs

| Run | Instance | Shows |
|---|---|---|
| `serial` | 1 session, 1 plan of any of 4 kinds, 2 approvals, 2 jobs, 2 builds, sweep on | `TypeOK`, `ConsentBeforeExecution`, `ExecutionWasSafe`, `OneApprovalPerPlan`, `PlanFollowsApproval`, `UsedMeansExecuted`, `ExecutesUnderLatestCheck`, and `KeepsContract`: the transactions implement `RemediationContract` |
| `concurrent` | 2 sessions, 1 plan under MFA that succeeds or fails, 2 approvals, 2 jobs, 1 build, no sweep | `ConsentBeforeExecution`, `ExecutionWasSafe`, `OutcomesAreEarned`, `ClosedStaysClosed`, `NoUseAfterExpiry` |
| `backbone` | 1 security event, 2 pods, 1 call of `publish` then a dead letter, 1 fault, 1 consumer, no record refused | `EffectAtMostOnce`, `PublishedSettles` |
| `drain` | a plain event that the client refuses for its size and a security event, 2 calls of `publish` then a dead letter, 1 pod, passes of 2 rows, 1 fault | `TypeOK`, `AcceptedIsDurable`, `AcceptedIsLogged` |
| `consume` | 2 members, a good and a malformed event, 3 messages, batches of 2, 2 attempts, 2 mishaps | `CTypeOK`, `AppliedAtMostOnce`, `CommittedIsAccountedFor`, `EveryMessageSettles` |
| `ledger` | 2 gateway requests, a stream (recorded twice), an event without a tenant, 2 clock values, pages of 2, 1 attempt, 1 failure | `TypeOK`, `SingleChain`, `MirrorHangsOffLedger`, `IntactCoversLedger`, `WritersSettle` |
| `scan` | the two tasks of a pod, 1 integration, 1 finding, 1 slot, a threshold of 2, 1 crash, 1 lost increment | `TypeOK`, `NoPhantomSlots`, `InsertsAreNew`, `ClosedBelowThreshold`, `SeenIsNotResolved`, `LockKeptFromOthers`, `ScansEnd` |
| `gateway` | 2 requests, 1 stream slot, a prompt with dangers in strings of both roles and in a list of parts, 2 completions, policies that block all or nothing and a route's own that does or is not active, 1 change of them, 1 fault or lost increment | `TypeOK`, `BlockedKeywordsStay`, `DetectedEntitiesStay`, `VerdictMatchesRelease`, `RequestsSettle` |
| `singleuse` | as `concurrent` | `SingleUse` is violated: both of two overlapping executions of one approval commit |
| `earlycommit` | 1 member, 2 messages in a batch, no failures | `CommitFollowsProcessing` is violated: the commit after the first message covers the second |
| `discarded` | 1 pod, 1 security event, the code's own limits, no faults | `NeverDiscarded` is violated: the last resort keeps the text of an error and returns |
| `untampered` | a gateway request, a stream, an event without a tenant, no failures | `UntamperedVerifies` is violated: pages sorted by time do not follow the chain, and a chain that nobody altered is called tampered |

Requests that overlap break much of what holds when they take turns:
`SingleUse`, `OneApprovalPerPlan`, `PlanFollowsApproval` and
`UsedMeansExecuted` are true of `serial` only. What survives every interleaving is in
`concurrent` and proved below.

`NoUseAfterExpiry` is what the code keeps of a time-to-live. It does not say that an approval that ran
out is never granted or executed: an approve or an execution that has passed its last check commits
after it all the same. Once the time is over no *other* request passes that check, so a grant that
commits too late authorises nothing that begins afterwards.

`CommittedIsAccountedFor` is what is left of at-least-once delivery: the offset runs
ahead of the work, but only over messages in some hand, so that only a crash or an
abandoned batch loses any, and at most a batch. `EveryMessageSettles` says that
they lose no other: what a crash drops before the offset or the position has passed it is
delivered again. `AcceptedIsDurable` speaks of calls that returned; one cut short by a
restart (`gone`) promises nothing. `AcceptedIsLogged` and `PublishedSettles` excuse what stands behind a
record that the client refuses, and `drain` has such a record: nothing else holds a row up. `backbone` has none.

`IntactCoversLedger` is the other half of `UntamperedVerifies`: the verification may
cry wolf, but its "intact" is to be believed. `NoPhantomSlots` bounds the counter from above
only: a `DELETE` that follows another task's `INCR` forgets that task, and more tasks
than the limit may then run. Nor does it say how long a slot stays that a crash left behind (`lost`). `InsertsAreNew` holds although
two scans of an integration can overlap, because the row lock serializes them where
the Redis lock does not. `ClosedBelowThreshold` is one direction only: a success closes the circuit even if its call
began before the circuit opened, so that OPEN may end long before `recovery_timeout` and without the
probe that `resiliency.py` (lines 15-20, 165-170) describes. The model has that step
(`OnSuccess`) and no property claims the contrary.

**Bounds of the workflow.** Two approvals of one plan are enough for two requests that race to
ask, for a decision on one that meets the execution of the other, and for one
approval to borrow the rehearsal of the other; two jobs for an execution of a
dry run's job and of a new one; two sessions for every pair of requests to race;
two builds for a check to become outdated and, by going back, current again. One
plan is enough: only the sweep touches several, and each on its own. `Plans`,
`Approvals` and `Jobs` bound what may be inserted, so an instance comes to rest
when they are used up: `CHECK_DEADLOCK FALSE`. Symmetry is used for plans,
approvals, jobs and sessions, none of which any definition tells apart.

**Bounds of the events.** In `drain` two events can leave three rows, one more than a pass
takes (`DrainLimit`): the security event leaves two when the reply to the commit of its first is
lost. So passes send several rows, break off between them and leave some for the
next. In `backbone` one event is enough: its calls and the passes
of two daemons over its rows make several records in the two topics. One fault
(`MaxFaults`) makes a crash between send and mark, a lost reply or a failed commit, each
with a copy of the record. Two members and two mishaps let a batch survive a
rebalance, meet its copy in the other member and be dropped; three messages of
two events make a duplicate, a malformed one and a batch of two that ends
before the log does. In `consume` the log is bounded and everything can
be settled: `CHECK_DEADLOCK FALSE`. `backbone` and `drain` are checked for deadlock;
the broker can always change.

**Bounds of the others.** In `ledger` four writers of one chain (two requests, and a stream that is recorded twice) meet in every
order, and the two requests can wait for each other; two clock values let the order of time be that of the chain, its reverse
or neither, and pages of two rows end inside the chain. One failure leaves a record in
the mirror that is not a row. One attempt keeps the run small: that a worker appends again
after a failure is left to the theorems of the ledger, and to `consume` for the consumer's part in it. In `scan` the two tasks of one pod are both who race for an integration and
who share a breaker; a threshold of two tells a first failure from the one that opens. A finding of
the batch and one that went missing are the same finding in two scans. In `gateway` two requests
are enough for one to cache what the other reads after a change, and for the second
stream to find no slot; one change of policy makes the cache stale, one fault is one
call to Redis, the database, the audit log or the broker that fails, an error of the counter of
streams (`lost`) included. Every place where a danger can stand is in the one prompt and the two completions; a
prompt whose strings hold no entity, which is sent with its lists of parts as they came, is
left to the theorems. All three come to rest when their
inputs are used up or only refuse: `CHECK_DEADLOCK FALSE`.

**Fairness.** The workflow has none and no liveness is claimed of it: requests come from
people, an abandoned plan stays where it is, and nothing in the code retries a
request. For events it is weak fairness of what loops in the code: a call of `publish` that
has begun goes on (every wait of it has a deadline or an error), a daemon wakes every
ten seconds, a member's loop runs, and a partition without an owner gets one. Nothing is assumed of the
broker, of a client's late deliveries or of restarts: the liveness of the producers is conditional on
a broker that in the end stays up and a pod that is connected.

In `ledger` a transaction goes on to its end, and the lock goes to those who wait, which weak fairness of
each writer's next step says: the steps of others while it waits are finitely many; Postgres finds a deadlock. In `scan`
a task goes on: its cloud call is under `with_scan_timeout`, but `validate_credentials` before it
(`connector_worker.py:306-313`) is not, and that it returns rests on the time-outs of the cloud's client. Strong
fairness of `MarkSyncing` and `MarkFailed` (`TakesRow`) stands for the queue of a row lock in Postgres. In `gateway` every call of a request returns, fails or
runs out of time; nothing is assumed of clients and administrators.

## Proofs

### The workflow

`RemediationProofs` proves, for any numbers of sessions, users, plans, approvals,
jobs and builds:

| Theorem | Statement |
|---|---|
| `TypeCorrect` | `Spec => []TypeOK` |
| `Consent` | `Spec => []ConsentBeforeExecution` |
| `Safety` | `Spec => []ExecutionWasSafe` |
| `Earned` | `Spec => []OutcomesAreEarned` |
| `ClosedForGood` | `Spec => ClosedStaysClosed` |
| `ExpiryIsFinal` | `Spec => NoUseAfterExpiry` |

The assumptions are those on the constants: NULL is not a row or a user, users
have known roles, contents and levels are among the modelled ones, there is a
build. TLC evaluates them on every run.

`TypeOK` is not inductive alone: an execution writes an approval it named when it
began, so `TypeInv` adds that an inserted approval has a plan and a check
(`ApprovalShape`), that a request in progress carries the rows of its operation
(`RequestShape`), and that the approval of a decision or an execution exists and
belongs to the request's plan (`TargetShape`).

`ConsentInv` carries consent across the gap between verification and commit. The
approval an execution verified may be overwritten before it commits, so what is
kept is not that the approval *is* approved but what cannot be undone: checks are
never rewritten (`ChecksRecorded`), an approval is bound to a passing check
(`BoundToPassingCheck`), every recorded grant was by someone entitled to it
(`GrantsAuthorised`), an approved row was granted by its approver with its MFA
flag (`ApprovedByGrant`), a succeeded dry run is in `rehearsed`
(`DryRunsRehearsed`), and a verified request is covered by a grant, a rehearsal,
an allowed adapter and an accepting sandbox (`VerifiedIsCovered`). The commit
then copies cover to consent. An approve that has passed its checks is entitled to the grant it will
commit, which `GrantedIsEntitled` carries from `GrantApproval` to `CommitApprove`. `ClosedForGood`
and `ExpiryIsFinal` need only `TypeInv` and a case analysis of which action writes an
approval's status or moves a request to a stage that holds it.

### The workflow in isolation

The requests of the code read rows once, without `FOR UPDATE`, and write later what they
decided. `SingleUse` is false of them, and `OneApprovalPerPlan`, `PlanFollowsApproval` and
`UsedMeansExecuted` with it. `RemediationIsolationProofs` says what is missing.
`Isolated` is the action property that a step which leaves a request in
progress leaves alone the status of its plan, that of its approval and the plan's
newest check, as if a request locked the rows it reads. For any number of
sessions, users, plans, approvals, jobs and builds:

| Theorem | Statement |
|---|---|
| `IsolatedOneApproval` | `Spec /\ Isolated => []OneApprovalPerPlan` |
| `IsolatedSameStory` | `Spec /\ Isolated => []PlanFollowsApproval` |
| `IsolatedUse` | `Spec /\ Isolated => [](UsedMeansExecuted /\ SingleUse)` |
| `IsolatedLatest` | `Spec /\ Isolated => ExecutesUnderLatestCheck` |
| `IsolatedKeepsContract` | `Spec /\ Isolated => KeepsContract` |
| `OneSessionIsolated` | `OneSession => (Spec => Isolated)` |
| `TurnsKeepAll` | `OneSession => (Spec => ...)`: all of the above without the condition |

The code satisfies `Isolated` when requests take turns, which `OneSessionIsolated` proves and
`serial` checks a small case of; it does not when they overlap, which is what
`singleuse` shows. So the theorems are a statement about the code as it is under one
session, and about what a `FOR UPDATE` on three reads would buy under many.

`IsolationInv` adds to the properties that a request in progress
goes by what the tables say *now* (`FreshRequests`: the plan has the status it read, a decision's
approval is still decidable, a verified execution's approval is approved under the newest
check), that a row not yet inserted is blank (`BlankRows`), and that a verified job names a used
approval (`VerificationsUsed`). `KeepsContract` is then proved step by step: a step that
writes tables maps to one step of `RemediationContract` with the same plan, approval and build, every
other step to a stutter. The invariant and the refinement hold of two sessions in TLC too, with
`Next /\ IsolatedStep` for `Next`.

### Events

| Theorem | Statement |
|---|---|
| `ProducerTypes` | `ProducerSpec => []TypeOK` |
| `Durable` | `ProducerSpec => []AcceptedIsDurable` |
| `ConsumerTypes` | `CSpec => []CTypeOK` |
| `AppliedOnce` | `CSpec => []AppliedAtMostOnce` |
| `OffsetAccounted` | `CSpec => []CommittedIsAccountedFor` |
| `OneAtATime` | `MaxRecords = 1 => (CSpec => ...)`: what the offset covers is handled or dropped, and until the first mishap `CommitFollowsProcessing` |
| `EffectOnce` | `BackboneSpec => []EffectAtMostOnce` |
| `KeptEndToEnd` | `BackboneSpec => [](AcceptedIsDurable /\ Group!CommittedIsAccountedFor)` |

They hold for any numbers of events, pods, members, retries and batch sizes, and for any
bound on faults. The assumptions are that the malformed and the security events are events,
that `NoWorker` is not a member, and that the limits are naturals, positive where the code has
a loop to enter.

`Durable`: a row ceases to be pending by the commit of a pass that sent it, so
`DurableInv` adds that what a pass counts as sent is in the log (`SentIsLogged`) and that a
row marked published is (`MarkedIsLogged`). The log only grows, rows keep their event, and
a returned call is not written again.

`AppliedOnce`: `OnceInv` adds `OpenIsFresh`: an open transaction holds a key nobody else
holds and that is not yet in `processed_events`. That is what the primary key gives, and it
does not depend on the owner of the partition, so zombies of a rebalance are covered.

`OffsetAccounted`: `AccountInv` adds that a message past its last attempt is
processed or dead-lettered (`DoneIsHandled`) and that everything up to the owner's *position*
is accounted for (`FetchedIsAccountedFor`), since the position is what will be committed.

`OneAtATime` is the other side of `earlycommit`. The comment in the code says that the offset is committed
after processing; for batches that is false, and for a consumer that fetches one
message at a time it is true, because everything below its position but the message in its hand is
settled (`OneAtATimeInv`). The code fetches ten.

`EffectOnce` and `KeptEndToEnd` are about the composition. `EventConsumerProofs` proves its invariants of
any log that grows (`LogOK`, `LogGrows`); `EventBackboneProofs` instantiates it with the topic of
the producers and shows that every step of a producer, daemon, client or broker leaves the records of the
topic in place (`TopicOK`, `TopicGrows`) and that a step of the group is a step of `EventConsumer`. So
`BackboneInv` is the conjunction of the three invariants of the parts.

### The audit ledger

| Theorem | Statement |
|---|---|
| `ChainIsSingle` | `Spec => []SingleChain` |
| `MirrorIsAnchored` | `Spec => []MirrorHangsOffLedger` |
| `LedgerTyped` | `Spec => []TypeOK` |
| `IntactIsComplete` | `Spec => []IntactCoversLedger` |
| `VerifiesInOrder` | `Spec /\ ClocksFollow /\ []OnePage => []UntamperedVerifies` |

`SingleChain` is not inductive, since it does not say why a writer's number and hash are the next ones when it
commits. `IInv` adds that exactly the writer in the critical stages holds the row (`Exclusive`), that what
it has read is still so (`Current`), and that the numbers of the rows are 1 to n without
gaps, each hanging off the one before (`Chain`). The heart is `TipIsLast`: under
that invariant the query for a hash that no row refers to has the row numbered n as its only
answer, so the tie-break by time never decides. The assumptions are that the genesis hash
is not the hash of a record and that `NoWriter` is not a writer.

`IntactIsComplete` is about a walk of many steps over a ledger that grows and is listed in an order
that need not be its own. `AuditInv` says that while no link is broken the records
scanned so far are the rows 1 to k, that the hash expected next is that of row k, and that k is the
offset unless a shorter page has already reached every row of the beginning. A page
that continues it holds the next rows in order (`LinkedPage`): the position of the first
row that would be wrong is the least of a set of numbers, its predecessor is right, and only one row
hangs off that. `Least`, from the library's well-founded order of the naturals, is how such an
induction over positions is done with the provers there are.

`VerifiesInOrder` says what `untampered` lacks. The verification does not call an untouched chain tampered
if each committed record is later than those before it and the ledger never outgrows one page: then
a listing by time falls from row n to row 1 (`Falling`) and, turned round, is the chain. The code guarantees
neither: the clocks are those of the hosts that made the events, and pages start with the
newest records.

### Connector scans

| Theorem | Statement |
|---|---|
| `TypeCorrect` | `Spec => []TypeOK` |
| `SlotsAreReal` | `Spec => []NoPhantomSlots` |
| `ClosedCircuitsAreHealthy` | `Spec => []ClosedBelowThreshold` |
| `InsertsCannotClash` | `Spec => []InsertsAreNew` |
| `SeenStaysOpen` | `Spec => SeenIsNotResolved` |
| `OthersLocksAreKept` | `Spec => LockKeptFromOthers` |
| `LimitHolds` | `Spec /\ CountIsKept => [](Cardinality(Held) <= Limit)` |

The slots need that the tasks are finitely many (`ClientsAssumption`), for a cardinality is compared;
each command changes counter and count alike, and a crash moves as much to `lost` as it takes away. `RowHeld`
carries the inserts: from its first `UPDATE` to its commit a scan owns its integration's row, it has
marks only while it owns it, and what it marks new is absent; nobody else can commit
a scan of that integration, and a finding that users edit exists already. The same
invariant keeps marks of "resolved" off the batch, which is `SeenStaysOpen`.

`NoPhantomSlots` bounds the counter from above; `LimitHolds` says when the limit bounds the scans that run.
Its invariant (`LimitInv`) is that the counter is no less than the tasks that count, and the condition `CountIsKept`
that Redis takes the counter away, by expiry or by the `DELETE` of a release, only while no task counts.
`tenant_limiter.py` does not ensure it: `DELETE` is a command of its own after `DECR`, and a scan may
outlast its key. Without the condition the limit fails, with two tasks and a limit of 1.

### The gateway

| Theorem | Statement |
|---|---|
| `TypeCorrect` | `Spec => []TypeOK` |
| `KeywordsHeldBack` | `Spec => []BlockedKeywordsStay` |
| `EntitiesHeldBack` | `Spec => []DetectedEntitiesStay` |
| `VerdictsAreTrue` | `Spec => []VerdictMatchesRelease` |

They hold for any requests, prompts, completions, policies and limits. Requests interact only through the
policies, the cache and the counter of streams, so the invariant is a statement about one record (`Good`) with the
tie to the policies (`InForce`): what a session has loaded was in force since the request began; a
prompt with a keyword in its strings that is ready to be sent was tolerated by one of the policies it is held to;
nothing is released and no verdict published before the stage that does. That the cached policy is not mentioned is
the point: whatever it is, the second reading decides, and on a route with its own policy the cache
is not asked for the prompt. The theorems say no more than the properties: what the gateway
does not look at (above) is not held back. `TypeCorrect` says nothing of the limit of
streams; what can be said of it is `LimitHolds` of `ConnectorScan`, under its condition.

### Not proved

Every invariant and action property that a passing run checks is stated by a theorem; those of requests
that take turns by `TurnsKeepAll`. Only model-checked is liveness under fairness, which is out of the prover's
reach: `AcceptedIsLogged`, `PublishedSettles`, `EveryMessageSettles`, `WritersSettle`,
`ScansEnd`, `RequestsSettle`. The theorems that have a condition (`Isolated`, `ClocksFollow`, `OnePage`,
`MaxRecords = 1`, `CountIsKept`) do not say that the code meets it when requests overlap, clocks differ, batches are
larger or keys expire; the runs `singleuse`, `untampered` and `earlycommit` show for the first four that it does not.
`SingleUse`,
`CommitFollowsProcessing`, `NeverDiscarded` and `UntamperedVerifies` are therefore no theorems of
the specifications as they stand.

## Plan

1. What concurrent requests need of `Isolated` row by row: which of its three parts each of the properties
   rests on, and whether a condition in the `UPDATE` instead of a lock is enough.
2. For `NeverDiscarded`, the condition under which no security event is discarded.
3. For the breaker, the docstring of `resiliency.py` as a property of its own, which a late success refutes.
4. A sweep of `expire_approvals` that runs beside other requests, should the application come to call it.

## Not modelled

The specifications cover the parts of the service that keep shared state across steps. They are a small share
of its lines. Most of the rest is one request that reads tables and renders an answer (compliance and
trust reports, evidence packages, dashboards), schemas and database models, clients of cloud and
model APIs, detection patterns and prompts, the web console, the SDK and the
infrastructure: their state is that of one call, or none, and a model of them would restate
arithmetic and formatting. Of what has behaviour, these are left out:

- the circuit breaker that pods share in Redis and its client (`core/providers/circuit_breaker.py`,
  `client.py`), which nothing in the application constructs;
- worker tokens beyond their refusal: every caller issues and validates a token in one call;
- OPA, its input and its decision cache, which can only refuse more than `Gateway` lets pass;
- audit exports and chain proofs, which read the ledger that `AuditLedger` describes;
- the windows of `streaming_buffer.py` and `streaming_state_machine.py`: the generator collects the
  whole stream before it scans, so they do not decide what goes out;
- the fixed windows of requests and reports, one `INCR` each;
- share links of the trust page and the older approvals of `approvals.py`: a count or a status read, checked
  and written by one request without a lock (the share link is listed as a hazard);
- `SecurityWorker`, which writes to Redis inside its transaction (a hazard without a property);
- cryptography: a hash is the identity of what it covers.
