---------------------------- MODULE ConnectorScan ----------------------------
(***************************************************************************)
(* Scans of a tenant's cloud integrations (workers/connector_worker.py,    *)
(* services/finding_inventory.py, services/connectors) beside the API that *)
(* edits integrations and triages findings.                                *)
(*                                                                         *)
(* A pod runs two tasks, the polling loop and the Kafka consumer, which    *)
(* share the pod's circuit breaker.  A scan holds a Redis lock of the      *)
(* integration, a slot of the tenant (TenantLimiter), and from its first   *)
(* UPDATE the row lock of the integration, until its one transaction ends. *)
(* It gives back the slot and the Redis lock before that.                  *)
(*                                                                         *)
(* Time is abstracted: locks, the slot counter and the recovery time-out   *)
(* of a breaker may run out at any moment, a scan may always find the      *)
(* cooldown running, and a finding may or may not have been updated since  *)
(* a scan began.  A batch is a set: two items of one hash, whose inserts   *)
(* would clash, are a flush that fails.                                    *)
(***************************************************************************)
EXTENDS TenantLimiter

CONSTANTS
  Pods,          \* worker containers
  Integrations,  \* of one tenant and one provider
  Findings,      \* dedup hashes, within an integration
  Nobody,        \* no owner
  Threshold,     \* failure_threshold of a breaker, 5
  MaxCrashes     \* bound on crashes of pods

Tasks == Pods \X {"loop", "consumer"}

ASSUME TasksAssumption == Clients = Tasks
ASSUME NobodyAssumption == Nobody \notin Tasks
ASSUME ThresholdAssumption == Threshold \in Nat \ {0} /\ MaxCrashes \in Nat

VARIABLES
  status,     \* cloud_integrations.status
  inventory,  \* per integration and finding: security_findings.status
  rowLock,    \* per integration: the transaction that has updated its row
  lock,       \* per integration: the owner token in Redis
  breaker,    \* per pod: the provider's circuit breaker
  task,       \* per task: its scan
  crashes     \* crashes so far

vars == <<limiter, status, inventory, rowLock, lock, breaker, task, crashes>>

\* syncing is written and overwritten within one transaction; pending and
\* remediating are never written here.
IntegrationStatus == {"active", "error", "disabled"}
FindingStatus == {"absent", "new", "active", "resolved", "suppressed"}
Marks == [Findings -> FindingStatus \cup {"unchanged"}]
Unmarked == [f \in Findings |-> "unchanged"]

\* failing: the scan waits for the integration's row to mark it in error.
ScanStages == {"idle", "loaded", "locked", "slotting", "failing", "syncing", "calling",
               "fetched", "read", "slotBack", "closing"}

\* seen: the status on the row object that was loaded; marks: what the scan
\* writes.
Scan == [stage : ScanStages, on : Integrations, seen : IntegrationStatus,
         batch : SUBSET Findings, marks : Marks, outcome : {"none", "success", "failed"}]

\* failure_count is only compared with the threshold, and capped at it.
Breaker == [state : {"CLOSED", "OPEN", "HALF_OPEN"}, fails : 0 .. Threshold]

Fresh(i, stage, seen) == [stage |-> stage, on |-> i, seen |-> seen, batch |-> {},
                          marks |-> Unmarked, outcome |-> "none"]
Idle(i) == Fresh(i, "idle", "active")

TypeOK ==
  /\ LimiterTypeOK
  /\ status \in [Integrations -> IntegrationStatus]
  /\ inventory \in [Integrations -> [Findings -> FindingStatus]]
  /\ rowLock \in [Integrations -> Tasks \cup {Nobody}]
  /\ lock \in [Integrations -> Tasks \cup {Nobody}]
  /\ breaker \in [Pods -> Breaker]
  /\ task \in [Tasks -> Scan]
  /\ crashes \in 0 .. MaxCrashes

\* The demo seeds insert active findings; the code itself only inserts new ones.
Init ==
  /\ LimiterInit
  /\ status = [i \in Integrations |-> "active"]
  /\ inventory \in [Integrations -> [Findings -> {"absent", "active"}]]
  /\ rowLock = [i \in Integrations |-> Nobody]
  /\ lock = [i \in Integrations |-> Nobody]
  /\ breaker = [p \in Pods |-> [state |-> "CLOSED", fails |-> 0]]
  /\ task \in [Tasks -> {Idle(i) : i \in Integrations}]
  /\ crashes = 0

store == <<status, inventory, rowLock>>

Moves(t, stage) == task' = [task EXCEPT ![t] = [@ EXCEPT !.stage = stage]]
At(t, stage) == task[t].stage = stage

-----------------------------------------------------------------------------
(***************************************************************************)
(* Admission.                                                              *)
(***************************************************************************)
\* The loop discovers active integrations and scans them one after another;
\* the consumer loads the integration of an event just before its scan.
Load(t, i) ==
  /\ At(t, "idle")
  /\ t[2] = "loop" => status[i] = "active"
  /\ task' = [task EXCEPT ![t] = Fresh(i, "loaded", status[i])]
  /\ UNCHANGED <<limiter, store, lock, breaker, crashes>>

\* The status on the loaded row, or a lock that is held or cannot be asked for.
Skip(t) ==
  /\ At(t, "loaded")
  /\ Moves(t, "idle")
  /\ UNCHANGED <<limiter, store, lock, breaker, crashes>>

AcquireLock(t) ==
  /\ At(t, "loaded")
  /\ task[t].seen = "active"
  /\ lock[task[t].on] = Nobody
  /\ lock' = [lock EXCEPT ![task[t].on] = t]
  /\ Moves(t, "locked")
  /\ UNCHANGED <<limiter, store, breaker, crashes>>

\* SET NX of the cooldown, then the first command of the slot.
AskForSlot(t) ==
  /\ At(t, "locked")
  /\ Incr(t)
  /\ Moves(t, "slotting")
  /\ UNCHANGED <<store, lock, breaker, crashes>>

\* The cooldown is running, or Redis fails at it or at INCR.
Refuse(t) ==
  /\ At(t, "locked")
  /\ Moves(t, "slotting")
  /\ UNCHANGED <<limiter, store, lock, breaker, crashes>>

\* A scan refused by the cooldown or the limiter publishes that it was skipped;
\* when that raises, the integration is marked in error.
RefusalFails(t) ==
  /\ At(t, "slotting")
  /\ client[t] = "out"
  /\ Moves(t, "failing")
  /\ UNCHANGED <<limiter, store, lock, breaker, crashes>>

\* What the limiter does meanwhile, for a task that acquires or releases.
Limiting(t) ==
  /\ \/ LimiterStep(t)
     \/ client[t] = "held" /\ At(t, "slotBack") /\ Decr(t)
     \/ StoreFails(t) /\ task[t].stage \in {"slotting", "slotBack"}
  /\ UNCHANGED <<store, lock, breaker, task, crashes>>

-----------------------------------------------------------------------------
(***************************************************************************)
(* The scan itself.                                                        *)
(***************************************************************************)
FaultyRowIsFree(i) == TRUE
RowIsFree(i) == rowLock[i] = Nobody

\* The UPDATE to syncing waits for any transaction that has updated the row.
MarkSyncing(t) ==
  /\ At(t, "slotting")
  /\ client[t] = "held"
  /\ RowIsFree(task[t].on)
  /\ rowLock' = [rowLock EXCEPT ![task[t].on] = t]
  /\ Moves(t, "syncing")
  /\ UNCHANGED <<limiter, status, inventory, lock, breaker, crashes>>

\* The writes of a scan are flushed; its transaction is still to be committed.
Ends(t, outcome) == [task EXCEPT ![t] = [@ EXCEPT !.stage = "slotBack", !.outcome = outcome]]

\* _mark_error.
Errs(t) == Ends(t, "failed")

MarkFailed(t) ==
  /\ At(t, "failing")
  /\ RowIsFree(task[t].on)
  /\ rowLock' = [rowLock EXCEPT ![task[t].on] = t]
  /\ task' = Errs(t)
  /\ UNCHANGED <<limiter, status, inventory, lock, breaker, crashes>>

\* The worker's token, its credentials or its connector are refused.
NotAuthorized(t) ==
  /\ At(t, "syncing")
  /\ task' = Errs(t)
  /\ UNCHANGED <<limiter, store, lock, breaker, crashes>>

\* An open breaker rejects the call, or lets it through as a probe when its
\* time-out has passed; a half-open one lets every call through.
Call(t) ==
  /\ At(t, "syncing")
  /\ \/ breaker[t[1]].state # "OPEN" /\ Moves(t, "calling") /\ UNCHANGED breaker
     \/ /\ breaker[t[1]].state = "OPEN"
        /\ breaker' = [breaker EXCEPT ![t[1]].state = "HALF_OPEN"]
        /\ Moves(t, "calling")
     \/ breaker[t[1]].state = "OPEN" /\ task' = Errs(t) /\ UNCHANGED breaker
  /\ UNCHANGED <<limiter, store, lock, crashes>>

FaultyOnSuccess(b) == [b EXCEPT !.state = "CLOSED"]

\* Any success closes the circuit: also that of a call which began before the
\* circuit opened, without the probe that resiliency.py (lines 15-20 and 165-170)
\* describes.
OnSuccess(b) == [state |-> "CLOSED", fails |-> 0]

FaultyOnFailure(b) ==
  [b EXCEPT !.state = IF b.fails + 1 = Threshold THEN "OPEN" ELSE @, !.fails = @ + 1]
OnFailure(b) ==
  LET fails == IF b.fails < Threshold THEN b.fails + 1 ELSE Threshold IN
  [state |-> IF b.state = "HALF_OPEN" \/ fails = Threshold THEN "OPEN" ELSE b.state,
   fails |-> fails]

\* async_retry under with_scan_timeout returns some findings, raises or is
\* cancelled; the raw payloads may then fail to be stored.
CallReturns(t) ==
  /\ At(t, "calling")
  /\ breaker' = [breaker EXCEPT ![t[1]] = OnSuccess(@)]
  /\ \/ \E batch \in SUBSET Findings :
          task' = [task EXCEPT ![t] = [@ EXCEPT !.stage = "fetched", !.batch = batch]]
     \/ task' = Errs(t)
  /\ UNCHANGED <<limiter, store, lock, crashes>>

CallFails(t) ==
  /\ At(t, "calling")
  /\ breaker' = [breaker EXCEPT ![t[1]] = OnFailure(@)]
  /\ task' = Errs(t)
  /\ UNCHANGED <<limiter, store, lock, crashes>>

\* What persist_scan_results does to a finding that it reads with a status.
\* Autoflush is off, so the query for stale rows does not see the scan's own
\* updates and seen_hashes must exclude them; a row that was updated since the
\* scan began is not stale.
FaultyMarks(t, f, read) ==
  CASE f \in task[t].batch /\ read = "absent" -> {"new"}
    [] f \in task[t].batch /\ read = "resolved" -> {"active"}
    [] read = "active" -> {"resolved", "unchanged"}
    [] OTHER -> {"unchanged"}
MarksFor(t, f, read) ==
  CASE f \in task[t].batch /\ read = "absent" -> {"new"}
    [] f \in task[t].batch /\ read = "resolved" -> {"active"}
    [] f \notin task[t].batch /\ read = "active" -> {"resolved", "unchanged"}
    [] OTHER -> {"unchanged"}

ReadInventory(t) ==
  /\ At(t, "fetched")
  /\ \E marks \in Marks :
       /\ \A f \in Findings : marks[f] \in MarksFor(t, f, inventory[task[t].on][f])
       /\ task' = [task EXCEPT ![t] = [@ EXCEPT !.stage = "read", !.marks = marks]]
  /\ UNCHANGED <<limiter, store, lock, breaker, crashes>>

\* The flush of the findings, and _mark_active; or _mark_error, when an event
\* fails to be published after the flush, which keeps the findings.
Persist(t) ==
  /\ At(t, "read")
  /\ \E outcome \in {"success", "failed"} : task' = Ends(t, outcome)
  /\ UNCHANGED <<limiter, store, lock, breaker, crashes>>

\* The finally block: the slot first, then the lock, if it is still its own.
FaultyReleased(i, t) == Nobody
Released(i, t) == IF lock[i] = t THEN Nobody ELSE lock[i]

ReleaseLock(t) ==
  /\ task[t].stage \in {"slotting", "slotBack"}
  /\ client[t] = "out"
  /\ lock' = [lock EXCEPT ![task[t].on] = Released(task[t].on, t)]
  /\ Moves(t, "closing")
  /\ UNCHANGED <<limiter, store, breaker, crashes>>

FaultyRowAfter(i, t) == rowLock[i]
RowAfter(i, t) == IF rowLock[i] = t THEN Nobody ELSE rowLock[i]

Written(t) == [f \in Findings |->
  IF task[t].marks[f] = "unchanged" THEN inventory[task[t].on][f] ELSE task[t].marks[f]]

Stamped(t) == {f \in Findings : f \in task[t].batch \/ task[t].marks[f] # "unchanged"}

\* A transaction that failed before it read the inventory has nothing marked.
Commit(t) ==
  /\ At(t, "closing")
  /\ LET i == task[t].on IN
     /\ status' = CASE task[t].outcome = "success" -> [status EXCEPT ![i] = "active"]
                    [] task[t].outcome = "failed" -> [status EXCEPT ![i] = "error"]
                    [] OTHER -> status
     /\ inventory' = [inventory EXCEPT ![i] = Written(t)]
     /\ rowLock' = [rowLock EXCEPT ![i] = RowAfter(i, t)]
     /\ task' = [task EXCEPT ![t] = Idle(i)]
  /\ UNCHANGED <<limiter, lock, breaker, crashes>>

GivesUp(t) ==
  /\ rowLock' = [rowLock EXCEPT ![task[t].on] = RowAfter(task[t].on, t)]
  /\ task' = [task EXCEPT ![t] = Idle(task[t].on)]
  /\ UNCHANGED <<status, inventory, lock, breaker, crashes>>

\* The failure itself cannot be published, or the commit raises.
Rollback(t) ==
  /\ At(t, "closing")
  /\ GivesUp(t)
  /\ UNCHANGED limiter

\* The flush of the findings raises: the rollback expires the row that the
\* finally block then reads, so that it releases neither slot nor lock.
FlushFails(t) ==
  /\ At(t, "read")
  /\ StoreFails(t)
  /\ GivesUp(t)

-----------------------------------------------------------------------------
(***************************************************************************)
(* Crashes, time, and the API.                                             *)
(***************************************************************************)
Crash(p) ==
  LET gone == {t \in Tasks : t[1] = p} IN
  /\ crashes < MaxCrashes
  /\ crashes' = crashes + 1
  /\ lost + Cardinality(Counting \cap gone) <= MaxLost
  /\ lost' = lost + Cardinality(Counting \cap gone)
  /\ client' = [c \in Clients |-> IF c \in gone THEN "out" ELSE client[c]]
  /\ rowLock' = [i \in Integrations |-> IF rowLock[i] \in gone THEN Nobody ELSE rowLock[i]]
  /\ breaker' = [breaker EXCEPT ![p] = [state |-> "CLOSED", fails |-> 0]]
  /\ task' = [t \in Tasks |-> IF t \in gone THEN Idle(task[t].on) ELSE task[t]]
  /\ UNCHANGED <<counter, status, inventory, lock>>

LockExpires(i) ==
  /\ lock[i] # Nobody
  /\ lock' = [lock EXCEPT ![i] = Nobody]
  /\ UNCHANGED <<limiter, store, breaker, task, crashes>>

SlotsExpire == KeyExpires /\ UNCHANGED <<store, lock, breaker, task, crashes>>

\* PATCH and DELETE of an integration: an UPDATE by id that waits for the row.
SetStatus(i, to) ==
  /\ rowLock[i] = Nobody
  /\ status[i] # to
  /\ status' = [status EXCEPT ![i] = to]
  /\ UNCHANGED <<limiter, inventory, rowLock, lock, breaker, task, crashes>>

\* PATCH of a finding that is or was active: the request checks the status
\* that it read, which may be older, and writes by id, waiting for a scan that
\* has flushed an update of the finding.
Triage(i, f, to) ==
  /\ inventory[i][f] \in {"active", "suppressed", "resolved"} \ {to}
  /\ \A t \in Tasks : task[t].on = i /\ task[t].outcome # "none" => f \notin Stamped(t)
  /\ inventory' = [inventory EXCEPT ![i][f] = to]
  /\ UNCHANGED <<limiter, status, rowLock, lock, breaker, task, crashes>>

-----------------------------------------------------------------------------
Scanning(t) ==
  \/ Skip(t) \/ AcquireLock(t) \/ AskForSlot(t) \/ Refuse(t) \/ RefusalFails(t) \/ Limiting(t)
  \/ NotAuthorized(t) \/ Call(t) \/ CallReturns(t) \/ CallFails(t)
  \/ ReadInventory(t) \/ Persist(t) \/ FlushFails(t)
  \/ ReleaseLock(t) \/ Commit(t) \/ Rollback(t)
TakesRow(t) == MarkSyncing(t) \/ MarkFailed(t)

Next ==
  \/ \E t \in Tasks : Scanning(t) \/ TakesRow(t) \/ \E i \in Integrations : Load(t, i)
  \/ \E p \in Pods : Crash(p)
  \/ \E i \in Integrations :
       \/ LockExpires(i)
       \/ \E to \in {"active", "disabled"} : SetStatus(i, to)
       \/ \E f \in Findings, to \in {"active", "suppressed", "resolved"} : Triage(i, f, to)
  \/ SlotsExpire

Spec == Init /\ [][Next]_vars

\* A task goes on with its scan, which rests on the clients' own time-outs where
\* credentials are checked outside with_scan_timeout; Postgres hands a row lock
\* to those who wait for it in turn.
FairSpec == Spec /\ \A t \in Tasks : WF_vars(Scanning(t)) /\ SF_vars(TakesRow(t))

-----------------------------------------------------------------------------
(***************************************************************************)
(* Properties.                                                             *)
(***************************************************************************)
\* A scan about to insert a finding finds no row of it, although Redis locks
\* run out under a scan and are released before its commit: its insert cannot
\* clash on the unique dedup hash, since the row lock of the integration, taken
\* with the first UPDATE, orders the reads of a scan after the commit of the
\* one before.
InsertsAreNew ==
  \A t \in Tasks : \A f \in Findings :
    task[t].marks[f] = "new" => inventory[task[t].on][f] = "absent"

\* A scan does not resolve what it has just seen at the provider.
SeenIsNotResolved ==
  [][\A t \in Tasks : Commit(t) =>
       \A f \in task[t].batch : inventory'[task[t].on][f] = "resolved"
                               => inventory[task[t].on][f] = "resolved"]_vars

\* A task never takes away a lock that another task holds, though its own may
\* have run out and been acquired anew: the release compares the owner token.
LockKeptFromOthers ==
  [][\A i \in Integrations : \A t, u \in Tasks :
       lock[i] = u /\ u # t /\ task'[t] # task[t] => lock'[i] = u]_vars

\* No circuit lets calls through as if all were well when as many calls as the
\* threshold have failed since the last success, in whatever order the calls of
\* both tasks end, late ones and probes among them.
ClosedBelowThreshold ==
  \A p \in Pods : breaker[p].state = "CLOSED" => breaker[p].fails < Threshold

\* Whatever happens to its locks, a scan comes to its end.
ScansEnd == \A t \in Tasks : ~At(t, "idle") ~> At(t, "idle")
=========================================================================
