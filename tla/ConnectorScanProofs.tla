------------------------- MODULE ConnectorScanProofs -------------------------
(***************************************************************************)
(* Connector scans, for any pods, integrations and findings: the slots of  *)
(* the tenant, the row lock of the integration and the circuit breakers.   *)
(*                                                                         *)
(* NoPhantomSlots and ClosedBelowThreshold are inductive with the types.          *)
(* InsertsAreNew is not: that no other scan inserts what a scan is about   *)
(* to insert rests on the row lock, which a scan holds from its first      *)
(* UPDATE to its commit.  RowHeld says so.                                 *)
(***************************************************************************)
EXTENDS ConnectorScan, FiniteSetTheorems, TLAPS

-----------------------------------------------------------------------------
(***************************************************************************)
(* The slots.                                                              *)
(***************************************************************************)
Slots == LimiterTypeOK /\ NoPhantomSlots

LEMMA CountingIsFinite == IsFiniteSet(Counting) /\ Cardinality(Counting) \in Nat
<1>1. Counting \in SUBSET Clients
  BY DEF Counting
<1>2. IsFiniteSet(Counting)
  BY <1>1, ClientsAssumption, FS_Subset
<1> QED
  BY <1>2, FS_CardinalityType

\* What a client's move does to the number of clients that count.
LEMMA Moved ==
  ASSUME LimiterTypeOK, NEW c \in Clients, NEW stage \in ClientStages, Enters(c, stage)
  PROVE  /\ client' \in [Clients -> ClientStages]
         /\ stage \in {"held", "refused"} /\ c \notin Counting =>
              Cardinality(Counting') = Cardinality(Counting) + 1
         /\ stage \notin {"held", "refused"} /\ c \in Counting =>
              Cardinality(Counting') = Cardinality(Counting) - 1
         /\ stage \notin {"held", "refused"} /\ c \notin Counting =>
              Cardinality(Counting') = Cardinality(Counting)
         /\ Cardinality(Counting') \in Nat
<1>1. client' \in [Clients -> ClientStages]
  BY DEF Enters, LimiterTypeOK
<1>2. \A d \in Clients : client'[d] = IF d = c THEN stage ELSE client[d]
  BY DEF Enters, LimiterTypeOK
<1>3. ASSUME stage \in {"held", "refused"}
      PROVE  Counting' = Counting \cup {c}
  BY <1>2, <1>3 DEF Counting
<1>4. ASSUME stage \notin {"held", "refused"}
      PROVE  Counting' = Counting \ {c}
  BY <1>2, <1>4 DEF Counting
<1>5. IsFiniteSet(Counting)
  BY CountingIsFinite
<1>6. stage \in {"held", "refused"} /\ c \notin Counting =>
        Cardinality(Counting') = Cardinality(Counting) + 1
  BY <1>3, <1>5, FS_AddElement
<1>7. stage \notin {"held", "refused"} =>
        Cardinality(Counting') =
          IF c \in Counting THEN Cardinality(Counting) - 1 ELSE Cardinality(Counting)
  BY <1>4, <1>5, FS_RemoveElement
<1>8. IsFiniteSet(Counting')
  BY <1>3, <1>4, <1>5, FS_AddElement, FS_RemoveElement
<1>9. Cardinality(Counting') \in Nat
  BY <1>8, FS_CardinalityType
<1> QED
  BY <1>1, <1>6, <1>7, <1>9

LEMMA IncrSlots == ASSUME Slots, NEW c \in Clients, Incr(c) PROVE Slots'
<1>1. PICK stage \in {"held", "refused"} : Enters(c, stage)
  BY DEF Incr, Answer
<1>2. /\ c \notin Counting /\ counter' = counter + 1 /\ lost' = lost
      /\ counter \in Int /\ lost \in 0 .. MaxLost /\ stage \in ClientStages
  BY <1>1 DEF Incr, Slots, LimiterTypeOK, Counting, ClientStages
<1>3. client' \in [Clients -> ClientStages] /\ Cardinality(Counting') = Cardinality(Counting) + 1
  BY <1>1, <1>2, Moved DEF Slots
<1>4. counter <= Cardinality(Counting) + lost /\ Cardinality(Counting) \in Nat
  BY CountingIsFinite DEF Slots, NoPhantomSlots
<1>5. LimiterTypeOK'
  BY <1>2, <1>3 DEF LimiterTypeOK
<1>6. NoPhantomSlots'
  BY <1>2, <1>3, <1>4, LimitAssumption DEF NoPhantomSlots
<1> QED
  BY <1>5, <1>6 DEF Slots

LEMMA DecrSlots == ASSUME Slots, NEW c \in Clients, Decr(c) PROVE Slots'
<1>1. PICK stage \in {"emptied", "out"} : Enters(c, stage)
  BY DEF Decr
<1>2. /\ c \in Counting /\ counter' = counter - 1 /\ lost' = lost
      /\ counter \in Int /\ lost \in 0 .. MaxLost /\ stage \in ClientStages
  BY <1>1 DEF Decr, Slots, LimiterTypeOK, Counting, ClientStages
<1>3. client' \in [Clients -> ClientStages] /\ Cardinality(Counting') = Cardinality(Counting) - 1
  BY <1>1, <1>2, Moved DEF Slots
<1>4. counter <= Cardinality(Counting) + lost /\ Cardinality(Counting) \in Nat
  BY CountingIsFinite DEF Slots, NoPhantomSlots
<1>5. LimiterTypeOK'
  BY <1>2, <1>3 DEF LimiterTypeOK
<1>6. NoPhantomSlots'
  BY <1>2, <1>3, <1>4, LimitAssumption DEF NoPhantomSlots
<1> QED
  BY <1>5, <1>6 DEF Slots

LEMMA DeleteSlots == ASSUME Slots, NEW c \in Clients, Delete(c) PROVE Slots'
<1>1. /\ Enters(c, "out") /\ counter' = 0 /\ lost' = lost
      /\ lost \in 0 .. MaxLost /\ "out" \in ClientStages
  BY DEF Delete, Slots, LimiterTypeOK, ClientStages
<1>2. client' \in [Clients -> ClientStages] /\ Cardinality(Counting') \in Nat
  BY <1>1, Moved DEF Slots
<1>3. LimiterTypeOK'
  BY <1>1, <1>2 DEF LimiterTypeOK
<1>4. NoPhantomSlots'
  BY <1>1, <1>2, LimitAssumption DEF NoPhantomSlots
<1> QED
  BY <1>3, <1>4 DEF Slots

LEMMA StoreFailsSlots == ASSUME Slots, NEW c \in Clients, StoreFails(c) PROVE Slots'
<1>1. /\ Enters(c, "out") /\ counter' = counter /\ lost' = lost + 1 /\ lost < MaxLost
      /\ counter \in Int /\ lost \in 0 .. MaxLost /\ "out" \in ClientStages
  BY DEF StoreFails, Slots, LimiterTypeOK, ClientStages
<1>2. /\ client' \in [Clients -> ClientStages] /\ Cardinality(Counting') \in Nat
      /\ Cardinality(Counting') >= Cardinality(Counting) - 1
  BY <1>1, CountingIsFinite, Moved DEF Slots
<1>3. counter <= Cardinality(Counting) + lost /\ Cardinality(Counting) \in Nat
  BY CountingIsFinite DEF Slots, NoPhantomSlots
<1>4. LimiterTypeOK'
  BY <1>1, <1>2, LimitAssumption DEF LimiterTypeOK
<1>5. NoPhantomSlots'
  BY <1>1, <1>2, <1>3, LimitAssumption DEF NoPhantomSlots
<1> QED
  BY <1>4, <1>5 DEF Slots

LEMMA ExpirySlots == ASSUME Slots, KeyExpires PROVE Slots'
<1>1. counter' = 0 /\ client' = client /\ lost' = lost /\ lost \in 0 .. MaxLost
  BY DEF KeyExpires, Slots, LimiterTypeOK
<1>2. Counting' = Counting
  BY <1>1 DEF Counting
<1>3. LimiterTypeOK'
  BY <1>1 DEF Slots, LimiterTypeOK
<1>4. NoPhantomSlots'
  BY <1>1, <1>2, CountingIsFinite, LimitAssumption DEF NoPhantomSlots
<1> QED
  BY <1>3, <1>4 DEF Slots

\* A pod that dies leaves behind as many increments as its tasks had made.
LEMMA CrashSlots == ASSUME Slots, NEW p \in Pods, Crash(p) PROVE Slots'
<1> DEFINE gone == {t \in Tasks : t[1] = p}
<1>1. /\ lost' = lost + Cardinality(Counting \cap gone) /\ counter' = counter
      /\ client' = [c \in Clients |-> IF c \in gone THEN "out" ELSE client[c]]
      /\ lost + Cardinality(Counting \cap gone) <= MaxLost
      /\ counter \in Int /\ lost \in 0 .. MaxLost
  BY DEF Crash, Slots, LimiterTypeOK
<1>2. client' \in [Clients -> ClientStages]
  BY <1>1 DEF ClientStages, Slots, LimiterTypeOK
<1>3. Counting' = Counting \ gone
  BY <1>1 DEF Counting
<1> HIDE DEF gone
<1>4. IsFiniteSet(Counting) /\ Cardinality(Counting) \in Nat
  BY CountingIsFinite
<1>5. Cardinality(Counting') = Cardinality(Counting) - Cardinality(Counting \cap gone)
  BY <1>3, <1>4, FS_Difference
<1>6. Cardinality(Counting \cap gone) \in Nat
  <2>1. Counting \cap gone \in SUBSET Counting
    OBVIOUS
  <2> QED
    BY <2>1, <1>4, FS_Subset, FS_CardinalityType
<1>7. LimiterTypeOK'
  BY <1>1, <1>2, <1>6, LimitAssumption DEF LimiterTypeOK
<1>8. NoPhantomSlots'
  BY <1>1, <1>4, <1>5, <1>6, LimitAssumption DEF NoPhantomSlots, Slots
<1> QED
  BY <1>7, <1>8 DEF Slots

LEMMA IdleSlots == ASSUME Slots, UNCHANGED limiter PROVE Slots'
BY DEF Slots, LimiterTypeOK, NoPhantomSlots, Counting, limiter

LEMMA LimitingSlots == ASSUME Slots, NEW t \in Tasks, Limiting(t) PROVE Slots'
<1>1. t \in Clients
  BY TasksAssumption
<1> QED
  BY <1>1, DecrSlots, DeleteSlots, StoreFailsSlots DEF Limiting, LimiterStep

LEMMA SlotsPreserved == ASSUME Slots, [Next]_vars PROVE Slots'
<1>1. CASE UNCHANGED vars
  BY <1>1, IdleSlots DEF vars
<1>2. ASSUME NEW t \in Tasks, Scanning(t) \/ TakesRow(t) PROVE Slots'
  <2>1. CASE AskForSlot(t)
    BY <2>1, IncrSlots, TasksAssumption DEF AskForSlot
  <2>2. CASE Limiting(t)
    BY <2>2, LimitingSlots
  <2>3. CASE FlushFails(t)
    BY <2>3, StoreFailsSlots, TasksAssumption DEF FlushFails
  <2>4. CASE ~AskForSlot(t) /\ ~Limiting(t) /\ ~FlushFails(t)
    <3>1. UNCHANGED limiter
      BY <1>2, <2>4
         DEF Scanning, TakesRow, MarkSyncing, MarkFailed, Skip, AcquireLock, Refuse,
             RefusalFails, NotAuthorized, Call, CallReturns, CallFails, ReadInventory,
             Persist, ReleaseLock, Commit, Rollback, GivesUp
    <3> QED
      BY <3>1, IdleSlots
  <2> QED
    BY <2>1, <2>2, <2>3, <2>4
<1>3. ASSUME NEW t \in Tasks, NEW i \in Integrations, Load(t, i) PROVE Slots'
  BY <1>3, IdleSlots DEF Load
<1>4. ASSUME NEW p \in Pods, Crash(p) PROVE Slots'
  BY <1>4, CrashSlots
<1>5. ASSUME NEW i \in Integrations, LockExpires(i) PROVE Slots'
  BY <1>5, IdleSlots DEF LockExpires
<1>6. ASSUME NEW i \in Integrations, NEW to, SetStatus(i, to) PROVE Slots'
  BY <1>6, IdleSlots DEF SetStatus
<1>7. ASSUME NEW i \in Integrations, NEW f, NEW to, Triage(i, f, to) PROVE Slots'
  BY <1>7, IdleSlots DEF Triage
<1>8. CASE SlotsExpire
  BY <1>8, ExpirySlots DEF SlotsExpire
<1> QED
  BY <1>1, <1>2, <1>3, <1>4, <1>5, <1>6, <1>7, <1>8 DEF Next

LEMMA SlotsInvariant == Spec => []Slots
<1>1. Init => Slots
  <2> SUFFICES ASSUME Init PROVE Slots
    OBVIOUS
  <2>1. LimiterInit
    BY DEF Init
  <2>2. counter = 0 /\ lost = 0 /\ client = [c \in Clients |-> "out"]
    BY <2>1 DEF LimiterInit
  <2>3. LimiterTypeOK
    BY <2>2, LimitAssumption DEF LimiterTypeOK, ClientStages
  <2>4. counter = 0 /\ lost = 0 /\ Cardinality(Counting) \in Nat
    BY <2>2, CountingIsFinite
  <2>5. NoPhantomSlots
    BY <2>4 DEF NoPhantomSlots
  <2> QED
    BY <2>3, <2>5 DEF Slots
<1>2. Slots /\ [Next]_vars => Slots'
  BY SlotsPreserved
<1> QED
  BY <1>1, <1>2, PTL DEF Spec

\* The counter of a tenant never stays above the slots that tasks hold or ask
\* for by more than what crashes and Redis errors left behind, for any number of
\* pods and any limit (tenant_limiter.py:115-160).
THEOREM SlotsAreReal == Spec => []NoPhantomSlots
<1>1. Slots => NoPhantomSlots
  BY DEF Slots
<1> QED
  BY <1>1, SlotsInvariant, PTL

-----------------------------------------------------------------------------
(***************************************************************************)
(* The circuit breakers.                                                   *)
(***************************************************************************)
BreakersTyped == breaker \in [Pods -> Breaker]
Breakers == BreakersTyped /\ ClosedBelowThreshold

Agrees(b) == b \in Breaker /\ (b.state = "CLOSED" => b.fails < Threshold)

\* A pod's breaker is replaced by one that agrees with its count.
LEMMA Replaced ==
  ASSUME Breakers, NEW p \in Pods, NEW b, Agrees(b), breaker' = [breaker EXCEPT ![p] = b]
  PROVE  Breakers'
BY DEF Breakers, BreakersTyped, ClosedBelowThreshold, Agrees

LEMMA Closed == Agrees([state |-> "CLOSED", fails |-> 0])
BY ThresholdAssumption DEF Agrees, Breaker

LEMMA Failed == ASSUME NEW b, Agrees(b) PROVE Agrees(OnFailure(b))
<1> DEFINE fails == IF b.fails < Threshold THEN b.fails + 1 ELSE Threshold
           state == IF b.state = "HALF_OPEN" \/ fails = Threshold THEN "OPEN" ELSE b.state
<1>1. b.fails \in 0 .. Threshold /\ b.state \in {"CLOSED", "OPEN", "HALF_OPEN"}
  BY DEF Agrees, Breaker
<1>2. fails \in 0 .. Threshold /\ state \in {"CLOSED", "OPEN", "HALF_OPEN"}
  BY <1>1, ThresholdAssumption
<1>3. state = "CLOSED" => fails < Threshold
  BY <1>1, ThresholdAssumption DEF Agrees
<1>4. OnFailure(b) = [state |-> state, fails |-> fails]
  BY DEF OnFailure
<1> HIDE DEF fails, state
<1> QED
  BY <1>2, <1>3, <1>4 DEF Agrees, Breaker

LEMMA Probed ==
  ASSUME NEW b, Agrees(b), b.state = "OPEN"
  PROVE  Agrees([b EXCEPT !.state = "HALF_OPEN"])
BY DEF Agrees, Breaker

LEMMA BreakersPreserved == ASSUME Breakers, [Next]_vars PROVE Breakers'
<1>1. ASSUME NEW p \in Pods PROVE Agrees(breaker[p])
  BY DEF Breakers, BreakersTyped, ClosedBelowThreshold, Agrees
<1>2. ASSUME UNCHANGED breaker PROVE Breakers'
  BY <1>2 DEF Breakers, BreakersTyped, ClosedBelowThreshold
<1>3. ASSUME NEW t \in Tasks, Call(t) \/ CallReturns(t) \/ CallFails(t) PROVE Breakers'
  <2>1. t[1] \in Pods
    BY DEF Tasks
  <2>2. CASE UNCHANGED breaker
    BY <1>2, <2>2
  <2>3. CASE breaker' = [breaker EXCEPT ![t[1]] = OnSuccess(@)]
    BY <2>1, <2>3, Closed, Replaced DEF OnSuccess
  <2>4. CASE breaker' = [breaker EXCEPT ![t[1]] = OnFailure(@)]
    BY <1>1, <2>1, <2>4, Failed, Replaced
  <2>5. CASE /\ breaker[t[1]].state = "OPEN"
             /\ breaker' = [breaker EXCEPT ![t[1]].state = "HALF_OPEN"]
    <3>1. Agrees([breaker[t[1]] EXCEPT !.state = "HALF_OPEN"])
      BY <1>1, <2>1, <2>5, Probed
    <3>2. breaker' = [breaker EXCEPT ![t[1]] = [breaker[t[1]] EXCEPT !.state = "HALF_OPEN"]]
      BY <2>5
    <3> QED
      BY <2>1, <3>1, <3>2, Replaced
  <2> QED
    BY <1>3, <2>2, <2>3, <2>4, <2>5 DEF Call, CallReturns, CallFails
<1>4. ASSUME NEW p \in Pods, Crash(p) PROVE Breakers'
  BY <1>4, Closed, Replaced DEF Crash
<1>5. CASE UNCHANGED vars
  BY <1>2, <1>5 DEF vars
<1>6. ASSUME NEW t \in Tasks, Scanning(t) \/ TakesRow(t) PROVE Breakers'
  <2>1. CASE Call(t) \/ CallReturns(t) \/ CallFails(t)
    BY <1>3, <2>1
  <2>2. CASE ~(Call(t) \/ CallReturns(t) \/ CallFails(t))
    <3>1. UNCHANGED breaker
      BY <1>6, <2>2
         DEF Scanning, TakesRow, MarkSyncing, MarkFailed, Skip, AcquireLock, AskForSlot,
             Refuse, RefusalFails, Limiting, NotAuthorized, ReadInventory, Persist,
             FlushFails, ReleaseLock, Commit, Rollback, GivesUp
    <3> QED
      BY <1>2, <3>1
  <2> QED
    BY <2>1, <2>2
<1>7. ASSUME NEW t \in Tasks, NEW i \in Integrations, Load(t, i) PROVE Breakers'
  BY <1>2, <1>7 DEF Load
<1>8. ASSUME NEW i \in Integrations, NEW f, NEW to,
             LockExpires(i) \/ SetStatus(i, to) \/ Triage(i, f, to)
      PROVE  Breakers'
  BY <1>2, <1>8 DEF LockExpires, SetStatus, Triage
<1>9. CASE SlotsExpire
  BY <1>2, <1>9 DEF SlotsExpire
<1> QED
  BY <1>4, <1>5, <1>6, <1>7, <1>8, <1>9 DEF Next

LEMMA BreakersInvariant == Spec => []Breakers
<1>1. Init => Breakers
  BY Closed DEF Init, Breakers, BreakersTyped, ClosedBelowThreshold, Agrees
<1>2. Breakers /\ [Next]_vars => Breakers'
  BY BreakersPreserved
<1> QED
  BY <1>1, <1>2, PTL DEF Spec

\* A provider's circuit is closed only while fewer failures than the threshold
\* have been counted since the last success, in whatever order the calls of a
\* pod's tasks end, for any threshold (resiliency.py:216-262).
THEOREM ClosedCircuitsAreHealthy == Spec => []ClosedBelowThreshold
<1>1. Breakers => ClosedBelowThreshold
  BY DEF Breakers
<1> QED
  BY <1>1, BreakersInvariant, PTL

-----------------------------------------------------------------------------
(***************************************************************************)
(* The row lock of an integration.                                         *)
(***************************************************************************)
Working == {"syncing", "calling", "fetched", "read"}

StoreTyped ==
  /\ status \in [Integrations -> IntegrationStatus]
  /\ inventory \in [Integrations -> [Findings -> FindingStatus]]
  /\ rowLock \in [Integrations -> Tasks \cup {Nobody}]

\* What a scan s of task t may be: it holds the row from its first UPDATE to its
\* commit, it has marks only when it holds the row, and what it is about to
\* insert is absent.
Holds(t, s, locks) ==
  /\ s.stage \in Working \/ s.outcome # "none" => locks[s.on] = t
  /\ s.outcome # "none" => s.stage \in {"slotBack", "closing"}
  /\ \A f \in Findings : s.marks[f] # "unchanged" => s.stage = "read" \/ s.outcome # "none"
  /\ \A f \in s.batch : s.marks[f] # "resolved"
InsertsNew(s, stored) == \A f \in Findings : s.marks[f] = "new" => stored[s.on][f] = "absent"
Fits(t, s, locks, stored) == s \in Scan /\ Holds(t, s, locks) /\ InsertsNew(s, stored)

RowHeld ==
  /\ StoreTyped
  /\ task \in [Tasks -> Scan]
  /\ \A t \in Tasks : Fits(t, task[t], rowLock, inventory)

LEMMA FreshFits ==
  ASSUME NEW t \in Tasks, NEW i \in Integrations, NEW stage \in {"idle", "loaded"},
         NEW seen \in IntegrationStatus, NEW locks, NEW stored
  PROVE  Fits(t, Fresh(i, stage, seen), locks, stored)
<1> DEFINE s == Fresh(i, stage, seen)
<1>1. Unmarked \in Marks /\ \A f \in Findings : Unmarked[f] = "unchanged"
  BY DEF Unmarked, Marks
<1>2. s \in Scan
  BY <1>1 DEF Fresh, Scan, ScanStages
<1>3. Holds(t, s, locks) /\ InsertsNew(s, stored)
  BY <1>1 DEF Fresh, Holds, InsertsNew, Working
<1> QED
  BY <1>2, <1>3 DEF Fits

\* A task's scan is replaced by one that fits.
LEMMA ScanChanges ==
  ASSUME RowHeld, StoreTyped', NEW t \in Tasks, NEW s, Fits(t, s, rowLock', inventory'),
         task' = [task EXCEPT ![t] = s],
         \A u \in Tasks \ {t} : Fits(u, task[u], rowLock', inventory')
  PROVE  RowHeld'
<1>1. task' \in [Tasks -> Scan]
  BY DEF RowHeld, Fits
<1>2. ASSUME NEW u \in Tasks PROVE Fits(u, task'[u], rowLock', inventory')
  BY DEF RowHeld
<1> QED
  BY <1>1, <1>2 DEF RowHeld

LEMMA ScanMoves ==
  ASSUME RowHeld, UNCHANGED store, NEW t \in Tasks, NEW s, Fits(t, s, rowLock, inventory),
         task' = [task EXCEPT ![t] = s]
  PROVE  RowHeld'
<1>1. StoreTyped' /\ rowLock' = rowLock /\ inventory' = inventory
  BY DEF store, RowHeld, StoreTyped
<1>2. \A u \in Tasks : Fits(u, task[u], rowLock', inventory')
  BY <1>1 DEF RowHeld
<1> QED
  BY <1>1, <1>2, ScanChanges

\* A scan that goes on to another stage with nothing marked yet.
LEMMA StageFits ==
  ASSUME NEW t \in Tasks, NEW s, NEW locks, NEW stored, Fits(t, s, locks, stored),
         NEW stage \in ScanStages, s.stage # "read",
         stage \in Working => s.stage \in Working,
         s.outcome # "none" => stage \in {"slotBack", "closing"}
  PROVE  Fits(t, [s EXCEPT !.stage = stage], locks, stored)
<1> DEFINE n == [s EXCEPT !.stage = stage]
<1>1. s \in Scan
  BY DEF Fits
<1>2. /\ n \in Scan /\ n.stage = stage /\ n.on = s.on
      /\ n.marks = s.marks /\ n.outcome = s.outcome /\ n.batch = s.batch
  BY <1>1 DEF Scan
<1> HIDE DEF n
<1>3. Fits(t, n, locks, stored)
  BY <1>2 DEF Fits, Holds, InsertsNew
<1> QED
  BY <1>3 DEF n

LEMMA MovesFits ==
  ASSUME RowHeld, UNCHANGED store, NEW t \in Tasks, NEW stage \in ScanStages, Moves(t, stage),
         ~At(t, "read"), stage \in Working => task[t].stage \in Working,
         task[t].outcome # "none" => stage \in {"slotBack", "closing"}
  PROVE  RowHeld'
<1>1. Fits(t, task[t], rowLock, inventory)
  BY DEF RowHeld
<1>2. Fits(t, [task[t] EXCEPT !.stage = stage], rowLock, inventory)
  BY <1>1, StageFits DEF At
<1> QED
  BY <1>2, ScanMoves DEF Moves

LEMMA EndsFits ==
  ASSUME NEW t \in Tasks, NEW s, NEW locks, NEW stored, s \in Scan,
         NEW outcome \in {"success", "failed"}, locks[s.on] = t,
         \A f \in s.batch : s.marks[f] # "resolved", InsertsNew(s, stored)
  PROVE  Fits(t, [s EXCEPT !.stage = "slotBack", !.outcome = outcome], locks, stored)
<1> DEFINE n == [s EXCEPT !.stage = "slotBack", !.outcome = outcome]
<1>1. /\ n \in Scan /\ n.stage = "slotBack" /\ n.on = s.on
      /\ n.marks = s.marks /\ n.outcome = outcome /\ n.batch = s.batch
  BY DEF Scan, ScanStages
<1> HIDE DEF n
<1>2. Fits(t, n, locks, stored)
  BY <1>1 DEF Fits, Holds, InsertsNew, Working
<1> QED
  BY <1>2 DEF n

LEMMA EndsKeeps ==
  ASSUME RowHeld, UNCHANGED store, NEW t \in Tasks,
         task[t].stage \in {"syncing", "calling", "read"},
         NEW outcome \in {"success", "failed"}, task' = Ends(t, outcome)
  PROVE  RowHeld'
<1> DEFINE s == task[t]
           n == [s EXCEPT !.stage = "slotBack", !.outcome = outcome]
<1>1. Fits(t, s, rowLock, inventory)
  BY DEF RowHeld
<1>2. /\ s \in Scan /\ rowLock[s.on] = t /\ InsertsNew(s, inventory)
      /\ \A f \in s.batch : s.marks[f] # "resolved"
  BY <1>1 DEF Fits, Holds, Working
<1>3. Fits(t, n, rowLock, inventory)
  BY <1>2, EndsFits
<1> QED
  BY <1>3, ScanMoves DEF Ends

LEMMA LoadKeeps ==
  ASSUME RowHeld, NEW t \in Tasks, NEW i \in Integrations, Load(t, i)
  PROVE  RowHeld'
<1>1. status[i] \in IntegrationStatus
  BY DEF RowHeld, StoreTyped
<1>2. Fits(t, Fresh(i, "loaded", status[i]), rowLock, inventory)
  BY <1>1, FreshFits
<1> QED
  BY <1>2, ScanMoves DEF Load

LEMMA AdmissionKeeps ==
  ASSUME RowHeld, NEW t \in Tasks,
         Skip(t) \/ AcquireLock(t) \/ AskForSlot(t) \/ Refuse(t)
         \/ RefusalFails(t) \/ Limiting(t)
  PROVE  RowHeld'
<1>1. Fits(t, task[t], rowLock, inventory)
  BY DEF RowHeld
<1>2. CASE Limiting(t)
  BY <1>2 DEF Limiting, RowHeld, StoreTyped, store, Fits, Holds, InsertsNew
<1>3. CASE ~Limiting(t)
  <2>1. PICK stage \in {"idle", "locked", "slotting", "failing"} : Moves(t, stage)
    BY <1>3 DEF Skip, AcquireLock, AskForSlot, Refuse, RefusalFails
  <2>2. UNCHANGED store /\ task[t].stage \in {"loaded", "locked", "slotting"}
    BY <1>3 DEF Skip, AcquireLock, AskForSlot, Refuse, RefusalFails, At
  <2>3. task[t].outcome = "none"
    BY <1>1, <2>2 DEF Fits, Holds, Scan
  <2> QED
    BY <2>1, <2>2, <2>3, MovesFits DEF At, Working, ScanStages
<1> QED
  BY <1>2, <1>3

\* The first UPDATE: the row was nobody's.
LEMMA TakesRowKeeps ==
  ASSUME RowHeld, NEW t \in Tasks, TakesRow(t)
  PROVE  RowHeld'
<1> DEFINE s == task[t]
           i == s.on
           syncing == [s EXCEPT !.stage = "syncing"]
           failed == [s EXCEPT !.stage = "slotBack", !.outcome = "failed"]
<1>1. /\ s.stage \in {"slotting", "failing"} /\ rowLock[i] = Nobody
      /\ rowLock' = [rowLock EXCEPT ![i] = t] /\ UNCHANGED <<status, inventory>>
  BY DEF TakesRow, MarkSyncing, MarkFailed, RowIsFree, At
<1>2. PICK n \in {syncing, failed} : task' = [task EXCEPT ![t] = n]
  BY DEF TakesRow, MarkSyncing, MarkFailed, Moves, Errs, Ends
<1>3. Fits(t, s, rowLock, inventory) /\ s \in Scan /\ i \in Integrations
  BY DEF RowHeld, Fits, Scan
<1>4. StoreTyped'
  BY <1>1, <1>3 DEF RowHeld, StoreTyped
<1>5. /\ s.outcome = "none" /\ rowLock'[i] = t
      /\ \A f \in Findings : s.marks[f] = "unchanged"
  BY <1>1, <1>3 DEF Fits, Holds, Scan, RowHeld, StoreTyped
<1>6. Fits(t, syncing, rowLock', inventory')
  <2>1. /\ syncing \in Scan /\ syncing.stage = "syncing" /\ syncing.on = i
        /\ syncing.marks = s.marks /\ syncing.outcome = s.outcome /\ syncing.batch = s.batch
    BY <1>3 DEF Scan, ScanStages
  <2> HIDE DEF syncing
  <2> QED
    BY <1>1, <1>3, <1>5, <2>1 DEF Fits, Holds, InsertsNew
<1>7. Fits(t, failed, rowLock', inventory')
  <2>1. InsertsNew(s, inventory') /\ \A f \in s.batch : s.marks[f] # "resolved"
    BY <1>1, <1>3 DEF Fits, Holds, InsertsNew
  <2> QED
    BY <1>3, <1>5, <2>1, EndsFits
<1> HIDE DEF syncing, failed
<1>8. ASSUME NEW u \in Tasks \ {t} PROVE Fits(u, task[u], rowLock', inventory')
  <2>1. Fits(u, task[u], rowLock, inventory) /\ task[u] \in Scan
    BY DEF RowHeld, Fits
  <2>2. rowLock[task[u].on] = u => rowLock'[task[u].on] = u
    BY <1>1, <1>3, <2>1, NobodyAssumption DEF RowHeld, StoreTyped, Scan
  <2> QED
    BY <1>1, <2>1, <2>2 DEF Fits, Holds, InsertsNew
<1> QED
  BY <1>2, <1>4, <1>6, <1>7, <1>8, ScanChanges

LEMMA CallKeeps ==
  ASSUME RowHeld, NEW t \in Tasks, NotAuthorized(t) \/ Call(t) \/ CallFails(t)
  PROVE  RowHeld'
<1>1. UNCHANGED store /\ task[t].stage \in {"syncing", "calling"}
  BY DEF NotAuthorized, Call, CallFails, At
<1>2. CASE task' = Errs(t)
  BY <1>1, <1>2, EndsKeeps DEF Errs
<1>3. CASE Moves(t, "calling")
  <2>1. Fits(t, task[t], rowLock, inventory)
    BY DEF RowHeld
  <2>2. task[t].outcome = "none"
    BY <1>1, <2>1 DEF Fits, Holds, Scan
  <2> QED
    BY <1>1, <1>3, <2>2, MovesFits DEF At, Working, ScanStages
<1> QED
  BY <1>2, <1>3 DEF NotAuthorized, Call, CallFails

LEMMA CallReturnsKeeps ==
  ASSUME RowHeld, NEW t \in Tasks, CallReturns(t)
  PROVE  RowHeld'
<1> DEFINE s == task[t]
<1>1. UNCHANGED store /\ s.stage = "calling"
  BY DEF CallReturns, At
<1>2. Fits(t, s, rowLock, inventory) /\ s \in Scan
  BY DEF RowHeld, Fits
<1>3. ASSUME NEW batch \in SUBSET Findings,
             task' = [task EXCEPT ![t] = [@ EXCEPT !.stage = "fetched", !.batch = batch]]
      PROVE  RowHeld'
  <2> DEFINE n == [s EXCEPT !.stage = "fetched", !.batch = batch]
  <2>1. /\ n \in Scan /\ n.stage = "fetched" /\ n.on = s.on
        /\ n.marks = s.marks /\ n.outcome = s.outcome /\ n.batch = batch
    BY <1>2 DEF Scan, ScanStages
  <2>2. task' = [task EXCEPT ![t] = n]
    BY <1>3
  <2> HIDE DEF n
  <2>3. s.outcome = "none" /\ rowLock[s.on] = t
    BY <1>1, <1>2 DEF Fits, Holds, Working, Scan
  <2>4. Fits(t, n, rowLock, inventory)
    BY <1>1, <1>2, <2>1, <2>3 DEF Fits, Holds, InsertsNew
  <2> QED
    BY <1>1, <2>2, <2>4, ScanMoves
<1>4. CASE task' = Errs(t)
  BY <1>1, <1>4, EndsKeeps DEF Errs
<1> QED
  BY <1>3, <1>4 DEF CallReturns

\* What is marked new was read as absent.
LEMMA ReadKeeps ==
  ASSUME RowHeld, NEW t \in Tasks, ReadInventory(t)
  PROVE  RowHeld'
<1> DEFINE s == task[t]
<1>1. UNCHANGED store /\ s.stage = "fetched"
  BY DEF ReadInventory, At
<1>2. Fits(t, s, rowLock, inventory) /\ s \in Scan
  BY DEF RowHeld, Fits
<1>3. PICK marks \in Marks :
        /\ \A f \in Findings : marks[f] \in MarksFor(t, f, inventory[s.on][f])
        /\ task' = [task EXCEPT ![t] = [@ EXCEPT !.stage = "read", !.marks = marks]]
  BY DEF ReadInventory
<1> DEFINE n == [s EXCEPT !.stage = "read", !.marks = marks]
<1>4. /\ n \in Scan /\ n.stage = "read" /\ n.on = s.on
      /\ n.marks = marks /\ n.outcome = s.outcome /\ n.batch = s.batch
  BY <1>2 DEF Scan, ScanStages
<1>5. task' = [task EXCEPT ![t] = n]
  BY <1>3
<1> HIDE DEF n
<1>6. s.outcome = "none" /\ rowLock[s.on] = t
  BY <1>1, <1>2 DEF Fits, Holds, Working, Scan
<1>7. /\ \A f \in Findings : marks[f] = "new" => inventory[s.on][f] = "absent"
      /\ \A f \in s.batch : marks[f] # "resolved"
  BY <1>2, <1>3 DEF MarksFor, Scan
<1>8. Fits(t, n, rowLock, inventory)
  BY <1>4, <1>6, <1>7 DEF Fits, Holds, InsertsNew
<1> QED
  BY <1>1, <1>5, <1>8, ScanMoves

LEMMA PersistKeeps ==
  ASSUME RowHeld, NEW t \in Tasks, Persist(t)
  PROVE  RowHeld'
<1>1. PICK outcome \in {"success", "failed"} : task' = Ends(t, outcome)
  BY DEF Persist
<1>2. UNCHANGED store /\ task[t].stage = "read"
  BY DEF Persist, At
<1> QED
  BY <1>1, <1>2, EndsKeeps

LEMMA ReleaseKeeps ==
  ASSUME RowHeld, NEW t \in Tasks, ReleaseLock(t)
  PROVE  RowHeld'
<1>1. UNCHANGED store /\ Moves(t, "closing") /\ task[t].stage \in {"slotting", "slotBack"}
  BY DEF ReleaseLock
<1> QED
  BY <1>1, MovesFits DEF At, Working, ScanStages

\* Whoever else holds the row or has marks is on another integration.
LEMMA CommitKeeps ==
  ASSUME RowHeld, NEW t \in Tasks, Commit(t)
  PROVE  RowHeld'
<1> DEFINE s == task[t]
           i == s.on
<1>1. /\ rowLock' = [rowLock EXCEPT ![i] = IF rowLock[i] = t THEN Nobody ELSE rowLock[i]]
      /\ inventory' = [inventory EXCEPT ![i] = Written(t)]
      /\ s.stage = "closing"
      /\ task' = [task EXCEPT ![t] = Fresh(i, "idle", "active")]
  BY DEF Commit, RowAfter, Idle, At
<1>2. status' \in {status, [status EXCEPT ![i] = "active"], [status EXCEPT ![i] = "error"]}
  BY DEF Commit
<1>3. Fits(t, s, rowLock, inventory) /\ s \in Scan /\ i \in Integrations
  BY DEF RowHeld, Fits, Scan
<1>4. Written(t) \in [Findings -> FindingStatus]
  <2>1. s.marks \in [Findings -> FindingStatus \cup {"unchanged"}]
    BY <1>3 DEF Scan, Marks
  <2>2. inventory[i] \in [Findings -> FindingStatus]
    BY <1>3 DEF RowHeld, StoreTyped
  <2> QED
    BY <2>1, <2>2 DEF Written
<1>5. status' \in [Integrations -> IntegrationStatus]
  BY <1>2, <1>3 DEF RowHeld, StoreTyped, IntegrationStatus
<1>6. inventory' \in [Integrations -> [Findings -> FindingStatus]]
  BY <1>1, <1>3, <1>4 DEF RowHeld, StoreTyped
<1>7. rowLock' \in [Integrations -> Tasks \cup {Nobody}]
  BY <1>1, <1>3 DEF RowHeld, StoreTyped
<1>8. ASSUME NEW u \in Tasks \ {t} PROVE Fits(u, task[u], rowLock', inventory')
  <2>1. Fits(u, task[u], rowLock, inventory) /\ task[u] \in Scan /\ task[u].on \in Integrations
    BY DEF RowHeld, Fits, Scan
  <2>2. rowLock[task[u].on] = u => rowLock'[task[u].on] = u
    BY <1>1, <1>3, <2>1 DEF RowHeld, StoreTyped
  <2>3. Holds(u, task[u], rowLock')
    BY <2>1, <2>2 DEF Fits, Holds
  <2>4. ASSUME NEW f \in Findings, task[u].marks[f] = "new"
        PROVE  inventory'[task[u].on][f] = "absent"
    <3>1. inventory[task[u].on][f] = "absent" /\ rowLock[task[u].on] = u
      BY <2>1, <2>4 DEF Fits, Holds, InsertsNew, Working
    <3>2. CASE task[u].on # i
      BY <1>1, <1>3, <2>1, <3>1, <3>2 DEF RowHeld, StoreTyped
    <3>3. CASE task[u].on = i
      <4>1. s.marks[f] = "unchanged"
        BY <1>1, <1>3, <2>4, <3>1, <3>3 DEF Fits, Holds
      <4>2. Written(t)[f] = inventory[i][f]
        BY <2>4, <4>1 DEF Written
      <4> QED
        BY <1>1, <1>3, <3>1, <3>3, <4>2 DEF RowHeld, StoreTyped
    <3> QED
      BY <3>2, <3>3
  <2> QED
    BY <2>1, <2>3, <2>4 DEF Fits, InsertsNew
<1>9. Fits(t, Fresh(i, "idle", "active"), rowLock', inventory')
  BY <1>3, FreshFits DEF IntegrationStatus
<1> QED
  BY <1>1, <1>5, <1>6, <1>7, <1>8, <1>9, ScanChanges DEF StoreTyped

\* A scan that is rolled back has written nothing.
LEMMA GivesUpKeeps ==
  ASSUME RowHeld, NEW t \in Tasks, GivesUp(t)
  PROVE  RowHeld'
<1> DEFINE i == task[t].on
<1>1. /\ rowLock' = [rowLock EXCEPT ![i] = IF rowLock[i] = t THEN Nobody ELSE rowLock[i]]
      /\ task' = [task EXCEPT ![t] = Fresh(i, "idle", "active")]
      /\ UNCHANGED <<status, inventory>>
  BY DEF GivesUp, RowAfter, Idle
<1>2. i \in Integrations
  BY DEF RowHeld, Fits, Scan
<1> HIDE DEF i
<1>3. StoreTyped'
  BY <1>1, <1>2 DEF RowHeld, StoreTyped
<1>4. ASSUME NEW u \in Tasks \ {t} PROVE Fits(u, task[u], rowLock', inventory')
  <2>1. Fits(u, task[u], rowLock, inventory) /\ task[u].on \in Integrations
    BY DEF RowHeld, Fits, Scan
  <2>2. rowLock[task[u].on] = u => rowLock'[task[u].on] = u
    BY <1>1, <1>2, <2>1 DEF RowHeld, StoreTyped
  <2> QED
    BY <1>1, <2>1, <2>2 DEF Fits, Holds, InsertsNew
<1>5. Fits(t, Fresh(i, "idle", "active"), rowLock', inventory')
  BY <1>2, FreshFits DEF IntegrationStatus
<1> QED
  BY <1>1, <1>3, <1>4, <1>5, ScanChanges

\* The rows that a dead pod held are free again, and its tasks are idle.
LEMMA CrashKeeps ==
  ASSUME RowHeld, NEW p \in Pods, Crash(p)
  PROVE  RowHeld'
<1> DEFINE gone == {t \in Tasks : t[1] = p}
<1>1. /\ rowLock' = [i \in Integrations |-> IF rowLock[i] \in gone THEN Nobody ELSE rowLock[i]]
      /\ task' = [t \in Tasks |-> IF t \in gone THEN Fresh(task[t].on, "idle", "active") ELSE task[t]]
      /\ UNCHANGED <<status, inventory>>
  BY DEF Crash, Idle
<1> HIDE DEF gone
<1>2. StoreTyped'
  BY <1>1 DEF RowHeld, StoreTyped
<1>3. ASSUME NEW t \in Tasks PROVE Fits(t, task'[t], rowLock', inventory')
  <2>1. Fits(t, task[t], rowLock, inventory) /\ task[t] \in Scan /\ task[t].on \in Integrations
    BY DEF RowHeld, Fits, Scan
  <2>2. CASE t \in gone
    <3>1. Fits(t, Fresh(task[t].on, "idle", "active"), rowLock', inventory')
      BY <2>1, FreshFits DEF IntegrationStatus
    <3> QED
      BY <1>1, <2>2, <3>1
  <2>3. CASE t \notin gone
    <3>1. task'[t] = task[t] /\ (rowLock[task[t].on] = t => rowLock'[task[t].on] = t)
      BY <1>1, <2>1, <2>3
    <3> QED
      BY <1>1, <2>1, <3>1 DEF Fits, Holds, InsertsNew
  <2> QED
    BY <2>2, <2>3
<1>4. task' \in [Tasks -> Scan]
  BY <1>1, <1>3 DEF Fits
<1> QED
  BY <1>2, <1>3, <1>4 DEF RowHeld

\* A finding that is edited is a row already.
LEMMA TriageKeeps ==
  ASSUME RowHeld, NEW i \in Integrations, NEW f \in Findings,
         NEW to \in {"active", "suppressed", "resolved"}, Triage(i, f, to)
  PROVE  RowHeld'
<1>1. /\ inventory[i][f] # "absent" /\ inventory' = [inventory EXCEPT ![i][f] = to]
      /\ UNCHANGED <<status, rowLock, task>>
  BY DEF Triage
<1>2. StoreTyped'
  BY <1>1 DEF RowHeld, StoreTyped, FindingStatus
<1>3. ASSUME NEW t \in Tasks PROVE Fits(t, task[t], rowLock, inventory')
  <2>1. Fits(t, task[t], rowLock, inventory) /\ task[t].on \in Integrations
    BY DEF RowHeld, Fits, Scan
  <2>2. \A g \in Findings : inventory[task[t].on][g] = "absent" => inventory'[task[t].on][g] = "absent"
    BY <1>1, <2>1 DEF RowHeld, StoreTyped
  <2> QED
    BY <2>1, <2>2 DEF Fits, InsertsNew
<1> QED
  BY <1>1, <1>2, <1>3 DEF RowHeld

LEMMA SetStatusKeeps ==
  ASSUME RowHeld, NEW i \in Integrations, NEW to \in {"active", "disabled"}, SetStatus(i, to)
  PROVE  RowHeld'
<1>1. status' = [status EXCEPT ![i] = to] /\ UNCHANGED <<inventory, rowLock, task>>
  BY DEF SetStatus
<1>2. StoreTyped'
  BY <1>1 DEF RowHeld, StoreTyped, IntegrationStatus
<1> QED
  BY <1>1, <1>2 DEF RowHeld

LEMMA RowHeldPreserved == ASSUME RowHeld, [Next]_vars PROVE RowHeld'
<1>1. ASSUME UNCHANGED <<store, task>> PROVE RowHeld'
  BY <1>1 DEF store, RowHeld, StoreTyped
<1>2. ASSUME NEW t \in Tasks, Scanning(t) \/ TakesRow(t) PROVE RowHeld'
  BY <1>2, AdmissionKeeps, TakesRowKeeps, CallKeeps, CallReturnsKeeps, ReadKeeps,
     PersistKeeps, ReleaseKeeps, CommitKeeps, GivesUpKeeps DEF Scanning, FlushFails, Rollback
<1>3. CASE UNCHANGED vars
  BY <1>1, <1>3 DEF vars, store
<1>4. CASE SlotsExpire
  BY <1>1, <1>4 DEF SlotsExpire, store
<1>5. ASSUME NEW i \in Integrations, LockExpires(i) PROVE RowHeld'
  BY <1>1, <1>5 DEF LockExpires, store
<1> QED
  BY <1>2, <1>3, <1>4, <1>5, LoadKeeps, CrashKeeps, TriageKeeps, SetStatusKeeps DEF Next

LEMMA RowHeldInvariant == Spec => []RowHeld
<1>1. Init => RowHeld
  <2> SUFFICES ASSUME Init PROVE RowHeld
    OBVIOUS
  <2>1. StoreTyped
    BY DEF Init, StoreTyped, IntegrationStatus, FindingStatus
  <2>2. ASSUME NEW t \in Tasks PROVE Fits(t, task[t], rowLock, inventory)
    <3>1. PICK i \in Integrations : task[t] = Fresh(i, "idle", "active")
      BY DEF Init, Idle
    <3> QED
      BY <3>1, FreshFits DEF IntegrationStatus
  <2>3. task \in [Tasks -> Scan]
    <3>1. task \in [Tasks -> {Idle(i) : i \in Integrations}]
      BY DEF Init
    <3> QED
      BY <2>2, <3>1 DEF Fits
  <2> QED
    BY <2>1, <2>2, <2>3 DEF RowHeld
<1>2. RowHeld /\ [Next]_vars => RowHeld'
  BY RowHeldPreserved
<1> QED
  BY <1>1, <1>2, PTL DEF Spec

\* A scan about to insert a finding finds no row of it, for any number of pods
\* whose Redis locks run out or are released before the commit
\* (connector_worker.py:282-357, finding_inventory.py:27-101).
THEOREM InsertsCannotClash == Spec => []InsertsAreNew
<1>1. RowHeld => InsertsAreNew
  BY DEF RowHeld, Fits, InsertsNew, InsertsAreNew
<1> QED
  BY <1>1, RowHeldInvariant, PTL

\* A scan never resolves what it has just seen, although its query for stale
\* findings is blind to its own updates (finding_inventory.py:27-101).
THEOREM SeenStaysOpen == Spec => SeenIsNotResolved
<1>1. ASSUME RowHeld, NEW t \in Tasks, Commit(t), NEW f \in task[t].batch,
             inventory'[task[t].on][f] = "resolved"
      PROVE  inventory[task[t].on][f] = "resolved"
  <2> DEFINE s == task[t]
             i == s.on
  <2>1. Fits(t, s, rowLock, inventory) /\ s \in Scan
    BY <1>1 DEF RowHeld, Fits
  <2>2. i \in Integrations /\ f \in Findings
    BY <2>1 DEF Scan
  <2>3. inventory' = [inventory EXCEPT ![i] = Written(t)]
    BY <1>1 DEF Commit
  <2>4. Written(t)[f] = "resolved"
    BY <1>1, <2>2, <2>3 DEF RowHeld, StoreTyped
  <2>5. s.marks[f] # "resolved"
    BY <2>1 DEF Fits, Holds
  <2> QED
    BY <2>2, <2>4, <2>5 DEF Written
<1>2. RowHeld /\ [Next]_vars =>
        [\A t \in Tasks : Commit(t) =>
           \A f \in task[t].batch : inventory'[task[t].on][f] = "resolved"
                                   => inventory[task[t].on][f] = "resolved"]_vars
  BY <1>1
<1> QED
  BY <1>2, RowHeldInvariant, PTL DEF Spec, SeenIsNotResolved

-----------------------------------------------------------------------------
(***************************************************************************)
(* The Redis locks, and the types.                                         *)
(***************************************************************************)
LocksTyped == lock \in [Integrations -> Tasks \cup {Nobody}] /\ crashes \in 0 .. MaxCrashes

LEMMA LocksTypedPreserved == ASSUME LocksTyped, [Next]_vars PROVE LocksTyped'
<1>1. ASSUME UNCHANGED <<lock, crashes>> PROVE LocksTyped'
  BY <1>1 DEF LocksTyped
<1>2. ASSUME NEW t \in Tasks, Scanning(t) \/ TakesRow(t) PROVE LocksTyped'
  <2>1. CASE AcquireLock(t) \/ ReleaseLock(t)
    BY <2>1 DEF AcquireLock, ReleaseLock, Released, LocksTyped
  <2>2. CASE ~(AcquireLock(t) \/ ReleaseLock(t))
    BY <1>1, <1>2, <2>2
       DEF Scanning, TakesRow, MarkSyncing, MarkFailed, Skip, AskForSlot, Refuse,
           RefusalFails, Limiting, NotAuthorized, Call, CallReturns, CallFails,
           ReadInventory, Persist, FlushFails, Commit, Rollback, GivesUp
  <2> QED
    BY <2>1, <2>2
<1>3. ASSUME NEW p \in Pods, Crash(p) PROVE LocksTyped'
  BY <1>3, ThresholdAssumption DEF Crash, LocksTyped
<1>4. ASSUME NEW i \in Integrations, LockExpires(i) PROVE LocksTyped'
  BY <1>4 DEF LockExpires, LocksTyped
<1>5. CASE UNCHANGED vars
  BY <1>1, <1>5 DEF vars
<1>6. CASE SlotsExpire
  BY <1>1, <1>6 DEF SlotsExpire
<1>7. ASSUME NEW t \in Tasks, NEW i \in Integrations, Load(t, i) PROVE LocksTyped'
  BY <1>1, <1>7 DEF Load
<1>8. ASSUME NEW i \in Integrations, NEW f, NEW to, SetStatus(i, to) \/ Triage(i, f, to)
      PROVE  LocksTyped'
  BY <1>1, <1>8 DEF SetStatus, Triage
<1> QED
  BY <1>2, <1>3, <1>4, <1>5, <1>6, <1>7, <1>8 DEF Next

\* Types, slots, breakers, row locks and Redis locks together.
IInv == Slots /\ Breakers /\ RowHeld /\ LocksTyped

LEMMA Invariant == Spec => []IInv
<1>1. Init => LocksTyped
  BY ThresholdAssumption DEF Init, LocksTyped
<1>2. LocksTyped /\ [Next]_vars => LocksTyped'
  BY LocksTypedPreserved
<1>3. Spec => []LocksTyped
  BY <1>1, <1>2, PTL DEF Spec
<1> QED
  BY <1>3, SlotsInvariant, BreakersInvariant, RowHeldInvariant, PTL DEF IInv

\* Every reachable state has the declared types.
THEOREM TypeCorrect == Spec => []TypeOK
<1>1. IInv => TypeOK
  BY DEF IInv, Slots, Breakers, BreakersTyped, RowHeld, StoreTyped, LocksTyped, TypeOK
<1> QED
  BY <1>1, Invariant, PTL

\* A task never takes away the lock of another, though its own ran out and was
\* acquired anew: the release compares the owner (lock.py:42-63).
THEOREM OthersLocksAreKept == Spec => LockKeptFromOthers
<1>1. ASSUME IInv, [Next]_vars, NEW i \in Integrations, NEW t \in Tasks, NEW u \in Tasks,
             lock[i] = u, u # t, task'[t] # task[t]
      PROVE  lock'[i] = u
  <2>1. CASE lock' = lock
    BY <1>1, <2>1
  <2>2. ASSUME NEW v \in Tasks, AcquireLock(v) PROVE lock'[i] = u
    BY <1>1, <2>2, NobodyAssumption DEF AcquireLock, IInv, LocksTyped
  <2>3. ASSUME NEW v \in Tasks, ReleaseLock(v) PROVE lock'[i] = u
    <3>1. v = t
      BY <1>1, <2>3 DEF ReleaseLock, Moves, IInv, RowHeld
    <3> QED
      BY <1>1, <2>3, <3>1 DEF ReleaseLock, Released, IInv, LocksTyped
  <2>4. ASSUME NEW j \in Integrations, LockExpires(j) PROVE FALSE
    BY <1>1, <2>4 DEF LockExpires
  <2>5. ASSUME lock' # lock
        PROVE  \/ \E v \in Tasks : AcquireLock(v) \/ ReleaseLock(v)
               \/ \E j \in Integrations : LockExpires(j)
    BY <1>1, <2>5
       DEF Next, vars, Scanning, TakesRow, MarkSyncing, MarkFailed, Skip, AskForSlot,
           Refuse, RefusalFails, Limiting, NotAuthorized, Call, CallReturns, CallFails,
           ReadInventory, Persist, FlushFails, Commit, Rollback, GivesUp, Load, Crash,
           SetStatus, Triage, SlotsExpire
  <2> QED
    BY <2>1, <2>2, <2>3, <2>4, <2>5
<1>2. IInv /\ [Next]_vars =>
        [\A i \in Integrations : \A t, u \in Tasks :
           lock[i] = u /\ u # t /\ task'[t] # task[t] => lock'[i] = u]_vars
  BY <1>1
<1> QED
  BY <1>2, Invariant, PTL DEF Spec, LockKeptFromOthers

(***************************************************************************)
(* The limit.  NoPhantomSlots bounds the counter from above; what follows  *)
(* says when it is also no less than the clients that count, so that the   *)
(* limit bounds the scans that run.                                        *)
(***************************************************************************)

\* The tasks that were admitted and have not given their slot back.
Held == {c \in Clients : client[c] = "held"}

\* What Redis takes away, by DELETE or by expiry, was nobody's: as if DECR and the
\* DELETE that follows it were one command, and a key that counts were kept.
KeepsCount == KeyExpires \/ (\E c \in Clients : Delete(c)) => Counting = {}
CountIsKept == [][KeepsCount]_vars

LimitInv == Cardinality(Counting) <= counter /\ Cardinality(Held) <= Limit

LEMMA HeldCounts ==
  /\ IsFiniteSet(Held) /\ Cardinality(Held) \in Nat
  /\ Cardinality(Held) <= Cardinality(Counting)
<1>1. Held \in SUBSET Counting
  BY DEF Held, Counting
<1> QED
  BY <1>1, CountingIsFinite, FS_Subset, FS_CardinalityType

LEMMA HeldCountsNext ==
  /\ IsFiniteSet(Held') /\ Cardinality(Held') \in Nat
  /\ Cardinality(Held') <= Cardinality(Counting')
<1>1. Held' \in SUBSET Counting'
  BY DEF Held, Counting
<1>2. IsFiniteSet(Counting')
  <2>1. Counting' \in SUBSET Clients
    BY DEF Counting
  <2> QED
    BY <2>1, ClientsAssumption, FS_Subset
<1> QED
  BY <1>1, <1>2, FS_Subset, FS_CardinalityType

\* Nobody is admitted, and the counter falls no lower than those who count.
LEMMA NobodyAdmitted ==
  ASSUME LimitInv, \A c \in Clients : client'[c] = "held" => client[c] = "held",
         Cardinality(Counting') <= counter'
  PROVE  LimitInv'
<1>1. Held' \in SUBSET Held
  BY DEF Held
<1>2. Cardinality(Held') <= Cardinality(Held)
  BY <1>1, HeldCounts, FS_Subset
<1> QED
  BY <1>2, HeldCounts, HeldCountsNext, LimitAssumption DEF LimitInv

LEMMA IncrLimit == ASSUME Slots, LimitInv, NEW c \in Clients, Incr(c) PROVE LimitInv'
<1>1. /\ client[c] = "out" /\ counter' = counter + 1 /\ counter \in Int
      /\ Enters(c, Answer) /\ c \notin Counting /\ Answer \in ClientStages
      /\ Answer \in {"held", "refused"}
  BY DEF Incr, Slots, LimiterTypeOK, Answer, ClientStages, Counting
<1>2. Cardinality(Counting') = Cardinality(Counting) + 1 /\ Cardinality(Counting) \in Nat
  BY <1>1, CountingIsFinite, Moved DEF Slots
<1>3. Cardinality(Counting') <= counter'
  BY <1>1, <1>2 DEF LimitInv
<1>4. CASE counter < Limit
  <2>1. counter' <= Limit
    BY <1>1, <1>4, LimitAssumption
  <2> QED
    BY <1>1, <1>2, <1>3, <2>1, HeldCountsNext, LimitAssumption DEF LimitInv
<1>5. CASE ~(counter < Limit)
  <2>1. client' = [client EXCEPT ![c] = "refused"]
    BY <1>1, <1>5 DEF Answer, Enters
  <2>2. \A d \in Clients : client'[d] = "held" => client[d] = "held"
    BY <2>1 DEF Slots, LimiterTypeOK
  <2> QED
    BY <1>3, <2>2, NobodyAdmitted
<1> QED
  BY <1>4, <1>5

LEMMA DecrLimit == ASSUME Slots, LimitInv, NEW c \in Clients, Decr(c) PROVE LimitInv'
<1>1. PICK stage \in {"emptied", "out"} : Enters(c, stage)
  BY DEF Decr
<1>2. c \in Counting /\ counter' = counter - 1 /\ counter \in Int /\ stage \in ClientStages
  BY <1>1 DEF Decr, Slots, LimiterTypeOK, Counting, ClientStages
<1>3. Cardinality(Counting') = Cardinality(Counting) - 1 /\ Cardinality(Counting) \in Nat
  BY <1>1, <1>2, CountingIsFinite, Moved DEF Slots
<1>4. \A d \in Clients : client'[d] = "held" => client[d] = "held"
  BY <1>1 DEF Enters, Slots, LimiterTypeOK
<1> QED
  BY <1>2, <1>3, <1>4, NobodyAdmitted DEF LimitInv

LEMMA DeleteLimit ==
  ASSUME Slots, LimitInv, NEW c \in Clients, Delete(c), Counting = {} PROVE LimitInv'
<1>1. Enters(c, "out") /\ counter' = 0 /\ "out" \in ClientStages
  BY DEF Delete, ClientStages
<1>2. \A d \in Clients : client'[d] = IF d = c THEN "out" ELSE client[d]
  BY <1>1 DEF Enters, Slots, LimiterTypeOK
<1>3. Counting' = {}
  BY <1>2 DEF Counting
<1>4. Cardinality(Counting') = 0
  BY <1>3, FS_EmptySet
<1> QED
  BY <1>1, <1>2, <1>4, NobodyAdmitted

LEMMA StoreFailsLimit == ASSUME Slots, LimitInv, NEW c \in Clients, StoreFails(c) PROVE LimitInv'
<1>1. Enters(c, "out") /\ counter' = counter /\ counter \in Int /\ "out" \in ClientStages
  BY DEF StoreFails, Slots, LimiterTypeOK, ClientStages
<1>2. Cardinality(Counting') \in Nat /\ Cardinality(Counting') <= Cardinality(Counting)
  BY <1>1, CountingIsFinite, Moved DEF Slots
<1>3. \A d \in Clients : client'[d] = "held" => client[d] = "held"
  BY <1>1 DEF Enters, Slots, LimiterTypeOK
<1> QED
  BY <1>1, <1>2, <1>3, CountingIsFinite, NobodyAdmitted DEF LimitInv

LEMMA CrashLimit == ASSUME Slots, LimitInv, NEW p \in Pods, Crash(p) PROVE LimitInv'
<1> DEFINE gone == {t \in Tasks : t[1] = p}
<1>1. /\ counter' = counter /\ counter \in Int
      /\ client' = [c \in Clients |-> IF c \in gone THEN "out" ELSE client[c]]
  BY DEF Crash, Slots, LimiterTypeOK
<1>2. Counting' \in SUBSET Counting /\ \A d \in Clients : client'[d] = "held" => client[d] = "held"
  BY <1>1 DEF Counting
<1>3. Cardinality(Counting') \in Nat /\ Cardinality(Counting') <= Cardinality(Counting)
  BY <1>2, CountingIsFinite, FS_Subset, FS_CardinalityType
<1> QED
  BY <1>1, <1>2, <1>3, CountingIsFinite, NobodyAdmitted DEF LimitInv

LEMMA IdleLimit == ASSUME LimitInv, UNCHANGED limiter PROVE LimitInv'
BY DEF LimitInv, Counting, Held, limiter

LEMMA LimitPreserved == ASSUME Slots, LimitInv, [Next]_vars, [KeepsCount]_vars PROVE LimitInv'
<1>1. CASE UNCHANGED vars
  BY <1>1, IdleLimit DEF vars
<1>2. CASE KeepsCount /\ ~UNCHANGED vars
  <2>1. ASSUME NEW t \in Tasks, Scanning(t) \/ TakesRow(t) PROVE LimitInv'
    <3>1. t \in Clients
      BY TasksAssumption
    <3>2. CASE AskForSlot(t)
      BY <3>1, <3>2, IncrLimit DEF AskForSlot
    <3>3. CASE Limiting(t)
      <4>1. Decr(t) \/ Delete(t) \/ StoreFails(t)
        BY <3>3 DEF Limiting, LimiterStep
      <4>2. Delete(t) => Counting = {}
        BY <1>2, <3>1 DEF KeepsCount
      <4> QED
        BY <3>1, <4>1, <4>2, DecrLimit, DeleteLimit, StoreFailsLimit
    <3>4. CASE FlushFails(t)
      BY <3>1, <3>4, StoreFailsLimit DEF FlushFails
    <3>5. CASE ~AskForSlot(t) /\ ~Limiting(t) /\ ~FlushFails(t)
      <4>1. UNCHANGED limiter
        BY <2>1, <3>5
           DEF Scanning, TakesRow, MarkSyncing, MarkFailed, Skip, AcquireLock, Refuse,
               RefusalFails, NotAuthorized, Call, CallReturns, CallFails, ReadInventory,
               Persist, ReleaseLock, Commit, Rollback, GivesUp
      <4> QED
        BY <4>1, IdleLimit
    <3> QED
      BY <3>2, <3>3, <3>4, <3>5
  <2>2. ASSUME NEW p \in Pods, Crash(p) PROVE LimitInv'
    BY <2>2, CrashLimit
  <2>3. CASE SlotsExpire
    <3>1. Counting = {} /\ counter' = 0 /\ client' = client
      BY <1>2, <2>3 DEF SlotsExpire, KeyExpires, KeepsCount
    <3>2. Counting' = {}
      BY <3>1 DEF Counting
    <3>3. Cardinality(Counting') = 0
      BY <3>2, FS_EmptySet
    <3> QED
      BY <3>1, <3>3, NobodyAdmitted
  <2>4. ASSUME NEW t \in Tasks, NEW i \in Integrations, Load(t, i) PROVE LimitInv'
    BY <2>4, IdleLimit DEF Load
  <2>5. ASSUME NEW i \in Integrations, LockExpires(i) PROVE LimitInv'
    BY <2>5, IdleLimit DEF LockExpires
  <2>6. ASSUME NEW i \in Integrations, NEW to, SetStatus(i, to) PROVE LimitInv'
    BY <2>6, IdleLimit DEF SetStatus
  <2>7. ASSUME NEW i \in Integrations, NEW f, NEW to, Triage(i, f, to) PROVE LimitInv'
    BY <2>7, IdleLimit DEF Triage
  <2> QED
    BY <1>2, <2>1, <2>2, <2>3, <2>4, <2>5, <2>6, <2>7 DEF Next
<1> QED
  BY <1>1, <1>2

\* What it takes for the limit to hold: Redis never takes away a count that is
\* somebody's.  The DELETE that follows DECR in a command of its own does, and so
\* does the expiry of a key under a long scan (tenant_limiter.py:136, 147-149).
THEOREM LimitHolds == Spec /\ CountIsKept => [](Cardinality(Held) <= Limit)
<1>1. Init => LimitInv
  <2> SUFFICES ASSUME Init PROVE LimitInv
    OBVIOUS
  <2>1. counter = 0 /\ client = [c \in Clients |-> "out"]
    BY DEF Init, LimiterInit
  <2>2. Counting = {} /\ Held = {}
    BY <2>1 DEF Counting, Held
  <2>3. Cardinality(Counting) = 0 /\ Cardinality(Held) = 0
    BY <2>2, FS_EmptySet
  <2> QED
    BY <2>1, <2>3, LimitAssumption DEF LimitInv
<1>2. Slots /\ LimitInv /\ [Next]_vars /\ [KeepsCount]_vars => LimitInv'
  BY LimitPreserved
<1>3. LimitInv => Cardinality(Held) <= Limit
  BY DEF LimitInv
<1> QED
  BY <1>1, <1>2, <1>3, SlotsInvariant, PTL DEF Spec, CountIsKept
=============================================================================
