---------------------- MODULE RemediationIsolationProofs ----------------------
(***************************************************************************)
(* What isolation the remediation workflow needs.  The requests of         *)
(* Remediation may read rows that others change before they commit; then   *)
(* an approval can be spent twice.  Here it is proved that if no request   *)
(* has the status of its plan or of its approval, or the plan's newest     *)
(* check, changed under it, then any number of concurrent requests keep    *)
(* what requests one at a time keep: the contract and its consequences.    *)
(***************************************************************************)
EXTENDS RemediationProofs

\* A step that leaves the request of t in progress leaves alone what it goes by.
Standing(t) ==
    LET r == request[t]
    IN  /\ plan'[r.plan] = plan[r.plan]
        /\ r.approval # None => /\ approval'[r.approval].status = approval[r.approval].status
                                /\ latest'[r.plan] = latest[r.plan]
IsolatedStep == \A t \in Sessions : ~Idle(t) /\ ~Idle(t)' => Standing(t)

\* As if every request locked the rows it reads (SELECT ... FOR UPDATE).
Isolated == [][IsolatedStep]_vars

-----------------------------------------------------------------------------
(* The inductive invariant: besides the properties, that a request goes by *)
(* what the tables say, and what a row that is not inserted looks like.    *)

BlankRows ==
    /\ \A a \in Approvals : approval[a].status = "none" => approval[a].plan = None
    /\ \A j \in Jobs : job[j].status = "none" => job[j] = NoJob

VerificationsUsed ==
    \A j \in Jobs : job[j].verification # "none" =>
        job[j].approval \in Approvals /\ approval[job[j].approval].status = "used"

Fresh(s) ==
    LET r == request[s]
    IN  /\ r.stage \notin {"idle", "approval_read"} => r.planView = plan[r.plan]
        /\ r.op \in Deciding => approval[r.approval].status \in DecidableStatuses(r.op)
        /\ r.op = "execute" => /\ plan[r.plan] = "approved"
                               /\ r.job # None => job[r.job].approval = r.approval
        /\ r.stage \in {"verified", "consumed"} =>
              /\ r.op = "execute"
              /\ approval[r.approval].status = "approved"
              /\ latest[r.plan] = approval[r.approval].build

FreshRequests == \A s \in Sessions : Fresh(s)

IsolationInv ==
    /\ TypeInv
    /\ BlankRows /\ VerificationsUsed /\ FreshRequests
    /\ OneApprovalPerPlan /\ PlanFollowsApproval /\ UsedMeansExecuted

\* The part of it about the tables.
TablesInv ==
    BlankRows /\ VerificationsUsed /\ OneApprovalPerPlan /\ PlanFollowsApproval /\ UsedMeansExecuted

LEMMA PlanWhileValues ==
    /\ PlanWhile("pending") = {"approval_requested"}
    /\ PlanWhile("approved") = {"approved"}
    /\ PlanWhile("rejected") = {"rejected"}
    /\ PlanWhile("expired") = {"expired"}
    /\ PlanWhile("revoked") = {"approved", "rejected"}
    /\ PlanWhile("used") = {"verified", "rollback_required"}
  BY DEF PlanWhile

Early == {"none", "plan_drafted", "plan_validated"}

\* A plan that has an approval is past validation.
LEMMA NotEarly ==
    ASSUME TypeInv, PlanFollowsApproval, NEW a \in Approvals, approval[a].status # "none"
    PROVE  approval[a].plan \in Plans /\ plan[approval[a].plan] \notin Early
  <1>1. approval[a].status \in ApprovalStatuses /\ approval[a].plan \in Plans
    BY DEF TypeInv, TypeOK, ApprovalShape, ApprovalRows
  <1>2. plan[approval[a].plan] \in PlanWhile(approval[a].status)
    BY DEF PlanFollowsApproval
  <1> QED BY <1>1, <1>2, PlanWhileValues DEF ApprovalStatuses, Early

LEMMA TablesStay ==
    ASSUME TablesInv, UNCHANGED <<plan, approval, job, executions>> PROVE TablesInv'
  BY DEF TablesInv, BlankRows, VerificationsUsed, OneApprovalPerPlan, PlanFollowsApproval,
         PlanWhile, UsedMeansExecuted

\* Only the status of a plan without an approval changes, and it has none after.
LEMMA EarlyMoves ==
    ASSUME TypeInv, TablesInv, NEW p \in Plans, plan[p] \in Early, NEW st \in Early,
           plan' = [plan EXCEPT ![p] = st], UNCHANGED <<approval, job, executions>>
    PROVE  TablesInv'
  <1>1. plan \in [Plans -> PlanStatuses]
    BY DEF TypeInv, TypeOK
  <1>2. PlanFollowsApproval'
    <2>1. ASSUME NEW a \in Approvals, approval[a].status # "none"
          PROVE  plan'[approval[a].plan] \in PlanWhile(approval[a].status)
      <3>1. approval[a].plan \in Plans /\ approval[a].plan # p
        BY <2>1, NotEarly DEF TablesInv
      <3> QED BY <1>1, <2>1, <3>1 DEF TablesInv, PlanFollowsApproval
    <2>2. ASSUME NEW q \in Plans, plan'[q] \notin Early
          PROVE  \E a \in Approvals : approval[a].status # "none" /\ approval[a].plan = q
      <3>1. q # p /\ plan'[q] = plan[q]
        BY <1>1, <2>2
      <3> QED BY <2>2, <3>1 DEF TablesInv, PlanFollowsApproval, Early
    <2> QED BY <2>1, <2>2 DEF PlanFollowsApproval, PlanWhile, Early
  <1> QED BY <1>2 DEF TablesInv, BlankRows, VerificationsUsed, OneApprovalPerPlan, UsedMeansExecuted

\* The approvals of S get the status st, and their plans one that goes with it.
LEMMA Decided ==
    ASSUME TypeInv, TablesInv,
           NEW S \in SUBSET Approvals, NEW st \in ApprovalStatuses \ {"none", "used"},
           \A a \in S : /\ approval[a].status \in {"pending", "approved"}
                        /\ approval'[a].status = st
                        /\ plan'[approval[a].plan] \in PlanWhile(st)
                        /\ plan'[approval[a].plan] \notin Early,
           \A a \in Approvals : approval'[a].plan = approval[a].plan,
           \A a \in Approvals \ S : approval'[a].status = approval[a].status,
           \A p \in Plans : (\A a \in S : approval[a].plan # p) => plan'[p] = plan[p],
           UNCHANGED <<job, executions>>
    PROVE  TablesInv'
  <1>1. BlankRows'
    BY DEF TablesInv, BlankRows
  <1>2. VerificationsUsed'
    BY DEF TablesInv, VerificationsUsed
  <1>3. OneApprovalPerPlan'
    BY DEF TablesInv, OneApprovalPerPlan
  <1>4. UsedMeansExecuted'
    BY DEF TablesInv, UsedMeansExecuted
  <1>5. ASSUME NEW a \in Approvals, approval'[a].status # "none"
        PROVE  plan'[approval[a].plan] \in PlanWhile(approval'[a].status)
    <2>1. CASE a \in S
      BY <2>1
    <2>2. CASE a \notin S
      <3>1. approval[a].status # "none" /\ approval'[a].status = approval[a].status
        BY <1>5, <2>2
      <3>2. approval[a].plan \in Plans
        BY <3>1, NotEarly DEF TablesInv
      <3>3. \A b \in S : approval[b].plan # approval[a].plan
        BY <2>2, <3>1 DEF TablesInv, OneApprovalPerPlan
      <3> QED BY <3>1, <3>2, <3>3 DEF TablesInv, PlanFollowsApproval
    <2> QED BY <2>1, <2>2
  <1>6. ASSUME NEW p \in Plans, plan'[p] \notin Early
        PROVE  \E a \in Approvals : approval'[a].status # "none" /\ approval'[a].plan = p
    <2>1. CASE \E a \in S : approval[a].plan = p
      BY <2>1
    <2>2. CASE \A a \in S : approval[a].plan # p
      <3>1. PICK a \in Approvals : approval[a].status # "none" /\ approval[a].plan = p
        BY <1>6, <2>2 DEF TablesInv, PlanFollowsApproval, Early
      <3> QED BY <2>2, <3>1
    <2> QED BY <2>1, <2>2
  <1>7. PlanFollowsApproval'
    BY <1>5, <1>6 DEF PlanFollowsApproval, PlanWhile, Early
  <1> QED BY <1>1, <1>2, <1>3, <1>4, <1>7 DEF TablesInv

-----------------------------------------------------------------------------
(* What each transaction does to the tables.                               *)

LEMMA GenerateTables ==
    ASSUME IsolationInv, TablesInv, NEW s \in Sessions, GeneratePlan(s) PROVE TablesInv'
  <1>1. PICK p \in Plans : plan[p] = "none" /\ plan' = [plan EXCEPT ![p] = "plan_drafted"]
    BY DEF GeneratePlan
  <1> QED BY <1>1, EarlyMoves DEF GeneratePlan, history, IsolationInv, Early

LEMMA ValidateTables ==
    ASSUME IsolationInv, TablesInv, NEW s \in Sessions, CommitValidate(s) PROVE TablesInv'
  <1> DEFINE p == request[s].plan
  <1>1. p \in Plans /\ request[s].planView = plan[p] /\ plan \in [Plans -> PlanStatuses]
    BY DEF CommitValidate, Serving, IsolationInv, FreshRequests, Fresh, TypeInv, TypeOK,
           RequestShape, ValidRequest
  <1>2. UNCHANGED <<approval, job, executions>>
    BY DEF CommitValidate, history
  <1>3. PICK d : plan' = [plan EXCEPT ![p] = ValidatedStatus(p, request[s].planView, d)]
    BY DEF CommitValidate
  <1> HIDE DEF p
  <1>4. CASE ValidatedStatus(p, request[s].planView, d) = plan[p]
    <2>1. plan' = plan
      BY <1>1, <1>3, <1>4
    <2> QED BY <1>2, <2>1, TablesStay
  <1>5. CASE ValidatedStatus(p, request[s].planView, d) # plan[p]
    <2>1. plan[p] = "plan_drafted" /\ plan' = [plan EXCEPT ![p] = "plan_validated"]
      BY <1>1, <1>3, <1>5 DEF ValidatedStatus
    <2> QED BY <1>1, <1>2, <2>1, EarlyMoves DEF IsolationInv, Early
  <1> QED BY <1>4, <1>5

LEMMA RequestTables ==
    ASSUME IsolationInv, TablesInv, NEW s \in Sessions, CommitRequest(s) PROVE TablesInv'
  <1> USE NoneAssumption
  <1> DEFINE p == request[s].plan
  <1>1. /\ p \in Plans /\ request[s].planView = plan[p]
        /\ plan \in [Plans -> PlanStatuses] /\ approval \in [Approvals -> ApprovalRows]
    BY DEF CommitRequest, Serving, IsolationInv, FreshRequests, Fresh, TypeInv, TypeOK,
           RequestShape, ValidRequest
  <1>2. plan[p] = "plan_validated"
    BY <1>1 DEF CommitRequest, CanTransition, AllowedTransitions
  <1>3. PICK a \in Approvals :
          /\ approval[a].status = "none"
          /\ approval' = [approval EXCEPT ![a] =
                [status |-> "pending", plan |-> p, build |-> latest[p],
                 requestedBy |-> request[s].user, approver |-> None, mfa |-> FALSE]]
    BY DEF CommitRequest
  <1>4. plan' = [plan EXCEPT ![p] = "approval_requested"] /\ UNCHANGED <<job, executions>>
    BY DEF CommitRequest, history
  <1> HIDE DEF p
  <1>5. /\ approval'[a].status = "pending" /\ approval'[a].plan = p
        /\ \A b \in Approvals \ {a} : approval'[b] = approval[b]
    BY <1>1, <1>3
  <1>6. \A b \in Approvals : approval[b].plan # p
    <2> SUFFICES ASSUME NEW b \in Approvals, approval[b].plan = p PROVE FALSE
      OBVIOUS
    <2>1. approval[b].status # "none"
      BY <1>1 DEF TablesInv, BlankRows
    <2> QED BY <1>2, <2>1, NotEarly DEF IsolationInv, Early
  <1>7. BlankRows'
    BY <1>4, <1>5 DEF TablesInv, BlankRows
  <1>8. VerificationsUsed'
    BY <1>3, <1>4, <1>5 DEF TablesInv, VerificationsUsed
  <1>9. OneApprovalPerPlan'
    <2> SUFFICES ASSUME NEW b \in Approvals, NEW c \in Approvals,
                        approval'[b].status # "none", approval'[b].plan = approval'[c].plan
                 PROVE  b = c
      BY DEF OneApprovalPerPlan
    <2> QED BY <1>5, <1>6 DEF TablesInv, OneApprovalPerPlan
  <1>10. PlanFollowsApproval'
    <2>1. ASSUME NEW b \in Approvals, approval'[b].status # "none"
          PROVE  plan'[approval'[b].plan] \in PlanWhile(approval'[b].status)
      <3>1. CASE b = a
        BY <1>1, <1>4, <1>5, <3>1, PlanWhileValues
      <3>2. CASE b # a
        <4>1. approval[b].status # "none" /\ approval'[b] = approval[b]
          BY <1>5, <2>1, <3>2
        <4>2. approval[b].plan \in Plans /\ approval[b].plan # p
          BY <1>6, <4>1, NotEarly DEF IsolationInv
        <4> QED BY <1>1, <1>4, <4>1, <4>2 DEF TablesInv, PlanFollowsApproval
      <3> QED BY <3>1, <3>2
    <2>2. ASSUME NEW q \in Plans, plan'[q] \notin Early
          PROVE  \E b \in Approvals : approval'[b].status # "none" /\ approval'[b].plan = q
      <3>1. CASE q = p
        BY <1>5, <3>1
      <3>2. CASE q # p
        <4>1. PICK b \in Approvals : approval[b].status # "none" /\ approval[b].plan = q
          BY <1>1, <1>4, <2>2, <3>2 DEF TablesInv, PlanFollowsApproval, Early
        <4> QED BY <1>3, <1>5, <4>1
      <3> QED BY <3>1, <3>2
    <2> QED BY <2>1, <2>2 DEF PlanFollowsApproval, PlanWhile, Early
  <1>11. UsedMeansExecuted'
    BY <1>3, <1>4, <1>5 DEF TablesInv, UsedMeansExecuted
  <1> QED BY <1>7, <1>8, <1>9, <1>10, <1>11 DEF TablesInv

\* A decision about to commit, by its request: the approval is open for it, and
\* the plan's status is the one it read.
LEMMA DecisionRows ==
    ASSUME IsolationInv, NEW s \in Sessions,
           request[s].op \in Deciding, request[s].stage \in {"loaded", "granted"}
    PROVE  LET a == request[s].approval
               p == request[s].plan
           IN  /\ a \in Approvals /\ p \in Plans /\ approval[a].plan = p
               /\ approval[a].status \in DecidableStatuses(request[s].op)
               /\ request[s].planView = plan[p]
               /\ approval[a].status = "pending" => plan[p] = "approval_requested"
               /\ approval[a].status = "approved" => plan[p] = "approved"
  <1> DEFINE a == request[s].approval
             p == request[s].plan
  <1>1. /\ a \in Approvals /\ approval[a].plan = p /\ approval[a].status # "none"
    BY DEF IsolationInv, TypeInv, RequestShape, ValidRequest, TargetShape
  <1>2. /\ approval[a].status \in DecidableStatuses(request[s].op) /\ request[s].planView = plan[p]
    BY DEF IsolationInv, FreshRequests, Fresh
  <1>3. p \in Plans /\ plan[p] \in PlanWhile(approval[a].status)
    BY <1>1, NotEarly DEF IsolationInv, PlanFollowsApproval
  <1> HIDE DEF a, p
  <1>4. /\ approval[a].status = "pending" => plan[p] = "approval_requested"
        /\ approval[a].status = "approved" => plan[p] = "approved"
    BY <1>3, PlanWhileValues
  <1> QED BY <1>1, <1>2, <1>3, <1>4 DEF a, p

LEMMA OneDecided ==
    ASSUME IsolationInv, TablesInv, NEW a \in Approvals,
           approval[a].status \in {"pending", "approved"},
           NEW st \in ApprovalStatuses \ {"none", "used"},
           NEW row \in ApprovalRows, row.status = st, row.plan = approval[a].plan,
           approval' = [approval EXCEPT ![a] = row],
           NEW status, plan' = [plan EXCEPT ![approval[a].plan] = status],
           status \in PlanWhile(st), status \notin Early,
           UNCHANGED <<job, executions>>
    PROVE  TablesInv'
  <1>1. /\ plan \in [Plans -> PlanStatuses] /\ approval \in [Approvals -> ApprovalRows]
        /\ approval[a].plan \in Plans
    BY DEF IsolationInv, TypeInv, TypeOK, ApprovalShape
  <1>2. /\ approval'[a].status = st /\ approval'[a].plan = approval[a].plan
        /\ \A b \in Approvals \ {a} : approval'[b] = approval[b]
    BY <1>1
  <1>3. /\ plan'[approval[a].plan] = status
        /\ \A q \in Plans : approval[a].plan # q => plan'[q] = plan[q]
    BY <1>1
  <1> DEFINE S == {a}
  <1>4. /\ S \in SUBSET Approvals
        /\ \A b \in S : /\ approval[b].status \in {"pending", "approved"}
                        /\ approval'[b].status = st
                        /\ plan'[approval[b].plan] \in PlanWhile(st)
                        /\ plan'[approval[b].plan] \notin Early
        /\ \A b \in Approvals : approval'[b].plan = approval[b].plan
        /\ \A b \in Approvals \ S : approval'[b].status = approval[b].status
        /\ \A q \in Plans : (\A b \in S : approval[b].plan # q) => plan'[q] = plan[q]
    BY <1>2, <1>3
  <1> HIDE DEF S
  <1> QED BY <1>4, Decided DEF IsolationInv

LEMMA ApproveTables ==
    ASSUME IsolationInv, TablesInv, NEW s \in Sessions, CommitApprove(s) PROVE TablesInv'
  <1> DEFINE a == request[s].approval
             p == request[s].plan
             u == request[s].user
             mfa == request[s].mfa
             row == [approval[a] EXCEPT !.status = "approved", !.approver = u, !.mfa = mfa]
  <1>1. /\ a \in Approvals /\ approval[a].plan = p /\ approval[a].status = "pending"
    BY DecisionRows DEF CommitApprove, Serving, Deciding, DecidableStatuses
  <1>2. approval[a] \in ApprovalRows /\ u \in Users /\ mfa \in BOOLEAN
    BY <1>1 DEF CommitApprove, Serving, Deciding, IsolationInv, TypeInv, TypeOK, RequestShape,
                ValidRequest, Requests
  <1>3. approval' = [approval EXCEPT ![a] = row]
    BY DEF CommitApprove
  <1>4. plan' = [plan EXCEPT ![p] = "approved"] /\ UNCHANGED <<job, executions>>
    BY DEF CommitApprove
  <1>5. "approved" \in ApprovalStatuses \ {"none", "used"} /\ "approved" \in PlanWhile("approved") /\ "approved" \notin Early
    BY PlanWhileValues DEF ApprovalStatuses, Early
  <1>6. row \in ApprovalRows /\ row.status = "approved" /\ row.plan = approval[a].plan
    <2>1. row \in ApprovalRows
      BY <1>2, <1>5, DecidedRow
    <2> QED BY <1>2, <2>1 DEF ApprovalRows
  <1> HIDE DEF a, p, row
  <1> QED BY <1>1, <1>3, <1>4, <1>5, <1>6, OneDecided

LEMMA RejectTables ==
    ASSUME IsolationInv, TablesInv, NEW s \in Sessions, CommitReject(s) PROVE TablesInv'
  <1> DEFINE a == request[s].approval
             p == request[s].plan
             u == request[s].user
             row == [approval[a] EXCEPT !.status = "rejected", !.approver = u]
  <1>1. /\ a \in Approvals /\ approval[a].plan = p /\ approval[a].status = "pending"
    BY DecisionRows DEF CommitReject, Serving, Deciding, DecidableStatuses
  <1>2. approval[a] \in ApprovalRows /\ u \in Users
    BY <1>1 DEF CommitReject, Serving, Deciding, IsolationInv, TypeInv, TypeOK, RequestShape, ValidRequest
  <1>3. approval' = [approval EXCEPT ![a] = row]
    BY DEF CommitReject, Decide
  <1>4. plan' = [plan EXCEPT ![p] = "rejected"] /\ UNCHANGED <<job, executions>>
    BY DEF CommitReject, history
  <1>5. "rejected" \in ApprovalStatuses \ {"none", "used"} /\ "rejected" \in PlanWhile("rejected") /\ "rejected" \notin Early
    BY PlanWhileValues DEF ApprovalStatuses, Early
  <1>6. row \in ApprovalRows /\ row.status = "rejected" /\ row.plan = approval[a].plan
    <2>1. row \in ApprovalRows
      BY <1>2, <1>5, ResolvedRow
    <2> QED BY <1>2, <2>1 DEF ApprovalRows
  <1> HIDE DEF a, p, row
  <1> QED BY <1>1, <1>3, <1>4, <1>5, <1>6, OneDecided

LEMMA RevokeTables ==
    ASSUME IsolationInv, TablesInv, NEW s \in Sessions, CommitRevoke(s) PROVE TablesInv'
  <1> DEFINE a == request[s].approval
             p == request[s].plan
             u == request[s].user
             row == [approval[a] EXCEPT !.status = "revoked", !.approver = u]
             st == RevokedStatus(p, request[s].planView)
  <1>1. /\ a \in Approvals /\ approval[a].plan = p /\ approval[a].status \in {"pending", "approved"}
        /\ st \in {"approved", "rejected"}
    BY DecisionRows DEF CommitRevoke, Serving, Deciding, DecidableStatuses, RevokedStatus
  <1>2. approval[a] \in ApprovalRows /\ u \in Users
    BY <1>1 DEF CommitRevoke, Serving, Deciding, IsolationInv, TypeInv, TypeOK, RequestShape, ValidRequest
  <1>3. approval' = [approval EXCEPT ![a] = row]
    BY DEF CommitRevoke, Decide
  <1>4. plan' = [plan EXCEPT ![p] = st] /\ UNCHANGED <<job, executions>>
    BY DEF CommitRevoke, history
  <1>5. "revoked" \in ApprovalStatuses \ {"none", "used"} /\ st \in PlanWhile("revoked") /\ st \notin Early
    BY <1>1, PlanWhileValues DEF ApprovalStatuses, Early
  <1>6. row \in ApprovalRows /\ row.status = "revoked" /\ row.plan = approval[a].plan
    <2>1. row \in ApprovalRows
      BY <1>2, <1>5, ResolvedRow
    <2> QED BY <1>2, <2>1 DEF ApprovalRows
  <1> HIDE DEF a, p, row, st
  <1> QED BY <1>1, <1>3, <1>4, <1>5, <1>6, OneDecided

LEMMA ExpireTables ==
    ASSUME IsolationInv, TablesInv, NEW s \in Sessions, ExpireApprovals(s) PROVE TablesInv'
  <1>1. /\ plan \in [Plans -> PlanStatuses] /\ approval \in [Approvals -> ApprovalRows]
        /\ Overdue \in SUBSET Approvals
    BY DEF IsolationInv, TypeInv, TypeOK, Overdue
  <1>2. /\ approval' = [a \in Approvals |->
              IF a \in Overdue THEN [approval[a] EXCEPT !.status = "expired"] ELSE approval[a]]
        /\ plan' = [p \in Plans |->
              IF plan[p] = "approval_requested" /\ HasOverdue(p) THEN "expired" ELSE plan[p]]
        /\ UNCHANGED <<job, executions>>
    BY DEF ExpireApprovals, history
  <1>3. \A a \in Approvals : approval'[a].plan = approval[a].plan
    BY <1>1, <1>2 DEF ApprovalRows
  <1>4. ASSUME NEW a \in Overdue
        PROVE  /\ approval[a].status \in {"pending", "approved"}
               /\ approval'[a].status = "expired"
               /\ plan'[approval[a].plan] \in PlanWhile("expired")
               /\ plan'[approval[a].plan] \notin Early
    <2>1. a \in Approvals /\ approval[a].status = "pending"
      BY DEF Overdue, IsolationInv, TypeInv, TypeOK
    <2>2. approval[a].plan \in Plans /\ plan[approval[a].plan] = "approval_requested"
      BY <2>1, NotEarly, PlanWhileValues DEF IsolationInv, PlanFollowsApproval
    <2>3. plan'[approval[a].plan] = "expired"
      BY <1>2, <2>1, <2>2 DEF HasOverdue
    <2>4. approval'[a].status = "expired"
      BY <1>1, <1>2, <2>1 DEF ApprovalRows
    <2> QED BY <2>1, <2>3, <2>4, PlanWhileValues DEF Early
  <1>5. \A a \in Approvals \ Overdue : approval'[a].status = approval[a].status
    BY <1>2
  <1>6. \A p \in Plans : (\A a \in Overdue : approval[a].plan # p) => plan'[p] = plan[p]
    BY <1>2 DEF HasOverdue
  <1>7. "expired" \in ApprovalStatuses \ {"none", "used"}
    BY DEF ApprovalStatuses
  <1> QED BY <1>1, <1>2, <1>3, <1>4, <1>5, <1>6, <1>7, Decided DEF IsolationInv

LEMMA DryRunTables ==
    ASSUME IsolationInv, TablesInv, NEW s \in Sessions, CreateDryRun(s) \/ RerunDryRun(s)
    PROVE  TablesInv'
  <1>1. UNCHANGED <<plan, approval, executions>> /\ job \in [Jobs -> JobRows]
    BY DEF CreateDryRun, RerunDryRun, IsolationInv, TypeInv, TypeOK
  <1>2. OneApprovalPerPlan' /\ PlanFollowsApproval' /\ UsedMeansExecuted'
    BY <1>1 DEF TablesInv, OneApprovalPerPlan, PlanFollowsApproval, PlanWhile, UsedMeansExecuted
  <1>3. CASE CreateDryRun(s)
    <2>1. PICK j \in Jobs, p \in Plans, a \in Or(Approvals) : \E outcome \in SandboxOutcomes(p) :
              job' = [job EXCEPT ![j] =
                 [status |-> DryRunJobStatus(outcome), plan |-> p, approval |-> a,
                  result |-> outcome, verification |-> "none"]]
      BY ONLY <1>3, ZenonT(60) DEF CreateDryRun
    <2>2. /\ job'[j].status # "none" /\ job'[j].verification = "none"
          /\ \A i \in Jobs \ {j} : job'[i] = job[i]
      BY <1>1, <2>1 DEF DryRunJobStatus
    <2> QED BY <1>1, <1>2, <2>2 DEF TablesInv, BlankRows, VerificationsUsed
  <1>4. CASE RerunDryRun(s)
    <2>1. PICK j \in Jobs : \E outcome \in SandboxOutcomes(job[j].plan) :
              job' = [job EXCEPT ![j] = [@ EXCEPT !.status = DryRunJobStatus(outcome), !.result = outcome]]
      BY <1>4 DEF RerunDryRun
    <2>2. /\ job'[j].status # "none"
          /\ job'[j].verification = job[j].verification /\ job'[j].approval = job[j].approval
          /\ \A i \in Jobs \ {j} : job'[i] = job[i]
      BY <1>1, <2>1 DEF DryRunJobStatus, JobRows
    <2> QED BY <1>1, <1>2, <2>2 DEF TablesInv, BlankRows, VerificationsUsed
  <1> QED BY <1>3, <1>4

\* An execution about to commit: its approval is granted, the plan approved, and
\* the job it works on is a new one or one of its approval, not verified before.
LEMMA ExecutionRows ==
    ASSUME IsolationInv, NEW s \in Sessions, CommitExecute(s)
    PROVE  LET a == request[s].approval
               p == request[s].plan
           IN  /\ a \in Approvals /\ p \in Plans /\ approval[a].plan = p
               /\ approval[a].status = "approved" /\ plan[p] = "approved"
               /\ latest[p] = approval[a].build
               /\ executions[a] = 0
               /\ \E j \in Jobs :
                    /\ job[j].status = "none" \/ job[j].approval = a
                    /\ job[j].verification = "none"
                    /\ job' = [job EXCEPT ![j] =
                          [job[j] EXCEPT !.status = ExecutedJobStatus(p), !.plan = p, !.approval = a,
                                    !.verification = VerificationOf(p, job[j].verification)]]
                    /\ plan' = [plan EXCEPT ![p] = ExecutedPlanStatus(p, job[j].verification)]
  <1> DEFINE a == request[s].approval
             p == request[s].plan
  <1>1. /\ a \in Approvals /\ p \in Plans /\ approval[a].plan = p
    BY DEF CommitExecute, Serving, IsolationInv, TypeInv, RequestShape, ValidRequest, TargetShape
  <1>2. /\ approval[a].status = "approved" /\ plan[p] = "approved"
        /\ latest[p] = approval[a].build
        /\ request[s].job # None => job[request[s].job].approval = a
    BY DEF CommitExecute, Serving, IsolationInv, FreshRequests, Fresh
  <1>3. executions[a] = 0
    BY <1>1, <1>2 DEF IsolationInv, UsedMeansExecuted
  <1>4. PICK j \in Jobs :
            /\ IF request[s].job = None THEN job[j].status = "none" ELSE j = request[s].job
            /\ job' = [job EXCEPT ![j] =
                  [job[j] EXCEPT !.status = ExecutedJobStatus(p), !.plan = p, !.approval = a,
                            !.verification = VerificationOf(p, job[j].verification)]]
            /\ plan' = [plan EXCEPT ![p] = ExecutedPlanStatus(p, job[j].verification)]
    BY DEF CommitExecute
  <1>5. job[j].status = "none" \/ job[j].approval = a
    BY <1>2, <1>4
  <1>6. job[j].verification = "none"
    <2>1. CASE job[j].status = "none"
      BY <2>1 DEF IsolationInv, BlankRows, NoJob
    <2>2. CASE job[j].approval = a
      BY <1>2, <2>2 DEF IsolationInv, VerificationsUsed
    <2> QED BY <1>5, <2>1, <2>2
  <1> QED BY <1>1, <1>2, <1>3, <1>4, <1>5, <1>6

LEMMA ExecuteTables ==
    ASSUME IsolationInv, TablesInv, NEW s \in Sessions, CommitExecute(s) PROVE TablesInv'
  <1> DEFINE a == request[s].approval
             p == request[s].plan
  <1>1. /\ a \in Approvals /\ p \in Plans /\ approval[a].plan = p
        /\ approval[a].status = "approved" /\ executions[a] = 0
    BY ExecutionRows
  <1>2. PICK j \in Jobs :
          /\ job[j].verification = "none"
          /\ job' = [job EXCEPT ![j] =
                [job[j] EXCEPT !.status = ExecutedJobStatus(p), !.plan = p, !.approval = a,
                               !.verification = VerificationOf(p, job[j].verification)]]
          /\ plan' = [plan EXCEPT ![p] = ExecutedPlanStatus(p, job[j].verification)]
    BY ExecutionRows
  <1>3. /\ approval' = [approval EXCEPT ![a] = [approval[a] EXCEPT !.status = "used"]]
        /\ executions' = [executions EXCEPT ![a] = @ + 1]
    BY DEF CommitExecute
  <1>4. /\ plan \in [Plans -> PlanStatuses] /\ approval \in [Approvals -> ApprovalRows]
        /\ job \in [Jobs -> JobRows] /\ executions \in [Approvals -> Nat]
    BY DEF IsolationInv, TypeInv, TypeOK
  <1>5. ExecutedPlanStatus(p, job[j].verification) \in {"verified", "rollback_required"}
    BY <1>2 DEF ExecutedPlanStatus
  <1>6. ExecutedJobStatus(p) # "none"
    BY DEF ExecutedJobStatus
  <1> HIDE DEF a, p
  <1>7. /\ approval'[a].status = "used" /\ approval'[a].plan = p
        /\ \A b \in Approvals \ {a} : approval'[b] = approval[b]
    <2>1. approval'[a] = [approval[a] EXCEPT !.status = "used"] /\ approval[a] \in ApprovalRows
      BY <1>1, <1>3, <1>4
    <2> QED BY <1>1, <1>3, <1>4, <2>1 DEF ApprovalRows
  <1>8. /\ plan'[p] \in {"verified", "rollback_required"}
        /\ \A q \in Plans \ {p} : plan'[q] = plan[q]
    BY <1>1, <1>2, <1>4, <1>5
  <1>9. /\ job'[j].status # "none" /\ job'[j].approval = a
        /\ \A i \in Jobs \ {j} : job'[i] = job[i]
    <2>1. /\ job[j] \in JobRows
          /\ job'[j] = [job[j] EXCEPT !.status = ExecutedJobStatus(p), !.plan = p, !.approval = a,
                                      !.verification = VerificationOf(p, job[j].verification)]
      BY <1>2, <1>4
    <2> QED BY <1>2, <1>4, <1>6, <2>1 DEF JobRows
  <1>10. executions'[a] = 1 /\ \A b \in Approvals \ {a} : executions'[b] = executions[b]
    BY <1>1, <1>3, <1>4
  <1>11. \A b \in Approvals : /\ approval'[b].plan = approval[b].plan
                              /\ approval'[b].status = "none" <=> approval[b].status = "none"
    BY <1>1, <1>7
  <1>12. BlankRows'
    BY <1>9, <1>11 DEF TablesInv, BlankRows
  <1>13. VerificationsUsed'
    <2> SUFFICES ASSUME NEW i \in Jobs, job'[i].verification # "none"
                 PROVE  job'[i].approval \in Approvals /\ approval'[job'[i].approval].status = "used"
      BY DEF VerificationsUsed
    <2>1. CASE i = j
      BY <1>1, <1>7, <1>9, <2>1
    <2>2. CASE i # j
      <3>1. job'[i] = job[i]
        BY <1>9, <2>2
      <3>2. job[i].approval \in Approvals /\ approval[job[i].approval].status = "used"
        BY <3>1 DEF TablesInv, VerificationsUsed
      <3> QED BY <1>1, <1>7, <3>1, <3>2
    <2> QED BY <2>1, <2>2
  <1>14. OneApprovalPerPlan'
    BY <1>11 DEF TablesInv, OneApprovalPerPlan
  <1>15. UsedMeansExecuted'
    <2> SUFFICES ASSUME NEW b \in Approvals
                 PROVE  executions'[b] = (IF approval'[b].status = "used" THEN 1 ELSE 0)
      BY DEF UsedMeansExecuted
    <2>1. CASE b = a
      BY <1>7, <1>10, <2>1
    <2>2. CASE b # a
      BY <1>7, <1>10, <2>2 DEF TablesInv, UsedMeansExecuted
    <2> QED BY <2>1, <2>2
  <1>16. ASSUME NEW b \in Approvals, approval'[b].status # "none"
         PROVE  plan'[approval'[b].plan] \in PlanWhile(approval'[b].status)
    <2>1. CASE b = a
      BY <1>7, <1>8, <2>1, PlanWhileValues
    <2>2. CASE b # a
      <3>1. approval'[b] = approval[b] /\ approval[b].status # "none" /\ approval[b].plan # p
        BY <1>1, <1>7, <1>16, <2>2 DEF TablesInv, OneApprovalPerPlan
      <3>2. approval[b].plan \in Plans
        BY <3>1, NotEarly DEF IsolationInv
      <3> QED BY <1>8, <3>1, <3>2 DEF TablesInv, PlanFollowsApproval
    <2> QED BY <2>1, <2>2
  <1>17. ASSUME NEW q \in Plans, plan'[q] \notin Early
         PROVE  \E b \in Approvals : approval'[b].status # "none" /\ approval'[b].plan = q
    <2>1. CASE q = p
      BY <1>1, <1>7, <2>1
    <2>2. CASE q # p
      <3>1. PICK b \in Approvals : approval[b].status # "none" /\ approval[b].plan = q
        BY <1>8, <1>17, <2>2 DEF TablesInv, PlanFollowsApproval, Early
      <3> QED BY <1>11, <3>1
    <2> QED BY <2>1, <2>2
  <1>18. PlanFollowsApproval'
    BY <1>16, <1>17 DEF PlanFollowsApproval, PlanWhile, Early
  <1> QED BY <1>12, <1>13, <1>14, <1>15, <1>18 DEF TablesInv

LEMMA TablesStep == ASSUME IsolationInv, [Next]_vars PROVE TablesInv'
  <1> USE DEF tables, history
  <1>1. TablesInv
    BY DEF IsolationInv, TablesInv
  <1>2. CASE UNCHANGED <<plan, approval, job, executions>>
    BY <1>1, <1>2, TablesStay
  <1>3. ASSUME NEW s \in Sessions, SessionStep(s)
        PROVE  TablesInv' \/ UNCHANGED <<plan, approval, job, executions>>
    BY <1>1, <1>3, GenerateTables, ValidateTables, RequestTables, ApproveTables, RejectTables,
       RevokeTables, ExpireTables, DryRunTables, ExecuteTables
       DEF SessionStep, BeginValidate, BeginRequest, BeginDecision, ReadPlan, GrantApproval,
           ApproveTooLate, BeginExecute, VerifyExecution, ConsumeApproval, Abort
  <1>4. CASE (\E a \in Approvals : TtlElapses(a)) \/ Deploy \/ UNCHANGED vars
    BY <1>2, <1>4 DEF TtlElapses, Deploy, vars
  <1> QED BY <1>2, <1>3, <1>4 DEF Next

-----------------------------------------------------------------------------
(* Requests go by what the tables say.                                     *)

Moves(t) ==
    \/ BeginValidate(t) \/ BeginRequest(t) \/ BeginExecute(t)
    \/ \E op \in {"approve", "reject", "revoke"} : BeginDecision(t, op)
    \/ ReadPlan(t) \/ GrantApproval(t) \/ VerifyExecution(t) \/ ConsumeApproval(t)

\* How the request of t changes in a step: it is closed, or t moves it along.
LEMMA MoveStep ==
    ASSUME TypeInv, [Next]_vars, NEW t \in Sessions
    PROVE  request'[t] = request[t] \/ request'[t] = NoRequest \/ Moves(t)
  <1> DEFINE Kinds == request'[t] = request[t] \/ request'[t] = NoRequest \/ Moves(t)
  <1>1. request \in [Sessions -> Requests]
    BY DEF TypeInv, TypeOK
  <1>2. ASSUME NEW s \in Sessions, Close(s) PROVE Kinds
    BY <1>1, <1>2 DEF Close
  <1>3. ASSUME NEW s \in Sessions, Moves(s), s # t PROVE request'[t] = request[t]
    <2>1. CASE BeginValidate(s) \/ BeginRequest(s)
      BY <1>1, <1>3, <2>1 DEF BeginValidate, BeginRequest
    <2>2. CASE BeginExecute(s)
      BY <1>1, <1>3, <2>2 DEF BeginExecute
    <2>3. CASE \E op \in {"approve", "reject", "revoke"} : BeginDecision(s, op)
      BY <1>1, <1>3, <2>3 DEF BeginDecision
    <2>4. CASE ReadPlan(s) \/ GrantApproval(s) \/ VerifyExecution(s) \/ ConsumeApproval(s)
      BY <1>1, <1>3, <2>4 DEF ReadPlan, GrantApproval, VerifyExecution, ConsumeApproval
    <2> QED BY <1>3, <2>1, <2>2, <2>3, <2>4 DEF Moves
  <1>4. ASSUME NEW s \in Sessions, SessionStep(s) PROVE Kinds
    BY <1>2, <1>3, <1>4
       DEF SessionStep, GeneratePlan, CommitValidate, CommitRequest, CommitApprove, ApproveTooLate,
           CommitReject, CommitRevoke, ExpireApprovals, CreateDryRun, RerunDryRun, CommitExecute,
           Abort, Moves
  <1> QED BY <1>4 DEF Next, TtlElapses, Deploy, vars

LEMMA MovesKeep == ASSUME NEW t \in Sessions, Moves(t) PROVE UNCHANGED tables
  BY DEF Moves, BeginValidate, BeginRequest, BeginExecute, BeginDecision, ReadPlan,
         GrantApproval, VerifyExecution, ConsumeApproval

\* A job that is bound to an approval stays bound to it.
LEMMA JobsBound ==
    ASSUME IsolationInv, [Next]_vars, NEW j \in Jobs, job[j].approval # None
    PROVE  job'[j].approval = job[j].approval
  <1>1. job \in [Jobs -> JobRows]
    BY DEF IsolationInv, TypeInv, TypeOK
  <1>2. job[j].status # "none"
    BY DEF IsolationInv, BlankRows, NoJob
  <1>3. ASSUME NEW s \in Sessions, CreateDryRun(s) PROVE job'[j] = job[j]
    <2>1. PICK i \in Jobs, p \in Plans, a \in Or(Approvals) : \E outcome \in SandboxOutcomes(p) :
              /\ job[i].status = "none"
              /\ job' = [job EXCEPT ![i] =
                    [status |-> DryRunJobStatus(outcome), plan |-> p, approval |-> a,
                     result |-> outcome, verification |-> "none"]]
      BY ONLY <1>3, ZenonT(60) DEF CreateDryRun
    <2> QED BY <1>1, <1>2, <2>1
  <1>4. ASSUME NEW s \in Sessions, RerunDryRun(s) PROVE job'[j].approval = job[j].approval
    <2>1. PICK i \in Jobs : \E outcome \in SandboxOutcomes(job[i].plan) :
              job' = [job EXCEPT ![i] =
                    [@ EXCEPT !.status = DryRunJobStatus(outcome), !.result = outcome]]
      BY <1>4 DEF RerunDryRun
    <2> QED BY <1>1, <2>1 DEF JobRows
  <1>5. ASSUME NEW s \in Sessions, CommitExecute(s) PROVE job'[j].approval = job[j].approval
    <2> DEFINE a == request[s].approval
               p == request[s].plan
    <2>1. PICK i \in Jobs :
            /\ job[i].status = "none" \/ job[i].approval = a
            /\ job' = [job EXCEPT ![i] =
                  [job[i] EXCEPT !.status = ExecutedJobStatus(p), !.plan = p, !.approval = a,
                            !.verification = VerificationOf(p, job[i].verification)]]
      BY <1>5, ExecutionRows
    <2> HIDE DEF a, p
    <2>2. CASE i = j
      <3>1. job[j].approval = a /\ job[j] \in JobRows
        BY <1>1, <1>2, <2>1, <2>2
      <3>2. job'[j] = [job[j] EXCEPT !.status = ExecutedJobStatus(p), !.plan = p, !.approval = a,
                                     !.verification = VerificationOf(p, job[j].verification)]
        BY <1>1, <2>1, <2>2
      <3> QED BY <3>1, <3>2 DEF JobRows
    <2>3. CASE i # j
      BY <1>1, <2>1, <2>3
    <2> QED BY <2>2, <2>3
  <1> QED BY <1>3, <1>4, <1>5, JobStep

\* A request in progress that a step leaves as it is.
LEMMA StandingFresh ==
    ASSUME IsolationInv, [Next]_vars, NEW t \in Sessions, ~Idle(t), Standing(t),
           request'[t] = request[t]
    PROVE  Fresh(t)'
  <1> USE NoneAssumption
  <1> DEFINE r == request[t]
  <1>1. Fresh(t) /\ ValidRequest(r)
    BY DEF IsolationInv, FreshRequests, TypeInv, RequestShape
  <1>2. plan'[r.plan] = plan[r.plan]
    BY DEF Standing
  <1>3. r.op \in Deciding \cup {"execute"} =>
          /\ r.approval \in Approvals /\ r.approval # None
          /\ approval'[r.approval].status = approval[r.approval].status
          /\ approval'[r.approval].build = approval[r.approval].build
          /\ latest'[r.plan] = latest[r.plan]
    <2> SUFFICES ASSUME r.op \in Deciding \cup {"execute"}
                 PROVE  /\ r.approval \in Approvals /\ r.approval # None
                        /\ approval'[r.approval].status = approval[r.approval].status
                        /\ approval'[r.approval].build = approval[r.approval].build
                        /\ latest'[r.plan] = latest[r.plan]
      OBVIOUS
    <2>1. r.approval \in Approvals /\ r.approval # None /\ approval[r.approval].status # "none"
      BY <1>1 DEF ValidRequest, IsolationInv, TypeInv, TargetShape
    <2>2. Kept
      BY KeptStep, TypeInvParts DEF IsolationInv
    <2> QED BY <2>1, <2>2 DEF Standing, Kept
  <1>4. r.op = "execute" /\ r.job # None => job'[r.job].approval = r.approval
    <2> SUFFICES ASSUME r.op = "execute", r.job # None PROVE job'[r.job].approval = r.approval
      OBVIOUS
    <2>1. r.job \in Jobs /\ job[r.job].approval = r.approval
      BY <1>1 DEF Fresh, ValidRequest, Requests, Or
    <2> QED BY <1>3, <2>1, JobsBound
  <1> QED BY <1>1, <1>2, <1>3, <1>4 DEF Fresh

LEMMA IdleFresh == ASSUME NEW t \in Sessions, request'[t] = NoRequest PROVE Fresh(t)'
  BY DEF Fresh, NoRequest, Deciding

LEMMA BeginningFresh ==
    ASSUME IsolationInv, NEW t \in Sessions,
           \/ BeginValidate(t) \/ BeginRequest(t) \/ BeginExecute(t)
           \/ \E op \in {"approve", "reject", "revoke"} : BeginDecision(t, op)
    PROVE  Fresh(t)'
  <1>1. request \in [Sessions -> Requests]
    BY DEF IsolationInv, TypeInv, TypeOK
  <1>2. CASE BeginValidate(t)
    <2>1. PICK p \in Plans : request' = [request EXCEPT ![t] =
              [NoRequest EXCEPT !.op = "validate", !.stage = "loaded", !.plan = p,
                                !.build = build, !.planView = plan[p]]]
      BY <1>2 DEF BeginValidate
    <2>2. /\ request'[t].op = "validate" /\ request'[t].stage = "loaded"
          /\ request'[t].plan = p /\ request'[t].planView = plan[p]
      BY <1>1, <2>1 DEF NoRequest
    <2> QED BY <1>2, <2>2 DEF BeginValidate, Fresh, Deciding, tables
  <1>3. CASE BeginRequest(t)
    <2>1. PICK p \in Plans, u \in Users : request' = [request EXCEPT ![t] =
              [NoRequest EXCEPT !.op = "request", !.stage = "loaded", !.user = u,
                                !.plan = p, !.planView = plan[p]]]
      BY <1>3 DEF BeginRequest
    <2>2. /\ request'[t].op = "request" /\ request'[t].stage = "loaded"
          /\ request'[t].plan = p /\ request'[t].planView = plan[p]
      BY <1>1, <2>1 DEF NoRequest
    <2> QED BY <1>3, <2>2 DEF BeginRequest, Fresh, Deciding, tables
  <1>4. CASE BeginExecute(t)
    <2>1. PICK u \in Users, a \in Approvals, j \in Or(Jobs) :
            /\ j # None => job[j].approval = a
            /\ plan[approval[a].plan] = "approved"
            /\ request' = [request EXCEPT ![t] =
                [NoRequest EXCEPT !.op = "execute", !.stage = "loaded", !.user = u,
                                  !.plan = approval[a].plan, !.approval = a, !.job = j,
                                  !.planView = "approved"]]
      BY <1>4 DEF BeginExecute
    <2>2. /\ request'[t].op = "execute" /\ request'[t].stage = "loaded"
          /\ request'[t].plan = approval[a].plan /\ request'[t].planView = "approved"
          /\ request'[t].approval = a /\ request'[t].job = j
      BY <1>1, <2>1 DEF NoRequest
    <2> QED BY <1>4, <2>1, <2>2 DEF BeginExecute, Fresh, Deciding, tables
  <1>5. ASSUME NEW op \in {"approve", "reject", "revoke"}, BeginDecision(t, op) PROVE Fresh(t)'
    <2>1. PICK a \in Approvals, u \in Users :
            /\ approval[a].status \in DecidableStatuses(op)
            /\ request' = [request EXCEPT ![t] =
                [NoRequest EXCEPT !.op = op, !.stage = "approval_read", !.user = u,
                                  !.plan = approval[a].plan, !.approval = a]]
      BY <1>5 DEF BeginDecision
    <2>2. /\ request'[t].op = op /\ request'[t].stage = "approval_read"
          /\ request'[t].approval = a
      BY <1>1, <2>1 DEF NoRequest
    <2> QED BY <1>5, <2>1, <2>2 DEF BeginDecision, Fresh, tables, DecidableStatuses
  <1> QED BY <1>2, <1>3, <1>4, <1>5

LEMMA AdvancingFresh ==
    ASSUME IsolationInv, NEW t \in Sessions,
           ReadPlan(t) \/ GrantApproval(t) \/ VerifyExecution(t) \/ ConsumeApproval(t)
    PROVE  Fresh(t)'
  <1> DEFINE r == request[t]
  <1>1. Fresh(t) /\ r \in Requests /\ request \in [Sessions -> Requests]
    BY DEF IsolationInv, FreshRequests, TypeInv, TypeOK
  <1>2. CASE ReadPlan(t)
    <2>1. request'[t] = [r EXCEPT !.stage = "loaded", !.planView = plan[r.plan]] /\ UNCHANGED tables
      BY <1>1, <1>2 DEF ReadPlan
    <2> QED BY <1>1, <2>1 DEF Fresh, Requests, tables
  <1>3. CASE GrantApproval(t)
    <2>1. PICK mfa \in BOOLEAN : request'[t] = [r EXCEPT !.stage = "granted", !.mfa = mfa]
      BY <1>1, <1>3 DEF GrantApproval
    <2>2. UNCHANGED tables /\ r.op = "approve" /\ r.stage = "loaded"
      BY <1>1, <1>3 DEF GrantApproval, Serving
    <2> QED BY <1>1, <2>1, <2>2 DEF Fresh, Requests, tables, Deciding
  <1>4. CASE VerifyExecution(t)
    <2>1. /\ request'[t] = [r EXCEPT !.stage = "verified"] /\ UNCHANGED tables
          /\ r.op = "execute" /\ r.stage = "loaded"
          /\ approval[r.approval].status = "approved"
          /\ latest[r.plan] = approval[r.approval].build
      BY <1>1, <1>4 DEF VerifyExecution, Serving, ExecutionEligible, ApprovalBinds
    <2> QED BY <1>1, <2>1 DEF Fresh, Requests, tables, Deciding
  <1>5. CASE ConsumeApproval(t)
    <2>1. /\ request'[t] = [r EXCEPT !.stage = "consumed"] /\ UNCHANGED tables
          /\ r.op = "execute" /\ r.stage = "verified"
      BY <1>1, <1>5 DEF ConsumeApproval, Serving
    <2> QED BY <1>1, <2>1 DEF Fresh, Requests, tables, Deciding
  <1> QED BY <1>2, <1>3, <1>4, <1>5

LEMMA FreshStep ==
    ASSUME IsolationInv, [Next]_vars, [IsolatedStep]_vars PROVE FreshRequests'
  <1> SUFFICES ASSUME NEW t \in Sessions PROVE Fresh(t)'
    BY DEF FreshRequests
  <1>1. CASE Moves(t)
    BY <1>1, BeginningFresh, AdvancingFresh DEF Moves
  <1>2. CASE request'[t] = NoRequest
    BY <1>2, IdleFresh
  <1>3. CASE request'[t] = request[t] /\ request'[t] # NoRequest
    <2>1. ~Idle(t) /\ ~Idle(t)'
      BY <1>3 DEF Idle, IsolationInv, TypeInv, RequestShape, ValidRequest
    <2>2. Standing(t)
      BY <2>1 DEF IsolatedStep, vars, Standing
    <2> QED BY <1>3, <2>1, <2>2, StandingFresh
  <1> QED BY <1>1, <1>2, <1>3, MoveStep DEF IsolationInv

-----------------------------------------------------------------------------
(* The theorems.                                                           *)

LEMMA IsolationInit == Init => IsolationInv
  <1> USE NoneAssumption
  <1> SUFFICES ASSUME Init PROVE IsolationInv
    OBVIOUS
  <1>1. TypeInv
    BY TypeInit
  <1>2. \A t \in Sessions : request[t] = NoRequest
    BY DEF Init
  <1>3. FreshRequests
    BY <1>2 DEF FreshRequests, Fresh, NoRequest, Deciding
  <1>4. BlankRows /\ VerificationsUsed
    BY DEF Init, BlankRows, VerificationsUsed, NoApproval, NoJob
  <1>5. OneApprovalPerPlan /\ PlanFollowsApproval /\ UsedMeansExecuted
    BY DEF Init, OneApprovalPerPlan, PlanFollowsApproval, UsedMeansExecuted, NoApproval
  <1> QED BY <1>1, <1>3, <1>4, <1>5 DEF IsolationInv

LEMMA IsolationStep ==
    IsolationInv /\ [Next]_vars /\ [IsolatedStep]_vars => IsolationInv'
  <1> SUFFICES ASSUME IsolationInv, [Next]_vars, [IsolatedStep]_vars PROVE IsolationInv'
    OBVIOUS
  <1>1. TypeInv'
    BY TypeStep DEF IsolationInv
  <1> QED BY <1>1, TablesStep, FreshStep DEF IsolationInv, TablesInv

LEMMA IsolationKeeps == Spec /\ Isolated => []IsolationInv
  BY IsolationInit, IsolationStep, PTL DEF Spec, Isolated

\* A plan never has two approvals, as long as no request has what it read
\* changed under it.
THEOREM IsolatedOneApproval == Spec /\ Isolated => []OneApprovalPerPlan
  <1>1. IsolationInv => OneApprovalPerPlan
    BY DEF IsolationInv
  <1> QED BY <1>1, IsolationKeeps, PTL

\* Under the same condition a plan and its approval tell the same story.
THEOREM IsolatedSameStory == Spec /\ Isolated => []PlanFollowsApproval
  <1>1. IsolationInv => PlanFollowsApproval
    BY DEF IsolationInv
  <1> QED BY <1>1, IsolationKeeps, PTL

\* Under the same condition an approval is used exactly when it was executed, and
\* so never authorises a second execution.
THEOREM IsolatedUse == Spec /\ Isolated => [](UsedMeansExecuted /\ SingleUse)
  <1>1. IsolationInv => UsedMeansExecuted /\ SingleUse
    <2> SUFFICES ASSUME IsolationInv PROVE UsedMeansExecuted /\ SingleUse
      OBVIOUS
    <2>1. UsedMeansExecuted
      BY DEF IsolationInv
    <2>2. ASSUME NEW a \in Approvals PROVE executions[a] <= 1
      <3>1. executions[a] = 1 \/ executions[a] = 0
        BY <2>1 DEF UsedMeansExecuted
      <3> QED BY <3>1
    <2> QED BY <2>1, <2>2 DEF SingleUse
  <1> QED BY <1>1, IsolationKeeps, PTL

LEMMA LatestStep ==
    ASSUME IsolationInv, [Next]_vars, NEW a \in Approvals, executions'[a] # executions[a]
    PROVE  latest[approval[a].plan] = approval[a].build
  <1>1. PICK s \in Sessions : CommitExecute(s)
    BY ExecutionStep
  <1>2. executions \in [Approvals -> Nat]
    BY DEF IsolationInv, TypeInv, TypeOK
  <1>3. executions' = [executions EXCEPT ![request[s].approval] = @ + 1]
    BY <1>1 DEF CommitExecute
  <1>4. a = request[s].approval
    BY <1>2, <1>3
  <1> QED BY <1>1, <1>4, ExecutionRows

\* Under the same condition nothing is executed under a check that is no longer
\* the plan's newest.
THEOREM IsolatedLatest == Spec /\ Isolated => ExecutesUnderLatestCheck
  <1>1. IsolationInv /\ [Next]_vars =>
          [\A a \in Approvals : executions'[a] # executions[a] =>
              latest[approval[a].plan] = approval[a].build]_vars
    BY LatestStep
  <1> QED BY <1>1, IsolationKeeps, PTL DEF Spec, ExecutesUnderLatestCheck

-----------------------------------------------------------------------------
(* Requests one at a time are a case of it.                                *)

OneSession == \A s, t \in Sessions : s = t

LEMMA OneSessionStep ==
    ASSUME OneSession, TypeInv, [Next]_vars PROVE [IsolatedStep]_vars
  <1> SUFFICES ASSUME NEW t \in Sessions, ~Idle(t), ~Idle(t)'
               PROVE  UNCHANGED <<plan, approval, latest>>
    BY DEF IsolatedStep, Standing
  <1>1. request \in [Sessions -> Requests]
    BY DEF TypeInv, TypeOK
  <1>2. ~Close(t)
    BY <1>1 DEF Close, Idle, NoRequest
  <1>3. ASSUME NEW s \in Sessions, SessionStep(s) PROVE UNCHANGED <<plan, approval, latest>>
    <2>1. s = t
      BY DEF OneSession
    <2>2. SessionStep(t)
      BY <1>3, <2>1
    <2> QED BY <1>2, <2>2
        DEF SessionStep, GeneratePlan, BeginValidate, CommitValidate, BeginRequest, CommitRequest,
            BeginDecision, ReadPlan, GrantApproval, CommitApprove, ApproveTooLate, CommitReject,
            CommitRevoke, ExpireApprovals, CreateDryRun, RerunDryRun, BeginExecute, VerifyExecution,
            ConsumeApproval, CommitExecute, Abort, tables
  <1> QED BY <1>3 DEF Next, TtlElapses, Deploy, vars, tables

\* Requests of one session satisfy the condition, whatever else happens meanwhile.
THEOREM OneSessionIsolated == OneSession => (Spec => Isolated)
  <1> SUFFICES ASSUME OneSession PROVE Spec => Isolated
    OBVIOUS
  <1>1. TypeInv /\ [Next]_vars => [IsolatedStep]_vars
    BY OneSessionStep
  <1>2. TypeInv /\ [Next]_vars => TypeInv'
    BY TypeStep
  <1> QED BY <1>1, <1>2, TypeInit, PTL DEF Spec, Isolated

-----------------------------------------------------------------------------
(* The contract.  Beginning, reading and verifying do not show in it; each *)
(* commit is one of its steps.                                             *)

Statuses == [a \in Approvals |-> approval[a].status]
PlansOf == [a \in Approvals |-> approval[a].plan]

LEMMA ContractStart == Init => Contract!Init
  BY DEF Init, Contract!Init, NoApproval

LEMMA UnseenStep ==
    ASSUME UNCHANGED <<plan, approval, executions>>
    PROVE  UNCHANGED Contract!contractVars
  BY DEF Contract!contractVars

LEMMA DraftStep ==
    ASSUME IsolationInv, NEW s \in Sessions, GeneratePlan(s)
    PROVE  \E p \in Plans : Contract!Draft(p)
  BY DEF GeneratePlan, Contract!Draft, history

LEMMA ValidateStep ==
    ASSUME IsolationInv, NEW s \in Sessions, CommitValidate(s)
    PROVE  UNCHANGED Contract!contractVars \/ \E p \in Plans : Contract!Validate(p)
  <1> DEFINE p == request[s].plan
  <1>1. p \in Plans /\ request[s].planView = plan[p] /\ plan \in [Plans -> PlanStatuses]
    BY DEF CommitValidate, Serving, IsolationInv, FreshRequests, Fresh, TypeInv, TypeOK,
           RequestShape, ValidRequest
  <1>2. UNCHANGED <<approval, executions>>
    BY DEF CommitValidate, history
  <1>3. PICK d : plan' = [plan EXCEPT ![p] = ValidatedStatus(p, request[s].planView, d)]
    BY DEF CommitValidate
  <1> HIDE DEF p
  <1>4. CASE ValidatedStatus(p, request[s].planView, d) = plan[p]
    <2>1. plan' = plan
      BY <1>1, <1>3, <1>4
    <2> QED BY <1>2, <2>1, UnseenStep
  <1>5. CASE ValidatedStatus(p, request[s].planView, d) # plan[p]
    <2>1. plan[p] = "plan_drafted" /\ plan' = [plan EXCEPT ![p] = "plan_validated"]
      BY <1>1, <1>3, <1>5 DEF ValidatedStatus
    <2> QED BY <1>1, <1>2, <2>1 DEF Contract!Validate
  <1> QED BY <1>4, <1>5

LEMMA AskStep ==
    ASSUME IsolationInv, NEW s \in Sessions, CommitRequest(s)
    PROVE  \E p \in Plans, a \in Approvals : Contract!Ask(p, a)
  <1> DEFINE p == request[s].plan
  <1>1. /\ p \in Plans /\ request[s].planView = plan[p]
        /\ plan \in [Plans -> PlanStatuses] /\ approval \in [Approvals -> ApprovalRows]
    BY DEF CommitRequest, Serving, IsolationInv, FreshRequests, Fresh, TypeInv, TypeOK,
           RequestShape, ValidRequest
  <1>2. plan[p] = "plan_validated"
    BY <1>1 DEF CommitRequest, CanTransition, AllowedTransitions
  <1>3. PICK a \in Approvals :
          /\ approval[a].status = "none"
          /\ approval' = [approval EXCEPT ![a] =
                [status |-> "pending", plan |-> p, build |-> latest[p],
                 requestedBy |-> request[s].user, approver |-> None, mfa |-> FALSE]]
    BY DEF CommitRequest
  <1>4. plan' = [plan EXCEPT ![p] = "approval_requested"] /\ UNCHANGED executions
    BY DEF CommitRequest, history
  <1> HIDE DEF p
  <1>5. /\ approval'[a].status = "pending" /\ approval'[a].plan = p
        /\ \A b \in Approvals \ {a} : approval'[b] = approval[b]
    BY <1>1, <1>3
  <1>6. Statuses' = [Statuses EXCEPT ![a] = "pending"]
    BY <1>5 DEF Statuses
  <1>7. PlansOf' = [PlansOf EXCEPT ![a] = p]
    BY <1>5 DEF PlansOf
  <1>8. Contract!Ask(p, a)
    BY <1>2, <1>3, <1>4, <1>6, <1>7 DEF Contract!Ask, Statuses, PlansOf
  <1> QED BY <1>1, <1>8

\* The pending approvals of S get the status st, their plans the outcome of it.
LEMMA ResolveStep ==
    ASSUME IsolationInv, NEW S \in SUBSET Approvals, S # {},
           NEW st \in {"approved", "rejected", "revoked", "expired"},
           \A a \in S : approval[a].status = "pending" /\ approval'[a].status = st,
           \A a \in Approvals \ S : approval'[a].status = approval[a].status,
           \A a \in Approvals : approval'[a].plan = approval[a].plan,
           plan' = [p \in Plans |-> plan'[p]],
           \A p \in Plans : plan'[p] =
              IF \E a \in S : approval[a].plan = p THEN Contract!Outcome[st] ELSE plan[p],
           UNCHANGED executions
    PROVE  Contract!Resolve(S, st)
  <1>1. \A a \in S : plan[approval[a].plan] = "approval_requested"
    BY PlanWhileValues DEF IsolationInv, PlanFollowsApproval
  <1>2. Statuses' = [a \in Approvals |-> IF a \in S THEN st ELSE Statuses[a]]
    BY DEF Statuses
  <1>3. PlansOf' = PlansOf
    BY DEF PlansOf
  <1>4. \A p \in Plans : (\E a \in S : PlansOf[a] = p) <=> (\E a \in S : approval[a].plan = p)
    BY DEF PlansOf
  <1>5. plan' = [p \in Plans |->
            IF \E a \in S : PlansOf[a] = p THEN Contract!Outcome[st] ELSE plan[p]]
    BY <1>4
  <1>6. \A a \in S : Statuses[a] = "pending" /\ plan[PlansOf[a]] = "approval_requested"
    BY <1>1 DEF Statuses, PlansOf
  <1> QED BY <1>2, <1>3, <1>5, <1>6 DEF Contract!Resolve, Statuses, PlansOf

\* The decision of one pending approval.
LEMMA ResolveOneStep ==
    ASSUME IsolationInv, NEW a \in Approvals, approval[a].status = "pending",
           NEW st \in {"approved", "rejected", "revoked"},
           NEW row, row.status = st, row.plan = approval[a].plan,
           approval' = [approval EXCEPT ![a] = row],
           plan' = [plan EXCEPT ![approval[a].plan] = Contract!Outcome[st]],
           UNCHANGED executions
    PROVE  Contract!Resolve({a}, st)
  <1>1. plan \in [Plans -> PlanStatuses] /\ approval \in [Approvals -> ApprovalRows]
    BY DEF IsolationInv, TypeInv, TypeOK
  <1>2. /\ approval'[a].status = st /\ approval'[a].plan = approval[a].plan
        /\ \A b \in Approvals \ {a} : approval'[b] = approval[b]
    BY <1>1
  <1> PICK S \in SUBSET Approvals : S = {a}
    OBVIOUS
  <1>3. /\ plan' = [p \in Plans |-> plan'[p]]
        /\ \A p \in Plans : plan'[p] =
              IF \E b \in S : approval[b].plan = p THEN Contract!Outcome[st] ELSE plan[p]
    BY <1>1
  <1>4. /\ S \in SUBSET Approvals /\ S # {}
        /\ \A b \in S : approval[b].status = "pending" /\ approval'[b].status = st
        /\ \A b \in Approvals \ S : approval'[b].status = approval[b].status
        /\ \A b \in Approvals : approval'[b].plan = approval[b].plan
        /\ st \in {"approved", "rejected", "revoked", "expired"}
    BY <1>2
  <1>5. Contract!Resolve(S, st)
    BY <1>3, <1>4, ResolveStep
  <1> QED BY <1>5

LEMMA Outcomes ==
    /\ Contract!Outcome["approved"] = "approved" /\ Contract!Outcome["rejected"] = "rejected"
    /\ Contract!Outcome["revoked"] = "rejected" /\ Contract!Outcome["expired"] = "expired"
  BY DEF Contract!Outcome

Resolves ==
    \E a \in Approvals : \E st \in {"approved", "rejected", "revoked"} : Contract!Resolve({a}, st)

LEMMA ApproveResolves ==
    ASSUME IsolationInv, NEW s \in Sessions, CommitApprove(s) PROVE Resolves
  <1> DEFINE a == request[s].approval
             p == request[s].plan
  <1>1. a \in Approvals /\ approval[a].plan = p /\ approval[a].status = "pending"
    BY DecisionRows DEF CommitApprove, Serving, Deciding, DecidableStatuses
  <1> DEFINE row == [approval[a] EXCEPT !.status = "approved", !.approver = request[s].user,
                                       !.mfa = request[s].mfa]
  <1>2. approval' = [approval EXCEPT ![a] = row]
    BY DEF CommitApprove
  <1>3. plan' = [plan EXCEPT ![p] = "approved"] /\ UNCHANGED executions
    BY DEF CommitApprove
  <1>4. row.status = "approved" /\ row.plan = approval[a].plan
    <2>1. approval[a] \in ApprovalRows
      BY <1>1 DEF IsolationInv, TypeInv, TypeOK
    <2> QED BY <2>1 DEF ApprovalRows
  <1> HIDE DEF a, p, row
  <1>5. Contract!Resolve({a}, "approved")
    BY <1>1, <1>2, <1>3, <1>4, Outcomes, ResolveOneStep
  <1> QED BY <1>1, <1>5 DEF Resolves

LEMMA RejectResolves ==
    ASSUME IsolationInv, NEW s \in Sessions, CommitReject(s) PROVE Resolves
  <1> DEFINE a == request[s].approval
             p == request[s].plan
             row == [approval[a] EXCEPT !.status = "rejected", !.approver = request[s].user]
  <1>1. a \in Approvals /\ approval[a].plan = p /\ approval[a].status = "pending"
    BY DecisionRows DEF CommitReject, Serving, Deciding, DecidableStatuses
  <1>2. approval' = [approval EXCEPT ![a] = row]
    BY DEF CommitReject, Decide
  <1>3. plan' = [plan EXCEPT ![p] = "rejected"] /\ UNCHANGED executions
    BY DEF CommitReject, history
  <1>4. row.status = "rejected" /\ row.plan = approval[a].plan
    <2>1. approval[a] \in ApprovalRows
      BY <1>1 DEF IsolationInv, TypeInv, TypeOK
    <2> QED BY <2>1 DEF ApprovalRows
  <1> HIDE DEF a, p, row
  <1>5. Contract!Resolve({a}, "rejected")
    BY <1>1, <1>2, <1>3, <1>4, Outcomes, ResolveOneStep
  <1> QED BY <1>1, <1>5 DEF Resolves

\* A revocation withdraws a granted approval and resolves a pending one.
LEMMA RevokeResolves ==
    ASSUME IsolationInv, NEW s \in Sessions, CommitRevoke(s)
    PROVE  Resolves \/ \E a \in Approvals : Contract!Withdraw(a)
  <1>1. PICK a \in Approvals, p \in Plans :
          /\ a = request[s].approval /\ p = request[s].plan /\ approval[a].plan = p
          /\ approval[a].status \in {"pending", "approved"}
          /\ request[s].planView = plan[p]
          /\ approval[a].status = "pending" => plan[p] = "approval_requested"
          /\ approval[a].status = "approved" => plan[p] = "approved"
    BY DecisionRows DEF CommitRevoke, Serving, Deciding, DecidableStatuses
  <1> DEFINE row == [approval[a] EXCEPT !.status = "revoked", !.approver = request[s].user]
  <1>2. approval' = [approval EXCEPT ![a] = row]
    BY <1>1 DEF CommitRevoke, Decide
  <1>3. plan' = [plan EXCEPT ![p] = RevokedStatus(p, request[s].planView)] /\ UNCHANGED executions
    BY <1>1 DEF CommitRevoke, history
  <1>4. row.status = "revoked" /\ row.plan = approval[a].plan
    <2>1. approval[a] \in ApprovalRows
      BY <1>1 DEF IsolationInv, TypeInv, TypeOK
    <2> QED BY <2>1 DEF ApprovalRows
  <1>5. plan \in [Plans -> PlanStatuses] /\ approval \in [Approvals -> ApprovalRows]
    BY DEF IsolationInv, TypeInv, TypeOK
  <1> HIDE DEF row
  <1>6. CASE approval[a].status = "pending"
    <2>1. plan' = [plan EXCEPT ![p] = "rejected"]
      BY <1>1, <1>3, <1>6 DEF RevokedStatus
    <2>2. Contract!Resolve({a}, "revoked")
      BY <1>1, <1>2, <1>3, <1>4, <1>6, <2>1, Outcomes, ResolveOneStep
    <2> QED BY <1>1, <2>2 DEF Resolves
  <1>7. CASE approval[a].status = "approved"
    <2>1. plan' = plan
      BY <1>1, <1>3, <1>5, <1>7 DEF RevokedStatus
    <2>2. /\ approval'[a].status = "revoked" /\ approval'[a].plan = approval[a].plan
          /\ \A b \in Approvals \ {a} : approval'[b] = approval[b]
      BY <1>1, <1>2, <1>4, <1>5
    <2>3. Statuses' = [Statuses EXCEPT ![a] = "revoked"] /\ PlansOf' = PlansOf
      BY <2>2 DEF Statuses, PlansOf
    <2>4. Contract!Withdraw(a)
      BY <1>1, <1>3, <1>7, <2>1, <2>3 DEF Contract!Withdraw, Statuses, PlansOf
    <2> QED BY <1>1, <2>4
  <1> QED BY <1>1, <1>6, <1>7

LEMMA ExpireResolves ==
    ASSUME IsolationInv, NEW s \in Sessions, ExpireApprovals(s)
    PROVE  \E S \in SUBSET Approvals : Contract!Resolve(S, "expired")
  <1>1. /\ plan \in [Plans -> PlanStatuses] /\ approval \in [Approvals -> ApprovalRows]
        /\ Overdue \in SUBSET Approvals /\ Overdue # {}
    BY DEF IsolationInv, TypeInv, TypeOK, Overdue, ExpireApprovals
  <1>2. /\ approval' = [a \in Approvals |->
              IF a \in Overdue THEN [approval[a] EXCEPT !.status = "expired"] ELSE approval[a]]
        /\ plan' = [p \in Plans |->
              IF plan[p] = "approval_requested" /\ HasOverdue(p) THEN "expired" ELSE plan[p]]
        /\ UNCHANGED executions
    BY DEF ExpireApprovals, history
  <1>3. \A a \in Approvals : approval'[a].plan = approval[a].plan
    BY <1>1, <1>2 DEF ApprovalRows
  <1>4. \A a \in Overdue : approval[a].status = "pending" /\ approval'[a].status = "expired"
    BY <1>1, <1>2 DEF ApprovalRows, Overdue
  <1>5. \A a \in Approvals \ Overdue : approval'[a].status = approval[a].status
    BY <1>2
  <1>6. \A a \in Overdue : plan[approval[a].plan] = "approval_requested"
    BY <1>1, <1>4, PlanWhileValues DEF IsolationInv, PlanFollowsApproval
  <1>7. /\ plan' = [p \in Plans |-> plan'[p]]
        /\ \A p \in Plans : plan'[p] =
              IF \E a \in Overdue : approval[a].plan = p THEN Contract!Outcome["expired"] ELSE plan[p]
    BY <1>2, <1>6, Outcomes DEF HasOverdue
  <1>8. Contract!Resolve(Overdue, "expired")
    BY <1>1, <1>2, <1>3, <1>4, <1>5, <1>7, ResolveStep
  <1> QED BY <1>1, <1>8

LEMMA SpendStep ==
    ASSUME IsolationInv, NEW s \in Sessions, CommitExecute(s)
    PROVE  \E a \in Approvals : Contract!Spend(a)
  <1>1. PICK a \in Approvals, p \in Plans :
          /\ a = request[s].approval /\ p = request[s].plan /\ approval[a].plan = p
          /\ approval[a].status = "approved" /\ plan[p] = "approved"
    BY ExecutionRows
  <1>2. PICK j \in Jobs :
          /\ job[j].verification = "none"
          /\ plan' = [plan EXCEPT ![p] = ExecutedPlanStatus(p, job[j].verification)]
    BY <1>1, ExecutionRows
  <1>3. /\ approval' = [approval EXCEPT ![a] = [approval[a] EXCEPT !.status = "used"]]
        /\ executions' = [executions EXCEPT ![a] = @ + 1]
    BY <1>1 DEF CommitExecute
  <1>4. ExecutedPlanStatus(p, job[j].verification) \in {"verified", "rollback_required"}
    BY <1>2 DEF ExecutedPlanStatus
  <1>5. approval \in [Approvals -> ApprovalRows] /\ approval[a] \in ApprovalRows
    BY <1>1 DEF IsolationInv, TypeInv, TypeOK
  <1>6. /\ approval'[a].status = "used" /\ approval'[a].plan = approval[a].plan
        /\ \A b \in Approvals \ {a} : approval'[b] = approval[b]
    <2>1. approval'[a] = [approval[a] EXCEPT !.status = "used"]
      BY <1>1, <1>3, <1>5
    <2> QED BY <1>1, <1>3, <1>5, <2>1 DEF ApprovalRows
  <1>7. Statuses' = [Statuses EXCEPT ![a] = "used"] /\ PlansOf' = PlansOf
    BY <1>6 DEF Statuses, PlansOf
  <1>8. Statuses[a] = "approved" /\ PlansOf[a] = p
    BY <1>1 DEF Statuses, PlansOf
  <1>9. Contract!Spend(a)
    BY <1>1, <1>2, <1>3, <1>4, <1>7, <1>8 DEF Contract!Spend, Statuses, PlansOf
  <1> QED BY <1>1, <1>9

LEMMA ContractStep ==
    IsolationInv /\ [Next]_vars => [Contract!Next]_(Contract!contractVars)
  <1> SUFFICES ASSUME IsolationInv, [Next]_vars
               PROVE  Contract!Next \/ UNCHANGED Contract!contractVars
    OBVIOUS
  <1>1. CASE UNCHANGED <<plan, approval, executions>>
    BY <1>1, UnseenStep
  <1>2. ASSUME NEW s \in Sessions, SessionStep(s)
        PROVE  \/ UNCHANGED <<plan, approval, executions>>
               \/ Contract!Next \/ UNCHANGED Contract!contractVars
    <2>1. CASE GeneratePlan(s)
      BY <2>1, DraftStep DEF Contract!Next
    <2>2. CASE CommitValidate(s)
      BY <2>2, ValidateStep DEF Contract!Next
    <2>3. CASE CommitRequest(s)
      BY <2>3, AskStep DEF Contract!Next
    <2>4. CASE CommitApprove(s) \/ CommitReject(s) \/ CommitRevoke(s)
      BY <2>4, ApproveResolves, RejectResolves, RevokeResolves DEF Contract!Next, Resolves
    <2>5. CASE ExpireApprovals(s)
      BY <2>5, ExpireResolves DEF Contract!Next
    <2>6. CASE CommitExecute(s)
      BY <2>6, SpendStep DEF Contract!Next
    <2> QED BY <1>2, <2>1, <2>2, <2>3, <2>4, <2>5, <2>6
        DEF SessionStep, BeginValidate, BeginRequest, BeginDecision, ReadPlan, GrantApproval,
            ApproveTooLate, CreateDryRun, RerunDryRun, BeginExecute, VerifyExecution, ConsumeApproval, Abort,
            tables, history
  <1>3. CASE (\E a \in Approvals : TtlElapses(a)) \/ Deploy \/ UNCHANGED vars
    BY <1>1, <1>3 DEF TtlElapses, Deploy, vars, tables, history
  <1> QED BY <1>1, <1>2, <1>3 DEF Next

\* Requests that do not have what they read changed under them keep the contract:
\* it is as if each were one step.
THEOREM IsolatedKeepsContract == Spec /\ Isolated => KeepsContract
  <1> QED BY ContractStart, ContractStep, IsolationKeeps, PTL DEF Spec, KeepsContract, Contract!Spec

\* So requests that take turns need no condition: a plan has one approval, plan,
\* approval and execution agree, an execution goes by the newest check, and the
\* transactions of the API implement the contract.
THEOREM TurnsKeepAll ==
    OneSession =>
        (Spec => /\ [](OneApprovalPerPlan /\ PlanFollowsApproval /\ UsedMeansExecuted /\ SingleUse)
                 /\ ExecutesUnderLatestCheck /\ KeepsContract)
  <1> QED BY OneSessionIsolated, IsolatedOneApproval, IsolatedSameStory, IsolatedUse,
             IsolatedLatest, IsolatedKeepsContract, PTL
=============================================================================
