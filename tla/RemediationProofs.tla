-------------------------- MODULE RemediationProofs --------------------------
(***************************************************************************)
(* Theorems about Remediation for every number of plans, approvals, jobs,  *)
(* users and sessions, proved with TLAPS.                                  *)
(***************************************************************************)
EXTENDS Remediation, TLAPS

-----------------------------------------------------------------------------
(* Types.  TypeOK is inductive together with what a row and a request in   *)
(* progress always carry.                                                  *)

ApprovalShape ==
    \A a \in Approvals : approval[a].status # "none" =>
        approval[a].plan \in Plans /\ approval[a].build \in Versions

Deciding == {"approve", "reject", "revoke"}

ValidRequest(r) ==
    /\ r \in Requests
    /\ r.stage = "idle" => r = NoRequest
    /\ r.stage # "idle" => r.plan \in Plans
    /\ r.op = "validate" => r.build \in Versions
    /\ r.op \in Deciding \cup {"execute"} => r.approval \in Approvals /\ r.user \in Users

RequestShape == \A s \in Sessions : ValidRequest(request[s])

\* A decision or an execution is about an approval that exists, and its plan.
TargetShape ==
    \A s \in Sessions : request[s].op \in Deciding \cup {"execute"} =>
        /\ approval[request[s].approval].status # "none"
        /\ approval[request[s].approval].plan = request[s].plan

TypeInv == TypeOK /\ ApprovalShape /\ RequestShape /\ TargetShape

\* TypeOK without the requests, and with ApprovalShape: what a step that only
\* moves a request along leaves alone.
RowsTyped ==
    /\ plan \in [Plans -> PlanStatuses]
    /\ content \in [Plans -> PlanContents]
    /\ verdict \in [Plans -> [Versions -> Or(Verdicts)]]
    /\ latest \in [Plans -> Or(Versions)]
    /\ latestPassed \in [Plans -> Or(Versions)]
    /\ build \in Versions
    /\ approval \in [Approvals -> ApprovalRows]
    /\ lapsed \subseteq Approvals
    /\ job \in [Jobs -> JobRows]
    /\ grants \subseteq Grants
    /\ executions \in [Approvals -> Nat]
    /\ executors \subseteq Approvals \X Users
    /\ rehearsed \subseteq Approvals
    /\ ApprovalShape

RequestsTyped == request \in [Sessions -> Requests] /\ RequestShape

LEMMA TypeInvParts == TypeInv <=> RowsTyped /\ RequestsTyped /\ TargetShape
  BY DEF TypeInv, TypeOK, RowsTyped, RequestsTyped

LEMMA TypeInvPartsNext == TypeInv' <=> RowsTyped' /\ RequestsTyped' /\ TargetShape'
  BY DEF TypeInv, TypeOK, RowsTyped, RequestsTyped

LEMMA NoRequestValid == ValidRequest(NoRequest)
  BY DEF ValidRequest, NoRequest, Requests, Operations, Stages, Or, PlanStatuses, Deciding

\* A step that gives one session a valid request keeps all requests valid.
LEMMA ReplaceRequest ==
    ASSUME RequestsTyped, NEW s \in Sessions, NEW r, ValidRequest(r),
           request' = [request EXCEPT ![s] = r]
    PROVE  RequestsTyped'
  <1>1. r \in Requests
    BY DEF ValidRequest
  <1>2. request' \in [Sessions -> Requests]
    BY <1>1 DEF RequestsTyped
  <1>3. ASSUME NEW t \in Sessions PROVE ValidRequest(request'[t])
    <2>1. request'[t] = IF t = s THEN r ELSE request[t]
      BY DEF RequestsTyped
    <2> QED BY <2>1 DEF RequestsTyped, RequestShape
  <1> QED BY <1>2, <1>3 DEF RequestsTyped, RequestShape

LEMMA CloseTyped ==
    ASSUME RequestsTyped, NEW s \in Sessions, Close(s) PROVE RequestsTyped'
  BY ReplaceRequest, NoRequestValid DEF Close

\* The row types are those of the rows: they do not look at the requests.
LEMMA RowsUnchanged ==
    ASSUME RowsTyped, UNCHANGED <<tables, build, lapsed, history>> PROVE RowsTyped'
  BY DEF RowsTyped, ApprovalShape, tables, history

LEMMA TypeInit == Init => TypeInv
  <1> USE NoneAssumption, ContentsAssumption
  <1> SUFFICES ASSUME Init PROVE TypeInv
    OBVIOUS
  <1>1. RowsTyped
    BY DEF Init, RowsTyped, ApprovalShape, NoApproval, NoJob, ApprovalRows, JobRows, Or,
           ApprovalStatuses, JobStatuses, DryRunStatuses, PlanStatuses
  <1>2. RequestsTyped
    BY NoRequestValid DEF Init, RequestsTyped, RequestShape, ValidRequest
  <1>3. TargetShape
    BY DEF Init, TargetShape, NoRequest, Deciding
  <1> QED BY <1>1, <1>2, <1>3, TypeInvParts

\* Once inserted, an approval stays, bound to the same plan, check and requester.
Kept ==
    \A a \in Approvals : approval[a].status # "none" =>
        /\ approval'[a].status # "none"
        /\ approval'[a].plan = approval[a].plan
        /\ approval'[a].build = approval[a].build
        /\ approval'[a].requestedBy = approval[a].requestedBy

LEMMA KeptStep == RowsTyped /\ [Next]_vars => Kept
  <1> SUFFICES ASSUME approval \in [Approvals -> ApprovalRows], [Next]_vars PROVE Kept
    BY DEF RowsTyped
  <1>1. CASE UNCHANGED approval
    BY <1>1 DEF Kept
  <1>2. ASSUME NEW s \in Sessions, CommitRequest(s) PROVE Kept
    BY <1>2 DEF CommitRequest, Kept, ApprovalRows
  <1>3. ASSUME NEW s \in Sessions, CommitApprove(s) PROVE Kept
    BY <1>3 DEF CommitApprove, Kept, ApprovalRows
  <1>4. ASSUME NEW s \in Sessions, CommitReject(s) PROVE Kept
    BY <1>4 DEF CommitReject, Decide, Kept, ApprovalRows
  <1>5. ASSUME NEW s \in Sessions, CommitRevoke(s) PROVE Kept
    BY <1>5 DEF CommitRevoke, Decide, Kept, ApprovalRows
  <1>6. ASSUME NEW s \in Sessions, ExpireApprovals(s) PROVE Kept
    BY <1>6 DEF ExpireApprovals, Kept, ApprovalRows
  <1>7. ASSUME NEW s \in Sessions, CommitExecute(s) PROVE Kept
    BY <1>7 DEF CommitExecute, Kept, ApprovalRows
  <1>8. ASSUME NEW s \in Sessions, SessionStep(s) PROVE UNCHANGED approval \/ Kept
    BY <1>2, <1>3, <1>4, <1>5, <1>6, <1>7, <1>8
       DEF SessionStep, GeneratePlan, BeginValidate, CommitValidate, BeginRequest, BeginDecision,
           ReadPlan, GrantApproval, ApproveTooLate, CreateDryRun, RerunDryRun, BeginExecute, VerifyExecution,
           ConsumeApproval, Abort, tables
  <1> QED BY <1>1, <1>8 DEF Next, TtlElapses, Deploy, tables, vars

\* Every request of a step is one that was there, perhaps further along, none, or
\* a new one whose approval was just read.
LEMMA TargetStep == TypeInv /\ [Next]_vars => TargetShape'
  <1> SUFFICES ASSUME TypeInv, [Next]_vars, NEW t \in Sessions,
                      request'[t].op \in Deciding \cup {"execute"}
               PROVE  /\ approval'[request'[t].approval].status # "none"
                      /\ approval'[request'[t].approval].plan = request'[t].plan
    BY DEF TargetShape
  <1>1. Kept
    BY KeptStep, TypeInvParts
  <1>2. CASE /\ request'[t].op = request[t].op
             /\ request'[t].approval = request[t].approval
             /\ request'[t].plan = request[t].plan
    BY <1>1, <1>2 DEF TypeInv, TargetShape, RequestShape, ValidRequest, Kept
  <1>3. request \in [Sessions -> Requests]
    BY DEF TypeInv, TypeOK
  <1>4. ASSUME NEW s \in Sessions, Close(s) PROVE request'[t] = request[t] \/ request'[t] = NoRequest
    BY <1>3, <1>4 DEF Close
  <1>5. ASSUME NEW s \in Sessions, NEW op \in {"approve", "reject", "revoke"}, BeginDecision(s, op)
        PROVE \/ request'[t] = request[t]
              \/ /\ approval'[request'[t].approval].status # "none"
                 /\ approval'[request'[t].approval].plan = request'[t].plan
    BY <1>3, <1>5 DEF BeginDecision, DecidableStatuses, NoRequest, tables
  <1>6. ASSUME NEW s \in Sessions, BeginExecute(s)
        PROVE \/ request'[t] = request[t]
              \/ /\ approval'[request'[t].approval].status # "none"
                 /\ approval'[request'[t].approval].plan = request'[t].plan
    BY <1>3, <1>6 DEF BeginExecute, NoRequest, tables
  <1>7. ASSUME NEW s \in Sessions, BeginValidate(s) \/ BeginRequest(s) PROVE request'[t] = request[t]
    <2>1. CASE BeginValidate(s)
      BY <1>3, <2>1 DEF BeginValidate, NoRequest, Deciding
    <2>2. CASE BeginRequest(s)
      BY <1>3, <2>2 DEF BeginRequest, NoRequest, Deciding
    <2> QED BY <1>7, <2>1, <2>2
  <1>8. ASSUME NEW s \in Sessions,
               ReadPlan(s) \/ GrantApproval(s) \/ VerifyExecution(s) \/ ConsumeApproval(s)
        PROVE /\ request'[t].op = request[t].op
              /\ request'[t].approval = request[t].approval
              /\ request'[t].plan = request[t].plan
    BY <1>3, <1>8 DEF ReadPlan, GrantApproval, VerifyExecution, ConsumeApproval, Requests
  <1>9. request'[t] # NoRequest
    BY DEF NoRequest, Deciding
  <1>10. CASE request'[t] = request[t]
    BY <1>2, <1>10
  <1>11. ASSUME NEW s \in Sessions, SessionStep(s)
         PROVE  /\ approval'[request'[t].approval].status # "none"
                /\ approval'[request'[t].approval].plan = request'[t].plan
    BY <1>2, <1>4, <1>5, <1>6, <1>7, <1>8, <1>9, <1>10, <1>11
       DEF SessionStep, GeneratePlan, CommitValidate, CommitRequest, CommitApprove, ApproveTooLate,
           CommitReject, CommitRevoke, ExpireApprovals, CreateDryRun, RerunDryRun, CommitExecute, Abort
  <1> QED BY <1>10, <1>11 DEF Next, TtlElapses, Deploy, vars

\* Rows keep their type when columns of theirs are set.
LEMMA DecidedRow ==
    ASSUME NEW row \in ApprovalRows, NEW st \in ApprovalStatuses, NEW u \in Users, NEW m \in BOOLEAN
    PROVE  [row EXCEPT !.status = st, !.approver = u, !.mfa = m] \in ApprovalRows
  <1>1. u \in Or(Users)
    BY DEF Or
  <1> QED BY <1>1 DEF ApprovalRows

LEMMA ResolvedRow ==
    ASSUME NEW row \in ApprovalRows, NEW st \in ApprovalStatuses, NEW u \in Users
    PROVE  [row EXCEPT !.status = st, !.approver = u] \in ApprovalRows
  <1>1. u \in Or(Users)
    BY DEF Or
  <1> QED BY <1>1 DEF ApprovalRows

LEMMA ClosedRow ==
    ASSUME NEW row \in ApprovalRows, NEW st \in ApprovalStatuses
    PROVE  [row EXCEPT !.status = st] \in ApprovalRows
  BY DEF ApprovalRows

LEMMA ExecutedRow ==
    ASSUME NEW row \in JobRows, NEW st \in JobStatuses, NEW p \in Plans, NEW a \in Approvals,
           NEW v \in {"none", "verified", "failed"}
    PROVE  [row EXCEPT !.status = st, !.plan = p, !.approval = a, !.verification = v] \in JobRows
  <1>1. p \in Or(Plans) /\ a \in Or(Approvals)
    BY DEF Or
  <1> QED BY <1>1 DEF JobRows

LEMMA RehearsedRow ==
    ASSUME NEW row \in JobRows, NEW st \in JobStatuses, NEW outcome \in DryRunStatuses
    PROVE  [row EXCEPT !.status = st, !.result = outcome] \in JobRows
  BY DEF JobRows

\* An update of an inserted approval that leaves its binding alone.
LEMMA UpdatedApproval ==
    ASSUME approval \in [Approvals -> ApprovalRows], ApprovalShape,
           NEW a \in Approvals, approval[a].status # "none",
           NEW row \in ApprovalRows, row.plan = approval[a].plan, row.build = approval[a].build,
           approval' = [approval EXCEPT ![a] = row]
    PROVE  approval' \in [Approvals -> ApprovalRows] /\ ApprovalShape'
  BY DEF ApprovalShape

LEMMA TypeStep == TypeInv /\ [Next]_vars => TypeInv'
  <1> USE NoneAssumption
  <1> SUFFICES ASSUME RowsTyped, RequestsTyped, TargetShape, [Next]_vars
               PROVE  RowsTyped' /\ RequestsTyped'
    BY TypeInvParts, TypeInvPartsNext, TargetStep
  <1> USE DEF Idle, Serving
  <1>1. ASSUME NEW s \in Sessions, GeneratePlan(s) PROVE RowsTyped' /\ RequestsTyped'
    <2>1. RowsTyped'
      BY <1>1 DEF GeneratePlan, RowsTyped, ApprovalShape, PlanStatuses, history
    <2> QED BY <1>1, <2>1 DEF GeneratePlan, RequestsTyped, RequestShape
  <1>2. ASSUME NEW s \in Sessions, BeginValidate(s) PROVE RowsTyped' /\ RequestsTyped'
    <2>1. PICK p \in Plans : request' = [request EXCEPT ![s] =
              [NoRequest EXCEPT !.op = "validate", !.stage = "loaded", !.plan = p,
                                !.build = build, !.planView = plan[p]]]
      BY <1>2 DEF BeginValidate
    <2>2. ValidRequest([NoRequest EXCEPT !.op = "validate", !.stage = "loaded", !.plan = p,
                                         !.build = build, !.planView = plan[p]])
      BY DEF RowsTyped, NoRequest, ValidRequest, Requests, Operations, Stages, Or, Deciding
    <2> QED BY <1>2, <2>1, <2>2, RowsUnchanged, ReplaceRequest DEF BeginValidate
  <1>3. ASSUME NEW s \in Sessions, CommitValidate(s) PROVE RowsTyped' /\ RequestsTyped'
    <2> DEFINE p == request[s].plan
               v == request[s].build
    <2>1. p \in Plans /\ v \in Versions
      BY <1>3 DEF CommitValidate, RequestsTyped, RequestShape, ValidRequest
    <2>2. PICK d \in (IF verdict[p][v] = None THEN PossibleVerdicts(p) ELSE {verdict[p][v]}) :
              /\ verdict' = [verdict EXCEPT ![p][v] = d]
              /\ latest' = [latest EXCEPT ![p] = IF verdict[p][v] = None THEN v ELSE @]
              /\ latestPassed' = [latestPassed EXCEPT ![p] =
                                    IF verdict[p][v] = None /\ d.passed THEN v ELSE @]
              /\ plan' = [plan EXCEPT ![p] = ValidatedStatus(p, request[s].planView, d)]
      BY <1>3 DEF CommitValidate
    <2>3. d \in Or(Verdicts)
      BY <2>1, <2>2 DEF PossibleVerdicts, RowsTyped, Or
    <2>4. verdict' \in [Plans -> [Versions -> Or(Verdicts)]]
      BY <2>1, <2>2, <2>3 DEF RowsTyped
    <2>5. plan' \in [Plans -> PlanStatuses]
      BY <2>1, <2>2 DEF RowsTyped, ValidatedStatus, PlanStatuses
    <2>6. latest' \in [Plans -> Or(Versions)] /\ latestPassed' \in [Plans -> Or(Versions)]
      BY <2>1, <2>2 DEF RowsTyped, Or
    <2>7. RowsTyped'
      BY <1>3, <2>4, <2>5, <2>6 DEF CommitValidate, RowsTyped, ApprovalShape, history
    <2> QED BY <1>3, <2>7, CloseTyped DEF CommitValidate
  <1>4. ASSUME NEW s \in Sessions, BeginRequest(s) PROVE RowsTyped' /\ RequestsTyped'
    <2>1. PICK p \in Plans, u \in Users : request' = [request EXCEPT ![s] =
              [NoRequest EXCEPT !.op = "request", !.stage = "loaded", !.user = u,
                                !.plan = p, !.planView = plan[p]]]
      BY <1>4 DEF BeginRequest
    <2>2. ValidRequest([NoRequest EXCEPT !.op = "request", !.stage = "loaded", !.user = u,
                                         !.plan = p, !.planView = plan[p]])
      BY DEF RowsTyped, NoRequest, ValidRequest, Requests, Operations, Stages, Or, Deciding
    <2> QED BY <1>4, <2>1, <2>2, RowsUnchanged, ReplaceRequest DEF BeginRequest
  <1>5. ASSUME NEW s \in Sessions, CommitRequest(s) PROVE RowsTyped' /\ RequestsTyped'
    <2> DEFINE p == request[s].plan
               row == [status |-> "pending", plan |-> p, build |-> latest[p],
                       requestedBy |-> request[s].user, approver |-> None, mfa |-> FALSE]
    <2>1. p \in Plans /\ latest[p] \in Versions
      BY <1>5 DEF CommitRequest, RequestsTyped, RequestShape, ValidRequest, RowsTyped, Or
    <2>2. row \in ApprovalRows
      BY <2>1 DEF RequestsTyped, Requests, ApprovalRows, ApprovalStatuses, Or
    <2>3. PICK a \in Approvals : approval' = [approval EXCEPT ![a] = row]
      BY <1>5 DEF CommitRequest
    <2>4. approval' \in [Approvals -> ApprovalRows] /\ ApprovalShape'
      BY <2>1, <2>2, <2>3 DEF RowsTyped, ApprovalShape
    <2>5. plan' \in [Plans -> PlanStatuses]
      BY <1>5, <2>1 DEF CommitRequest, RowsTyped, PlanStatuses
    <2>6. RowsTyped'
      BY <1>5, <2>4, <2>5 DEF CommitRequest, RowsTyped, history
    <2> QED BY <1>5, <2>6, CloseTyped DEF CommitRequest
  <1>6. ASSUME NEW s \in Sessions, NEW op \in {"approve", "reject", "revoke"}, BeginDecision(s, op) PROVE RowsTyped' /\ RequestsTyped'
    <2>1. PICK a \in Approvals, u \in Users :
              /\ approval[a].status \in DecidableStatuses(op)
              /\ request' = [request EXCEPT ![s] =
                    [NoRequest EXCEPT !.op = op, !.stage = "approval_read", !.user = u,
                                      !.plan = approval[a].plan, !.approval = a]]
      BY <1>6 DEF BeginDecision
    <2>2. approval[a].plan \in Plans
      BY <2>1 DEF RowsTyped, ApprovalShape, DecidableStatuses
    <2>3. ValidRequest([NoRequest EXCEPT !.op = op, !.stage = "approval_read", !.user = u,
                                         !.plan = approval[a].plan, !.approval = a])
      BY <2>2 DEF NoRequest, ValidRequest, Requests, Operations, Stages, Or, Deciding, PlanStatuses
    <2> QED BY <1>6, <2>1, <2>3, RowsUnchanged, ReplaceRequest DEF BeginDecision
  <1>7. ASSUME NEW s \in Sessions, ReadPlan(s) PROVE RowsTyped' /\ RequestsTyped'
    <2> DEFINE r == [request[s] EXCEPT !.stage = "loaded", !.planView = plan[request[s].plan]]
    <2>1. ValidRequest(request[s])
      BY DEF RequestsTyped, RequestShape
    <2>2. ValidRequest(r)
      BY <1>7, <2>1 DEF ReadPlan, RowsTyped, ValidRequest, Requests, Stages, Deciding
    <2>3. request' = [request EXCEPT ![s] = r]
      BY <1>7 DEF ReadPlan, RequestsTyped
    <2> QED BY <1>7, <2>2, <2>3, RowsUnchanged, ReplaceRequest DEF ReadPlan
  <1>8. ASSUME NEW s \in Sessions, CommitApprove(s) PROVE RowsTyped' /\ RequestsTyped'
    <2> DEFINE a == request[s].approval
               u == request[s].user
               mfa == request[s].mfa
    <2>1. a \in Approvals /\ u \in Users /\ mfa \in BOOLEAN
      BY <1>8 DEF CommitApprove, RequestsTyped, RequestShape, ValidRequest, Deciding, Requests
    <2>2. /\ approval' = [approval EXCEPT ![a] =
                [@ EXCEPT !.status = "approved", !.approver = u, !.mfa = mfa]]
          /\ grants' = grants \cup {[approval |-> a, by |-> u, mfa |-> mfa]}
      BY <1>8 DEF CommitApprove
    <2> DEFINE row == [approval[a] EXCEPT !.status = "approved", !.approver = u, !.mfa = mfa]
    <2>3. row \in ApprovalRows /\ row.plan = approval[a].plan /\ row.build = approval[a].build
      <3>1. row \in ApprovalRows
        BY <2>1, DecidedRow DEF RowsTyped, ApprovalStatuses
      <3> QED BY <2>1, <3>1 DEF RowsTyped, ApprovalRows
    <2>4. approval' \in [Approvals -> ApprovalRows] /\ ApprovalShape'
      <3>1. approval[a].status # "none"
        BY <1>8 DEF CommitApprove, TargetShape, Deciding
      <3>2. approval' = [approval EXCEPT ![a] = row]
        BY <2>1, <2>2 DEF RowsTyped
      <3> HIDE DEF a, row
      <3> QED BY <2>1, <2>3, <3>1, <3>2, UpdatedApproval DEF RowsTyped
    <2>5. grants' \subseteq Grants
      BY <2>1, <2>2 DEF RowsTyped, Grants
    <2>6. plan' \in [Plans -> PlanStatuses]
      BY <1>8 DEF CommitApprove, RowsTyped, PlanStatuses
    <2>7. RowsTyped'
      BY <1>8, <2>3, <2>4, <2>5, <2>6 DEF CommitApprove, RowsTyped
    <2> QED BY <1>8, <2>7, CloseTyped DEF CommitApprove
  <1>23. ASSUME NEW s \in Sessions, GrantApproval(s) PROVE RowsTyped' /\ RequestsTyped'
    <2>1. PICK mfa \in BOOLEAN : request' = [request EXCEPT ![s].stage = "granted", ![s].mfa = mfa]
      BY <1>23 DEF GrantApproval
    <2> DEFINE r == [request[s] EXCEPT !.stage = "granted", !.mfa = mfa]
    <2>2. ValidRequest(request[s])
      BY DEF RequestsTyped, RequestShape
    <2>3. ValidRequest(r)
      BY <1>23, <2>2 DEF GrantApproval, ValidRequest, Requests, Stages, Deciding
    <2>4. request' = [request EXCEPT ![s] = r]
      BY <2>1 DEF RequestsTyped
    <2> QED BY <1>23, <2>3, <2>4, RowsUnchanged, ReplaceRequest DEF GrantApproval
  <1>9. ASSUME NEW s \in Sessions, ApproveTooLate(s) PROVE RowsTyped' /\ RequestsTyped'
    <2> QED BY <1>9, RowsUnchanged, CloseTyped DEF ApproveTooLate
  <1>10. ASSUME NEW s \in Sessions, CommitReject(s) PROVE RowsTyped' /\ RequestsTyped'
    <2> DEFINE a == request[s].approval
               u == request[s].user
    <2>1. a \in Approvals /\ u \in Users
      BY <1>10 DEF CommitReject, RequestsTyped, RequestShape, ValidRequest, Deciding
    <2> DEFINE row == [approval[a] EXCEPT !.status = "rejected", !.approver = u]
    <2>2. row \in ApprovalRows /\ row.plan = approval[a].plan /\ row.build = approval[a].build
      <3>1. row \in ApprovalRows
        BY <2>1, ResolvedRow DEF RowsTyped, ApprovalStatuses
      <3> QED BY <2>1, <3>1 DEF RowsTyped, ApprovalRows
    <2>3. approval' \in [Approvals -> ApprovalRows] /\ ApprovalShape'
      <3>1. approval[a].status # "none"
        BY <1>10 DEF CommitReject, TargetShape, Deciding
      <3>2. approval' = [approval EXCEPT ![a] = row]
        BY <1>10, <2>1 DEF CommitReject, Decide, RowsTyped
      <3> HIDE DEF a, row
      <3> QED BY <2>1, <2>2, <3>1, <3>2, UpdatedApproval DEF RowsTyped
    <2>4. plan' \in [Plans -> PlanStatuses]
      BY <1>10 DEF CommitReject, RowsTyped, PlanStatuses
    <2>5. RowsTyped'
      BY <1>10, <2>3, <2>4 DEF CommitReject, RowsTyped, history
    <2> QED BY <1>10, <2>5, CloseTyped DEF CommitReject
  <1>11. ASSUME NEW s \in Sessions, CommitRevoke(s) PROVE RowsTyped' /\ RequestsTyped'
    <2> DEFINE a == request[s].approval
               u == request[s].user
    <2>1. a \in Approvals /\ u \in Users
      BY <1>11 DEF CommitRevoke, RequestsTyped, RequestShape, ValidRequest, Deciding
    <2> DEFINE row == [approval[a] EXCEPT !.status = "revoked", !.approver = u]
    <2>2. row \in ApprovalRows /\ row.plan = approval[a].plan /\ row.build = approval[a].build
      <3>1. row \in ApprovalRows
        BY <2>1, ResolvedRow DEF RowsTyped, ApprovalStatuses
      <3> QED BY <2>1, <3>1 DEF RowsTyped, ApprovalRows
    <2>3. approval' \in [Approvals -> ApprovalRows] /\ ApprovalShape'
      <3>1. approval[a].status # "none"
        BY <1>11 DEF CommitRevoke, TargetShape, Deciding
      <3>2. approval' = [approval EXCEPT ![a] = row]
        BY <1>11, <2>1 DEF CommitRevoke, Decide, RowsTyped
      <3> HIDE DEF a, row
      <3> QED BY <2>1, <2>2, <3>1, <3>2, UpdatedApproval DEF RowsTyped
    <2>4. plan' \in [Plans -> PlanStatuses]
      BY <1>11 DEF CommitRevoke, RowsTyped, PlanStatuses, RevokedStatus
    <2>5. RowsTyped'
      BY <1>11, <2>3, <2>4 DEF CommitRevoke, RowsTyped, history
    <2> QED BY <1>11, <2>5, CloseTyped DEF CommitRevoke
  <1>12. ASSUME NEW s \in Sessions, ExpireApprovals(s) PROVE RowsTyped' /\ RequestsTyped'
    <2>1. approval' \in [Approvals -> ApprovalRows] /\ ApprovalShape'
      <3>1. ASSUME NEW a \in Approvals
            PROVE /\ [approval[a] EXCEPT !.status = "expired"] \in ApprovalRows
                  /\ [approval[a] EXCEPT !.status = "expired"].plan = approval[a].plan
                  /\ [approval[a] EXCEPT !.status = "expired"].build = approval[a].build
        <4>1. [approval[a] EXCEPT !.status = "expired"] \in ApprovalRows
          BY ClosedRow DEF RowsTyped, ApprovalStatuses
        <4> QED BY <4>1 DEF RowsTyped, ApprovalRows
      <3>2. ASSUME NEW a \in Approvals
            PROVE approval'[a] = IF a \in Overdue THEN [approval[a] EXCEPT !.status = "expired"]
                                                  ELSE approval[a]
        BY <1>12 DEF ExpireApprovals
      <3>3. approval' \in [Approvals -> ApprovalRows]
        BY <1>12, <3>1 DEF ExpireApprovals, RowsTyped
      <3>4. ApprovalShape'
        BY <3>1, <3>2 DEF RowsTyped, ApprovalShape, Overdue
      <3> QED BY <3>3, <3>4
    <2>2. plan' \in [Plans -> PlanStatuses]
      BY <1>12 DEF ExpireApprovals, RowsTyped, PlanStatuses
    <2>3. RowsTyped'
      BY <1>12, <2>1, <2>2 DEF ExpireApprovals, RowsTyped, history
    <2> QED BY <1>12, <2>3 DEF ExpireApprovals, RequestsTyped, RequestShape
  <1>13. ASSUME NEW s \in Sessions, CreateDryRun(s) PROVE RowsTyped' /\ RequestsTyped'
    <2>1. PICK j \in Jobs, p \in Plans, a \in Or(Approvals) : \E outcome \in SandboxOutcomes(p) :
              /\ job' = [job EXCEPT ![j] =
                    [status |-> DryRunJobStatus(outcome), plan |-> p, approval |-> a,
                     result |-> outcome, verification |-> "none"]]
              /\ Rehearse(a, outcome)
      BY <1>13 DEF CreateDryRun
    <2>2. job' \in [Jobs -> JobRows]
      BY <2>1 DEF RowsTyped, JobRows, JobStatuses, DryRunStatuses, SandboxOutcomes, DryRunJobStatus, Or
    <2>3. rehearsed' \subseteq Approvals
      BY <2>1 DEF RowsTyped, Rehearse, Or
    <2>4. RowsTyped'
      BY <1>13, <2>2, <2>3 DEF CreateDryRun, RowsTyped, ApprovalShape
    <2> QED BY <1>13, <2>4 DEF CreateDryRun, RequestsTyped, RequestShape
  <1>14. ASSUME NEW s \in Sessions, RerunDryRun(s) PROVE RowsTyped' /\ RequestsTyped'
    <2>1. PICK j \in Jobs : \E outcome \in SandboxOutcomes(job[j].plan) :
              /\ job' = [job EXCEPT ![j] =
                    [@ EXCEPT !.status = DryRunJobStatus(outcome), !.result = outcome]]
              /\ Rehearse(job[j].approval, outcome)
      BY <1>14 DEF RerunDryRun
    <2>2. job' \in [Jobs -> JobRows]
      <3>1. PICK outcome \in SandboxOutcomes(job[j].plan) :
                job' = [job EXCEPT ![j] =
                    [@ EXCEPT !.status = DryRunJobStatus(outcome), !.result = outcome]]
        BY <2>1
      <3> DEFINE row == [job[j] EXCEPT !.status = DryRunJobStatus(outcome), !.result = outcome]
      <3>2. DryRunJobStatus(outcome) \in JobStatuses /\ outcome \in DryRunStatuses
        BY DEF SandboxOutcomes, DryRunJobStatus, JobStatuses, DryRunStatuses
      <3>3. row \in JobRows
        BY <3>2, RehearsedRow DEF RowsTyped
      <3>4. job' = [job EXCEPT ![j] = row]
        BY <3>1 DEF RowsTyped
      <3> HIDE DEF row
      <3> QED BY <3>3, <3>4 DEF RowsTyped
    <2>3. rehearsed' \subseteq Approvals
      BY <2>1 DEF RowsTyped, Rehearse, JobRows, Or
    <2>4. RowsTyped'
      BY <1>14, <2>2, <2>3 DEF RerunDryRun, RowsTyped, ApprovalShape
    <2> QED BY <1>14, <2>4 DEF RerunDryRun, RequestsTyped, RequestShape
  <1>15. ASSUME NEW s \in Sessions, BeginExecute(s) PROVE RowsTyped' /\ RequestsTyped'
    <2>1. PICK u \in Users, a \in Approvals, j \in Or(Jobs) :
              /\ approval[a].status # "none"
              /\ request' = [request EXCEPT ![s] =
                    [NoRequest EXCEPT !.op = "execute", !.stage = "loaded", !.user = u,
                                      !.plan = approval[a].plan, !.approval = a, !.job = j,
                                      !.planView = "approved"]]
      BY <1>15 DEF BeginExecute
    <2>2. approval[a].plan \in Plans
      BY <2>1 DEF RowsTyped, ApprovalShape
    <2>3. ValidRequest([NoRequest EXCEPT !.op = "execute", !.stage = "loaded", !.user = u,
                                         !.plan = approval[a].plan, !.approval = a, !.job = j,
                                         !.planView = "approved"])
      BY <2>2 DEF NoRequest, ValidRequest, Requests, Operations, Stages, Or, Deciding, PlanStatuses
    <2> QED BY <1>15, <2>1, <2>3, RowsUnchanged, ReplaceRequest DEF BeginExecute
  <1>16. ASSUME NEW s \in Sessions, VerifyExecution(s) PROVE RowsTyped' /\ RequestsTyped'
    <2> DEFINE r == [request[s] EXCEPT !.stage = "verified"]
    <2>1. ValidRequest(request[s])
      BY DEF RequestsTyped, RequestShape
    <2>2. ValidRequest(r)
      BY <1>16, <2>1 DEF VerifyExecution, RowsTyped, ValidRequest, Requests, Stages, Deciding
    <2>3. request' = [request EXCEPT ![s] = r]
      BY <1>16 DEF VerifyExecution, RequestsTyped
    <2> QED BY <1>16, <2>2, <2>3, RowsUnchanged, ReplaceRequest DEF VerifyExecution
  <1>17. ASSUME NEW s \in Sessions, ConsumeApproval(s) PROVE RowsTyped' /\ RequestsTyped'
    <2> DEFINE r == [request[s] EXCEPT !.stage = "consumed"]
    <2>1. ValidRequest(request[s])
      BY DEF RequestsTyped, RequestShape
    <2>2. ValidRequest(r)
      BY <1>17, <2>1 DEF ConsumeApproval, RowsTyped, ValidRequest, Requests, Stages, Deciding
    <2>3. request' = [request EXCEPT ![s] = r]
      BY <1>17 DEF ConsumeApproval, RequestsTyped
    <2> QED BY <1>17, <2>2, <2>3, RowsUnchanged, ReplaceRequest DEF ConsumeApproval
  <1>18. ASSUME NEW s \in Sessions, CommitExecute(s) PROVE RowsTyped' /\ RequestsTyped'
    <2> DEFINE a == request[s].approval
               u == request[s].user
               p == request[s].plan
    <2>1. a \in Approvals /\ u \in Users
      BY <1>18 DEF CommitExecute, RequestsTyped, RequestShape, ValidRequest, Deciding
    <2>2. PICK j \in Jobs :
              /\ job' = [job EXCEPT ![j] =
                    [@ EXCEPT !.status = ExecutedJobStatus(p), !.plan = p, !.approval = a,
                              !.verification = VerificationOf(p, job[j].verification)]]
              /\ plan' = [plan EXCEPT ![p] = ExecutedPlanStatus(p, job[j].verification)]
      BY <1>18 DEF CommitExecute
    <2>3. job' \in [Jobs -> JobRows]
      <3>1. p \in Plans
        BY <1>18 DEF CommitExecute, RequestsTyped, RequestShape, ValidRequest
      <3>2. VerificationOf(p, job[j].verification) \in {"none", "verified", "failed"}
        BY DEF RowsTyped, JobRows, VerificationOf
      <3>3. ExecutedJobStatus(p) \in JobStatuses
        BY DEF ExecutedJobStatus, JobStatuses
      <3> DEFINE row == [job[j] EXCEPT !.status = ExecutedJobStatus(p), !.plan = p, !.approval = a,
                                       !.verification = VerificationOf(p, job[j].verification)]
      <3>4. row \in JobRows
        <4>1. job[j] \in JobRows
          BY DEF RowsTyped
        <4> HIDE DEF a, p
        <4> QED BY <2>1, <3>1, <3>2, <3>3, <4>1, ExecutedRow
      <3>5. job' = [job EXCEPT ![j] = row]
        BY <2>2 DEF RowsTyped
      <3> HIDE DEF row
      <3> QED BY <3>4, <3>5 DEF RowsTyped
    <2>4. plan' \in [Plans -> PlanStatuses]
      BY <2>2 DEF RowsTyped, PlanStatuses, ExecutedPlanStatus
    <2> DEFINE used == [approval[a] EXCEPT !.status = "used"]
    <2>5. used \in ApprovalRows /\ used.plan = approval[a].plan /\ used.build = approval[a].build
      <3>1. used \in ApprovalRows
        BY <2>1, ClosedRow DEF RowsTyped, ApprovalStatuses
      <3> QED BY <2>1, <3>1 DEF RowsTyped, ApprovalRows
    <2>6. approval' \in [Approvals -> ApprovalRows] /\ ApprovalShape'
      <3>1. approval[a].status # "none"
        BY <1>18 DEF CommitExecute, TargetShape
      <3>2. approval' = [approval EXCEPT ![a] = used]
        BY <1>18, <2>1 DEF CommitExecute, RowsTyped
      <3> HIDE DEF a, used
      <3> QED BY <2>1, <2>5, <3>1, <3>2, UpdatedApproval DEF RowsTyped
    <2>7. executions' \in [Approvals -> Nat] /\ executors' \subseteq Approvals \X Users
      BY <1>18, <2>1 DEF CommitExecute, RowsTyped
    <2>8. RowsTyped'
      BY <1>18, <2>3, <2>4, <2>6, <2>7 DEF CommitExecute, RowsTyped
    <2> QED BY <1>18, <2>8, CloseTyped DEF CommitExecute
  <1>19. ASSUME NEW s \in Sessions, Abort(s) PROVE RowsTyped' /\ RequestsTyped'
    <2> QED BY <1>19, RowsUnchanged, CloseTyped DEF Abort
  <1>20. ASSUME NEW a \in Approvals, TtlElapses(a) PROVE RowsTyped' /\ RequestsTyped'
    BY <1>20 DEF TtlElapses, RowsTyped, RequestsTyped, ApprovalShape, RequestShape, tables, history
  <1>21. CASE Deploy
    BY <1>21 DEF Deploy, RowsTyped, RequestsTyped, ApprovalShape, RequestShape, tables, history
  <1>22. CASE UNCHANGED vars
    BY <1>22 DEF vars, RowsTyped, RequestsTyped, ApprovalShape, RequestShape
  <1> QED
    BY <1>1, <1>2, <1>3, <1>4, <1>5, <1>6, <1>7, <1>8, <1>9, <1>10, <1>11, <1>12, <1>13, <1>14, <1>15, <1>16, <1>17, <1>18, <1>19, <1>20, <1>21, <1>22, <1>23 DEF Next, SessionStep

\* Every value the workflow computes is of the type its column has.
THEOREM TypeCorrect == Spec => []TypeOK
  <1>1. Init => TypeInv
    BY TypeInit
  <1>2. TypeInv /\ [Next]_vars => TypeInv'
    BY TypeStep
  <1>3. TypeInv => TypeOK
    BY DEF TypeInv
  <1> QED BY <1>1, <1>2, <1>3, PTL DEF Spec

-----------------------------------------------------------------------------
(* Consent.  However requests interleave, an execution is covered by what  *)
(* it verified: statuses read before may be stale when it commits, but the *)
(* policy check of an approval, its requester, the grants given and the    *)
(* rehearsals held are never taken back.                                   *)

\* The newest check of a plan is a check of it.
ChecksRecorded == \A p \in Plans : latest[p] # None => verdict[p][latest[p]] # None

BoundToPassingCheck == \A a \in Approvals : approval[a].status # "none" => CheckPassed(a)

\* An approve that has passed its checks was entitled to.
GrantedIsEntitled ==
    \A s \in Sessions : request[s].stage = "granted" =>
        request[s].op = "approve" /\ MayGrant(request[s].user, request[s].approval, request[s].mfa)

GrantsAuthorised == \A g \in grants : approval[g.approval].status # "none" /\ Authorised(g)

\* An approval that reads approved carries the stamp of one of its grants.
ApprovedByGrant ==
    \A a \in Approvals : approval[a].status = "approved" =>
        \E g \in grants : g.approval = a /\ g.by = approval[a].approver /\ g.mfa = approval[a].mfa

NeedsMfa(a) == MfaRequired(content[approval[a].plan].risk, CheckOf(a).level)

\* A grant that lets u execute under a.
CoveredBy(a, u, g) == g.approval = a /\ (NeedsMfa(a) => g.mfa /\ g.by = u)

\* The plan of an approval is one that may be executed, and was rehearsed.
SafeToRun(a) ==
    LET c == content[approval[a].plan]
    IN  c.sandbox /\ AdapterAllowed(c.risk, c.adapter) /\ a \in rehearsed

VerifiedIsCovered ==
    \A s \in Sessions : request[s].stage \in {"verified", "consumed"} =>
        /\ request[s].op = "execute"
        /\ SafeToRun(request[s].approval)
        /\ \E g \in grants : CoveredBy(request[s].approval, request[s].user, g)

DryRunsRehearsed ==
    \A j \in Jobs : job[j].result = "succeeded" /\ job[j].approval # None => job[j].approval \in rehearsed

ExecutorsExist == \A e \in executors : approval[e[1]].status # "none"

ConsentInv ==
    /\ TypeInv
    /\ ChecksRecorded /\ BoundToPassingCheck
    /\ GrantedIsEntitled /\ GrantsAuthorised /\ ApprovedByGrant
    /\ VerifiedIsCovered /\ DryRunsRehearsed /\ ExecutorsExist
    /\ ConsentBeforeExecution /\ ExecutionWasSafe /\ OutcomesAreEarned

\* Which actions give grants, insert approvals, change checks, and so on.
LEMMA GrantStep == [Next]_vars => grants' = grants \/ \E s \in Sessions : CommitApprove(s)
  BY DEF Next, SessionStep, GeneratePlan, BeginValidate, CommitValidate, BeginRequest, CommitRequest,
         BeginDecision, ReadPlan, GrantApproval, ApproveTooLate, CommitReject, CommitRevoke, ExpireApprovals,
         CreateDryRun, RerunDryRun, BeginExecute, VerifyExecution, ConsumeApproval, CommitExecute,
         Abort, TtlElapses, Deploy, vars, history

LEMMA ExecutionStep ==
    [Next]_vars => UNCHANGED <<executors, executions>> \/ \E s \in Sessions : CommitExecute(s)
  BY DEF Next, SessionStep, GeneratePlan, BeginValidate, CommitValidate, BeginRequest, CommitRequest,
         BeginDecision, ReadPlan, GrantApproval, CommitApprove, ApproveTooLate, CommitReject, CommitRevoke,
         ExpireApprovals, CreateDryRun, RerunDryRun, BeginExecute, VerifyExecution, ConsumeApproval,
         Abort, TtlElapses, Deploy, vars, history

LEMMA CheckStep ==
    [Next]_vars => UNCHANGED <<verdict, latest>> \/ \E s \in Sessions : CommitValidate(s)
  BY DEF Next, SessionStep, GeneratePlan, BeginValidate, BeginRequest, CommitRequest,
         BeginDecision, ReadPlan, GrantApproval, CommitApprove, ApproveTooLate, CommitReject, CommitRevoke,
         ExpireApprovals, CreateDryRun, RerunDryRun, BeginExecute, VerifyExecution, ConsumeApproval,
         CommitExecute, Abort, TtlElapses, Deploy, vars, tables

LEMMA ApprovalStep ==
    [Next]_vars =>
        \/ UNCHANGED approval
        \/ \E s \in Sessions : \/ CommitRequest(s) \/ CommitApprove(s) \/ CommitReject(s)
                               \/ CommitRevoke(s) \/ ExpireApprovals(s) \/ CommitExecute(s)
  BY DEF Next, SessionStep, GeneratePlan, BeginValidate, CommitValidate, BeginRequest,
         BeginDecision, ReadPlan, GrantApproval, ApproveTooLate, CreateDryRun, RerunDryRun, BeginExecute,
         VerifyExecution, ConsumeApproval, Abort, TtlElapses, Deploy, vars, tables

LEMMA JobStep ==
    [Next]_vars =>
        \/ UNCHANGED job
        \/ \E s \in Sessions : CreateDryRun(s) \/ RerunDryRun(s) \/ CommitExecute(s)
  BY DEF Next, SessionStep, GeneratePlan, BeginValidate, CommitValidate, BeginRequest, CommitRequest,
         BeginDecision, ReadPlan, GrantApproval, CommitApprove, ApproveTooLate, CommitReject, CommitRevoke,
         ExpireApprovals, BeginExecute, VerifyExecution, ConsumeApproval, Abort, TtlElapses, Deploy,
         vars, tables

\* What a plan is about never changes, and history is only added to.
LEMMA HistoryGrows ==
    [Next]_vars => /\ content' = content
                   /\ grants \subseteq grants'
                   /\ executors \subseteq executors'
                   /\ rehearsed \subseteq rehearsed'
  <1> SUFFICES ASSUME [Next]_vars
               PROVE  /\ content' = content
                      /\ grants \subseteq grants'
                      /\ executors \subseteq executors'
                      /\ rehearsed \subseteq rehearsed'
    OBVIOUS
  <1>1. content' = content
    <2>1. ASSUME NEW s \in Sessions, SessionStep(s) PROVE content' = content
      BY <2>1 DEF SessionStep, GeneratePlan, BeginValidate, CommitValidate, BeginRequest, CommitRequest,
             BeginDecision, ReadPlan, GrantApproval, CommitApprove, ApproveTooLate, CommitReject, CommitRevoke,
             ExpireApprovals, CreateDryRun, RerunDryRun, BeginExecute, VerifyExecution,
             ConsumeApproval, CommitExecute, Abort, tables
    <2>2. CASE (\E a \in Approvals : TtlElapses(a)) \/ Deploy \/ UNCHANGED vars
      BY <2>2 DEF TtlElapses, Deploy, vars, tables
    <2> QED BY <2>1, <2>2 DEF Next
  <1>2. grants \subseteq grants'
    BY GrantStep DEF CommitApprove
  <1>3. executors \subseteq executors'
    BY ExecutionStep DEF CommitExecute
  <1>4. rehearsed \subseteq rehearsed'
    <2>1. ASSUME NEW s \in Sessions, CreateDryRun(s) \/ RerunDryRun(s) PROVE rehearsed \subseteq rehearsed'
      <3>1. PICK a, outcome : Rehearse(a, outcome)
        BY <2>1, Zenon DEF CreateDryRun, RerunDryRun
      <3> QED BY <3>1 DEF Rehearse
    <2>2. ASSUME NEW s \in Sessions, SessionStep(s)
          PROVE rehearsed' = rehearsed \/ CreateDryRun(s) \/ RerunDryRun(s)
      BY <2>2 DEF SessionStep, GeneratePlan, BeginValidate, CommitValidate, BeginRequest, CommitRequest,
             BeginDecision, ReadPlan, GrantApproval, CommitApprove, ApproveTooLate, CommitReject, CommitRevoke,
             ExpireApprovals, BeginExecute, VerifyExecution, ConsumeApproval, CommitExecute, Abort, history
    <2>3. CASE (\E a \in Approvals : TtlElapses(a)) \/ Deploy \/ UNCHANGED vars
      BY <2>3 DEF TtlElapses, Deploy, vars, history
    <2> QED BY <2>1, <2>2, <2>3 DEF Next
  <1> QED BY <1>1, <1>2, <1>3, <1>4

\* A check that was inserted is found again, never replaced.
LEMMA ChecksStay ==
    TypeInv /\ [Next]_vars =>
        \A p \in Plans, v \in Versions : verdict[p][v] # None => verdict'[p][v] = verdict[p][v]
  <1> SUFFICES ASSUME TypeInv, [Next]_vars, NEW p \in Plans, NEW v \in Versions, verdict[p][v] # None
               PROVE  verdict'[p][v] = verdict[p][v]
    OBVIOUS
  <1>1. CASE UNCHANGED verdict
    BY <1>1
  <1>2. ASSUME NEW s \in Sessions, CommitValidate(s) PROVE verdict'[p][v] = verdict[p][v]
    BY <1>2 DEF CommitValidate, TypeInv, TypeOK
  <1> QED BY <1>1, <1>2, CheckStep

\* An approval keeps its plan, requester and policy check, and so everything
\* that was decided from them.
LEMMA BindingStays ==
    TypeInv /\ BoundToPassingCheck /\ [Next]_vars =>
        \A a \in Approvals : approval[a].status # "none" =>
            /\ approval'[a].status # "none"
            /\ approval'[a].plan = approval[a].plan
            /\ approval'[a].requestedBy = approval[a].requestedBy
            /\ CheckOf(a)' = CheckOf(a)
            /\ CheckPassed(a)'
            /\ NeedsMfa(a)' = NeedsMfa(a)
  <1> SUFFICES ASSUME TypeInv, BoundToPassingCheck, [Next]_vars,
                      NEW a \in Approvals, approval[a].status # "none"
               PROVE  /\ approval'[a].status # "none"
                      /\ approval'[a].plan = approval[a].plan
                      /\ approval'[a].requestedBy = approval[a].requestedBy
                      /\ CheckOf(a)' = CheckOf(a)
                      /\ CheckPassed(a)'
                      /\ NeedsMfa(a)' = NeedsMfa(a)
    OBVIOUS
  <1>1. /\ approval'[a].status # "none"
        /\ approval'[a].plan = approval[a].plan
        /\ approval'[a].build = approval[a].build
        /\ approval'[a].requestedBy = approval[a].requestedBy
    BY KeptStep, TypeInvParts DEF Kept
  <1>2. approval[a].plan \in Plans /\ approval[a].build \in Versions
    BY DEF TypeInv, ApprovalShape
  <1>3. CheckOf(a) # None /\ CheckOf(a).passed
    BY DEF BoundToPassingCheck, CheckPassed
  <1>4. CheckOf(a)' = CheckOf(a)
    BY <1>1, <1>2, <1>3, ChecksStay DEF CheckOf
  <1>5. CheckPassed(a)'
    BY <1>3, <1>4 DEF CheckPassed
  <1>6. NeedsMfa(a)' = NeedsMfa(a)
    BY <1>1, <1>4, HistoryGrows DEF NeedsMfa
  <1> QED BY <1>1, <1>4, <1>5, <1>6

LEMMA ChecksRecordedStep == TypeInv /\ ChecksRecorded /\ [Next]_vars => ChecksRecorded'
  <1> USE NoneAssumption
  <1> SUFFICES ASSUME TypeInv, ChecksRecorded, [Next]_vars PROVE ChecksRecorded'
    OBVIOUS
  <1>1. CASE UNCHANGED <<verdict, latest>>
    BY <1>1 DEF ChecksRecorded
  <1>2. ASSUME NEW s \in Sessions, CommitValidate(s) PROVE ChecksRecorded'
    <2> DEFINE p == request[s].plan
               v == request[s].build
    <2>1. p \in Plans /\ v \in Versions
      BY <1>2 DEF CommitValidate, Serving, TypeInv, RequestShape, ValidRequest
    <2>2. PICK d \in (IF verdict[p][v] = None THEN PossibleVerdicts(p) ELSE {verdict[p][v]}) :
              /\ verdict' = [verdict EXCEPT ![p][v] = d]
              /\ latest' = [latest EXCEPT ![p] = IF verdict[p][v] = None THEN v ELSE @]
      BY <1>2 DEF CommitValidate
    <2>3. d # None
      BY <2>2 DEF PossibleVerdicts
    <2> QED BY <2>1, <2>2, <2>3, ChecksStay DEF ChecksRecorded, TypeInv, TypeOK, Or
  <1> QED BY <1>1, <1>2, CheckStep

LEMMA BoundStep ==
    TypeInv /\ ChecksRecorded /\ BoundToPassingCheck /\ [Next]_vars => BoundToPassingCheck'
  <1> SUFFICES ASSUME TypeInv, ChecksRecorded, BoundToPassingCheck, [Next]_vars,
                      NEW a \in Approvals, approval'[a].status # "none"
               PROVE  CheckPassed(a)'
    BY DEF BoundToPassingCheck
  <1>1. CASE approval[a].status # "none"
    BY <1>1, BindingStays
  <1>2. CASE approval[a].status = "none"
    <2>1. PICK s \in Sessions : CommitRequest(s)
      <3>1. ASSUME NEW s \in Sessions,
                   CommitApprove(s) \/ CommitReject(s) \/ CommitRevoke(s) \/ CommitExecute(s)
            PROVE  approval'[a].status = "none"
        BY <1>2, <3>1 DEF CommitApprove, CommitReject, CommitRevoke, CommitExecute, Decide, Serving,
                          TypeInv, TypeOK, TargetShape, Deciding
      <3>2. ASSUME NEW s \in Sessions, ExpireApprovals(s) PROVE approval'[a].status = "none"
        BY <1>2, <3>2 DEF ExpireApprovals, Overdue
      <3> QED BY <1>2, <3>1, <3>2, ApprovalStep
    <2> DEFINE p == request[s].plan
    <2>2. p \in Plans
      BY <2>1 DEF CommitRequest, Serving, TypeInv, RequestShape, ValidRequest
    <2>3. latest[p] # None /\ verdict[p][latest[p]].passed /\ UNCHANGED verdict
      BY <2>1 DEF CommitRequest
    <2>4. approval'[a].plan = p /\ approval'[a].build = latest[p]
      BY <1>2, <2>1 DEF CommitRequest, TypeInv, TypeOK
    <2>5. verdict[p][latest[p]] # None
      BY <2>2, <2>3 DEF ChecksRecorded
    <2> QED BY <2>3, <2>4, <2>5 DEF CheckPassed, CheckOf
  <1> QED BY <1>1, <1>2

\* How a request gets to be granted, and that it then stays entitled.
LEMMA GrantedStage ==
    ASSUME TypeInv, [Next]_vars, NEW t \in Sessions, request'[t].stage = "granted"
    PROVE  request'[t] = request[t] \/ GrantApproval(t)
  <1>1. request \in [Sessions -> Requests]
    BY DEF TypeInv, TypeOK
  <1>2. ASSUME NEW s \in Sessions, Close(s) PROVE request'[t] = request[t]
    BY <1>1, <1>2 DEF Close, NoRequest
  <1>3. ASSUME NEW s \in Sessions, NEW r, r.stage # "granted", request' = [request EXCEPT ![s] = r]
        PROVE request'[t] = request[t]
    BY <1>1, <1>3
  <1>4. ASSUME NEW s \in Sessions, BeginValidate(s) \/ BeginRequest(s) \/ BeginExecute(s)
        PROVE request'[t] = request[t]
    <2>1. CASE BeginValidate(s)
      BY <1>3, <2>1 DEF BeginValidate, NoRequest
    <2>2. CASE BeginRequest(s)
      BY <1>3, <2>2 DEF BeginRequest, NoRequest
    <2>3. CASE BeginExecute(s)
      BY <1>3, <2>3 DEF BeginExecute, NoRequest
    <2> QED BY <1>4, <2>1, <2>2, <2>3
  <1>5. ASSUME NEW s \in Sessions, NEW op \in {"approve", "reject", "revoke"}, BeginDecision(s, op)
        PROVE request'[t] = request[t]
    BY <1>3, <1>5 DEF BeginDecision, NoRequest
  <1>6. ASSUME NEW s \in Sessions, ReadPlan(s) \/ VerifyExecution(s) \/ ConsumeApproval(s)
        PROVE request'[t] = request[t]
    BY <1>1, <1>6 DEF ReadPlan, VerifyExecution, ConsumeApproval, Requests
  <1>7. ASSUME NEW s \in Sessions, GrantApproval(s), s # t PROVE request'[t] = request[t]
    BY <1>1, <1>7 DEF GrantApproval
  <1>8. ASSUME NEW s \in Sessions, SessionStep(s) PROVE request'[t] = request[t] \/ GrantApproval(t)
    BY <1>2, <1>4, <1>5, <1>6, <1>7, <1>8
       DEF SessionStep, GeneratePlan, CommitValidate, CommitRequest, CommitApprove, ApproveTooLate,
           CommitReject, CommitRevoke, ExpireApprovals, CreateDryRun, RerunDryRun, CommitExecute, Abort
  <1> QED BY <1>8 DEF Next, TtlElapses, Deploy, vars

LEMMA MayGrantStays ==
    ASSUME TypeInv, BoundToPassingCheck, [Next]_vars, NEW a \in Approvals,
           approval[a].status # "none", NEW u, NEW mfa, MayGrant(u, a, mfa)
    PROVE  MayGrant(u, a, mfa)'
  BY BindingStays DEF MayGrant, HasRole

LEMMA EntitledStep ==
    TypeInv /\ BoundToPassingCheck /\ GrantedIsEntitled /\ [Next]_vars => GrantedIsEntitled'
  <1> SUFFICES ASSUME TypeInv, BoundToPassingCheck, GrantedIsEntitled, [Next]_vars,
                      NEW t \in Sessions, request'[t].stage = "granted"
               PROVE  /\ request'[t].op = "approve"
                      /\ MayGrant(request[t].user, request[t].approval, request[t].mfa)'
    BY DEF GrantedIsEntitled
  <1> PICK r : r = request'[t]
    OBVIOUS
  <1>1. request[t].op = "approve" /\ r.op = "approve" /\ r.approval = request[t].approval
        /\ MayGrant(r.user, r.approval, r.mfa)
    <2>1. CASE request'[t] = request[t]
      BY <2>1 DEF GrantedIsEntitled
    <2>2. CASE GrantApproval(t)
      <3>1. PICK mfa \in BOOLEAN :
              /\ MayGrant(request[t].user, request[t].approval, mfa)
              /\ request' = [request EXCEPT ![t].stage = "granted", ![t].mfa = mfa]
        BY <2>2 DEF GrantApproval
      <3>2. request[t].op = "approve" /\ request \in [Sessions -> Requests]
        BY <2>2 DEF GrantApproval, Serving, TypeInv, TypeOK
      <3>3. request'[t] = [request[t] EXCEPT !.stage = "granted", !.mfa = mfa]
        BY <3>1, <3>2
      <3>4. r.op = "approve" /\ r.approval = request[t].approval
            /\ r.user = request[t].user /\ r.mfa = mfa
        BY <3>2, <3>3 DEF Requests
      <3> QED BY <3>1, <3>2, <3>4
    <2> QED BY <2>1, <2>2, GrantedStage
  <1>2. r.approval \in Approvals /\ approval[r.approval].status # "none"
    BY <1>1 DEF TypeInv, RequestShape, ValidRequest, TargetShape, Deciding
  <1>3. MayGrant(r.user, r.approval, r.mfa)'
    BY <1>1, <1>2, MayGrantStays
  <1>4. MayGrant(r.user, r.approval, r.mfa)' =>
          MayGrant(request[t].user, request[t].approval, request[t].mfa)'
    BY DEF MayGrant, HasRole, CheckOf
  <1> QED BY <1>1, <1>3, <1>4

\* The guards of approve make every grant authorised, and it stays so.
LEMMA GrantsStep ==
    TypeInv /\ BoundToPassingCheck /\ GrantedIsEntitled /\ GrantsAuthorised /\ [Next]_vars
      => GrantsAuthorised'
  <1> SUFFICES ASSUME TypeInv, BoundToPassingCheck, GrantedIsEntitled, GrantsAuthorised, [Next]_vars,
                      NEW g \in grants'
               PROVE  (approval[g.approval].status # "none" /\ Authorised(g))'
    BY DEF GrantsAuthorised
  <1>1. ASSUME g.approval \in Approvals, approval[g.approval].status # "none", Authorised(g)
        PROVE  (approval[g.approval].status # "none" /\ Authorised(g))'
    BY <1>1, BindingStays DEF Authorised
  <1>2. CASE g \in grants
    BY <1>1, <1>2 DEF GrantsAuthorised, TypeInv, TypeOK, Grants
  <1>3. ASSUME NEW s \in Sessions, CommitApprove(s), g \notin grants
        PROVE  (approval[g.approval].status # "none" /\ Authorised(g))'
    <2>1. /\ MayGrant(request[s].user, request[s].approval, request[s].mfa)
          /\ g = [approval |-> request[s].approval, by |-> request[s].user, mfa |-> request[s].mfa]
      BY <1>3 DEF CommitApprove, Serving, GrantedIsEntitled
    <2>2. g.approval \in Approvals /\ approval[g.approval].status # "none"
      BY <1>3, <2>1 DEF CommitApprove, Serving, TypeInv, TargetShape, RequestShape, ValidRequest, Deciding
    <2>3. Authorised(g)
      <3>1. CheckPassed(g.approval)
        BY <2>2 DEF BoundToPassingCheck
      <3>2. HasRole(g.by, ApprovalRoleMatrix[CheckOf(g.approval).level])
        BY <2>1 DEF MayGrant
      <3>3. CheckOf(g.approval).level \in ElevatedLevels => g.by # approval[g.approval].requestedBy /\ g.mfa
        BY <2>1 DEF MayGrant
      <3>4. CheckOf(g.approval).level \in ElevatedLevels =>
                ApprovalRoleMatrix[CheckOf(g.approval).level] = PrivilegedRoles
        BY DEF ElevatedLevels, ApprovalRoleMatrix, Levels
      <3> QED BY <3>1, <3>2, <3>3, <3>4 DEF Authorised
    <2> QED BY <1>1, <2>2, <2>3
  <1> QED BY <1>2, <1>3, GrantStep

\* Only approve sets the status approved, and it records the grant it stamps.
LEMMA ApprovedStep == TypeInv /\ ApprovedByGrant /\ [Next]_vars => ApprovedByGrant'
  <1> SUFFICES ASSUME TypeInv, ApprovedByGrant, [Next]_vars,
                      NEW a \in Approvals, approval'[a].status = "approved"
               PROVE  \E g \in grants' : /\ g.approval = a
                                         /\ g.by = approval'[a].approver
                                         /\ g.mfa = approval'[a].mfa
    BY DEF ApprovedByGrant
  <1>1. approval \in [Approvals -> ApprovalRows]
    BY DEF TypeInv, TypeOK
  <1>2. CASE approval'[a] = approval[a]
    BY <1>2, HistoryGrows DEF ApprovedByGrant
  <1>3. ASSUME NEW s \in Sessions, CommitRequest(s) PROVE approval'[a] = approval[a]
    BY <1>1, <1>3 DEF CommitRequest
  <1>4. ASSUME NEW s \in Sessions, CommitReject(s) \/ CommitRevoke(s) PROVE approval'[a] = approval[a]
    <2>1. CASE CommitReject(s)
      BY <1>1, <2>1 DEF CommitReject, Decide, ApprovalRows
    <2>2. CASE CommitRevoke(s)
      BY <1>1, <2>2 DEF CommitRevoke, Decide, ApprovalRows
    <2> QED BY <1>4, <2>1, <2>2
  <1>5. ASSUME NEW s \in Sessions, ExpireApprovals(s) PROVE approval'[a] = approval[a]
    BY <1>1, <1>5 DEF ExpireApprovals, ApprovalRows
  <1>6. ASSUME NEW s \in Sessions, CommitExecute(s) PROVE approval'[a] = approval[a]
    BY <1>1, <1>6 DEF CommitExecute, ApprovalRows
  <1>7. ASSUME NEW s \in Sessions, CommitApprove(s), approval'[a] # approval[a]
        PROVE  \E g \in grants' : /\ g.approval = a
                                  /\ g.by = approval'[a].approver
                                  /\ g.mfa = approval'[a].mfa
    <2> DEFINE mfa == request[s].mfa
    <2>1.     /\ approval' = [approval EXCEPT ![request[s].approval] =
                    [@ EXCEPT !.status = "approved", !.approver = request[s].user, !.mfa = mfa]]
              /\ grants' = grants \cup {[approval |-> request[s].approval, by |-> request[s].user, mfa |-> mfa]}
      BY <1>7 DEF CommitApprove
    <2>2. request[s].approval = a
      BY <1>1, <1>7, <2>1
    <2>3. approval'[a] = [approval[a] EXCEPT !.status = "approved", !.approver = request[s].user, !.mfa = mfa]
      BY <1>1, <2>1, <2>2
    <2>4. approval'[a].approver = request[s].user /\ approval'[a].mfa = mfa
      BY <1>1, <2>3 DEF ApprovalRows
    <2> DEFINE g == [approval |-> request[s].approval, by |-> request[s].user, mfa |-> mfa]
    <2>5. g \in grants'
      BY <2>1
    <2>6. g.approval = a /\ g.by = approval'[a].approver /\ g.mfa = approval'[a].mfa
      BY <2>2, <2>4
    <2> QED BY <2>5, <2>6
  <1> QED BY <1>2, <1>3, <1>4, <1>5, <1>6, <1>7, ApprovalStep

LEMMA RehearsedStep ==
    TypeInv /\ VerifiedIsCovered /\ DryRunsRehearsed /\ [Next]_vars => DryRunsRehearsed'
  <1> SUFFICES ASSUME TypeInv, VerifiedIsCovered, DryRunsRehearsed, [Next]_vars,
                      NEW j \in Jobs, job'[j].result = "succeeded", job'[j].approval # None
               PROVE  job'[j].approval \in rehearsed'
    BY DEF DryRunsRehearsed
  <1>1. job \in [Jobs -> JobRows]
    BY DEF TypeInv, TypeOK
  <1>2. CASE job'[j] = job[j]
    BY <1>2, HistoryGrows DEF DryRunsRehearsed
  <1>3. ASSUME NEW s \in Sessions, CreateDryRun(s), job'[j] # job[j]
        PROVE  job'[j].approval \in rehearsed'
    <2>1. PICK i \in Jobs, p \in Plans, a \in Or(Approvals) : \E outcome \in SandboxOutcomes(p) :
              /\ job' = [job EXCEPT ![i] =
                    [status |-> DryRunJobStatus(outcome), plan |-> p, approval |-> a,
                     result |-> outcome, verification |-> "none"]]
              /\ Rehearse(a, outcome)
      BY <1>3 DEF CreateDryRun
    <2> QED BY <1>1, <1>3, <2>1 DEF Rehearse
  <1>4. ASSUME NEW s \in Sessions, RerunDryRun(s), job'[j] # job[j]
        PROVE  job'[j].approval \in rehearsed'
    <2>1. PICK i \in Jobs : \E outcome \in SandboxOutcomes(job[i].plan) :
              /\ job' = [job EXCEPT ![i] =
                    [@ EXCEPT !.status = DryRunJobStatus(outcome), !.result = outcome]]
              /\ Rehearse(job[i].approval, outcome)
      BY <1>4 DEF RerunDryRun
    <2> QED BY <1>1, <1>4, <2>1 DEF Rehearse, JobRows
  <1>5. ASSUME NEW s \in Sessions, CommitExecute(s), job'[j] # job[j]
        PROVE  job'[j].approval \in rehearsed'
    <2> DEFINE a == request[s].approval
    <2>1. job'[j].approval = a
      <3> DEFINE p == request[s].plan
      <3>1. PICK i \in Jobs : job' = [job EXCEPT ![i] =
                [@ EXCEPT !.status = ExecutedJobStatus(p), !.plan = p, !.approval = a,
                          !.verification = VerificationOf(p, job[i].verification)]]
        BY <1>5 DEF CommitExecute
      <3>2. i = j
        BY <1>1, <1>5, <3>1
      <3>3. job'[j] = [job[j] EXCEPT !.status = ExecutedJobStatus(p), !.plan = p, !.approval = a,
                                     !.verification = VerificationOf(p, job[j].verification)]
        BY <1>1, <3>1, <3>2
      <3>4. job[j] \in JobRows
        BY <1>1
      <3> HIDE DEF a
      <3> QED BY <3>3, <3>4 DEF JobRows
    <2>2. request[s].approval \in rehearsed
      BY <1>5 DEF CommitExecute, Serving, VerifiedIsCovered, SafeToRun
    <2> QED BY <2>1, <2>2, HistoryGrows
  <1> QED BY <1>2, <1>3, <1>4, <1>5, JobStep

LEMMA ExecutorsStep ==
    TypeInv /\ BoundToPassingCheck /\ ExecutorsExist /\ [Next]_vars => ExecutorsExist'
  <1> SUFFICES ASSUME TypeInv, BoundToPassingCheck, ExecutorsExist, [Next]_vars, NEW e \in executors'
               PROVE  approval'[e[1]].status # "none"
    BY DEF ExecutorsExist
  <1>1. CASE e \in executors
    BY <1>1, BindingStays DEF ExecutorsExist, TypeInv, TypeOK
  <1>2. ASSUME NEW s \in Sessions, CommitExecute(s), e \notin executors
        PROVE  approval'[e[1]].status # "none"
    <2>1. e = <<request[s].approval, request[s].user>>
      BY <1>2 DEF CommitExecute
    <2>2. request[s].approval \in Approvals /\ approval[request[s].approval].status # "none"
      BY <1>2 DEF CommitExecute, Serving, TypeInv, TargetShape, RequestShape, ValidRequest
    <2> QED BY <2>1, <2>2, BindingStays
  <1> QED BY <1>1, <1>2, ExecutionStep

\* What covers an execution goes on covering it.
LEMMA CoverStays ==
    ASSUME TypeInv, BoundToPassingCheck, [Next]_vars,
           NEW a \in Approvals, approval[a].status # "none", SafeToRun(a)
    PROVE  /\ SafeToRun(a)'
           /\ \A u \in Users : \A g \in grants : CoveredBy(a, u, g) => g \in grants' /\ CoveredBy(a, u, g)'
  <1>1. SafeToRun(a)'
    <2>1. content'[approval'[a].plan] = content[approval[a].plan]
      BY HistoryGrows, BindingStays
    <2>2. a \in rehearsed'
      BY HistoryGrows DEF SafeToRun
    <2> QED BY <2>1, <2>2 DEF SafeToRun
  <1>2. ASSUME NEW u \in Users, NEW g \in grants, CoveredBy(a, u, g)
        PROVE  g \in grants' /\ CoveredBy(a, u, g)'
    BY <1>2, HistoryGrows, BindingStays DEF CoveredBy
  <1> QED BY <1>1, <1>2

\* The checks before an execution find everything it needs.
LEMMA EligibleIsCovered ==
    ASSUME TypeInv, ApprovedByGrant, DryRunsRehearsed,
           NEW a \in Approvals, NEW u \in Users, ExecutionEligible(u, a, approval[a].plan)
    PROVE  SafeToRun(a) /\ \E g \in grants : CoveredBy(a, u, g)
  <1> USE NoneAssumption
  <1>1. ApprovalBinds(a, approval[a].plan) /\ PassedDryRun(a, approval[a].plan)
    BY DEF ExecutionEligible
  <1>2. PICK j \in Jobs : job[j].approval = a /\ job[j].result = "succeeded"
    BY <1>1 DEF PassedDryRun
  <1>3. SafeToRun(a)
    BY <1>2 DEF SafeToRun, ExecutionEligible, DryRunsRehearsed
  <1>4. approval[a].status = "approved" /\ (NeedsMfa(a) => approval[a].mfa /\ approval[a].approver = u)
    BY <1>1 DEF ExecutionEligible, ApprovalBinds, NeedsMfa
  <1>5. \E g \in grants : CoveredBy(a, u, g)
    BY <1>4 DEF ApprovedByGrant, CoveredBy
  <1> QED BY <1>3, <1>5

LEMMA CoveredAt ==
    ASSUME TypeInv, BoundToPassingCheck, ApprovedByGrant, DryRunsRehearsed,
           VerifiedIsCovered, [Next]_vars,
           NEW t \in Sessions, request'[t].stage \in {"verified", "consumed"},
           NEW a, a = request'[t].approval, NEW u, u = request'[t].user
    PROVE  /\ request'[t].op = "execute"
           /\ SafeToRun(a)'
           /\ \E g \in grants' : CoveredBy(a, u, g)'
  <1>1. request \in [Sessions -> Requests]
    BY DEF TypeInv, TypeOK
  <1>2. ASSUME request[t].op = "execute", request'[t].op = "execute",
               a = request[t].approval, u = request[t].user,
               SafeToRun(a), \E g \in grants : CoveredBy(a, u, g)
        PROVE  /\ request'[t].op = "execute"
               /\ SafeToRun(a)'
               /\ \E g \in grants' : CoveredBy(a, u, g)'
    <2>1. a \in Approvals /\ u \in Users /\ approval[a].status # "none"
      BY <1>2 DEF TypeInv, RequestShape, ValidRequest, TargetShape
    <2>2. PICK g \in grants : CoveredBy(a, u, g)
      BY <1>2
    <2> QED BY <1>2, <2>1, <2>2, CoverStays
  <1>3. CASE request'[t] = request[t]
    BY <1>2, <1>3 DEF VerifiedIsCovered
  <1>4. ASSUME NEW s \in Sessions, Close(s) PROVE request'[t] = request[t]
    BY <1>1, <1>4 DEF Close, NoRequest
  <1>5. ASSUME NEW s \in Sessions, BeginValidate(s) \/ BeginRequest(s) \/ ReadPlan(s)
                                          \/ GrantApproval(s) \/ BeginExecute(s)
        PROVE request'[t] = request[t]
    <2>1. CASE BeginValidate(s)
      BY <1>1, <2>1 DEF BeginValidate, NoRequest
    <2>2. CASE BeginRequest(s)
      BY <1>1, <2>2 DEF BeginRequest, NoRequest
    <2>3. CASE ReadPlan(s)
      BY <1>1, <2>3 DEF ReadPlan, Requests
    <2>5. CASE GrantApproval(s)
      BY <1>1, <2>5 DEF GrantApproval, Requests
    <2>4. CASE BeginExecute(s)
      <3>1. PICK q \in Requests : q.stage = "loaded" /\ request' = [request EXCEPT ![s] = q]
        <4>1. PICK v \in Users, b \in Approvals, j \in Or(Jobs) :
                request' = [request EXCEPT ![s] =
                  [NoRequest EXCEPT !.op = "execute", !.stage = "loaded", !.user = v,
                                    !.plan = approval[b].plan, !.approval = b, !.job = j,
                                    !.planView = "approved"]]
          BY <2>4 DEF BeginExecute
        <4>2. approval[b].plan \in Or(Plans)
          BY DEF TypeInv, TypeOK, ApprovalRows
        <4> QED BY <4>1, <4>2
                DEF NoRequest, Requests, Operations, Stages, Or, PlanStatuses
      <3> QED BY <1>1, <3>1
    <2> QED BY <1>5, <2>1, <2>2, <2>3, <2>4, <2>5
  <1>6. ASSUME NEW s \in Sessions, NEW op \in {"approve", "reject", "revoke"}, BeginDecision(s, op)
        PROVE request'[t] = request[t]
    BY <1>1, <1>6 DEF BeginDecision, NoRequest
  <1>7. ASSUME VerifyExecution(t)
        PROVE  /\ request'[t].op = "execute"
               /\ SafeToRun(a)'
               /\ \E g \in grants' : CoveredBy(a, u, g)'
    <2>1. /\ request'[t].op = "execute" /\ request[t].op = "execute"
          /\ a = request[t].approval /\ u = request[t].user
      BY <1>1, <1>7 DEF VerifyExecution, Serving, Requests
    <2>2. a \in Approvals /\ u \in Users /\ approval[a].plan = request[t].plan
      BY <2>1 DEF TypeInv, RequestShape, ValidRequest, TargetShape
    <2>3. ExecutionEligible(u, a, approval[a].plan)
      BY <1>7, <2>1, <2>2 DEF VerifyExecution
    <2>4. SafeToRun(a) /\ \E g \in grants : CoveredBy(a, u, g)
      BY <2>2, <2>3, EligibleIsCovered
    <2> QED BY <1>2, <2>1, <2>4
  <1>8. ASSUME ConsumeApproval(t)
        PROVE  /\ request'[t].op = "execute"
               /\ SafeToRun(a)'
               /\ \E g \in grants' : CoveredBy(a, u, g)'
    <2>1. /\ request'[t].op = "execute" /\ request[t].op = "execute" /\ request[t].stage = "verified"
          /\ a = request[t].approval /\ u = request[t].user
      BY <1>1, <1>8 DEF ConsumeApproval, Serving, Requests
    <2> QED BY <1>2, <2>1 DEF VerifiedIsCovered
  <1>9. ASSUME NEW s \in Sessions, VerifyExecution(s) \/ ConsumeApproval(s), s # t
        PROVE request'[t] = request[t]
    BY <1>1, <1>9 DEF VerifyExecution, ConsumeApproval
  <1>10. ASSUME NEW s \in Sessions, SessionStep(s), request'[t] # request[t]
         PROVE VerifyExecution(t) \/ ConsumeApproval(t)
    BY <1>4, <1>5, <1>6, <1>9, <1>10
       DEF SessionStep, GeneratePlan, CommitValidate, CommitRequest, CommitApprove, ApproveTooLate,
           CommitReject, CommitRevoke, ExpireApprovals, CreateDryRun, RerunDryRun, CommitExecute, Abort
  <1>11. request'[t] = request[t] \/ VerifyExecution(t) \/ ConsumeApproval(t)
    BY <1>10 DEF Next, TtlElapses, Deploy, vars
  <1> QED BY <1>3, <1>7, <1>8, <1>11

LEMMA CoveredStep ==
    TypeInv /\ BoundToPassingCheck /\ ApprovedByGrant /\ DryRunsRehearsed /\ VerifiedIsCovered /\ [Next]_vars
      => VerifiedIsCovered'
  <1> SUFFICES ASSUME TypeInv, BoundToPassingCheck, ApprovedByGrant, DryRunsRehearsed,
                      VerifiedIsCovered, [Next]_vars,
                      NEW t \in Sessions, request'[t].stage \in {"verified", "consumed"}
               PROVE  /\ request'[t].op = "execute"
                      /\ SafeToRun(request[t].approval)'
                      /\ \E g \in grants' : CoveredBy(request[t].approval, request[t].user, g)'
    BY DEF VerifiedIsCovered
  <1>1. PICK a, u : a = request'[t].approval /\ u = request'[t].user
    OBVIOUS
  <1>2. /\ request'[t].op = "execute"
        /\ SafeToRun(a)'
        /\ \E g \in grants' : CoveredBy(a, u, g)'
    BY <1>1, CoveredAt
  <1>3. /\ SafeToRun(a)' => SafeToRun(request[t].approval)'
        /\ \A g : CoveredBy(a, u, g)' => CoveredBy(request[t].approval, request[t].user, g)'
    BY <1>1 DEF SafeToRun, CoveredBy, NeedsMfa, CheckOf
  <1> QED BY <1>2, <1>3, Zenon

\* An execution under an existing approval, safe and covered, keeps its cover.
LEMMA ConsentStep == ConsentInv /\ GrantsAuthorised' /\ [Next]_vars => ConsentBeforeExecution' /\ ExecutionWasSafe'
  <1> SUFFICES ASSUME ConsentInv, GrantsAuthorised', [Next]_vars, NEW e \in executors'
               PROVE  /\ SafeToRun(e[1])'
                      /\ \E g \in grants' : Authorised(g)' /\ CoveredBy(e[1], e[2], g)'
    BY DEF ConsentBeforeExecution, ExecutionWasSafe, SafeToRun, CoveredBy, NeedsMfa
  <1>1. ASSUME e[1] \in Approvals, e[2] \in Users, approval[e[1]].status # "none", SafeToRun(e[1]),
               NEW g \in grants, CoveredBy(e[1], e[2], g)
        PROVE  /\ SafeToRun(e[1])'
               /\ \E h \in grants' : Authorised(h)' /\ CoveredBy(e[1], e[2], h)'
    <2>1. SafeToRun(e[1])' /\ g \in grants' /\ CoveredBy(e[1], e[2], g)'
      BY <1>1, CoverStays DEF ConsentInv
    <2>2. Authorised(g)'
      BY <2>1 DEF GrantsAuthorised
    <2> QED BY <2>1, <2>2
  <1>2. CASE e \in executors
    <2>1. e[1] \in Approvals /\ e[2] \in Users
      BY <1>2 DEF ConsentInv, TypeInv, TypeOK
    <2>2. approval[e[1]].status # "none"
      BY <1>2 DEF ConsentInv, ExecutorsExist
    <2>3. SafeToRun(e[1])
      BY <1>2 DEF ConsentInv, ExecutionWasSafe, SafeToRun
    <2>4. PICK g \in grants : CoveredBy(e[1], e[2], g)
      BY <1>2 DEF ConsentInv, ConsentBeforeExecution, CoveredBy, NeedsMfa
    <2> QED BY <1>1, <2>1, <2>2, <2>3, <2>4
  <1>3. ASSUME NEW s \in Sessions, CommitExecute(s), e \notin executors
        PROVE  /\ SafeToRun(e[1])'
               /\ \E g \in grants' : Authorised(g)' /\ CoveredBy(e[1], e[2], g)'
    <2>1. e[1] = request[s].approval /\ e[2] = request[s].user
      BY <1>3 DEF CommitExecute
    <2>2. e[1] \in Approvals /\ e[2] \in Users /\ approval[e[1]].status # "none"
      BY <1>3, <2>1 DEF CommitExecute, Serving, ConsentInv, TypeInv, TargetShape, RequestShape, ValidRequest
    <2>3. SafeToRun(e[1]) /\ \E g \in grants : CoveredBy(e[1], e[2], g)
      BY <1>3, <2>1 DEF CommitExecute, Serving, ConsentInv, VerifiedIsCovered
    <2>4. PICK g \in grants : CoveredBy(e[1], e[2], g)
      BY <2>3
    <2> QED BY <1>1, <2>2, <2>3, <2>4
  <1> QED BY <1>2, <1>3, ExecutionStep

LEMMA PlanStep ==
    [Next]_vars =>
        \/ UNCHANGED plan
        \/ \E s \in Sessions : \/ GeneratePlan(s) \/ CommitValidate(s) \/ CommitRequest(s)
                               \/ CommitApprove(s) \/ CommitReject(s) \/ CommitRevoke(s)
                               \/ ExpireApprovals(s) \/ CommitExecute(s)
  BY DEF Next, SessionStep, BeginValidate, BeginRequest, BeginDecision, ReadPlan, GrantApproval, ApproveTooLate,
         CreateDryRun, RerunDryRun, BeginExecute, VerifyExecution, ConsumeApproval, Abort, TtlElapses,
         Deploy, vars, tables

PlanOutcomes == {"succeeded", "verified", "rollback_required"}
JobOutcomes == {"succeeded", "rollback_required"}

\* Only an execution writes an execution's outcome.
LEMMA PlanOutcomeStep ==
    ASSUME TypeInv, [Next]_vars, NEW p \in Plans, plan'[p] \in PlanOutcomes
    PROVE  \/ plan[p] \in PlanOutcomes
           \/ \E s \in Sessions : CommitExecute(s) /\ request[s].plan = p
  <1>1. plan \in [Plans -> PlanStatuses]
    BY DEF TypeInv, TypeOK
  <1>2. ASSUME NEW s \in Sessions,
               \/ GeneratePlan(s) \/ CommitRequest(s) \/ CommitApprove(s) \/ CommitReject(s)
        PROVE  plan'[p] = plan[p]
    BY <1>1, <1>2 DEF GeneratePlan, CommitRequest, CommitApprove, CommitReject, PlanOutcomes
  <1>3. ASSUME NEW s \in Sessions, CommitValidate(s) PROVE plan'[p] = plan[p]
    BY <1>1, <1>3 DEF CommitValidate, ValidatedStatus, PlanOutcomes
  <1>4. ASSUME NEW s \in Sessions, CommitRevoke(s) \/ ExpireApprovals(s) PROVE plan'[p] = plan[p]
    BY <1>1, <1>4 DEF CommitRevoke, RevokedStatus, ExpireApprovals, PlanOutcomes
  <1>5. ASSUME NEW s \in Sessions, CommitExecute(s), request[s].plan # p PROVE plan'[p] = plan[p]
    BY <1>1, <1>5 DEF CommitExecute
  <1> QED BY <1>2, <1>3, <1>4, <1>5, PlanStep

LEMMA JobOutcomeStep ==
    ASSUME TypeInv, [Next]_vars, NEW j \in Jobs,
           job'[j].status \in JobOutcomes \/ job'[j].verification # "none"
    PROVE  \/ /\ job[j].status \in JobOutcomes \/ job[j].verification # "none"
              /\ job'[j].approval = job[j].approval
           \/ \E s \in Sessions : CommitExecute(s) /\ request[s].approval = job'[j].approval
  <1>1. job \in [Jobs -> JobRows]
    BY DEF TypeInv, TypeOK
  <1>2. ASSUME NEW s \in Sessions, CreateDryRun(s) PROVE job'[j] = job[j]
    <2>1. PICK i \in Jobs, p \in Plans, a \in Or(Approvals) : \E outcome \in SandboxOutcomes(p) :
              job' = [job EXCEPT ![i] =
                    [status |-> DryRunJobStatus(outcome), plan |-> p, approval |-> a,
                     result |-> outcome, verification |-> "none"]]
      BY <1>2 DEF CreateDryRun
    <2> QED BY <1>1, <2>1 DEF DryRunJobStatus, JobOutcomes
  <1>3. ASSUME NEW s \in Sessions, RerunDryRun(s)
        PROVE  /\ job[j].status \in JobOutcomes \/ job[j].verification # "none"
               /\ job'[j].approval = job[j].approval
    <2>1. PICK i \in Jobs : \E outcome \in SandboxOutcomes(job[i].plan) :
              job' = [job EXCEPT ![i] =
                    [@ EXCEPT !.status = DryRunJobStatus(outcome), !.result = outcome]]
      BY <1>3 DEF RerunDryRun
    <2> QED BY <1>1, <2>1 DEF DryRunJobStatus, JobOutcomes, JobRows
  <1>4. ASSUME NEW s \in Sessions, CommitExecute(s), job'[j] # job[j]
        PROVE  request[s].approval = job'[j].approval
    <2> DEFINE a == request[s].approval
               p == request[s].plan
    <2>1. PICK i \in Jobs : job' = [job EXCEPT ![i] =
              [@ EXCEPT !.status = ExecutedJobStatus(p), !.plan = p, !.approval = a,
                        !.verification = VerificationOf(p, job[i].verification)]]
      BY <1>4 DEF CommitExecute
    <2>2. i = j
      BY <1>1, <1>4, <2>1
    <2>3. job'[j] = [job[j] EXCEPT !.status = ExecutedJobStatus(p), !.plan = p, !.approval = a,
                                   !.verification = VerificationOf(p, job[j].verification)]
      BY <1>1, <2>1, <2>2
    <2>4. job[j] \in JobRows
      BY <1>1
    <2> HIDE DEF a
    <2>5. job'[j].approval = a
      BY <2>3, <2>4 DEF JobRows
    <2> QED BY <2>5 DEF a
  <1> QED BY <1>2, <1>3, <1>4, JobStep

LEMMA OutcomesStep == ConsentInv /\ [Next]_vars => OutcomesAreEarned'
  <1> SUFFICES ASSUME ConsentInv, [Next]_vars PROVE OutcomesAreEarned'
    OBVIOUS
  <1>1. ASSUME NEW s \in Sessions, CommitExecute(s)
        PROVE  /\ request[s].approval \in Approvals
               /\ approval'[request[s].approval].plan = request[s].plan
               /\ \E e \in executors' : e[1] = request[s].approval
    <2>1. /\ request[s].approval \in Approvals
          /\ approval[request[s].approval].status # "none"
          /\ approval[request[s].approval].plan = request[s].plan
      BY <1>1 DEF CommitExecute, Serving, ConsentInv, TypeInv, TargetShape, RequestShape, ValidRequest
    <2>2. approval'[request[s].approval].plan = request[s].plan
      BY <2>1, BindingStays DEF ConsentInv
    <2>3. <<request[s].approval, request[s].user>> \in executors'
      BY <1>1 DEF CommitExecute
    <2> QED BY <2>1, <2>2, <2>3
  <1>2. ASSUME NEW e \in executors
        PROVE  e \in executors' /\ approval'[e[1]].plan = approval[e[1]].plan
    BY HistoryGrows, BindingStays DEF ConsentInv, ExecutorsExist, TypeInv, TypeOK
  <1>3. ASSUME NEW p \in Plans, plan'[p] \in PlanOutcomes
        PROVE  \E e \in executors' : approval'[e[1]].plan = p
    <2>1. CASE plan[p] \in PlanOutcomes
      BY <1>2, <2>1 DEF ConsentInv, OutcomesAreEarned, PlanOutcomes
    <2> QED BY <1>1, <1>3, <2>1, PlanOutcomeStep DEF ConsentInv
  <1>4. ASSUME NEW j \in Jobs, job'[j].status \in JobOutcomes \/ job'[j].verification # "none"
        PROVE  \E e \in executors' : e[1] = job'[j].approval
    <2>1. CASE /\ job[j].status \in JobOutcomes \/ job[j].verification # "none"
               /\ job'[j].approval = job[j].approval
      BY <1>2, <2>1 DEF ConsentInv, OutcomesAreEarned, JobOutcomes
    <2> QED BY <1>1, <1>4, <2>1, JobOutcomeStep DEF ConsentInv
  <1> QED BY <1>3, <1>4 DEF OutcomesAreEarned, PlanOutcomes, JobOutcomes

LEMMA ConsentInit == Init => ConsentInv
  <1> USE NoneAssumption
  <1> SUFFICES ASSUME Init PROVE ConsentInv
    OBVIOUS
  <1>1. TypeInv
    BY TypeInit
  <1>2. ChecksRecorded /\ BoundToPassingCheck /\ ApprovedByGrant
    BY DEF Init, NoApproval, ChecksRecorded, BoundToPassingCheck, ApprovedByGrant
  <1>3. GrantedIsEntitled /\ VerifiedIsCovered /\ DryRunsRehearsed
    BY DEF Init, NoRequest, NoJob, GrantedIsEntitled, VerifiedIsCovered, DryRunsRehearsed
  <1>4. GrantsAuthorised /\ ExecutorsExist /\ ConsentBeforeExecution /\ ExecutionWasSafe
    BY DEF Init, GrantsAuthorised, ExecutorsExist, ConsentBeforeExecution, ExecutionWasSafe
  <1>5. OutcomesAreEarned
    BY DEF Init, NoJob, OutcomesAreEarned
  <1> QED BY <1>1, <1>2, <1>3, <1>4, <1>5 DEF ConsentInv

LEMMA ConsentInductive == Spec => []ConsentInv
  <1>1. ConsentInv /\ [Next]_vars => ConsentInv'
    <2> SUFFICES ASSUME ConsentInv, [Next]_vars PROVE ConsentInv'
      OBVIOUS
    <2>1. TypeInv'
      BY TypeStep DEF ConsentInv
    <2>2. ChecksRecorded' /\ BoundToPassingCheck'
      BY ChecksRecordedStep, BoundStep DEF ConsentInv
    <2>3. GrantedIsEntitled' /\ GrantsAuthorised' /\ ApprovedByGrant'
      BY EntitledStep, GrantsStep, ApprovedStep DEF ConsentInv
    <2>4. VerifiedIsCovered' /\ DryRunsRehearsed' /\ ExecutorsExist'
      BY CoveredStep, RehearsedStep, ExecutorsStep DEF ConsentInv
    <2>5. ConsentBeforeExecution' /\ ExecutionWasSafe' /\ OutcomesAreEarned'
      BY <2>3, ConsentStep, OutcomesStep
    <2> QED BY <2>1, <2>2, <2>3, <2>4, <2>5 DEF ConsentInv
  <1> QED BY <1>1, ConsentInit, PTL DEF Spec

\* Whatever is executed was granted by someone entitled to, with MFA where it is
\* required; for any number of concurrent requests.
THEOREM Consent == Spec => []ConsentBeforeExecution
  <1>1. ConsentInv => ConsentBeforeExecution
    BY DEF ConsentInv
  <1> QED BY <1>1, ConsentInductive, PTL

\* Whatever is executed passed the sandbox, has an adapter its risk allows and
\* was rehearsed under its approval; for any number of concurrent requests.
THEOREM Safety == Spec => []ExecutionWasSafe
  <1>1. ConsentInv => ExecutionWasSafe
    BY DEF ConsentInv
  <1> QED BY <1>1, ConsentInductive, PTL

\* The tables report an execution only if one was committed; for any number of
\* concurrent requests.
THEOREM Earned == Spec => []OutcomesAreEarned
  <1>1. ConsentInv => OutcomesAreEarned
    BY DEF ConsentInv
  <1> QED BY <1>1, ConsentInductive, PTL

-----------------------------------------------------------------------------
(* Closed and overdue approvals.                                           *)

\* An approval changes its status only by a request about it, or from pending or
\* none.
LEMMA StatusStep ==
    ASSUME TypeInv, [Next]_vars, NEW a \in Approvals, approval'[a].status # approval[a].status
    PROVE  \/ approval[a].status \in {"none", "pending"}
           \/ \E s \in Sessions : /\ request[s].approval = a
                                  /\ request[s].op \in Deciding \/ request[s].stage = "consumed"
  <1>1. approval \in [Approvals -> ApprovalRows]
    BY DEF TypeInv, TypeOK
  <1>2. ASSUME NEW s \in Sessions, CommitRequest(s) PROVE approval[a].status = "none"
    BY <1>1, <1>2 DEF CommitRequest
  <1>3. ASSUME NEW s \in Sessions, CommitApprove(s) \/ CommitReject(s) \/ CommitRevoke(s) \/ CommitExecute(s)
        PROVE /\ request[s].approval = a
              /\ request[s].op \in Deciding \/ request[s].stage = "consumed"
    <2>1. request[s].op \in Deciding \/ request[s].stage = "consumed"
      BY <1>3 DEF CommitApprove, CommitReject, CommitRevoke, CommitExecute, Serving, Deciding
    <2>2. CASE request[s].approval # a
      BY <1>1, <1>3, <2>2 DEF CommitApprove, CommitReject, CommitRevoke, CommitExecute, Decide
    <2> QED BY <2>1, <2>2
  <1>4. ASSUME NEW s \in Sessions, ExpireApprovals(s) PROVE approval[a].status = "pending"
    BY <1>1, <1>4 DEF ExpireApprovals, Overdue
  <1> QED BY <1>2, <1>3, <1>4, ApprovalStep

\* How a request of a step came to be.
Began(t) ==
    \/ request'[t].op \in {"validate", "request", "execute"} /\ request'[t].stage = "loaded"
    \/ /\ request'[t].op \in Deciding /\ request'[t].stage = "approval_read"
       /\ approval[request'[t].approval].status \in {"pending", "approved"}
Advanced(t) ==
    /\ request'[t].approval = request[t].approval
    /\ request'[t].op = request[t].op
    /\ \/ request[t].stage = "approval_read" /\ request'[t].stage = "loaded"
       \/ request[t].stage = "verified" /\ request'[t].stage = "consumed"
Granted(t) ==
    /\ request'[t].approval = request[t].approval
    /\ request[t].op = "approve" /\ request'[t].op = "approve" /\ request'[t].stage = "granted"
    /\ request[t].approval \notin lapsed
Verified(t) ==
    /\ request'[t].approval = request[t].approval
    /\ request'[t].op = "execute" /\ request'[t].stage = "verified"
    /\ approval[request[t].approval].status = "approved"
    /\ request[t].approval \notin lapsed

\* Who starts to hold on to an approval: a decision that finds it open, an approve
\* that finds it in time, an execution that finds it granted and in time.
LEMMA HoldStep ==
    ASSUME TypeInv, [Next]_vars, NEW t \in Sessions
    PROVE  \/ request'[t] = request[t] \/ request'[t] = NoRequest
           \/ Began(t) \/ Advanced(t) \/ Granted(t) \/ Verified(t)
  <1> DEFINE Kinds == \/ request'[t] = request[t] \/ request'[t] = NoRequest
                      \/ Began(t) \/ Advanced(t) \/ Granted(t) \/ Verified(t)
  <1>1. request \in [Sessions -> Requests]
    BY DEF TypeInv, TypeOK
  <1>2. ASSUME NEW s \in Sessions, Close(s) PROVE Kinds
    BY <1>1, <1>2 DEF Close
  <1>3. ASSUME NEW s \in Sessions, BeginValidate(s) PROVE Kinds
    BY <1>1, <1>3 DEF BeginValidate, NoRequest, Began
  <1>4. ASSUME NEW s \in Sessions, BeginRequest(s) PROVE Kinds
    BY <1>1, <1>4 DEF BeginRequest, NoRequest, Began
  <1>5. ASSUME NEW s \in Sessions, BeginExecute(s) PROVE Kinds
    BY <1>1, <1>5 DEF BeginExecute, NoRequest, Began
  <1>6. ASSUME NEW s \in Sessions, NEW op \in {"approve", "reject", "revoke"}, BeginDecision(s, op) PROVE Kinds
    BY <1>1, <1>6 DEF BeginDecision, NoRequest, Deciding, DecidableStatuses, Began
  <1>7. ASSUME NEW s \in Sessions, ReadPlan(s) PROVE Kinds
    <2>1. CASE s = t
      BY <1>1, <1>7, <2>1 DEF ReadPlan, Requests, Advanced
    <2> QED BY <1>1, <1>7, <2>1 DEF ReadPlan
  <1>8. ASSUME NEW s \in Sessions, VerifyExecution(s) PROVE Kinds
    <2>1. CASE s = t
      <3>1. request[t].op = "execute" /\ ApprovalBinds(request[t].approval, request[t].plan)
        BY <1>8, <2>1 DEF VerifyExecution, ExecutionEligible, Serving
      <3>2. request'[t].approval = request[t].approval /\ request'[t].op = "execute" /\ request'[t].stage = "verified"
        BY <1>1, <1>8, <2>1, <3>1 DEF VerifyExecution, Requests
      <3> QED BY <3>1, <3>2 DEF ApprovalBinds, Verified
    <2> QED BY <1>1, <1>8, <2>1 DEF VerifyExecution
  <1>9. ASSUME NEW s \in Sessions, ConsumeApproval(s) PROVE Kinds
    <2>1. CASE s = t
      BY <1>1, <1>9, <2>1 DEF ConsumeApproval, Serving, Requests, Advanced
    <2> QED BY <1>1, <1>9, <2>1 DEF ConsumeApproval
  <1>11. ASSUME NEW s \in Sessions, GrantApproval(s) PROVE Kinds
    <2>1. CASE s = t
      BY <1>1, <1>11, <2>1 DEF GrantApproval, Serving, Requests, Granted
    <2> QED BY <1>1, <1>11, <2>1 DEF GrantApproval
  <1>10. ASSUME NEW s \in Sessions, SessionStep(s) PROVE Kinds
    BY <1>2, <1>3, <1>4, <1>5, <1>6, <1>7, <1>8, <1>9, <1>10, <1>11
       DEF SessionStep, GeneratePlan, CommitValidate, CommitRequest, CommitApprove, ApproveTooLate,
           CommitReject, CommitRevoke, ExpireApprovals, CreateDryRun, RerunDryRun, CommitExecute, Abort
  <1> QED BY <1>10 DEF Next, TtlElapses, Deploy, vars

LEMMA ClosedStep ==
    ASSUME TypeInv, [Next]_vars, NEW a \in Approvals, Closed(a)
    PROVE  Closed(a)' /\ approval'[a].status = approval[a].status
  <1>1. approval'[a].status = approval[a].status
    <2> SUFFICES ASSUME approval'[a].status # approval[a].status PROVE FALSE
      OBVIOUS
    <2>1. \/ approval[a].status \in {"none", "pending"}
          \/ \E s \in Sessions : /\ request[s].approval = a
                                 /\ request[s].op \in Deciding \/ request[s].stage = "consumed"
      BY StatusStep
    <2> QED BY <2>1 DEF Closed, Deciding
  <1>2. ASSUME NEW t \in Sessions, request'[t].approval = a,
               \/ request'[t].op \in {"approve", "reject", "revoke"}
               \/ request'[t].stage \in {"verified", "consumed"}
        PROVE  FALSE
    <2>1. CASE request'[t] = request[t] \/ Advanced(t)
      BY <1>2, <2>1 DEF Closed, Advanced
    <2>2. CASE Began(t) \/ Verified(t)
      BY <1>2, <2>2 DEF Closed, Began, Verified, Deciding
    <2>3. CASE request'[t] = NoRequest
      BY <1>2, <2>3 DEF NoRequest
    <2>4. CASE Granted(t)
      BY <1>2, <2>4 DEF Closed, Granted
    <2> QED BY <2>1, <2>2, <2>3, <2>4, HoldStep
  <1> QED BY <1>1, <1>2 DEF Closed

\* A closed approval stays closed, with its outcome, once the requests that read
\* it open are over; for any number of concurrent requests.
THEOREM ClosedForGood == Spec => ClosedStaysClosed
  <1>1. TypeInv /\ [Next]_vars =>
            [\A a \in Approvals : Closed(a) => Closed(a)' /\ approval'[a].status = approval[a].status]_vars
    BY ClosedStep
  <1>2. TypeInv /\ [Next]_vars => TypeInv'
    BY TypeStep
  <1> QED BY <1>1, <1>2, TypeInit, PTL DEF Spec, ClosedStaysClosed

\* After the time-to-live no approve passes its checks, and so none commits later.
LEMMA LateGrant ==
    ASSUME TypeInv, [Next]_vars, NEW a \in Approvals, a \in lapsed, ~Granting(a)
    PROVE  ~Granting(a)' /\ \A g \in grants' \ grants : g.approval # a
  <1>1. ASSUME NEW t \in Sessions, request'[t].approval = a, request'[t].stage = "granted"
        PROVE  FALSE
    <2>1. CASE request'[t] = request[t]
      BY <1>1, <2>1 DEF Granting
    <2>2. CASE Granted(t) \/ Verified(t) \/ Began(t) \/ Advanced(t) \/ request'[t] = NoRequest
      BY <1>1, <2>2 DEF Granted, Verified, Began, Advanced, NoRequest
    <2> QED BY <2>1, <2>2, HoldStep
  <1>2. ASSUME NEW s \in Sessions, CommitApprove(s), NEW g \in grants' \ grants
        PROVE  g.approval # a
    <2>1. g.approval = request[s].approval /\ request[s].stage = "granted"
      BY <1>2 DEF CommitApprove, Serving
    <2> QED BY <2>1 DEF Granting
  <1> QED BY <1>1, <1>2, GrantStep DEF Granting

\* Nor does an execution.
LEMMA LateExecution ==
    ASSUME TypeInv, [Next]_vars, NEW a \in Approvals, a \in lapsed, ~Executing(a)
    PROVE  ~Executing(a)' /\ executions'[a] = executions[a]
  <1>1. ASSUME NEW t \in Sessions, request'[t].approval = a,
               request'[t].stage \in {"verified", "consumed"}
        PROVE  FALSE
    <2>1. CASE request'[t] = request[t] \/ Advanced(t)
      BY <1>1, <2>1 DEF Executing, Advanced
    <2>2. CASE Granted(t) \/ Verified(t) \/ Began(t) \/ request'[t] = NoRequest
      BY <1>1, <2>2 DEF Granted, Verified, Began, NoRequest
    <2> QED BY <2>1, <2>2, HoldStep
  <1>2. ASSUME NEW s \in Sessions, CommitExecute(s) PROVE executions'[a] = executions[a]
    <2>1. request[s].approval # a
      BY <1>2 DEF CommitExecute, Serving, Executing
    <2>2. executions \in [Approvals -> Nat]
      BY DEF TypeInv, TypeOK
    <2>3. executions' = [executions EXCEPT ![request[s].approval] = @ + 1]
      BY <1>2 DEF CommitExecute
    <2> QED BY <2>1, <2>2, <2>3
  <1> QED BY <1>1, <1>2, ExecutionStep DEF Executing

\* An approval whose time has run out is granted only by an approve, and executed
\* only by an execution, that passed its checks in time; for any number of
\* concurrent requests.
THEOREM ExpiryIsFinal == Spec => NoUseAfterExpiry
  <1>1. TypeInv /\ [Next]_vars =>
            [\A a \in lapsed :
                /\ ~Granting(a) => ~Granting(a)' /\ \A g \in grants' \ grants : g.approval # a
                /\ ~Executing(a) => ~Executing(a)' /\ executions'[a] = executions[a]]_vars
    BY LateGrant, LateExecution DEF TypeInv, TypeOK
  <1>2. TypeInv /\ [Next]_vars => TypeInv'
    BY TypeStep
  <1> QED BY <1>1, <1>2, TypeInit, PTL DEF Spec, NoUseAfterExpiry
=============================================================================
