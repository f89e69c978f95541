----------------------------- MODULE Remediation -----------------------------
(***************************************************************************)
(* The remediation workflow of AuthClaw as the API runs it: HTTP requests, *)
(* each one database transaction that commits once at its end, working on  *)
(* the plans, policy checks, approvals and jobs of one tenant.             *)
(*                                                                         *)
(* A session reads the rows a request needs, keeps what it read (the ORM   *)
(* identity map is never refreshed and nothing is read FOR UPDATE), and    *)
(* writes by primary key at READ COMMITTED.  The reads that another        *)
(* transaction can make stale are steps of their own; the writes of a      *)
(* request, invisible until it commits, are the step that commits them.    *)
(* Executing a job is the exception: it flushes the consumed approval      *)
(* early and so holds that row's lock until it ends.                       *)
(*                                                                         *)
(* An operator whose name starts with Faulty is the operator after it with *)
(* a plausible bug; no action uses it.                                     *)
(***************************************************************************)
EXTENDS RemediationRules

CONSTANTS
    Plans, Approvals, Jobs,   \* rows that may be inserted
    Users, Sessions,          \* who makes requests, and the connections that serve them
    Versions,                 \* builds of the policy validator
    UserRoles,                \* the roles of each user
    Contents,                 \* what the generated plans are about
    ArtifactLevels,           \* levels classify_action_risk gives to passing artifacts
    ExpirySweep,              \* whether something calls expire_approvals
    None                      \* the NULL of an optional column

ASSUME NoneAssumption ==
    None \notin Plans \cup Approvals \cup Jobs \cup Users \cup Versions \cup Verdicts
ASSUME UsersAssumption == UserRoles \in [Users -> SUBSET Roles]
ASSUME ContentsAssumption == Contents \subseteq PlanContents
ASSUME LevelsAssumption == ArtifactLevels \subseteq Levels
ASSUME VersionsAssumption == Versions # {}
ASSUME SweepAssumption == ExpirySweep \in BOOLEAN

VARIABLES
    plan,          \* remediation_plans: the status of each plan
    content,       \* remediation_plans and _artifacts: what each plan is about
    verdict,       \* remediation_policy_checks: the check of a plan by a build
    latest,        \* the build that inserted the plan's newest check
    latestPassed,  \* the build that inserted the plan's newest passing check
    build,         \* the validator build that is deployed
    approval,      \* remediation_approvals
    lapsed,        \* the approvals whose expires_at has passed
    job,           \* remediation_execution_jobs with dry-run and verification results
    request,       \* the request each session is serving
    grants,        \* history: every committed approval decision
    executions,    \* history: how often an approval's execution was committed
    executors,     \* history: who executed under which approval
    rehearsed      \* history: the approvals under which a dry run has succeeded

tables == <<plan, content, verdict, latest, latestPassed, approval, job>>
history == <<grants, executions, executors, rehearsed>>
vars == <<plan, content, verdict, latest, latestPassed, build, approval, lapsed,
          job, request, grants, executions, executors, rehearsed>>

Or(S) == S \cup {None}

ApprovalRows ==
    [status : ApprovalStatuses, plan : Or(Plans), build : Or(Versions),
     requestedBy : Or(Users), approver : Or(Users), mfa : BOOLEAN]
JobRows ==
    [status : JobStatuses, plan : Or(Plans), approval : Or(Approvals),
     result : DryRunStatuses, verification : {"none", "verified", "failed"}]
Operations == {"none", "validate", "request", "approve", "reject", "revoke", "execute"}
\* idle: no request.  approval_read: the approval row is loaded.  loaded: every
\* row is.  granted: an approve has flushed the approval as approved, holds the
\* row lock and has passed its checks.  verified: an execution has passed its
\* checks.  consumed: it has flushed the approval as used and holds the row lock.
Stages == {"idle", "approval_read", "loaded", "granted", "verified", "consumed"}
Requests ==
    [op : Operations, stage : Stages, user : Or(Users), plan : Or(Plans),
     approval : Or(Approvals), job : Or(Jobs), build : Or(Versions),
     planView : PlanStatuses, mfa : BOOLEAN]
Grants == [approval : Approvals, by : Users, mfa : BOOLEAN]

NoApproval == [status |-> "none", plan |-> None, build |-> None,
               requestedBy |-> None, approver |-> None, mfa |-> FALSE]
NoJob == [status |-> "none", plan |-> None, approval |-> None,
          result |-> "none", verification |-> "none"]
NoRequest == [op |-> "none", stage |-> "idle", user |-> None, plan |-> None,
              approval |-> None, job |-> None, build |-> None, planView |-> "none",
              mfa |-> FALSE]

Init ==
    /\ plan = [p \in Plans |-> "none"]
    /\ content \in [Plans -> Contents]
    /\ verdict = [p \in Plans |-> [v \in Versions |-> None]]
    /\ latest = [p \in Plans |-> None]
    /\ latestPassed = [p \in Plans |-> None]
    /\ build \in Versions
    /\ approval = [a \in Approvals |-> NoApproval]
    /\ lapsed = {}
    /\ job = [j \in Jobs |-> NoJob]
    /\ request = [s \in Sessions |-> NoRequest]
    /\ grants = {}
    /\ executions = [a \in Approvals |-> 0]
    /\ executors = {}
    /\ rehearsed = {}

-----------------------------------------------------------------------------
(* Requests and the rows they see.                                         *)

Idle(s) == request[s].stage = "idle"
Serving(s, op, stage) == request[s].op = op /\ request[s].stage = stage
Close(s) == request' = [request EXCEPT ![s] = NoRequest]
HasRole(u, roles) == UserRoles[u] \cap roles # {}
\* Operations that do not record their actor are open to any user with a write role.
SomeWriter == \E u \in Users : HasRole(u, WriteRoles)

\* The UPDATE that grants or consumes an approval holds its row lock until the
\* transaction ends; any other write of the row waits for it.
RowLocked(a) == \E t \in Sessions : request[t].stage \in {"granted", "consumed"} /\ request[t].approval = a

\* The policy check an approval is bound to.
CheckOf(a) == verdict[approval[a].plan][approval[a].build]
CheckPassed(a) == CheckOf(a) # None /\ CheckOf(a).passed

-----------------------------------------------------------------------------
(* Plans and policy checks.                                                *)

\* A plan is generated together with its only artifact and a rollback plan.
GeneratePlan(s) ==
    /\ Idle(s)
    /\ SomeWriter
    /\ \E p \in Plans :
        /\ plan[p] = "none"
        /\ plan' = [plan EXCEPT ![p] = "plan_drafted"]
    /\ UNCHANGED <<content, verdict, latest, latestPassed, build, approval, lapsed, job,
                   request, history>>

BeginValidate(s) ==
    /\ Idle(s)
    /\ SomeWriter
    /\ \E p \in Plans :
        /\ plan[p] # "none"
        /\ request' = [request EXCEPT ![s] =
                [NoRequest EXCEPT !.op = "validate", !.stage = "loaded", !.plan = p,
                                  !.build = build, !.planView = plan[p]]]
    /\ UNCHANGED <<tables, build, lapsed, history>>

PossibleVerdicts(p) ==
    {d \in Verdicts : VerdictPossible(content[p].risk, d) /\ (d.passed => d.level \in ArtifactLevels)}

FaultyValidatedStatus(p, view, d) == IF d.passed THEN "plan_validated" ELSE plan[p]

\* The plan moves only from the status this request read.
ValidatedStatus(p, view, d) ==
    IF d.passed /\ view = "plan_drafted" THEN "plan_validated" ELSE plan[p]

\* The check's hash covers the validator version: a build that has checked the
\* plan before finds its own check again, a new build inserts a new one (and
\* aborts if another request inserts it first: the hash is unique for a plan).
CommitValidate(s) ==
    LET p == request[s].plan
        v == request[s].build
    IN  /\ Serving(s, "validate", "loaded")
        /\ \E d \in (IF verdict[p][v] = None THEN PossibleVerdicts(p) ELSE {verdict[p][v]}) :
            /\ verdict' = [verdict EXCEPT ![p][v] = d]
            /\ latest' = [latest EXCEPT ![p] = IF verdict[p][v] = None THEN v ELSE @]
            /\ latestPassed' = [latestPassed EXCEPT ![p] =
                                  IF verdict[p][v] = None /\ d.passed THEN v ELSE @]
            /\ plan' = [plan EXCEPT ![p] = ValidatedStatus(p, request[s].planView, d)]
        /\ Close(s)
        /\ UNCHANGED <<content, build, approval, lapsed, job, history>>

-----------------------------------------------------------------------------
(* Approvals.                                                              *)

BeginRequest(s) ==
    /\ Idle(s)
    /\ \E p \in Plans, u \in Users :
        /\ HasRole(u, WriteRoles)
        /\ plan[p] = "plan_validated"
        /\ request' = [request EXCEPT ![s] =
                [NoRequest EXCEPT !.op = "request", !.stage = "loaded", !.user = u,
                                  !.plan = p, !.planView = plan[p]]]
    /\ UNCHANGED <<tables, build, lapsed, history>>

\* The newest check of the plan must have passed; the approval is bound to it.
CommitRequest(s) ==
    LET p == request[s].plan
    IN  /\ Serving(s, "request", "loaded")
        /\ CanTransition(request[s].planView, "approval_requested")
        /\ latest[p] # None
        /\ verdict[p][latest[p]].passed
        /\ \E a \in Approvals :
            /\ approval[a].status = "none"
            /\ approval' = [approval EXCEPT ![a] =
                  [status |-> "pending", plan |-> p, build |-> latest[p],
                   requestedBy |-> request[s].user, approver |-> None, mfa |-> FALSE]]
        /\ plan' = [plan EXCEPT ![p] = "approval_requested"]
        /\ Close(s)
        /\ UNCHANGED <<content, verdict, latest, latestPassed, build, lapsed, job, history>>

\* Who may decide an approval, and the statuses in which the decision is open.
DeciderRoles(op) == IF op = "revoke" THEN PrivilegedRoles ELSE WriteRoles
FaultyDecidableStatuses(op) == IF op = "revoke" THEN {"pending", "approved", "used"} ELSE {"pending"}
DecidableStatuses(op) == IF op = "revoke" THEN {"pending", "approved"} ELSE {"pending"}

\* approve, reject and revoke first read the approval ...
BeginDecision(s, op) ==
    /\ Idle(s)
    /\ \E a \in Approvals, u \in Users :
        /\ HasRole(u, DeciderRoles(op))
        /\ approval[a].status \in DecidableStatuses(op)
        /\ request' = [request EXCEPT ![s] =
                [NoRequest EXCEPT !.op = op, !.stage = "approval_read", !.user = u,
                                  !.plan = approval[a].plan, !.approval = a]]
    /\ UNCHANGED <<tables, build, lapsed, history>>

\* ... and then its plan; approve goes on only if the approval has time left.
ReadPlan(s) ==
    /\ request[s].stage = "approval_read"
    /\ request[s].op = "approve" => request[s].approval \notin lapsed
    /\ request' = [request EXCEPT ![s].stage = "loaded",
                                  ![s].planView = plan[request[s].plan]]
    /\ UNCHANGED <<tables, build, lapsed, history>>

\* An approval is stamped with who decided it; a refusal leaves mfa alone.
Decide(s, status) ==
    approval' = [approval EXCEPT ![request[s].approval] =
                    [@ EXCEPT !.status = status, !.approver = request[s].user]]

FaultyMayGrant(u, a, mfa) ==
    LET level == CheckOf(a).level
    IN  /\ HasRole(u, ApprovalRoleMatrix[level])
        /\ level \in ElevatedLevels => mfa

\* The role matrix, and for elevated levels MFA and separation of duties.
MayGrant(u, a, mfa) ==
    LET level == CheckOf(a).level
    IN  /\ HasRole(u, ApprovalRoleMatrix[level])
        /\ level \in ElevatedLevels => mfa /\ u # approval[a].requestedBy

\* The approval is flushed as approved, which waits for its row lock, and the
\* state machine checks the expiry for the last time.
GrantApproval(s) ==
    LET a == request[s].approval
    IN  /\ Serving(s, "approve", "loaded")
        /\ ~RowLocked(a)
        /\ a \notin lapsed
        /\ CheckPassed(a)
        /\ CanTransition(request[s].planView, "approved")
        /\ \E mfa \in BOOLEAN :
            /\ MayGrant(request[s].user, a, mfa)
            /\ request' = [request EXCEPT ![s].stage = "granted", ![s].mfa = mfa]
        /\ UNCHANGED <<tables, build, lapsed, history>>

\* The plan is flushed, events are sent to Kafka, and only then the endpoint
\* commits: the time-to-live may have run out meanwhile.
CommitApprove(s) ==
    LET a == request[s].approval
        p == request[s].plan
        u == request[s].user
        mfa == request[s].mfa
    IN  /\ Serving(s, "approve", "granted")
        /\ approval' = [approval EXCEPT ![a] =
              [@ EXCEPT !.status = "approved", !.approver = u, !.mfa = mfa]]
        /\ grants' = grants \cup {[approval |-> a, by |-> u, mfa |-> mfa]}
        /\ plan' = [plan EXCEPT ![p] = "approved"]
        /\ Close(s)
        /\ UNCHANGED <<content, verdict, latest, latestPassed, build, lapsed, job,
                       executions, executors, rehearsed>>

\* approve marks an overdue approval and its plan expired and then raises; the
\* endpoint does not commit, so the marks are rolled back.
ApproveTooLate(s) ==
    /\ Serving(s, "approve", "approval_read")
    /\ request[s].approval \in lapsed
    /\ Close(s)
    /\ UNCHANGED <<tables, build, lapsed, history>>

CommitReject(s) ==
    /\ Serving(s, "reject", "loaded")
    /\ ~RowLocked(request[s].approval)
    /\ CanTransition(request[s].planView, "rejected")
    /\ Decide(s, "rejected")
    /\ plan' = [plan EXCEPT ![request[s].plan] = "rejected"]
    /\ Close(s)
    /\ UNCHANGED <<content, verdict, latest, latestPassed, build, lapsed, job, history>>

FaultyRevokedStatusKeeps(p, view) == plan[p]
FaultyRevokedStatusReopens(p, view) == IF view = "approval_requested" THEN "plan_validated" ELSE plan[p]

\* Revoking a pending approval rejects the plan; revoking a granted one leaves
\* the plan approved.
RevokedStatus(p, view) == IF view = "approval_requested" THEN "rejected" ELSE plan[p]

CommitRevoke(s) ==
    LET p == request[s].plan
    IN  /\ Serving(s, "revoke", "loaded")
        /\ ~RowLocked(request[s].approval)
        /\ Decide(s, "revoked")
        /\ plan' = [plan EXCEPT ![p] = RevokedStatus(p, request[s].planView)]
        /\ Close(s)
        /\ UNCHANGED <<content, verdict, latest, latestPassed, build, lapsed, job, history>>

Overdue == {a \in lapsed : approval[a].status = "pending"}
HasOverdue(p) == \E a \in Overdue : approval[a].plan = p

\* expire_approvals resolves every overdue pending approval in one transaction.
\* Only tests call it, with no other request in progress: so its reads and its
\* writes are one step.
ExpireApprovals(s) ==
    /\ ExpirySweep
    /\ \A t \in Sessions : Idle(t)
    /\ Overdue # {}
    /\ approval' = [a \in Approvals |->
          IF a \in Overdue THEN [approval[a] EXCEPT !.status = "expired"] ELSE approval[a]]
    /\ plan' = [p \in Plans |->
          IF plan[p] = "approval_requested" /\ HasOverdue(p) THEN "expired" ELSE plan[p]]
    /\ UNCHANGED <<content, verdict, latest, latestPassed, build, lapsed, job, request, history>>

-----------------------------------------------------------------------------
(* Dry runs.                                                               *)

FaultyBindsAnyCheck(a, p) ==
    /\ approval[a].plan = p
    /\ approval[a].status = "approved"
    /\ a \notin lapsed
    /\ CheckPassed(a)
    /\ MfaRequired(content[p].risk, CheckOf(a).level) => approval[a].mfa
FaultyBindsForever(a, p) ==
    /\ approval[a].plan = p
    /\ approval[a].status = "approved"
    /\ CheckPassed(a)
    /\ latest[p] = approval[a].build
    /\ MfaRequired(content[p].risk, CheckOf(a).level) => approval[a].mfa

\* The binding every use of an approval verifies.
ApprovalBinds(a, p) ==
    /\ approval[a].plan = p
    /\ approval[a].status = "approved"
    /\ a \notin lapsed
    /\ CheckPassed(a)
    /\ latest[p] = approval[a].build
    /\ MfaRequired(content[p].risk, CheckOf(a).level) => approval[a].mfa

\* A dry run without an approval is for plans of low risk whose newest passing
\* check is not elevated.
DryRunNeedsApproval(p) ==
    \/ content[p].risk = "high"
    \/ latestPassed[p] # None /\ verdict[p][latestPassed[p]].level \in ElevatedLevels

\* The sandbox is static and so always answers alike, unless it fails itself.
SandboxOutcomes(p) == {"failed", IF content[p].sandbox THEN "succeeded" ELSE "rejected"}
FaultyDryRunJobSucceeds(outcome) == IF outcome = "succeeded" THEN "succeeded" ELSE "dry_run_failed"
FaultyDryRunJobQueued(outcome) == IF outcome = "succeeded" THEN "dry_run_succeeded" ELSE "queued"
DryRunJobStatus(outcome) == IF outcome = "succeeded" THEN "dry_run_succeeded" ELSE "dry_run_failed"
Rehearse(a, outcome) ==
    rehearsed' = rehearsed \cup (IF outcome = "succeeded" /\ a # None THEN {a} ELSE {})

\* Creating and running a dry run inserts rows only: one step.
CreateDryRun(s) ==
    /\ Idle(s)
    /\ SomeWriter
    /\ \E j \in Jobs, p \in Plans, a \in Or(Approvals) : \E outcome \in SandboxOutcomes(p) :
        /\ job[j].status = "none"
        /\ plan[p] # "none"
        /\ IF a = None THEN ~DryRunNeedsApproval(p)
                       ELSE plan[p] = "approved" /\ ApprovalBinds(a, p)
        /\ job' = [job EXCEPT ![j] =
              [status |-> DryRunJobStatus(outcome), plan |-> p, approval |-> a,
               result |-> outcome, verification |-> "none"]]
        /\ Rehearse(a, outcome)
    /\ UNCHANGED <<plan, content, verdict, latest, latestPassed, build, approval, lapsed,
                   request, grants, executions, executors>>

\* Running the dry run of a job again checks nothing and overwrites its status.
RerunDryRun(s) ==
    /\ Idle(s)
    /\ SomeWriter
    /\ \E j \in {i \in Jobs : job[i].result # "none"} : \E outcome \in SandboxOutcomes(job[j].plan) :
        /\ job' = [job EXCEPT ![j] = [@ EXCEPT !.status = DryRunJobStatus(outcome), !.result = outcome]]
        /\ Rehearse(job[j].approval, outcome)
    /\ UNCHANGED <<plan, content, verdict, latest, latestPassed, build, approval, lapsed,
                   request, grants, executions, executors>>

-----------------------------------------------------------------------------
(* Execution.                                                              *)

\* The request names an approval of the plan, or a job that is bound to one;
\* the plan is read before the approval.
BeginExecute(s) ==
    /\ Idle(s)
    /\ \E u \in Users, a \in Approvals, j \in Or(Jobs) :
        /\ HasRole(u, WriteRoles)
        /\ approval[a].status # "none"
        /\ j # None => job[j].approval = a
        /\ plan[approval[a].plan] = "approved"
        /\ request' = [request EXCEPT ![s] =
                [NoRequest EXCEPT !.op = "execute", !.stage = "loaded", !.user = u,
                                  !.plan = approval[a].plan, !.approval = a, !.job = j,
                                  !.planView = "approved"]]
    /\ UNCHANGED <<tables, build, lapsed, history>>

FaultyPassedDryRun(a, p) == \E j \in Jobs : job[j].plan = p /\ job[j].result = "succeeded"
PassedDryRun(a, p) ==
    \E j \in Jobs : job[j].plan = p /\ job[j].approval = a /\ job[j].result = "succeeded"

FaultyEligibleForAnyone(u, a, p) ==
    /\ ApprovalBinds(a, p)
    /\ PassedDryRun(a, p)
    /\ AdapterAllowed(content[p].risk, content[p].adapter)
    /\ content[p].sandbox
FaultyEligibleOnAnyAdapter(u, a, p) ==
    /\ ApprovalBinds(a, p)
    /\ MfaRequired(content[p].risk, CheckOf(a).level) => approval[a].approver = u
    /\ PassedDryRun(a, p)
    /\ content[p].sandbox

\* Where MFA is required the execution is bound to the approver who presented it.
ExecutionEligible(u, a, p) ==
    /\ ApprovalBinds(a, p)
    /\ MfaRequired(content[p].risk, CheckOf(a).level) => approval[a].approver = u
    /\ PassedDryRun(a, p)
    /\ AdapterAllowed(content[p].risk, content[p].adapter)
    /\ content[p].sandbox

VerifyExecution(s) ==
    /\ Serving(s, "execute", "loaded")
    /\ ExecutionEligible(request[s].user, request[s].approval, request[s].plan)
    /\ request' = [request EXCEPT ![s].stage = "verified"]
    /\ UNCHANGED <<tables, build, lapsed, history>>

\* UPDATE remediation_approvals SET status = 'used', without a condition on the
\* status: it waits for the row lock and then holds it.
ConsumeApproval(s) ==
    /\ Serving(s, "execute", "verified")
    /\ ~RowLocked(request[s].approval)
    /\ request' = [request EXCEPT ![s].stage = "consumed"]
    /\ UNCHANGED <<tables, build, lapsed, history>>

ExecutionSucceeds(p) == content[p].adapter # "simulated_failing"

\* A success is verified at once, unless the job has a verification already.
ExecutedPlanStatus(p, verification) ==
    IF ~ExecutionSucceeds(p) THEN "rollback_required"
    ELSE IF verification = "none" THEN "verified" ELSE "succeeded"
ExecutedJobStatus(p) == IF ExecutionSucceeds(p) THEN "succeeded" ELSE "rollback_required"
VerificationOf(p, verification) ==
    IF verification # "none" THEN verification
    ELSE IF ExecutionSucceeds(p) THEN "verified" ELSE "failed"

\* The adapter runs and everything is committed: the used approval, the job,
\* its verification and the plan's walk from approved to its last status.
CommitExecute(s) ==
    LET a == request[s].approval
        p == request[s].plan
    IN  /\ Serving(s, "execute", "consumed")
        /\ \E j \in Jobs :
            /\ IF request[s].job = None THEN job[j].status = "none" ELSE j = request[s].job
            /\ job' = [job EXCEPT ![j] =
                  [@ EXCEPT !.status = ExecutedJobStatus(p), !.plan = p, !.approval = a,
                            !.verification = VerificationOf(p, job[j].verification)]]
            /\ plan' = [plan EXCEPT ![p] = ExecutedPlanStatus(p, job[j].verification)]
        /\ approval' = [approval EXCEPT ![a] = [@ EXCEPT !.status = "used"]]
        /\ executions' = [executions EXCEPT ![a] = @ + 1]
        /\ executors' = executors \cup {<<a, request[s].user>>}
        /\ Close(s)
        /\ UNCHANGED <<content, verdict, latest, latestPassed, build, lapsed, grants, rehearsed>>

-----------------------------------------------------------------------------
(* Failure and the environment.                                            *)

\* An exception, a refusal by the rate limiter or by a worker token, a lost
\* connection or a crash: the transaction is rolled back, row locks included.
Abort(s) ==
    /\ ~Idle(s)
    /\ Close(s)
    /\ UNCHANGED <<tables, build, lapsed, history>>

\* The time-to-live of an approval runs out.
TtlElapses(a) ==
    /\ approval[a].status # "none"
    /\ a \notin lapsed
    /\ lapsed' = lapsed \cup {a}
    /\ UNCHANGED <<tables, build, request, history>>

\* Another build of the validator goes live.
Deploy ==
    /\ \E v \in Versions \ {build} : build' = v
    /\ UNCHANGED <<tables, lapsed, request, history>>

SessionStep(s) ==
    \/ GeneratePlan(s)
    \/ BeginValidate(s) \/ CommitValidate(s)
    \/ BeginRequest(s) \/ CommitRequest(s)
    \/ \E op \in {"approve", "reject", "revoke"} : BeginDecision(s, op)
    \/ ReadPlan(s)
    \/ GrantApproval(s) \/ CommitApprove(s) \/ ApproveTooLate(s)
    \/ CommitReject(s) \/ CommitRevoke(s)
    \/ ExpireApprovals(s)
    \/ CreateDryRun(s) \/ RerunDryRun(s)
    \/ BeginExecute(s) \/ VerifyExecution(s) \/ ConsumeApproval(s) \/ CommitExecute(s)
    \/ Abort(s)

Next ==
    \/ \E s \in Sessions : SessionStep(s)
    \/ \E a \in Approvals : TtlElapses(a)
    \/ Deploy

Spec == Init /\ [][Next]_vars

-----------------------------------------------------------------------------
(* Properties of any number of concurrent requests.                        *)

TypeOK ==
    /\ plan \in [Plans -> PlanStatuses]
    /\ content \in [Plans -> PlanContents]
    /\ verdict \in [Plans -> [Versions -> Or(Verdicts)]]
    /\ latest \in [Plans -> Or(Versions)]
    /\ latestPassed \in [Plans -> Or(Versions)]
    /\ build \in Versions
    /\ approval \in [Approvals -> ApprovalRows]
    /\ lapsed \subseteq Approvals
    /\ job \in [Jobs -> JobRows]
    /\ request \in [Sessions -> Requests]
    /\ grants \subseteq Grants
    /\ executions \in [Approvals -> Nat]
    /\ executors \subseteq Approvals \X Users
    /\ rehearsed \subseteq Approvals

\* A grant of a passing check by someone entitled to it: for an elevated level a
\* privileged user other than the requester, with MFA.
Authorised(g) ==
    LET level == CheckOf(g.approval).level
    IN  /\ CheckPassed(g.approval)
        /\ HasRole(g.by, ApprovalRoleMatrix[level])
        /\ level \in ElevatedLevels => /\ HasRole(g.by, PrivilegedRoles)
                                       /\ g.by # approval[g.approval].requestedBy
                                       /\ g.mfa

\* However requests interleave, whatever was executed under an approval had been
\* granted by someone entitled to, against a passing policy check; and where MFA
\* is required, the executing user is an approver who presented it.
ConsentBeforeExecution ==
    \A e \in executors :
        LET a == e[1]
        IN  \E g \in grants :
                /\ g.approval = a
                /\ Authorised(g)
                /\ MfaRequired(content[approval[a].plan].risk, CheckOf(a).level) => g.mfa /\ g.by = e[2]

\* Nothing is executed whose artifact the sandbox rejects, whose risk its adapter
\* is not allowed, or which was never rehearsed under the very approval it uses.
ExecutionWasSafe ==
    \A e \in executors :
        LET c == content[approval[e[1]].plan]
        IN  c.sandbox /\ AdapterAllowed(c.risk, c.adapter) /\ e[1] \in rehearsed

\* What the tables say was executed was: a plan or a job has an execution's
\* outcome only if an execution under an approval of that plan was committed.
OutcomesAreEarned ==
    /\ \A p \in Plans : plan[p] \in {"succeeded", "verified", "rollback_required"} =>
          \E e \in executors : approval[e[1]].plan = p
    /\ \A j \in Jobs : job[j].status \in {"succeeded", "rollback_required"} \/ job[j].verification # "none" =>
          \E e \in executors : e[1] = job[j].approval

\* An approval that is closed, and that no decision or execution still in
\* progress has read while it was open.
Closed(a) ==
    /\ approval[a].status \in {"rejected", "expired", "revoked", "used"}
    /\ ~ \E s \in Sessions :
            /\ request[s].approval = a
            /\ request[s].op \in {"approve", "reject", "revoke"} \/ request[s].stage \in {"verified", "consumed"}

\* A stale request can overwrite the outcome of an approval, but only while it
\* lasts: once the requests that read the approval before are over, a rejected,
\* expired, revoked or used approval is never decided, spent or reopened again.
ClosedStaysClosed ==
    [][\A a \in Approvals : Closed(a) => Closed(a)' /\ approval'[a].status = approval[a].status]_vars

\* A request about the approval has passed its checks and has not committed.
Granting(a) == \E s \in Sessions : request[s].approval = a /\ request[s].stage = "granted"
Executing(a) ==
    \E s \in Sessions : request[s].approval = a /\ request[s].stage \in {"verified", "consumed"}

\* Once the time-to-live of an approval has run out, no approve and no execution
\* passes its checks any more: it is granted only by an approve, and executed only
\* by an execution, that had passed them in time.  So a grant that commits too
\* late authorises nothing that begins after it.
NoUseAfterExpiry ==
    [][\A a \in lapsed :
          /\ ~Granting(a) => ~Granting(a)' /\ \A g \in grants' \ grants : g.approval # a
          /\ ~Executing(a) => ~Executing(a)' /\ executions'[a] = executions[a]]_vars

-----------------------------------------------------------------------------
(* Properties of requests that run one at a time.                          *)

\* An approval never authorises a second execution.
SingleUse == \A a \in Approvals : executions[a] <= 1

\* A plan never has two approvals.
OneApprovalPerPlan ==
    \A a, b \in Approvals :
        approval[a].status # "none" /\ approval[a].plan = approval[b].plan => a = b

\* The statuses a plan can have while its approval has the given status.
PlanWhile(status) ==
    CASE status = "pending" -> {"approval_requested"}
      [] status = "approved" -> {"approved"}
      [] status = "rejected" -> {"rejected"}
      [] status = "expired" -> {"expired"}
      [] status = "revoked" -> {"approved", "rejected"}
      [] status = "used" -> {"verified", "rollback_required"}
      [] OTHER -> PlanStatuses

\* A plan and its approval tell the same story, and a plan past validation has one.
PlanFollowsApproval ==
    /\ \A a \in Approvals : approval[a].status # "none" => plan[approval[a].plan] \in PlanWhile(approval[a].status)
    /\ \A p \in Plans : plan[p] \notin {"none", "plan_drafted", "plan_validated"} =>
          \E a \in Approvals : approval[a].status # "none" /\ approval[a].plan = p

\* An approval is used exactly when it was executed: one rejected, expired or
\* revoked never was.
UsedMeansExecuted ==
    \A a \in Approvals : executions[a] = (IF approval[a].status = "used" THEN 1 ELSE 0)

\* Nothing is executed under an approval whose policy check is no longer the
\* plan's newest one.
ExecutesUnderLatestCheck ==
    [][\A a \in Approvals : executions'[a] # executions[a] =>
          latest[approval[a].plan] = approval[a].build]_vars

\* Requests that run one at a time keep the contract: every step of a request
\* but its commit is invisible, and every commit is one step of the contract.
Contract == INSTANCE RemediationContract WITH
    planStatus <- plan,
    approvalStatus <- [a \in Approvals |-> approval[a].status],
    planOf <- [a \in Approvals |-> approval[a].plan],
    executed <- executions
KeepsContract == Contract!Spec
=============================================================================
