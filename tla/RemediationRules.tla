-------------------------- MODULE RemediationRules --------------------------
(***************************************************************************)
(* The fixed rules of AuthClaw's remediation workflow: the statuses of a   *)
(* plan, an approval and a job, the transition table of the remediation    *)
(* state machine, the role matrix of the approval service and the levels   *)
(* and risks at which multi-factor authentication is required.             *)
(*                                                                         *)
(* medium risk is treated by every test of the code as low, and critical   *)
(* as high, so two risks stand for the four.                               *)
(***************************************************************************)
EXTENDS Naturals, FiniteSets

Risks == {"low", "high"}
Levels == {"operator", "admin", "owner", "security_admin"}
Roles == {"viewer", "auditor", "operator", "analyst", "admin", "owner", "security_admin"}

\* "none" is the status of a row that has not been inserted.
PlanStatuses ==
    {"none", "detected", "recommendation_created", "plan_drafted", "plan_validated",
     "approval_requested", "approved", "rejected", "expired", "queued_for_execution",
     "executing", "succeeded", "failed", "rollback_required", "rolled_back", "verified"}
ApprovalStatuses ==
    {"none", "pending", "approved", "rejected", "expired", "revoked", "used"}
JobStatuses ==
    {"none", "dry_run_succeeded", "dry_run_failed", "succeeded", "rollback_required"}
DryRunStatuses == {"none", "succeeded", "rejected", "failed"}
Adapters == {"local", "simulated", "simulated_failing", "unsupported"}

\* What a generated plan is about, as far as a later decision depends on it:
\* its risk, the execution adapter its artifact asks for, and whether the
\* static sandbox accepts the artifact.
PlanContents == [risk : Risks, adapter : Adapters, sandbox : BOOLEAN]

-----------------------------------------------------------------------------
(* The state machine of remediation_state_machine.py.                      *)

AllowedTransitions ==
    [from \in PlanStatuses |->
        CASE from = "detected" -> {"recommendation_created", "plan_drafted"}
          [] from = "recommendation_created" -> {"plan_drafted"}
          [] from = "plan_drafted" -> {"plan_validated", "rejected"}
          [] from = "plan_validated" -> {"approval_requested", "rejected"}
          [] from = "approval_requested" -> {"approved", "rejected", "expired"}
          [] from = "approved" -> {"queued_for_execution", "rejected"}
          [] from = "queued_for_execution" -> {"executing", "expired"}
          [] from = "executing" -> {"succeeded", "failed"}
          [] from = "failed" -> {"rollback_required"}
          [] from = "rollback_required" -> {"rolled_back"}
          [] from = "rolled_back" -> {"verified"}
          [] from = "succeeded" -> {"verified"}
          [] OTHER -> {}]

\* transition_plan raises unless the table allows the move.
CanTransition(from, to) == to \in AllowedTransitions[from]

-----------------------------------------------------------------------------
(* Roles, levels and multi-factor authentication.                          *)

WriteRoles == {"owner", "admin", "operator", "analyst", "security_admin"}
PrivilegedRoles == {"owner", "admin", "security_admin"}

ApprovalRoleMatrix ==
    [level \in Levels |->
        CASE level = "operator" -> WriteRoles
          [] level = "admin" -> WriteRoles \ {"operator"}
          [] OTHER -> PrivilegedRoles]

ElevatedLevels == {"owner", "security_admin"}

MfaRequired(risk, level) == risk = "high" \/ level \in ElevatedLevels

\* classify_action_risk never classifies a high-risk plan below owner, and a
\* blocked artifact is raised to security_admin.
Verdicts == [passed : BOOLEAN, level : Levels]
VerdictPossible(risk, verdict) ==
    /\ risk = "high" => verdict.level \in ElevatedLevels
    /\ ~verdict.passed => verdict.level = "security_admin"

\* Every adapter but the simulated provider is limited to low and medium risk.
AdapterAllowed(risk, adapter) ==
    /\ adapter # "unsupported"
    /\ risk = "low" \/ adapter \in {"simulated", "simulated_failing"}
=============================================================================
