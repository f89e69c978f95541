------------------------- MODULE RemediationContract -------------------------
(***************************************************************************)
(* What the remediation workflow promises, as transactions that happen at  *)
(* once: a plan is drafted, validated and put to approval; the approval is *)
(* decided; a granted approval is spent by one execution of its plan.      *)
(***************************************************************************)
EXTENDS RemediationRules

CONSTANTS Plans, Approvals, None

VARIABLES planStatus, approvalStatus, planOf, executed

contractVars == <<planStatus, approvalStatus, planOf, executed>>

Init ==
    /\ planStatus = [p \in Plans |-> "none"]
    /\ approvalStatus = [a \in Approvals |-> "none"]
    /\ planOf = [a \in Approvals |-> None]
    /\ executed = [a \in Approvals |-> 0]

Draft(p) ==
    /\ planStatus[p] = "none"
    /\ planStatus' = [planStatus EXCEPT ![p] = "plan_drafted"]
    /\ UNCHANGED <<approvalStatus, planOf, executed>>

Validate(p) ==
    /\ planStatus[p] = "plan_drafted"
    /\ planStatus' = [planStatus EXCEPT ![p] = "plan_validated"]
    /\ UNCHANGED <<approvalStatus, planOf, executed>>

Ask(p, a) ==
    /\ planStatus[p] = "plan_validated"
    /\ approvalStatus[a] = "none"
    /\ planStatus' = [planStatus EXCEPT ![p] = "approval_requested"]
    /\ approvalStatus' = [approvalStatus EXCEPT ![a] = "pending"]
    /\ planOf' = [planOf EXCEPT ![a] = p]
    /\ UNCHANGED executed

\* The decision of a pending approval moves the approval and its plan together.
Outcome == [approved |-> "approved", rejected |-> "rejected", revoked |-> "rejected", expired |-> "expired"]

Resolve(S, decision) ==
    /\ S # {}
    /\ \A a \in S : approvalStatus[a] = "pending" /\ planStatus[planOf[a]] = "approval_requested"
    /\ approvalStatus' = [a \in Approvals |-> IF a \in S THEN decision ELSE approvalStatus[a]]
    /\ planStatus' = [p \in Plans |->
          IF \E a \in S : planOf[a] = p THEN Outcome[decision] ELSE planStatus[p]]
    /\ UNCHANGED <<planOf, executed>>

\* A granted approval can be withdrawn until it is spent; its plan stays as it is.
Withdraw(a) ==
    /\ approvalStatus[a] = "approved"
    /\ approvalStatus' = [approvalStatus EXCEPT ![a] = "revoked"]
    /\ UNCHANGED <<planStatus, planOf, executed>>

Spend(a) ==
    /\ approvalStatus[a] = "approved"
    /\ planStatus[planOf[a]] = "approved"
    /\ approvalStatus' = [approvalStatus EXCEPT ![a] = "used"]
    /\ \E outcome \in {"verified", "rollback_required"} :
          planStatus' = [planStatus EXCEPT ![planOf[a]] = outcome]
    /\ executed' = [executed EXCEPT ![a] = @ + 1]
    /\ UNCHANGED planOf

Next ==
    \/ \E p \in Plans : Draft(p) \/ Validate(p) \/ \E a \in Approvals : Ask(p, a)
    \/ \E a \in Approvals : \E decision \in {"approved", "rejected", "revoked"} : Resolve({a}, decision)
    \/ \E S \in SUBSET Approvals : Resolve(S, "expired")
    \/ \E a \in Approvals : Withdraw(a) \/ Spend(a)

Spec == Init /\ [][Next]_contractVars
=============================================================================
