---------------------------- MODULE MCRemediation ----------------------------
(* Instances of Remediation for TLC.                                        *)
EXTENDS Remediation, TLC

CONSTANTS operator, owner

\* One user who may request and decide ordinary plans, one who may decide all.
MCUsers == {operator, owner}
MCUserRoles == (operator :> {"operator"}) @@ (owner :> {"owner"})

\* An ordinary plan, one of high risk whose simulated execution fails, one the
\* sandbox rejects and one no allowed adapter fits.
Ordinary == [risk |-> "low", adapter |-> "local", sandbox |-> TRUE]
Failing == [risk |-> "high", adapter |-> "simulated_failing", sandbox |-> TRUE]
Unsandboxed == [risk |-> "low", adapter |-> "simulated", sandbox |-> FALSE]
Unadapted == [risk |-> "high", adapter |-> "local", sandbox |-> TRUE]
AllContents == {Ordinary, Failing, Unsandboxed, Unadapted}
\* For runs with concurrent requests: a plan that MFA guards, executed with
\* success or with a failure that asks for a rollback.
Guarded == {Failing, [Failing EXCEPT !.adapter = "simulated"]}
Symmetry == Permutations(Plans) \cup Permutations(Approvals) \cup Permutations(Jobs) \cup Permutations(Sessions)
MCLevels == {"operator", "owner"}
=============================================================================
