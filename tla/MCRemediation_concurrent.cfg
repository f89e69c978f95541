\* Two sessions whose requests interleave, as the API is deployed: nothing calls
\* expire_approvals.
SPECIFICATION Spec
CONSTANTS
    Plans = {p1}
    Approvals = {a1, a2}
    Jobs = {j1, j2}
    Sessions = {s1, s2}
    Versions = {v1}
    operator = operator
    owner = owner
    Users <- MCUsers
    UserRoles <- MCUserRoles
    Contents <- Guarded
    ArtifactLevels <- MCLevels
    ExpirySweep = FALSE
    None = None
SYMMETRY Symmetry
INVARIANTS
    ConsentBeforeExecution
    ExecutionWasSafe
    OutcomesAreEarned
PROPERTIES
    ClosedStaysClosed
    NoUseAfterExpiry
CHECK_DEADLOCK FALSE
