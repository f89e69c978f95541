\* One session: requests run one at a time, on every kind of plan, while builds
\* change and approvals run out of time.
SPECIFICATION Spec
CONSTANTS
    Plans = {p1}
    Approvals = {a1, a2}
    Jobs = {j1, j2}
    Sessions = {s1}
    Versions = {v1, v2}
    operator = operator
    owner = owner
    Users <- MCUsers
    UserRoles <- MCUserRoles
    Contents <- AllContents
    ArtifactLevels <- MCLevels
    ExpirySweep = TRUE
    None = None
INVARIANTS
    TypeOK
    ConsentBeforeExecution
    ExecutionWasSafe
    OneApprovalPerPlan
    PlanFollowsApproval
    UsedMeansExecuted
PROPERTIES
    ExecutesUnderLatestCheck
    KeepsContract
CHECK_DEADLOCK FALSE
