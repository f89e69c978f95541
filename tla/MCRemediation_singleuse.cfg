\* Two sessions whose requests interleave, two executions of one approval among
\* them.
SPECIFICATION Spec
CONSTANTS
    Plans = {p1}
    Approvals = {a1, a2}
    Jobs = {j1, j2}
    Sessions = {s1, s2}
    Versions = {v1}
    operator = operator
    owner = owner
    Users <- MCUsers
    UserRoles <- MCUserRoles
    Contents <- Guarded
    ArtifactLevels <- MCLevels
    ExpirySweep = FALSE
    None = None
SYMMETRY Symmetry
INVARIANTS
    SingleUse
CHECK_DEADLOCK FALSE
