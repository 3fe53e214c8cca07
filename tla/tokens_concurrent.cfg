SPECIFICATION Spec
CONSTANTS
    Users = {u1}
    Tokens = {t1, t2, t3, t4}
    Requests = {r1, r2, r3, r4}
    NULL = NULL
    MaxFamilyWalkSteps = 1
    MaxConcurrent = 2
    MaxAborts = 1
INVARIANTS
    IndInv
    OneLivePerFamily
    ChainLinear
    NoOrphanChild
    FamilyRevokedIsDead
    AuditTruthful
    RotationAccounted
    NoUnrecordedSession
PROPERTY NothingUndone
