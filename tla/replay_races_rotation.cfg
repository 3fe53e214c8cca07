SPECIFICATION Spec
CONSTANTS
    Users = {u1}
    Tokens = {t1, t2, t3, t4}
    Requests = {r1, r2, r3, r4}
    NULL = NULL
    MaxFamilyWalkSteps = 2
    MaxConcurrent = 2
    MaxAborts = 0
INVARIANT ReplayKillsFamily
