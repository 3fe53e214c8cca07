SPECIFICATION Spec
CONSTANTS
    Users = {u1}
    Tokens = {t1, t2, t3, t4, t5}
    Requests = {r1, r2, r3, r4, r5}
    NULL = NULL
    MaxFamilyWalkSteps = 2
    MaxConcurrent = 1
    MaxAborts = 0
INVARIANT ReplayKillsFamily
