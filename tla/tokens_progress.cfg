SPECIFICATION FairSpec
CONSTANTS
    Users = {u1}
    Tokens = {t1, t2, t3}
    Requests = {r1, r2, r3}
    NULL = NULL
    MaxFamilyWalkSteps = 2
    MaxConcurrent = 3
    MaxAborts = 1
INVARIANTS
    LedgerInv
PROPERTIES
    RequestsEnd
    ReplayReported
    ImplementsFamilies
