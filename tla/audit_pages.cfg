SPECIFICATION Spec
CONSTANTS
    Actors = {}
    Actions = {act1, act2}
    Organizations = {}
    Writers = {w1, w2}
    Readers = {c1}
    NULL = NULL
    MaxLimit = 2
    MaxOffset = 1
    MaxRows = 3
    MaxTime = 2
SYMMETRY Symmetry
INVARIANTS
    TotalAgrees
    PagesCover
    RepeatsBounded
    LateRowsBounded
    AuditInv
