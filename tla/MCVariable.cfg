CONSTANTS
    Vars = {x, y}
    Globals = {y}
    Tasks = {t1, t2}
    Cells = {c1, c2, c3, c4}
    Elems <- Zero
    MaxLen = 1
    MaxOps = 2
    MaxPending = 2
SPECIFICATION Spec
SYMMETRY Symmetric
INVARIANTS
    TypeOK
    StorageSafe
    PendingTargetLive
