SPECIFICATION Spec
CONSTANTS
    Sites = 2
    Rows = 2
    P = 2
CHECK_DEADLOCK FALSE
INVARIANTS InverseCorrect

