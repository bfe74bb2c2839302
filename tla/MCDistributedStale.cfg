SPECIFICATION Spec
CONSTANTS
    Sites = {1, 2}
    Requests = {q1}
    Rounds = 2
    Names = {1, 2}
    BaseName <- OneName
    Synchronised = TRUE
CHECK_DEADLOCK FALSE
INVARIANTS FetchIsCurrent
