SPECIFICATION Spec
CONSTANTS
    Sites = {1, 2}
    Requests = {q1}
    Rounds = 1
    Names = {1, 2}
    BaseName <- OneName
    Synchronised = FALSE
CHECK_DEADLOCK FALSE
INVARIANTS FetchReadsLive
