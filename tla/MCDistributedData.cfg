SPECIFICATION FairSpec
CONSTANTS
    Sites = {1, 2}
    Requests = {q1, q2}
    Rounds = 3
    Names = {1, 2}
    BaseName <- TwoNames
    Synchronised = TRUE
CHECK_DEADLOCK FALSE
INVARIANTS TypeOK FetchWindow FetchesAgree OwnNameIsCurrent
PROPERTIES FetchesComplete
