SPECIFICATION FairSpec
CONSTANTS
    Sites = 2
    Rows = 3
    P = 2
CHECK_DEADLOCK FALSE
INVARIANTS TypeOK InverseUnlessRaced ResultTracksOperand DecideTogether
PROPERTIES RacesAtPivots AllFinish
