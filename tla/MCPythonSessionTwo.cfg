CONSTANTS
    Threads = {a, b}
    Starters = {a, b}
    Workers = 1
    MaxObjects = 2
    MaxCalls = 2
    Main = main
    None = none
SPECIFICATION SessionSpec
CHECK_DEADLOCK FALSE
INVARIANT StartedOnce
