CONSTANTS
    Threads = {a, b}
    Starters = {a}
    Workers = 1
    MaxObjects = 2
    MaxCalls = 3
    Main = main
    None = none
SPECIFICATION SessionSpec
CHECK_DEADLOCK FALSE
INVARIANTS SessionTypeOK ManagerOutlivesMain RunsWhilePointedTo
PROPERTIES CallsReturn
