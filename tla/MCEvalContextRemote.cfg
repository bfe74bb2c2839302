SPECIFICATION Spec
CONSTANTS
    Globals = {g}
    Locals = {x}
    Values <- Bits
    Nil = 0
    MaxFrames = 4
    MaxVars = 3
    MaxDepth = 4
CHECK_DEADLOCK FALSE
INVARIANTS GlobalsInOutermost
