CONSTANTS
    Vars = {x, y}
    Globals = {}
    Tasks = {t1}
    Cells = {c1, c2, c3}
    Elems <- Signed
    MaxLen = 2
    MaxOps = 2
    MaxPending = 1
SPECIFICATION Spec
PROPERTY ReadsDoNotWrite
