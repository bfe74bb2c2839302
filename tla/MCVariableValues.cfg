CONSTANTS
    Vars = {x, y}
    Globals = {x}
    Tasks = {t1}
    Cells = {c1, c2, c3}
    Elems <- Bits
    MaxLen = 2
    MaxOps = 1
    MaxPending = 1
SPECIFICATION Spec
SYMMETRY Symmetric
PROPERTIES
    BehavesAsValues
    StoredValueIsRead
