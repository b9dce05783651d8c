SPECIFICATION Spec
CONSTANTS
    Days = {d1}
    Fields = {f1}
    Commands = {c1}
    Workers = {w1}
    NoRow = NoRow
    MaxClock = 3
    MaxOdd = 1
    Env = {"portal_delete"}
SYMMETRY Symmetry
PROPERTIES
    DeletedStaysDeleted
