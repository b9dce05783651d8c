SPECIFICATION Spec
CONSTANTS
    Days = {d1}
    Fields = {f1}
    Commands = {c1}
    Workers = {w1}
    NoRow = NoRow
    MaxClock = 1
    MaxOdd = 1
    Env = {"overlap"}
SYMMETRY Symmetry
INVARIANTS
    ReapedWereDeleted
