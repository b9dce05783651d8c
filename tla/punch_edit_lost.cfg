SPECIFICATION Spec
CONSTANTS
    Days = {d1}
    Fields = {f1, f2}
    Commands = {c1}
    Workers = {w1}
    NoRow = NoRow
    MaxClock = 3
    MaxOdd = 1
    Env = {"portal_set"}
SYMMETRY Symmetry
PROPERTIES
    AlwaysKeepsFields
