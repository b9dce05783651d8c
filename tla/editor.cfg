SPECIFICATION EditorSpec
CHECK_DEADLOCK FALSE
CONSTANTS
    Employees = {e1, e2}
    Dates = {d1}
    Today = d1
    Keys <- TwoKeys
    Times = {"08:00", "09:00"}
    Names = {n1, n2}
    Phones = {p1, p2}
    Pending = {s1, s2}
    MaxTyped = 2
    MaxFlows = 2
    MaxOdd = 1
    Env = {"overlap", "stale", "fail", "others"}
SYMMETRY Symmetry
INVARIANTS
    ListTrue
    SavedIsStored
PROPERTIES
    ProfileKept
