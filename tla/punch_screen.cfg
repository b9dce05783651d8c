SPECIFICATION ScreenSpec
CONSTANTS
    Employees = {e1, e2}
    NoLunch = {}
    Flows = {s1, s2}
    Entry = 1
    Lunch = 1
    Hour = 1
    Exit = 2
    Tolerance = 0
    MaxBegun = 2
    LastHour = 2
    MaxFlows = 3
    MaxOdd = 1
    ScreenEnv = {"overlap", "others", "half", "release"}
SYMMETRY Symmetry
INVARIANTS
    ScreenIsTrue
    ActsForAsked
PROPERTIES
    PunchStays
