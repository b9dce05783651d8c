SPECIFICATION Spec
CHECK_DEADLOCK FALSE
CONSTANTS
    Staff = {e1}
    Addressed = {e1}
    LunchTimes = {0, 1}
    Exits = {1}
    Halves = {0, 1}
    Minutes = 3
    LastMinutes = 3
    Slots = {t1, t2}
    Env = {"restart", "failure", "asleep", "edit"}
SYMMETRY Symmetry
INVARIANTS
    RemindsOnce
    NobodyForgotten
