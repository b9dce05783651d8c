SPECIFICATION Spec
CONSTANTS
    Employees = {e1, e2}
    Logins = {l1, l2}
    Emails = {m1, m2}
    Terminals = {t1}
    Slots = {s1}
    MaxCalls = 4
    None = None
SYMMETRY Symmetry
INVARIANTS
    AdministratorRemains
    LoginsLinked
PROPERTIES
    TerminatedLast
CHECK_DEADLOCK FALSE
