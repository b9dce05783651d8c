SPECIFICATION Spec
CHECK_DEADLOCK FALSE
CONSTANTS
    Logins = {a, b}
    MaxSessions = 2
    Slots = {s1, s2}
    MaxCalls = 4
    Env = {"fail", "reload", "restart", "elsewhere"}
    None = None
SYMMETRY Symmetry
INVARIANTS
    ScreenHeld
    AccountsShown
PROPERTIES
    RevokedNeverActs
