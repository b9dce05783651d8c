SPECIFICATION FairSpec
CHECK_DEADLOCK FALSE
CONSTANTS
    Diagnoses = {d1, d2}
    Servers = {m1}
    Passes = {p1, p2}
    Origins = {o1}
    Slots = {s1, s2}
    Lan = Lan
    Blank = Blank
    None = None
    Nothing = Nothing
    MaxActs = 4
INVARIANTS
    PasswordKept
    AddressesAgree
    LinkAsAsked
PROPERTIES
    DialogTold
