SPECIFICATION PortalSpec
CHECK_DEADLOCK FALSE
CONSTANTS
    Accounts = {a1, a2}
    Requests = {s1, s2}
    Dates = {d1}
    Fields = {f1, f2}
    MaxRequests = 4
    MaxOdd = 1
    PortalEnv = {"edits"}
PROPERTIES
    DeletedStays
