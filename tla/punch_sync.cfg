SPECIFICATION FairSpec
CONSTANTS
    Days = {d1}
    Fields = {f1, f2}
    Commands = {c1, c2}
    Workers = {w1}
    NoRow = NoRow
    MaxClock = 2
    MaxOdd = 1
    Env = {"crash", "kiosk_delete", "portal_set", "portal_delete", "refresh", "overlap"}
INVARIANTS
    ReapsOnlyDeleted
    NoPunchStranded
PROPERTIES
    LastWriteWins
    CentralFieldsKept
    OfflineQueueDrains
    Converges
