SPECIFICATION FairSpec
CONSTANTS
    Terminals = {k1}
    Slots = {s1}
    Chips = {x1, x2}
    NoRow = NoRow
    MaxTokens = 3
    MaxMixed = 2
    MaxQueue = 2
    Env = {"outage", "crash", "copy", "admin", "unprovision", "overlap"}
INVARIANTS
    NoFalseAlarm
    ValidatesOnce
    BlockHolds
    ActiveWasWritten
PROPERTIES
    RotationsReplayed
