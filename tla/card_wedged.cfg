SPECIFICATION FairSpec
CONSTANTS
    Terminals = {k1}
    Slots = {s1}
    Chips = {x1}
    NoRow = NoRow
    MaxTokens = 3
    MaxMixed = 3
    MaxQueue = 4
    Env = {"outage", "recycle"}
PROPERTIES
    RotationsReplayed
