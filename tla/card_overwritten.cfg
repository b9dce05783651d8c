SPECIFICATION Spec
CONSTANTS
    Terminals = {k1, k2}
    Slots = {s1}
    Chips = {x1}
    NoRow = NoRow
    MaxTokens = 3
    MaxMixed = 3
    MaxQueue = 4
    Env = {"outage"}
SYMMETRY Symmetry
PROPERTIES
    NewerTokenKept
