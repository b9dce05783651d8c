SPECIFICATION Spec
CONSTANTS
    Terminals = {k1}
    Slots = {c1, c2}
    MaxSends = 1
    MaxFailures = 1
    MaxAttempts = 1
    Ttl = 0
    FailWindow = 0
    SendWindow = 1
    MaxCommands = 5
    MaxTime = 1
    Env = {"outage", "answer_lost", "crash"}
SYMMETRY Symmetry
INVARIANTS
    AcceptedOnce
    GuessesPerCode
