SPECIFICATION PageSpec
CONSTANTS
    Sidecars = {s1, s2}
    Window = 1
    MaxEvents = 3
    MaxTime = 3
    PageSize = 1
    MaxLoads = 4
    Env = {"insert_fails", "restart", "clock_back"}
SYMMETRY Symmetry
INVARIANTS
    ChainVerifies
    RemovalShows
    NothingSkipped
PROPERTIES
    IsTrail
