SPECIFICATION HoursSpec
CHECK_DEADLOCK FALSE
CONSTANTS
    Hours = {ten, zero, below}
    Refused = {below}
    Zero = zero
    Parsed <- ZeroIsDefault
    Default = ten
    None = None
    MaxLaunches = 2
    MaxChoices = 1
    MaxQueue = 3
    MaxHoursOdd = 1
    HoursEnv = {"outage", "crash", "failed", "reread"}
INVARIANTS
    CopiesAgree
    HoursKept
    CentralOrQueued
