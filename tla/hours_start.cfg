SPECIFICATION FairHoursSpec
CHECK_DEADLOCK FALSE
CONSTANTS
    Hours = {ten, zero, below}
    Refused = {below}
    Zero = zero
    Parsed <- ZeroIsDefault
    Default = ten
    None = None
    MaxLaunches = 1
    MaxChoices = 1
    MaxQueue = 9
    MaxHoursOdd = 2
    HoursEnv = {"outage", "failed", "reread"}
PROPERTIES
    StartEnds
