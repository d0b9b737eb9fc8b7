CONSTANTS
    f1 = f1
    f2 = f2
    NoFile = NoFile
    p1 = p1
    NoPath = NoPath
    Files = {f1, f2}
    Paths = {p1}
    MaxAttempts = 2
    DayLength = 2
    MaxClock = 2
    MaxKills = 1
SPECIFICATION FairSpec
INVARIANTS
    ToldIsStored
    ToldOnce
    RulesOfTheDay
PROPERTIES
    NoLogLost
    LogsLeave
