CONSTANTS
    f1 = f1
    f2 = f2
    f3 = f3
    f4 = f4
    Files <- MCFiles
    BinOf <- MCBinOf
    LastBin = 2
    MaxClock = 3
    MaxBacklog = 2
    MaxLag = 1
    Unreadable <- MCUnreadable
    Stuck <- MCStuck
    Refused = {}
    MaxKills = 1
    MaxPowerCuts = 1
SPECIFICATION HeartbeatSpec
INVARIANTS
    OnlyWholeArchivesSent
PROPERTIES
    NewestBinUntouched
    InputDrains
