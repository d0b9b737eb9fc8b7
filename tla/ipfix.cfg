CONSTANTS
    f1 = f1
    f2 = f2
    f3 = f3
    f4 = f4
    f5 = f5
    Files <- MCFiles
    BinOf <- MCBinOf
    Name <- MCName
    LastBin = 3
    MaxClock = 3
    MaxBacklog = 3
    MaxLag = 1
    Unreadable = {}
    Stuck = {f3}
    Refused = {0, 1}
    Corrupt = {f3}
    MaxKills = 1
    MaxPowerCuts = 0
SPECIFICATION IpfixFairSpec
INVARIANTS
    LossesHaveCauses
PROPERTIES
    FlowsDrain
