CONSTANTS
    f1 = f1
    f2 = f2
    f3 = f3
    f4 = f4
    Files <- MCFiles
    BinOf <- MCBinOf
    LastBin = 2
    MaxClock = 4
    MaxBacklog = 2
    MaxLag = 0
    Unreadable <- MCUnreadable
    Stuck = {}
    Refused = {0}
    MaxKills = 0
    MaxPowerCuts = 0
SPECIFICATION FairSpec
INVARIANTS
    TypeOK
    NoFileLost
PROPERTIES
    KeepsLedger
    EveryFileLeaves
