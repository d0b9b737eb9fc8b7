CONSTANTS
    alerts = alerts
    observations = observations
    a1 = a1
    a2 = a2
    a3 = a3
    o1 = o1
    Types = {alerts, observations}
    Messages <- MCMessages
    TypeOf <- MCTypeOf
    Stamp <- MCStamp
    MaxClock = 3
    MaxLag = 1
    MaxKills = 1
SPECIFICATION FairSpec
INVARIANTS
    NeverTwice
PROPERTIES
    EveryMessageForwarded
