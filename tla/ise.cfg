CONSTANTS
    n1 = n1
    n2 = n2
    s1 = s1
    s2 = s2
    s3 = s3
    Nodes <- MCNodes
    Sessions <- MCSessions
    Stamp <- MCStamp
    Back = 1
    MaxClock = 3
    MaxLag = 1
    MaxFaults = 1
SPECIFICATION FairSpec
INVARIANTS
    CursorCovered
    NotTwice
PROPERTIES
    SessionsSettle
