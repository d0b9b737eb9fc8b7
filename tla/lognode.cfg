CONSTANTS
    MaxLines = 3
    MaxInodes = 3
    MaxTruncations = 1
    MaxKills = 1
SPECIFICATION FairSpec
INVARIANTS
    BatchExact
PROPERTIES
    RelaysLines
    SurvivingLinesSettled
