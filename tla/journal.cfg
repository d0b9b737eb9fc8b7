CONSTANTS
    MaxLines = 3
    MaxEnds = 1
    MaxKills = 1
SPECIFICATION FairSpec
INVARIANTS
    LinesAccounted
    RepeatsHaveCauses
PROPERTIES
    NewestLineSettles
