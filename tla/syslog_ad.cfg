CONSTANTS
    MaxLines = 6
    MaxInodes = 2
    MaxTruncations = 1
    Heads = {1, 3}
    OneLiners = {5, 6}
    Malformed = {6}
    BadDate = {5}
    Interesting = {1, 3, 5}
    MaxKills = 1
SPECIFICATION FairSpec
INVARIANTS
    EventsWhole
PROPERTIES
    RelaysEvents
    EventsLeave
