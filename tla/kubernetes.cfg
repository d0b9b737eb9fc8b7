CONSTANTS
    Pods = {1, 2, 3}
    Access = {1, 2}
    MaxChanges = 3
SPECIFICATION FairSpec
INVARIANTS
    OneWinner
PROPERTIES
    UpdatesContinue
