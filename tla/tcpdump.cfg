CONSTANTS
    MaxCaptures = 3
    MaxWindow = 1
    Services = {"pdns", "eta"}
    TooLarge = {2}
    MaxKills = 1
SPECIFICATION FairSpec
INVARIANTS
    ActiveCaptureUntouched
    TornNeverPushed
    StoredAreSignalled
PROPERTIES
    KeepsLedger
    CapturesDrain
