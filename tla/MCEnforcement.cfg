CHECK_DEADLOCK FALSE
CONSTANTS
    Settings = {"commit-signing", "trufflehog", "protected_branches"}
    Edited = {"pre-commit", "pre-push"}
    Starts <- MCStarts
    MaxActs = 2
    MaxDeaths = 1
SPECIFICATION Spec
INVARIANTS TypeOK PassEnforces CleanLands FailsClosed EditsSurvive
PROPERTY InitConverges
