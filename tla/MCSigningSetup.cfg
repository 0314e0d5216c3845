CONSTANTS
    Names = {"claude", "helper"}
    Emails = {"me", "ME", "bot"}
    Person <- MCPerson
    KeyFile <- MCKeyFile
    LegacyKey = "legacy_key"
    HumanKey = "human_key"
    GuidedLanes = {"codespaces", "github-web"}
    ToConfirm = {"github-web"}
    Entries = {"hooks", "permissions", "core.pager"}
    GitPairs = {"core.pager"}
    Starts <- MCStarts
    MaxCrashes = 1
    MaxEdits = 1
SPECIFICATION Spec
INVARIANTS UserDataSurvives NoEmailBlur
PROPERTY LanesConverge
