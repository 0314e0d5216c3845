CONSTANTS
    Capacity = 1
    MaxData = 2
    Branches <- MCBranches
    Default = "main"
    Ids <- MCIds
    Starts <- MCStarts
    MaxEdits = 1
SPECIFICATION Spec
INVARIANTS AdminEditsSurvive HardenedMeansAligned VerdictIsReal
PROPERTY HardenEnds
CHECK_DEADLOCK FALSE
