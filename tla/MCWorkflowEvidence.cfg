CONSTANTS
    Paths <- MCPaths
    Scopes <- MCScopes
    JobNames <- MCJobNames
    Controls <- MCControls
    Dest <- MCDest
    Template <- MCTemplate
    Starts <- MCStarts
    MaxEffort = 2
SPECIFICATION Spec
INVARIANTS
    ProofDelivers
    InitAndVerifyAgree
    DefectsHideNoProof
    PublishedPasses
CHECK_DEADLOCK FALSE
