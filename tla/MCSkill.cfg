SPECIFICATION Spec
CHECK_DEADLOCK FALSE
CONSTANTS
    Node <- MCNode
    Name <- MCName
    Texts <- MCTexts
    Mutable <- MCMutable
    Starts <- MCStarts
    Platforms = {"macos", "linux"}
    Invocation <- MCInvocation
    SkillPath <- MCSkillPath
    Targets <- MCTargets
    MaxActs = 2
    MaxWalk = 40
INVARIANTS
    StrongStands
    WeakIsEarned
PROPERTIES
    InstallHarmless
