CONSTANTS
    anchor = anchor
    code = code
    good = good
    other = other
    Lane = {l1, l2}
    File = {anchor, code}
    Anchor = anchor
    Content = {good, other}
    Absent = Absent
    Granting = {good}
    InitialTrees <- FirstCommits
    InitialWork <- StartingTrees
    MaxCommits = 2
    MaxSaves = 2
    NoRecord = NoRecord
SYMMETRY Symmetry
SPECIFICATION Spec
CHECK_DEADLOCK FALSE
INVARIANTS
    TypeOK
    MisdescribesNeedsRace
    RejectionNeedsRace
    SignatureIsOfRecord
