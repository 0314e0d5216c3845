CONSTANTS
    manifest = manifest
    script = script
    serdeReg = serdeReg
    serdeGit = serdeGit
    broken = broken
    clean = clean
    leak = leak
    module = module
    serde = serde
    fromRegistry = fromRegistry
    fromGit = fromGit
    File = {manifest, script}
    KindOf <- MCKindOf
    BlobsOf <- MCBlobsOf
    TypeOf <- MCTypeOf
    Absent = Absent
    Recognised <- MCRecognised
    Flawed = {leak}
    Unparsed = {broken}
    Package = {serde}
    Dep = {fromRegistry, fromGit}
    Deps <- MCDeps
    NameOf <- MCNameOf
    External = {fromGit}
    Configs <- MCConfigs
    Messages <- MCMessages
    MaxCommits = 2
    MaxMoves = 2
SPECIFICATION Spec
CHECK_DEADLOCK FALSE
INVARIANTS
    TypeOK
PROPERTIES
    FindingNeedsRace
    PackageNeedsRace
    ReviewNeedsRace
