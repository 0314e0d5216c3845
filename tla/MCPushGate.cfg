CONSTANTS
    alice = alice
    Bot = Bot
    bot = bot
    sshA = sshA
    sshB = sshB
    root = root
    human = human
    agent = agent
    merge = merge
    main = main
    topic = topic
    NoKey = NoKey
    NoPrincipal = NoPrincipal
    NoCommit = NoCommit
    Principal <- MCPrincipal
    Lower <- MCLower
    SshKey = {sshA, sshB}
    GpgKey = {}
    GpgUid <- MCGpgUid
    Commit <- MCCommit
    Parents <- MCParents
    Anc <- MCAnc
    SignatureOf <- MCSignatureOf
    AuthorOf <- MCAuthorOf
    AIAssisted <- MCAIAssisted
    ReviewerOf <- MCReviewerOf
    Leaks = {agent}
    Branch = {main, topic}
    Protected = {main}
    Clone = {w1, w2}
    PolicyFiles <- MCPolicyFiles
    Configs <- GatedConfigs
    ScanModes <- ScannerStates
    InitialRemote <- MCInitialRemote
    MaxRefs = 1
    KeepProtected = TRUE
SYMMETRY Symmetry
SPECIFICATION Spec
INVARIANTS
    TypeOK
    ProtectedVouched
    AgentNeverLands
    NoSecretLeaves
PROPERTIES
    DiscardsOnlySeen
    LandsOnlyCleared
