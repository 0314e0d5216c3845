CONSTANTS
    alice = alice
    Bot = Bot
    bot = bot
    sshA = sshA
    sshB = sshB
    root = root
    human = human
    agent = agent
    merge = merge
    main = main
    topic = topic
    NoKey = NoKey
    NoPrincipal = NoPrincipal
    NoCommit = NoCommit
    Principal <- MCPrincipal
    Lower <- MCLower
    SshKey = {sshA, sshB}
    GpgKey = {}
    GpgUid <- MCGpgUid
    Commit <- MCCommit
    Parents <- MCParents
    Anc <- MCAnc
    SignatureOf <- MCSignatureOf
    AuthorOf <- MCAuthorOf
    AIAssisted <- MCAIAssisted
    ReviewerOf <- MCReviewerOf
    Leaks = {}
    Branch = {main, topic, release}
    release = release
    Protected = {main, release}
    Clone = {w1}
    PolicyFiles <- MCPolicyFiles
    Configs <- GatedConfigs
    ScanModes <- ScannerStates
    InitialRemote <- WithoutRelease
    MaxRefs = 1
    KeepProtected = TRUE
SYMMETRY Symmetry
SPECIFICATION Spec
INVARIANTS
    AgentNeverLands
