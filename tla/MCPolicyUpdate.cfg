CONSTANTS
    alice = alice
    bot = bot
    carol = carol
    sshA = sshA
    sshB = sshB
    sshC = sshC
    root = root
    promote = promote
    again = again
    admit = admit
    evict = evict
    work = work
    join = join
    undo = undo
    NoKey = NoKey
    NoPrincipal = NoPrincipal
    NoCommit = NoCommit
    Principal <- MCPrincipal
    Lower <- MCLower
    SshKey = {sshA, sshB, sshC}
    GpgKey = {}
    GpgUid <- MCGpgUid
    Commit <- MCCommit
    Parents <- MCParents
    Anc <- MCAnc
    PolicyAt <- MCPolicyAt
    SignatureOf <- MCSignatureOf
    Start = root
SPECIFICATION PolicySpec
CHECK_DEADLOCK FALSE
INVARIANTS
    MergedPrTrusted
