------------------------------ MODULE PushGate ------------------------------
(***************************************************************************)
(* The pre-push gate: clones that run `git push`, the pre-push hook of     *)
(* sscsb, and the remote's branches.                                       *)
(*                                                                         *)
(* The hook judges an update with what the clone knows: the objects it     *)
(* has, its remote-tracking refs, the working tree's policy and            *)
(* configuration. The remote moves the branch later, and only if the       *)
(* branch is still where the hook saw it. Policy, configuration and the    *)
(* scanners on PATH are inputs of each run of the hook: the working tree   *)
(* may be edited between two pushes.                                       *)
(***************************************************************************)
EXTENDS SignerPolicy, History

CONSTANTS
    AuthorOf,       \* AuthorOf[c]: the author's address
    AIAssisted,     \* the commits that carry `AI-Assisted: true`
    ReviewerOf,     \* ReviewerOf[c]: the Reviewed-by identity on c
    Leaks,          \* the commits that add a secret the scanners recognise
    Branch,         \* refs/heads/* of the remote
    Protected,      \* general.protected_branches
    Clone,
    PolicyFiles,    \* the policy files a working tree may hold
    Configs,        \* the configurations a working tree may hold
    ScanModes,      \* which scanners are on PATH and which of them crash
    InitialRemote,  \* where the remote's branches start
    MaxRefs,        \* how many refs one push names at most
    KeepProtected   \* the forge refuses to delete a protected branch

ASSUME AttributeAssumption ==
    /\ SignatureOf \in [Commit -> Signature]
    /\ AuthorOf \in [Commit -> Principal]
    /\ ReviewerOf \in [Commit -> Principal \cup {NoPrincipal}]
    /\ AIAssisted \subseteq Commit
    /\ Leaks \subseteq Commit

Config == [present : BOOLEAN, signing : BOOLEAN, agents : BOOLEAN,
           hardware : BOOLEAN, evidence : BOOLEAN,
           rangeScan : BOOLEAN, failOpen : BOOLEAN]

Scanner == {"trufflehog", "gitleaks"}

ASSUME EnvironmentAssumption ==
    /\ Protected \subseteq Branch
    /\ PolicyFiles \subseteq Seq(Entry)
    /\ Configs \subseteq Config
    /\ InitialRemote \in [Branch -> Commit \cup {NoCommit}]
    /\ ScanModes \subseteq [ran : SUBSET Scanner, crashed : SUBSET Scanner]
    /\ KeepProtected \in BOOLEAN

VARIABLES
    remote,     \* remote[b]: the tip of b on the remote, NoCommit if it does not exist
    objects,    \* objects[w]: the commits in clone w's object store
    tracking,   \* tracking[w][b]: refs/remotes/origin/b of clone w
    inFlight,   \* inFlight[w][b]: the update of b that w's hook let through
    vouched,    \* history: the commits check_signing_for_range found no fault with
    waived,     \* history: what a hook let through without the signing check
    unscanned   \* history: the leaks a hook let through without a gitleaks verdict

vars == <<remote, objects, tracking, inFlight, vouched, waived, unscanned>>

Update == [old : Tip, new : Tip]
NoUpdate == [old |-> NoCommit, new |-> NoCommit]

TypeOK ==
    /\ remote \in [Branch -> Tip]
    /\ objects \in [Clone -> SUBSET Commit]
    /\ tracking \in [Clone -> [Branch -> Tip]]
    /\ inFlight \in [Clone -> [Branch -> Update]]
    /\ vouched \subseteq Commit
    /\ waived \subseteq Commit
    /\ unscanned \subseteq Commit

BaseHistory == UNION {Reach(InitialRemote[b]) : b \in Branch}

\* Every clone starts as a fresh `git clone`.
Init ==
    /\ remote = InitialRemote
    /\ objects = [w \in Clone |-> BaseHistory]
    /\ tracking = [w \in Clone |-> InitialRemote]
    /\ inFlight = [w \in Clone |-> [b \in Branch |-> NoUpdate]]
    /\ vouched = {}
    /\ waived = {}
    /\ unscanned = {}

-----------------------------------------------------------------------------
(***************************************************************************)
(* check_signing_for_range.                                                *)
(***************************************************************************)
IsDeletion(u) == u.new = NoCommit

\* `git rev-list old..new` fails when the clone does not have `old`.
RangeAlways(w, u) == TRUE           \* mutant: a failing rev-list is an empty range

RangeKnown(w, u) == u.old = NoCommit \/ u.old \in objects[w]

Tracked(w) == UNION {Reach(tracking[w][b]) : b \in Branch}

UntrackedInRange(w, u) ==           \* mutant: --not --remotes on every push
    Anc[u.new] \ Tracked(w)

TipOfRange(w, u) ==                 \* mutant: only the tip is looked at
    {u.new} \ (IF u.old = NoCommit THEN Tracked(w) ELSE Anc[u.old])

\* commits_in_range
CommitsInRange(w, u) ==
    IF u.old = NoCommit THEN Anc[u.new] \ Tracked(w) ELSE Anc[u.new] \ Anc[u.old]

\* merge^1..merge
MergedRange(m) == Anc[m] \ Anc[Parents[m][1]]

DeclaresAI(m) == MergedRange(m) \cap AIAssisted # {}

MergedAuthors(m) == {AuthorOf[c] : c \in MergedRange(m) \ {m}}

CommitAccepted(f, cfg, c) ==
    /\ SignedByHuman(f, cfg.agents, cfg.hardware, SignatureOf[c])
    /\ (IsMerge(c) /\ cfg.evidence /\ DeclaresAI(c))
         => ReviewEvidence(f, ReviewerOf[c], MergedAuthors(c))

SigningClean(w, u, f, cfg) ==
    /\ Parses(f)
    /\ f # <<>>
    /\ RangeKnown(w, u)
    /\ \A c \in CommitsInRange(w, u) : CommitAccepted(f, cfg, c)

(***************************************************************************)
(* range_secret_scan. scan.ran: the scanners found on PATH; scan.crashed:  *)
(* those of them that exit with an operational failure. trufflehog's       *)
(* --branch is the pushed commit when the local ref is a branch and the    *)
(* checked-out commit `head` otherwise.                                    *)
(***************************************************************************)
ScanFailed(w, u, scan) ==
    scan.ran = {} \/ scan.crashed \cap scan.ran # {} \/ ~RangeKnown(w, u)

ScannedFromHead(s, u, head) ==      \* mutant: gitleaks takes the checked-out commit too
    Anc[head] \ Reach(u.old)

ScannedBy(s, u, head) ==
    (IF s = "gitleaks" THEN Anc[u.new] ELSE Anc[head]) \ Reach(u.old)

ScanClean(w, u, cfg, scan, head) ==
    IF ScanFailed(w, u, scan) THEN cfg.failOpen
    ELSE \A s \in scan.ran : ScannedBy(s, u, head) \cap Leaks = {}

-----------------------------------------------------------------------------
NeedsSigning(b, cfg) == b \in Protected /\ cfg.signing

\* One update of hook_pre_push's loop adds no problem.
UpdateAccepted(w, b, u, f, cfg, scan, head) ==
    ~IsDeletion(u) =>
        /\ NeedsSigning(b, cfg) => SigningClean(w, u, f, cfg)
        /\ cfg.rangeScan => ScanClean(w, u, cfg, scan, head)

\* git offers the hook only what it would send: a branch that moves, and no
\* rewind unless the push is forced.
GitOffers(w, u, force) ==
    /\ u.old # u.new
    /\ u.new \in objects[w] \cup {NoCommit}
    /\ \/ force
       \/ u.old = NoCommit \/ IsDeletion(u)
       \/ u.old \in objects[w] /\ u.old \in Reach(u.new)

\* The commit is new to every store; its parents are in this one.
CommitLocally(w, c) ==
    /\ \A v \in Clone : c \notin objects[v]
    /\ Anc[c] \ {c} \subseteq objects[w]
    /\ objects' = [objects EXCEPT ![w] = @ \cup {c}]
    /\ UNCHANGED <<remote, tracking, inFlight, vouched, waived, unscanned>>

\* `git fetch`; without --prune the tracking ref of a deleted branch stays.
Fetch(w, prune) ==
    /\ objects' = [objects EXCEPT ![w] = @ \cup UNION {Reach(remote[b]) : b \in Branch}]
    /\ tracking' = [tracking EXCEPT ![w] =
                      [b \in Branch |-> IF remote[b] = NoCommit /\ ~prune
                                        THEN tracking[w][b] ELSE remote[b]]]
    /\ UNCHANGED <<remote, inFlight, vouched, waived, unscanned>>

CheckedTip(w, b, u, cfg) ==         \* mutant: the pushed object name, deletion or not
    IF cfg.present /\ NeedsSigning(b, cfg) THEN {u.new} ELSE {}

\* The signing check's verdict and the gaps in it, for one accepted update.
Checked(w, b, u, cfg) ==
    IF cfg.present /\ ~IsDeletion(u) /\ NeedsSigning(b, cfg)
    THEN CommitsInRange(w, u) ELSE {}

Unchecked(b, u, cfg) ==
    IF ~IsDeletion(u) /\ b \in Protected /\ ~(cfg.present /\ cfg.signing)
    THEN Anc[u.new] ELSE {}

UnscannedBy(w, u, cfg, scan) ==
    IF /\ ~IsDeletion(u)
       /\ ~(cfg.present /\ cfg.rangeScan /\ "gitleaks" \in scan.ran /\ ~ScanFailed(w, u, scan))
    THEN Anc[u.new] \cap Leaks ELSE {}

(***************************************************************************)
(* hook_pre_push over every ref of one `git push`: one problem refuses all *)
(* of them. targets[b] is where b shall point; the branches outside its    *)
(* domain are not pushed. With no configuration the hook allows the push.  *)
(***************************************************************************)
PrePush(w, targets, force) ==
    LET U == [b \in DOMAIN targets |-> [old |-> remote[b], new |-> targets[b]]]
    IN  /\ inFlight[w] = [b \in Branch |-> NoUpdate]
        /\ \A b \in DOMAIN U : GitOffers(w, U[b], force)
        /\ \E f \in PolicyFiles, cfg \in Configs, scan \in ScanModes :
             /\ cfg.present => \A b \in DOMAIN U : \E head \in objects[w] :
                                  UpdateAccepted(w, b, U[b], f, cfg, scan, head)
             /\ vouched' = vouched \cup UNION {Checked(w, b, U[b], cfg) : b \in DOMAIN U}
             /\ waived' = waived \cup UNION {Unchecked(b, U[b], cfg) : b \in DOMAIN U}
             /\ unscanned' = unscanned
                  \cup UNION {UnscannedBy(w, U[b], cfg, scan) : b \in DOMAIN U}
        /\ inFlight' = [inFlight EXCEPT ![w] =
                          [b \in Branch |-> IF b \in DOMAIN U THEN U[b] ELSE NoUpdate]]
        /\ UNCHANGED <<remote, objects, tracking>>

\* The remote takes one update of the push (a push is not atomic across refs),
\* and git moves the tracking ref with it.
Deliver(w, b) ==
    LET u == inFlight[w][b]
    IN  /\ u # NoUpdate
        /\ remote[b] = u.old
        /\ ~(KeepProtected /\ b \in Protected /\ IsDeletion(u))
        /\ remote' = [remote EXCEPT ![b] = u.new]
        /\ tracking' = [tracking EXCEPT ![w][b] = u.new]
        /\ inFlight' = [inFlight EXCEPT ![w][b] = NoUpdate]
        /\ UNCHANGED <<objects, vouched, waived, unscanned>>

\* The update is lost: the branch moved meanwhile, the forge refused it, or the
\* connection dropped.
Drop(w, b) ==
    /\ inFlight[w][b] # NoUpdate
    /\ inFlight' = [inFlight EXCEPT ![w][b] = NoUpdate]
    /\ UNCHANGED <<remote, objects, tracking, vouched, waived, unscanned>>

\* What one `git push` may ask for; MaxRefs bounds the refs it names.
Targets(w) ==
    UNION {[B -> objects[w] \cup {NoCommit}] :
             B \in {B \in SUBSET Branch : Cardinality(B) \in 1..MaxRefs}}

Next ==
    \E w \in Clone :
        \/ \E c \in Commit : CommitLocally(w, c)
        \/ \E prune \in BOOLEAN : Fetch(w, prune)
        \/ \E targets \in Targets(w), force \in BOOLEAN : PrePush(w, targets, force)
        \/ \E b \in Branch : Deliver(w, b) \/ Drop(w, b)

Spec == Init /\ [][Next]_vars

-----------------------------------------------------------------------------
(***************************************************************************)
(* Properties.                                                             *)
(***************************************************************************)
ProtectedHistory == UNION {Reach(remote[b]) : b \in Protected}

\* Every commit reachable from a protected branch was there from the start,
\* was accepted by the signing check of some clone's hook, or came in through
\* a hook with no configuration or with commit-signing off. The check looks at
\* a RANGE, computed from a remote tip and tracking refs that may be stale by
\* the time the update lands, so that every commit is in some range is what
\* can go wrong (commits_in_range, check_signing_for_range).
ProtectedVouched ==
    ProtectedHistory \subseteq BaseHistory \cup vouched \cup waived

\* An agent's ssh keys: no policy file in use registers them to a human alone.
AgentKeys ==
    {k \in SshKey : \A f \in PolicyFiles : \A i \in DOMAIN f :
        (f[i].ssh = k /\ f[i].class = "human")
            => \E j \in DOMAIN f : f[j].ssh = k /\ f[j].class # "human"}

\* "An AI may not land on a protected branch" (docs/ai-provenance.md): no commit
\* signed by a key that the policy classes as ai or ci, or does not know, is
\* reachable from a protected branch, unless it was there from the start or came
\* through a checkout without the gate. Duplicate principals and keys in the
\* policy, agent keys emitted to allowed_signers and merges of agent branches
\* must all be harmless for this to hold.
AgentNeverLands ==
    \A c \in ProtectedHistory \ (BaseHistory \cup waived) :
        SignatureOf[c].state = "intact" /\ SignatureOf[c].key \notin AgentKeys

\* A push that removes history from a protected branch only removes commits its
\* own clone has seen, as long as the gate looked at it: `git rev-list` fails on
\* a tip the clone never fetched, so a forced push cannot silently discard what
\* somebody else landed meanwhile.
DiscardsOnlySeen ==
    [][\A w \in Clone, b \in Protected :
         Deliver(w, b) /\ remote'[b] \notin waived \cup {NoCommit}
           => Reach(remote[b]) \ Reach(remote'[b]) \subseteq objects[w]]_vars

\* A commit that adds a recognisable secret is on the remote only if it was
\* there from the start or some hook let it through without a gitleaks verdict
\* (the scan switched off, gitleaks missing or crashed under fail_open, or no
\* configuration): the ranges handed to gitleaks leave no commit out.
NoSecretLeaves ==
    \A b \in Branch :
        Reach(remote[b]) \cap Leaks \subseteq BaseHistory \cup unscanned

\* The gate implements what it promises.
Promise == INSTANCE ProtectedBranch
             WITH landed <- ProtectedHistory,
                  cleared <- BaseHistory \cup vouched \cup waived

LandsOnlyCleared == Promise!Spec

-----------------------------------------------------------------------------
(***************************************************************************)
(* The inductive invariant behind ProtectedVouched.                        *)
(***************************************************************************)
\* The protected branches exist, and the forge keeps them.
Established ==
    /\ KeepProtected
    /\ \A b \in Protected : InitialRemote[b] # NoCommit

ProtectedExist == \A b \in Protected : remote[b] # NoCommit

\* An update on its way to a protected branch brings only cleared commits with
\* it, relative to the tip its hook saw; Deliver compares that very tip.
InFlightCleared ==
    \A w \in Clone, b \in Protected :
        LET u == inFlight[w][b]
        IN  u.new # NoCommit =>
              /\ u.old # NoCommit
              /\ Anc[u.new] \ Anc[u.old] \subseteq vouched \cup waived

GateInv == TypeOK /\ ProtectedExist /\ InFlightCleared /\ ProtectedVouched
=============================================================================
