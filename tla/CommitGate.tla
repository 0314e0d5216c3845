----------------------------- MODULE CommitGate -----------------------------
(***************************************************************************)
(* One `git commit` under the pre-commit and commit-msg hooks, in a clone  *)
(* whose index other processes (an editor, an agent) may change at any     *)
(* moment: the hooks take no lock. git reads the index again when          *)
(* pre-commit is done, writes the tree, opens the editor and only then     *)
(* calls commit-msg, which reads the index once more.                      *)
(*                                                                         *)
(* A file's content is a blob: the bytes of a regular file, the target of  *)
(* a symbolic link, or the commit of a gitlink (a submodule), which has no *)
(* bytes to read. A tree maps every file to its blob.                      *)
(***************************************************************************)
EXTENDS Naturals, Sequences, FiniteSets

CONSTANTS
    File,
    KindOf,         \* KindOf[f]: "manifest", "script" or "plain"
    BlobsOf,        \* BlobsOf[f]: the contents f may get
    TypeOf,         \* TypeOf[b]: "file", "link" or "gitlink"
    Absent,         \* the "blob" of a file that does not exist
    Recognised,     \* Recognised[s]: the blobs in which scanner s sees a secret
    Flawed,         \* the blobs with a blocking SAST finding
    Unparsed,       \* the blobs no manifest parser accepts
    Package,        \* <ecosystem>:<name>
    Dep,            \* a declared dependency: a name and the source it comes from
    Deps,           \* Deps[b]: the dependencies a manifest with content b declares
    NameOf,         \* NameOf[d]: the package a dependency names
    External,       \* the dependencies from git, urls, aliases, paths out of the tree
    Configs,        \* the configurations a commit may run under
    Messages,       \* the messages a commit may get
    MaxCommits,     \* bound on the length of the history
    MaxMoves        \* bound on the index entries others move during one commit

Scanner == {"trufflehog", "gitleaks"}
Blob == UNION {BlobsOf[f] : f \in File}
Content == Blob \cup {Absent}
Tree == [File -> Content]

Config == [secrets : BOOLEAN, scanners : SUBSET Scanner, sast : BOOLEAN,
           trailers : BOOLEAN, aiGate : BOOLEAN, trust : BOOLEAN, failOpen : BOOLEAN]

\* complete: AI-Tool, AI-Model and a known AI-Role are there; reviewed: the kinds
\* whose AI-...-Review trailer says `approved`.
Message == [ai : {"absent", "true", "false", "other"}, complete : BOOLEAN,
            reviewed : SUBSET {"manifest", "script"}]

\* The values of cfg and msg while there is no commit.
Unset == [secrets |-> FALSE, scanners |-> {}, sast |-> FALSE, trailers |-> FALSE,
          aiGate |-> FALSE, trust |-> FALSE, failOpen |-> FALSE]
Plain == [ai |-> "absent", complete |-> FALSE, reviewed |-> {}]

ASSUME CommitAssumption ==
    /\ KindOf \in [File -> {"manifest", "script", "plain"}]
    /\ Absent \notin Blob
    /\ TypeOf \in [Blob -> {"file", "link", "gitlink"}]
    /\ Recognised \in [Scanner -> SUBSET Blob]
    /\ Flawed \subseteq Blob
    /\ Deps \in [Content -> SUBSET Dep]
    /\ Deps[Absent] = {}
    /\ Unparsed \subseteq {b \in Blob : Deps[b] = {}}
    /\ \A b \in Blob : TypeOf[b] = "gitlink" =>
         /\ b \notin Flawed \cup Unparsed /\ Deps[b] = {}
         /\ \A s \in Scanner : b \notin Recognised[s]
    /\ NameOf \in [Dep -> Package]
    /\ External \subseteq Dep
    /\ Configs \subseteq Config
    /\ Messages \subseteq Message
    /\ MaxCommits \in Nat \ {0} /\ MaxMoves \in Nat

VARIABLES
    index,          \* the tree the index holds
    log,            \* the trees of the current branch, oldest first; HEAD is the last
    baseline,       \* the names .sscsb/policy/packages.toml approves
    approval,       \* `deps approve` in progress: what it will write
    phase,          \* where the commit is
    amend,
    cfg,
    msg,
    todo,           \* the files the running step still has to read
    copied,         \* what it read: the blobs in its temporary directory
    known,          \* the approved names commit-msg loaded
    tree,           \* the tree git wrote after pre-commit
    movedBefore,    \* history: index entries changed between the listing and the tree
    movedAfter,     \* history: index entries changed since the tree was written
    everApproved    \* history: the names somebody approved

files == <<index, log, baseline, approval>>
job == <<phase, amend, cfg, msg, todo, copied, known, tree>>
history == <<movedBefore, movedAfter, everApproved>>
vars == <<files, job, history>>

HeadTree == log[Len(log)]
Empty == [f \in File |-> Absent]

Phase == {"idle", "secrets", "copySecrets", "sast", "copySast",
          "write", "message", "review", "trust", "load", "compare", "land"}

TypeOK ==
    /\ index \in Tree
    /\ log \in Seq(Tree)
    /\ Len(log) \in 1..MaxCommits
    /\ baseline \subseteq Package
    /\ approval \in {<<>>} \cup {<<s, n>> : s \in {"read", "truncated"}, n \in SUBSET Package}
    /\ phase \in Phase
    /\ amend \in BOOLEAN
    /\ cfg \in Config
    /\ msg \in Message
    /\ todo \subseteq File
    /\ DOMAIN copied \subseteq File
    /\ \A f \in DOMAIN copied : copied[f] \in Blob
    /\ known \subseteq Package
    /\ tree \in Tree
    /\ movedBefore \subseteq File
    /\ movedAfter \subseteq File
    /\ everApproved \subseteq Package

-----------------------------------------------------------------------------
(***************************************************************************)
(* The rest of the world.                                                  *)
(***************************************************************************)
WritesTree == {"secrets", "copySecrets", "sast", "copySast", "write"}

\* git add, git rm --cached, git restore --staged.
Stage(f, b) ==
    /\ b \in BlobsOf[f] \cup {Absent}
    /\ index[f] # b
    /\ phase # "idle" => Cardinality(movedBefore) + Cardinality(movedAfter) < MaxMoves
    /\ index' = [index EXCEPT ![f] = b]
    /\ movedBefore' = IF phase \in WritesTree THEN movedBefore \cup {f} ELSE movedBefore
    /\ movedAfter' = IF phase \in WritesTree \cup {"idle"} THEN movedAfter
                     ELSE movedAfter \cup {f}
    /\ UNCHANGED <<log, baseline, approval, job, everApproved>>

\* approve_package reads the file and parses it, ...
ApproveRead(p) ==
    /\ approval = <<>>
    /\ approval' = <<"read", baseline \cup {p}>>
    /\ everApproved' = everApproved \cup {p}
    /\ UNCHANGED <<index, log, baseline, job, movedBefore, movedAfter>>

\* ... std::fs::write truncates it, which a reader may see, ...
ApproveTruncate ==
    /\ approval # <<>> /\ approval[1] = "read"
    /\ baseline' = {}
    /\ approval' = <<"truncated", approval[2]>>
    /\ UNCHANGED <<index, log, job, history>>

\* ... and fills it, unless it is killed first.
ApproveWrite(completes) ==
    /\ approval # <<>> /\ approval[1] = "truncated"
    /\ baseline' = IF completes THEN approval[2] ELSE baseline
    /\ approval' = <<>>
    /\ UNCHANGED <<index, log, job, history>>

-----------------------------------------------------------------------------
(***************************************************************************)
(* staged_paths: `git diff --cached --diff-filter=ACMR` against HEAD, the  *)
(* commit being replaced when the commit amends. Added, copied, modified,  *)
(* renamed: an entry that HEAD has as another type (status T) is in no     *)
(* list.                                                                   *)
(***************************************************************************)
TypeChanged(t) ==
    {f \in File : Absent \notin {t[f], HeadTree[f]} /\ TypeOf[t[f]] # TypeOf[HeadTree[f]]}

StagedAdded ==                      \* mutant: --diff-filter=A
    {f \in File : HeadTree[f] = Absent /\ index[f] # Absent}

Staged == {f \in File : index[f] \notin {HeadTree[f], Absent}} \ TypeChanged(index)

To(p) == phase' = p

\* What a commit leaves behind when it ends, whichever way.
Rest ==
    /\ phase' = "idle" /\ amend' = FALSE /\ cfg' = Unset /\ msg' = Plain
    /\ todo' = {} /\ copied' = <<>> /\ known' = {} /\ tree' = Empty
    /\ movedBefore' = {} /\ movedAfter' = {}
    /\ UNCHANGED everApproved

\* A hook blocked the commit, or the user gave up.
Abandon ==
    /\ phase # "idle"
    /\ Rest
    /\ UNCHANGED files

Begin(a, c) ==
    /\ phase = "idle"
    /\ IF a THEN Len(log) > 1 ELSE Len(log) < MaxCommits
    /\ amend' = a
    /\ cfg' = c
    /\ To(IF c.secrets THEN "secrets" ELSE IF c.sast THEN "sast" ELSE "write")
    /\ UNCHANGED <<files, msg, todo, copied, known, tree, history>>

(***************************************************************************)
(* stage_to_tempdir, run once by each of the two arms of hook_pre_commit.  *)
(***************************************************************************)
Copying == [secrets |-> "copySecrets", sast |-> "copySast"]
After == [secrets |-> IF cfg.sast THEN "sast" ELSE "write", sast |-> "write"]

Gitlink(f) == index[f] # Absent /\ TypeOf[index[f]] = "gitlink"

\* staged_paths and staged_submodules. A gitlink has nothing to copy: it stands
\* for itself among the copies from the start, and nobody finds anything in it.
ListStaged(arm) ==
    /\ phase = arm
    /\ todo' = Staged
    /\ copied' = [f \in {g \in Staged : Gitlink(g)} |-> index[f]]
    /\ To(Copying[arm])
    /\ UNCHANGED <<files, amend, cfg, msg, known, tree, history>>

With(f, b) == [g \in DOMAIN copied \cup {f} |-> IF g = f THEN b ELSE copied[g]]

CopyBlindly(arm, f) ==              \* mutant: a failed `git show` is passed over
    /\ phase = Copying[arm]
    /\ f \in todo
    /\ copied' = With(f, index[f])
    /\ todo' = todo \ {f}
    /\ UNCHANGED <<files, phase, amend, cfg, msg, known, tree, history>>

\* `git show :f` fails on what left the index and on a gitlink, ...
Shown(f) == index[f] # Absent /\ ~Gitlink(f)

\* ... which is passed over only if f was a gitlink when the submodules were listed.
CopyStaged(arm, f) ==
    /\ phase = Copying[arm]
    /\ f \in todo
    /\ \/ Shown(f) /\ copied' = With(f, index[f])
       \/ ~Shown(f) /\ f \in DOMAIN copied /\ UNCHANGED copied
    /\ todo' = todo \ {f}
    /\ UNCHANGED <<files, phase, amend, cfg, msg, known, tree, history>>

Done(arm) ==
    /\ To(After[arm])
    /\ todo' = {} /\ copied' = <<>>
    /\ UNCHANGED <<files, amend, cfg, msg, known, tree>>

\* Any other failure of `git show` is an error of the arm, and general.fail_open
\* decides.
LoseStaged(arm) ==
    /\ phase = Copying[arm]
    /\ \E f \in todo \ DOMAIN copied : ~Shown(f)
    /\ cfg.failOpen
    /\ Done(arm)
    /\ UNCHANGED history

(***************************************************************************)
(* run_secret_scan_staged. `ran`: the wanted scanners found on PATH, of    *)
(* which `crashed` exit with an operational failure; it ends the scan, and *)
(* what the other one has reported goes with it.                           *)
(***************************************************************************)
Sees(s) == \E f \in DOMAIN copied : copied[f] \in Recognised[s]

SecretsFailed(ran, crashed) == ran = {} \/ crashed # {}

SecretsPass(ran, crashed) ==
    \/ DOMAIN copied = {}
    \/ SecretsFailed(ran, crashed) /\ cfg.failOpen
    \/ ~SecretsFailed(ran, crashed) /\ \A s \in ran : ~Sees(s)

ScanSecrets(ran, crashed) ==
    /\ phase = "copySecrets" /\ todo = {}
    /\ ran \subseteq cfg.scanners /\ crashed \subseteq ran
    /\ SecretsPass(ran, crashed)
    /\ Done("secrets")
    /\ UNCHANGED history

\* sast::scan_staged
ScanSast(works) ==
    /\ phase = "copySast" /\ todo = {}
    /\ IF DOMAIN copied = {} THEN TRUE
       ELSE IF works THEN \A f \in DOMAIN copied : copied[f] \notin Flawed
       ELSE cfg.failOpen
    /\ Done("sast")
    /\ UNCHANGED history

\* git: read the index again, write the tree.
WriteTree ==
    /\ phase = "write"
    /\ index # HeadTree \/ amend
    /\ tree' = index
    /\ To("message")
    /\ UNCHANGED <<files, amend, cfg, msg, todo, copied, known, history>>

-----------------------------------------------------------------------------
(***************************************************************************)
(* hook_commit_msg.                                                        *)
(***************************************************************************)
TrailersValid(m) == m.ai # "other" /\ (m.ai = "true" => m.complete)

EnterMessage(m) ==
    /\ phase = "message"
    /\ cfg.trailers => TrailersValid(m)
    /\ msg' = m
    /\ To("review")
    /\ UNCHANGED <<files, amend, cfg, todo, copied, known, tree, history>>

NeedsReview(f) == KindOf[f] \in {"manifest", "script"}

ReviewGateAny ==                    \* mutant: one review trailer covers every kind
    /\ phase = "review"
    /\ (msg.ai = "true" /\ cfg.aiGate /\ \E f \in Staged : NeedsReview(f)) => msg.reviewed # {}
    /\ To(IF cfg.trust THEN "trust" ELSE "land")
    /\ UNCHANGED <<files, amend, cfg, msg, todo, copied, known, tree, history>>

ReviewGate ==
    /\ phase = "review"
    /\ (msg.ai = "true" /\ cfg.aiGate)
         => \A f \in Staged : NeedsReview(f) => KindOf[f] \in msg.reviewed
    /\ To(IF cfg.trust THEN "trust" ELSE "land")
    /\ UNCHANGED <<files, amend, cfg, msg, todo, copied, known, tree, history>>

(***************************************************************************)
(* new_unapproved_deps: list the staged manifests, load the baseline, then *)
(* compare each manifest with HEAD's.                                      *)
(***************************************************************************)
ListManifests ==
    /\ phase = "trust"
    /\ todo' = {f \in Staged : KindOf[f] = "manifest"}
    /\ To("load")
    /\ UNCHANGED <<files, amend, cfg, msg, copied, known, tree, history>>

LoadApprovedLeniently(parses) ==    \* mutant: a baseline that does not parse is a warning
    /\ phase = "load"
    /\ IF parses
       THEN known' = baseline /\ To("compare") /\ UNCHANGED todo
       ELSE To("land") /\ todo' = {} /\ UNCHANGED known
    /\ UNCHANGED <<files, amend, cfg, msg, copied, tree, history>>

\* parses: nobody has broken the file by hand just now.
LoadApproved(parses) ==
    /\ phase = "load"
    /\ IF parses
       THEN known' = baseline /\ To("compare") /\ UNCHANGED todo
       ELSE cfg.failOpen /\ To("land") /\ todo' = {} /\ UNCHANGED known
    /\ UNCHANGED <<files, amend, cfg, msg, copied, tree, history>>

Approvable(d) == d \notin External /\ NameOf[d] \in known

\* A gitlink, and a manifest that left the index meanwhile, are skipped.
CompareManifest(f) ==
    /\ phase = "compare"
    /\ f \in todo
    /\ index[f] \notin Unparsed
    /\ \A d \in Deps[index[f]] \ Deps[HeadTree[f]] : Approvable(d)
    /\ todo' = todo \ {f}
    /\ UNCHANGED <<files, phase, amend, cfg, msg, copied, known, tree, history>>

TrustHolds ==
    /\ phase = "compare" /\ todo = {}
    /\ To("land")
    /\ UNCHANGED <<files, amend, cfg, msg, todo, copied, known, tree, history>>

\* git moves the branch to the new commit.
Land ==
    /\ phase = "land"
    /\ log' = IF amend THEN [log EXCEPT ![Len(log)] = tree] ELSE Append(log, tree)
    /\ Rest
    /\ UNCHANGED <<index, baseline, approval>>

Init ==
    /\ log = <<Empty>>
    /\ index = Empty
    /\ baseline = {}
    /\ approval = <<>>
    /\ phase = "idle"
    /\ amend = FALSE
    /\ cfg = Unset
    /\ msg = Plain
    /\ todo = {} /\ copied = <<>> /\ known = {} /\ tree = Empty
    /\ movedBefore = {} /\ movedAfter = {}
    /\ everApproved = {}

Environment ==
    \/ \E f \in File, b \in Content : Stage(f, b)
    \/ \E p \in Package : ApproveRead(p)
    \/ ApproveTruncate
    \/ \E completes \in BOOLEAN : ApproveWrite(completes)

PreCommit ==
    \/ \E arm \in {"secrets", "sast"} :
         \/ ListStaged(arm)
         \/ \E f \in File : CopyStaged(arm, f)
         \/ LoseStaged(arm)
    \/ \E ran, crashed \in SUBSET Scanner : ScanSecrets(ran, crashed)
    \/ \E works \in BOOLEAN : ScanSast(works)

CommitMsg ==
    \/ \E m \in Messages : EnterMessage(m)
    \/ ReviewGate
    \/ ListManifests
    \/ \E parses \in BOOLEAN : LoadApproved(parses)
    \/ \E f \in File : CompareManifest(f)
    \/ TrustHolds

Next ==
    \/ Environment
    \/ \E a \in BOOLEAN, c \in Configs : Begin(a, c)
    \/ PreCommit
    \/ WriteTree
    \/ CommitMsg
    \/ Land
    \/ Abandon

Spec == Init /\ [][Next]_vars

-----------------------------------------------------------------------------
(***************************************************************************)
(* Properties, all of the moment a commit lands.                           *)
(***************************************************************************)
Changed == {f \in File : tree[f] \notin {HeadTree[f], Absent}}

\* "The gate has to cover exactly the content about to be committed"
\* (git-hooks.md). With fail_open off, a blob in which every wanted scanner sees
\* a secret, or one with a blocking SAST finding, lands only if its index entry
\* moved while pre-commit was at work, or if the commit changes the entry's type,
\* which the listing leaves out (hooks.rs:440): not through amending, the order in
\* which the files are read, a scanner missing or crashing, or anything done while
\* the editor is open (hook_pre_commit, stage_to_tempdir).
Caught(b) ==
    \/ cfg.secrets /\ \A s \in cfg.scanners : b \in Recognised[s]
    \/ cfg.sast /\ b \in Flawed

FindingNeedsRace ==
    [][Land => \A f \in Changed :
        (~cfg.failOpen /\ Caught(tree[f])) => f \in movedBefore \cup TypeChanged(tree)]_vars

\* With package-trust on and fail_open off, a dependency lands in a manifest
\* only under a name somebody approved and from its registry, unless the
\* manifest's index entry moved after git wrote the tree, or its type changed
\* (deps.rs:1286): a torn, broken or half-written packages.toml never lets one
\* through (new_unapproved_deps).
PackageNeedsRace ==
    [][Land => \A f \in Changed \ TypeChanged(tree) :
        (cfg.trust /\ ~cfg.failOpen /\ KindOf[f] = "manifest" /\ f \notin movedAfter)
            => /\ tree[f] \notin Unparsed
               /\ \A d \in Deps[tree[f]] \ Deps[HeadTree[f]] :
                     d \notin External /\ NameOf[d] \in everApproved]_vars

Unreviewed ==
    {f \in Changed : /\ msg.ai = "true" /\ cfg.aiGate
                     /\ NeedsReview(f) /\ KindOf[f] \notin msg.reviewed}

\* An AI-assisted commit that changes a manifest or a script against HEAD as the
\* hook sees it (under --amend, the commit being replaced) carries the review
\* trailer, unless the entry moved after git wrote the tree or changed its type
\* (hook_commit_msg, staged_paths).
ReviewNeedsRace == [][Land => Unreviewed \subseteq movedAfter \cup TypeChanged(tree)]_vars
=============================================================================
