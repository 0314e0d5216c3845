----------------------------- MODULE PolicyGate -----------------------------
(***************************************************************************)
(* The server-side signer-policy gate: `sscsb signers verify-policy` as    *)
(* the agent-signing-verify workflow runs it on a push to the default      *)
(* branch and on a pull request. The gate runs after the event: it can     *)
(* turn a check red, it cannot undo a push. A new event of a concurrency   *)
(* group cancels the run in progress of that group.                        *)
(***************************************************************************)
EXTENDS SignerPolicy, History

CONSTANTS
    PolicyAt,       \* PolicyAt[c]: .sscsb/policy/signers.toml in the tree of c
    Start           \* the default branch when the gate is switched on

ASSUME GateAssumption ==
    /\ PolicyAt \in [Commit -> Seq(Entry)]
    /\ SignatureOf \in [Commit -> Signature]
    /\ Start \in Commit

VARIABLES
    main,           \* the tip of the default branch
    pr,             \* the tip of the pull request's branch; NoCommit: none open
    runs            \* the workflow's runs: those of every push, the latest of the pull request

policyVars == <<main, pr, runs>>

Group == {"push", "pull_request"}       \* one concurrency group per ref
Verdict == {"running", "green", "red", "cancelled"}
Run == [group : Group, base : Commit, head : Commit, target : Commit,
        merged : BOOLEAN, verdict : Verdict]

PolicyTypeOK ==
    /\ main \in Commit
    /\ pr \in Tip
    /\ runs \subseteq Run

-----------------------------------------------------------------------------
(***************************************************************************)
(* `git log base..head -- .sscsb/policy`, with git's default history       *)
(* simplification: a commit whose policy is that of one of its parents in  *)
(* the range is passed over, and only that parent is followed.             *)
(***************************************************************************)
CommitRange(base, head) == Anc[head] \ Anc[base]

Relevant(c, base) == ParentSet(c) \ Anc[base]

SameParents(c, base) ==
    {i \in DOMAIN Parents[c] : /\ Parents[c][i] \in Relevant(c, base)
                               /\ PolicyAt[Parents[c][i]] = PolicyAt[c]}

FollowedParents(c, base) ==
    IF SameParents(c, base) # {} THEN {Parents[c][First(SameParents(c, base))]}
    ELSE Relevant(c, base)

TreeSame(c, base) ==
    IF Relevant(c, base) # {} THEN SameParents(c, base) # {}
    ELSE /\ \A p \in ParentSet(c) : PolicyAt[p] = PolicyAt[c]
         /\ ParentSet(c) = {} => PolicyAt[c] = <<>>

\* A pull_request run checks out the merge of the branch into its target. The
\* branch is up to date, so the merge has the tree of `head`: when it also has
\* the policy of a target that `base` lacks, only the target is followed.
WalkedTip(base, head, target) ==
    IF target \notin Anc[base] /\ PolicyAt[target] = PolicyAt[head] THEN target ELSE head

\* The tip, and with a commit the parents followed from it.
Closed(S, base) == \A c \in S : FollowedParents(c, base) \subseteq S

Walk(base, tip) ==
    {c \in Commit : \A S \in SUBSET Commit : {tip} \ Anc[base] \subseteq S /\ Closed(S, base) => c \in S}

Listed(base, tip) == {c \in Walk(base, tip) : ~TreeSame(c, base)}

(***************************************************************************)
(* verify_policy_changes: every listed commit is signed by a human of the  *)
(* policy at `base`, from which agent keys are always left out.            *)
(***************************************************************************)
TrustedHuman(f, sig) ==
    /\ GitStatus(f, FALSE, sig) = "G"
    /\ LET m == First({i \in DOMAIN f : f[i].principal = GitSigner(f, FALSE, sig)})
       IN  m # 0 /\ f[m].class = "human"

\* The runner checks out the branches only: a base that was force-pushed away
\* cannot be read, and `git log base..head` fails.
Readable(base, head) == base \in Anc[head] \cup Anc[main]

PolicyCleanAtHead(base, head, target) ==       \* mutant: the pushed tree's policy
    /\ Readable(base, head)
    /\ Parses(PolicyAt[head])
    /\ \A c \in Listed(base, WalkedTip(base, head, target)) :
         TrustedHuman(PolicyAt[head], SignatureOf[c])

PolicyCleanAnySigner(base, head, target) ==    \* mutant: any class will do
    /\ Readable(base, head)
    /\ Parses(PolicyAt[base])
    /\ \A c \in Listed(base, WalkedTip(base, head, target)) :
         GitStatus(PolicyAt[base], TRUE, SignatureOf[c]) = "G"

PolicyClean(base, head, target) ==
    /\ Readable(base, head)
    /\ Parses(PolicyAt[base])
    /\ \A c \in Listed(base, WalkedTip(base, head, target)) :
         TrustedHuman(PolicyAt[base], SignatureOf[c])

-----------------------------------------------------------------------------
PolicyInit ==
    /\ main = Start
    /\ pr = NoCommit
    /\ runs = {}

StartedFromBefore(g, base, head) ==            \* mutant: `opened` reads event.before too
    [group |-> g, base |-> IF g = "push" THEN base ELSE pr, head |-> head,
     target |-> main, merged |-> FALSE, verdict |-> "running"]

StartedFromParent(g, base, head) ==            \* mutant: BASE is HEAD^
    [group |-> g, base |-> Parents[head][1], head |-> head,
     target |-> main, merged |-> FALSE, verdict |-> "running"]

Started(g, base, head) ==
    [group |-> g, base |-> base, head |-> head, target |-> main,
     merged |-> FALSE, verdict |-> "running"]

\* concurrency with cancel-in-progress. A run of an earlier tip of the pull
\* request says nothing of the new one and is forgotten.
Superseded(g) ==
    IF g = "push"
    THEN {IF r.group = g /\ r.verdict = "running" THEN [r EXCEPT !.verdict = "cancelled"]
          ELSE r : r \in runs}
    ELSE {r \in runs : r.group = "push" \/ r.merged}

\* on: push / on: pull_request
Trigger(g, base, head) == runs' = Superseded(g) \cup {Started(g, base, head)}

\* Somebody advances the default branch directly; github.event.before is the
\* tip before the push.
PushMain(c) ==
    /\ c # main /\ main \in Anc[c]
    /\ main' = c
    /\ Trigger("push", main, c)
    /\ UNCHANGED pr

\* `opened` carries no event.before: BASE is pull_request.base.sha.
OpenPR(c) ==
    /\ pr = NoCommit
    /\ c # main /\ main \in Anc[c]
    /\ pr' = c
    /\ Trigger("pull_request", main, c)
    /\ UNCHANGED main

\* `synchronize` carries event.before, the branch's previous tip, and
\* `github.event.before || ...` prefers it.
UpdatePR(c) ==
    /\ pr # NoCommit
    /\ c \notin {pr, main} /\ main \in Anc[c]
    /\ pr' = c
    /\ Trigger("pull_request", pr, c)
    /\ UNCHANGED main

RunGate(r) ==
    /\ r.verdict = "running"
    /\ runs' = (runs \ {r}) \cup
                 {[r EXCEPT !.verdict = IF PolicyClean(r.base, r.head, r.target) THEN "green" ELSE "red"]}
    /\ UNCHANGED <<main, pr>>

\* The check is green on the branch's tip and the branch is up to date; the
\* merge is itself a push to the default branch.
MergePR ==
    \E r \in runs :
        /\ r.group = "pull_request" /\ ~r.merged /\ r.verdict = "green"
        /\ r.head = pr /\ main \in Anc[pr] /\ pr # main
        /\ main' = pr
        /\ pr' = NoCommit
        /\ runs' = (Superseded("push") \ {r})
                     \cup {[r EXCEPT !.merged = TRUE], Started("push", main, pr)}

PolicyNext ==
    \/ \E c \in Commit : PushMain(c) \/ OpenPR(c) \/ UpdatePR(c)
    \/ \E r \in runs : RunGate(r)
    \/ MergePR

PolicySpec == PolicyInit /\ [][PolicyNext]_policyVars

-----------------------------------------------------------------------------
(***************************************************************************)
(* Properties.                                                             *)
(***************************************************************************)
\* A commit that gives the policy a content no parent has, and the edits of a range.
IsEdit(c) == /\ \A p \in ParentSet(c) : PolicyAt[p] # PolicyAt[c]
             /\ ParentSet(c) = {} => PolicyAt[c] # <<>>
Edits(base, head) == {c \in CommitRange(base, head) : IsEdit(c)}

(* What git's history simplification may pass over: an edit that a commit  *)
(* of the range has behind it, while it keeps the policy of a parent in    *)
(* the range that has not; or one that is not behind the target, when the  *)
(* merge checked out has the target's policy.                              *)
PassedOver(e, base, head, target) ==
    \/ \E m \in CommitRange(base, head) : \E p \in Relevant(m, base) :
          PolicyAt[p] = PolicyAt[m] /\ e \in Anc[m] \ Anc[p]
    \/ e \notin Anc[WalkedTip(base, head, target)]

TrustedEdits(base, head, target) ==
    \A e \in Edits(base, head) :
        TrustedHuman(PolicyAt[base], SignatureOf[e]) \/ PassedOver(e, base, head, target)

\* "A push can never promote an ai/ci key to human and use it in the same push"
\* (verify_policy_changes): a green run means that every policy edit of its range
\* is signed by a human of the policy at its base, whatever the edits themselves
\* put into the policy, but for those a merge that drops them hides from git log.
GreenRangeTrusted ==
    \A r \in runs : r.verdict = "green" => TrustedEdits(r.base, r.head, r.target)

\* The gate cannot undo a push, and each run trusts what the push before it left
\* behind. As long as no run on the default branch has failed, was cancelled by
\* the next push or is still running, every policy edit on the branch since the
\* gate was switched on was signed by a human of the policy before ITS push, or
\* dropped by a merge of that push: the ranges of successive pushes and merges
\* leave no edit out.
MainRooted ==
    (\A r \in runs : r.group = "push" => r.verdict = "green")
      => \A e \in Edits(Start, main) :
           \E r \in runs : /\ r.group = "push"
                           /\ e \in CommitRange(r.base, r.head)
                           /\ \/ TrustedHuman(PolicyAt[r.base], SignatureOf[e])
                              \/ PassedOver(e, r.base, r.head, r.target)

\* "Either way, the trusted policy is read from this ref [...] pull_request: use
\* the base sha" (agent-signing-verify.yml): a pull request that was merged on a
\* green check edits the policy only with the signature of a human of the
\* policy it was merged into.
MergedPrTrusted ==
    \A r \in runs : r.merged => TrustedEdits(r.target, r.head, r.target)

\* The policy of `head` was in force once before `base`; or there is none, as in
\* an unrelated history the range brings in.
TakenBack(base, head) ==
    \/ \E a \in Anc[base] : PolicyAt[a] = PolicyAt[head]
    \/ PolicyAt[head] = <<>> /\ \E c \in CommitRange(base, head) : ParentSet(c) = {}

\* "Reject any commit in base..head that MODIFIES the signer policy unless that
\* commit is signed by a HUMAN who was already trusted" (verify_policy_changes):
\* when a branch that grew from base has another policy than base and its run is
\* green, a human of the policy at base signed a commit with the new policy, or
\* the new policy is an old one. A merge that takes an old policy back by keeping
\* the side of a branch without the later edits is listed by nobody and may be
\* anybody's; no merge gets a policy of its own making past the gate.
GreenChangeHasHuman ==
    \A r \in runs :
        (/\ r.verdict = "green"
         /\ r.base \in Anc[r.head]
         /\ PolicyAt[r.head] # PolicyAt[r.base])
          => \/ TakenBack(r.base, r.head)
             \/ \E c \in CommitRange(r.base, r.head) :
                   /\ PolicyAt[c] = PolicyAt[r.head]
                   /\ TrustedHuman(PolicyAt[r.base], SignatureOf[c])
=============================================================================
