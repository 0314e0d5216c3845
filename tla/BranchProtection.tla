-------------------------- MODULE BranchProtection --------------------------
(***************************************************************************)
(* `sscsb harden branch-protection` and the branch-protection control of   *)
(* `sscsb verify`, against a forge whose administrators change rulesets    *)
(* and classic protection meanwhile. harden reads a ruleset, changes the   *)
(* parameters it owns and PUTs the whole body back, through a pipe to gh;  *)
(* verify asks up to three endpoints per branch. Any request may fail.     *)
(*                                                                         *)
(* The parameters harden owns are `dismiss` and `reviews` of pull_request  *)
(* (the second-reviewer tier, as a number of approvals) and `strict` of    *)
(* required_status_checks. non_fast_forward and required_signatures are    *)
(* one rule here, "safeguards", which also stands for bypass actors and    *)
(* whatever else the body carries.                                         *)
(***************************************************************************)
EXTENDS Pipes, SequencesExt

CONSTANTS
    Branches,       \* general.protected_branches, a sequence
    Default,        \* the forge's default branch
    Ids,            \* ruleset ids, in the order the forge lists them
    Starts,         \* forges to start from
    MaxEdits        \* bound: an administrator's edits

ASSUME BranchProtectionAssumption ==
    /\ MaxEdits \in Nat /\ Branches \in Seq(STRING) /\ Branches # <<>>
    /\ Ids \in Seq(ToSet(Ids))

VARIABLES
    rulesets,       \* [id -> ruleset]; one that is not `there` does not exist
    classic,        \* [branch -> the rules of its classic protection]
    remote,         \* the branches that exist on the forge
    harden,         \* the harden run
    verify,         \* the verify run
    edits,
    told            \* history: what administrators want, and which of it was raced

forge == <<rulesets, classic, remote>>
vars == <<call, forge, harden, verify, edits, told>>

Required == {"pull_request", "required_status_checks", "safeguards"}

Parameters == {"absent", "bare", "set"}
Ruleset == [there : BOOLEAN, active : BOOLEAN, include : SUBSET STRING, safe : BOOLEAN,
            pr : [is : Parameters, dismiss : BOOLEAN, reviews : 0..2],
            checks : [is : Parameters, strict : BOOLEAN]]

\* On a forge the default branch exists, and only branches that exist have
\* classic protection.
ASSUME StartsAssumption ==
    \A start \in Starts :
        /\ start.rulesets \in [ToSet(Ids) -> Ruleset]
        /\ start.classic \in [start.remote \cup ToSet(Branches) -> SUBSET Required]
        /\ start.remote \subseteq STRING /\ Default \in start.remote
        /\ \A b \in DOMAIN start.classic : start.classic[b] # {} => b \in start.remote

(***************************************************************************)
(* The forge.                                                              *)
(***************************************************************************)
Covers(id, b) ==
    /\ rulesets[id].there
    /\ \/ "~ALL" \in rulesets[id].include
       \/ "~DEFAULT_BRANCH" \in rulesets[id].include /\ b = Default
       \/ b \in rulesets[id].include
Governing(b) == {id \in ToSet(Ids) : Covers(id, b) /\ rulesets[id].active}

Types(r) == (IF r.pr.is = "absent" THEN {} ELSE {"pull_request"})
            \cup (IF r.checks.is = "absent" THEN {} ELSE {"required_status_checks"})
            \cup (IF r.safe THEN {"safeguards"} ELSE {})
Rules(b) == UNION {Types(rulesets[id]) : id \in Governing(b)}
Protected(b) == Required \subseteq Rules(b) \cup classic[b]

\* What harden leaves alone of a ruleset.
Theirs(r) == [there |-> r.there, active |-> r.active, include |-> r.include,
              types |-> Types(r)]

NoRuleset == [there |-> FALSE, active |-> FALSE, include |-> {}, safe |-> FALSE,
              pr |-> [is |-> "absent", dismiss |-> FALSE, reviews |-> 0],
              checks |-> [is |-> "absent", strict |-> FALSE]]
NotHardening == [at |-> "idle", apply |-> FALSE, reviews |-> 0, todo |-> <<>>, ids |-> {},
                 handled |-> {}, id |-> 0, body |-> NoRuleset, landed |-> FALSE,
                 found |-> FALSE, ok |-> TRUE, clean |-> TRUE]
NotVerifying == [at |-> "idle", todo |-> <<>>, answered |-> FALSE, unreadable |-> FALSE,
                 gaps |-> FALSE, out |-> "none", earned |-> {}, unread |-> {}, real |-> FALSE]

Init ==
    /\ \E start \in Starts :
          /\ rulesets = start.rulesets /\ classic = start.classic /\ remote = start.remote
          /\ told = [theirs |-> [id \in ToSet(Ids) |-> Theirs(start.rulesets[id])], raced |-> {}]
    /\ call = NoCall
    /\ harden = NotHardening /\ verify = NotVerifying
    /\ edits = 0

(***************************************************************************)
(* harden.                                                                 *)
(***************************************************************************)
StartHarden(apply, reviews) ==
    /\ harden.at = "idle"
    /\ harden' = [NotHardening EXCEPT !.at = "list", !.todo = Branches,
                                      !.apply = apply, !.reviews = reviews]
    /\ UNCHANGED <<call, forge, verify, edits, told>>

NextBranch(h) == [h EXCEPT !.at = "list", !.todo = Tail(@), !.ids = {},
                           !.id = 0, !.body = NoRuleset]

\* `ids` are the places in the list still to look at. A list that cannot be read
\* counts as no ruleset.
List ==
    /\ harden.at = "list" /\ harden.todo # <<>>
    /\ \/ harden' = [harden EXCEPT !.at = "get",
                         !.ids = {k \in DOMAIN Ids : rulesets[Ids[k]].there}]
       \/ harden' = [NextBranch(harden) EXCEPT !.clean = FALSE]
    /\ UNCHANGED <<call, forge, verify, edits, told>>

\* ~DEFAULT_BRANCH counts for every branch; enforcement is not looked at.
Matches(id, b) ==
    /\ rulesets[id].there /\ rulesets[id].pr.is # "absent"
    /\ rulesets[id].include \cap {"~ALL", "~DEFAULT_BRANCH", b} # {}

\* plan_branch_protection: a rule without parameters is skipped.
Changes(r) ==
    \/ r.pr.is = "set" /\ (~r.pr.dismiss \/ r.pr.reviews # harden.reviews)
    \/ r.checks.is = "set" /\ ~r.checks.strict

\* The status checks are forgotten.
ApplyToReviews(r) ==
    [r EXCEPT !.pr = [is |-> "set", dismiss |-> TRUE, reviews |-> harden.reviews]]
\* The rules are built anew.
ApplyToNothing(r) ==
    [r EXCEPT !.pr = [is |-> "set", dismiss |-> TRUE, reviews |-> harden.reviews],
              !.checks = IF @.is = "absent" THEN @ ELSE [is |-> "set", strict |-> TRUE],
              !.safe = FALSE]
\* apply_to_ruleset: parameters are made where the rule has none.
ApplyTo(r) ==
    [r EXCEPT !.pr = IF @.is = "absent" THEN @
                     ELSE [is |-> "set", dismiss |-> TRUE, reviews |-> harden.reviews],
              !.checks = IF @.is = "absent" THEN @ ELSE [is |-> "set", strict |-> TRUE]]

\* A ruleset that does not match, or cannot be read, is passed over; with no
\* ruleset left the branch is skipped.
PassOver ==
    /\ harden.at = "get"
    /\ \/ /\ harden.ids = {}
          /\ harden' = NextBranch(harden)
       \/ /\ harden.ids # {}
          /\ harden' = [harden EXCEPT !.ids = @ \ {Min(@)},
                            !.clean = @ /\ ~Matches(Ids[Min(harden.ids)], Head(harden.todo))]
    /\ UNCHANGED <<call, forge, verify, edits, told>>

\* The first that matches is the branch's: nothing to write...
Settled(id) == id \in harden.handled \/ ~harden.apply \/ ~Changes(rulesets[id])

Found(id) ==
    harden.ids # {} /\ id = Ids[Min(harden.ids)] /\ Matches(id, Head(harden.todo))
Settle(id) ==
    /\ harden.at = "get" /\ Found(id) /\ Settled(id)
    /\ harden' = [NextBranch(harden) EXCEPT !.found = TRUE, !.handled = @ \cup {id}]
    /\ UNCHANGED <<call, forge, verify, edits, told>>
\* ...or the whole body, with the owned parameters changed.
Put(id) ==
    /\ harden.at = "get" /\ Found(id) /\ ~Settled(id)
    /\ harden' = [harden EXCEPT !.at = "put", !.found = TRUE, !.handled = @ \cup {id},
                      !.id = id, !.body = ApplyTo(rulesets[id]), !.landed = FALSE]
    /\ \E size \in {Capacity, MaxData}, habit \in Habits : Spawn(size, MaxData, habit)
    /\ UNCHANGED <<forge, verify, edits, told>>

Pipe ==
    /\ Parent \/ ReadStdin \/ PrintStdout
    /\ UNCHANGED <<forge, harden, verify, edits, told>>

\* gh ends: without a request, with a PUT the forge refuses or whose answer is
\* lost, or with one that landed.
GhFails ==
    /\ Exit
    /\ harden' = [harden EXCEPT !.landed = FALSE]
    /\ UNCHANGED <<forge, verify, edits, told>>
GhPuts ==
    /\ Exit /\ call.habit # "quits"
    /\ rulesets[harden.id].there
    /\ rulesets' = [rulesets EXCEPT ![harden.id] = harden.body]
    /\ \E heard \in BOOLEAN : harden' = [harden EXCEPT !.landed = heard]
    /\ UNCHANGED <<classic, remote, verify, edits, told>>

Answered ==
    /\ harden.at = "put" /\ call.at = "returned"
    /\ harden' = [NextBranch(harden) EXCEPT !.ok = @ /\ harden.landed]
    /\ call' = NoCall
    /\ UNCHANGED <<forge, verify, edits, told>>

FinishHarden ==
    /\ harden.at = "list" /\ harden.todo = <<>>
    /\ harden' = [harden EXCEPT !.at = "done", !.ok = @ /\ harden.found, !.handled = {},
                                !.landed = FALSE]
    /\ UNCHANGED <<call, forge, verify, edits, told>>

HardenStep ==
    \/ List \/ PassOver \/ Answered \/ FinishHarden
    \/ \E id \in ToSet(Ids) : Settle(id) \/ Put(id)
GhEnds == GhFails \/ GhPuts

(***************************************************************************)
(* verify, one request per step.                                           *)
(***************************************************************************)
StartVerify ==
    /\ verify.at = "idle"
    /\ verify' = [NotVerifying EXCEPT !.at = "rules", !.todo = Branches]
    /\ UNCHANGED <<call, forge, harden, edits, told>>

Pop(v) == [v EXCEPT !.at = "rules", !.todo = Tail(@)]
Skip(v) == [Pop(v) EXCEPT !.unread = @ \cup {Head(v.todo)}]
Unreadable(v) == [Pop(v) EXCEPT !.answered = TRUE, !.unreadable = TRUE]
\* The four rule types are looked for in what one endpoint answered. History:
\* whether the branch has them at this moment, from either mechanism.
Judge(v, rules) ==
    LET b == Head(v.todo)
        gap == ~(Required \subseteq rules)
        mixed == Rules(b) # {} /\ classic[b] # {}
        real == /\ gap /\ (~Protected(b) \/ mixed)
                /\ b \in remote \/ v.at = "rules"
    IN  [Pop(v) EXCEPT
            !.answered = TRUE, !.gaps = @ \/ gap,
            !.earned = IF ~gap /\ Protected(b) THEN @ \cup {b} ELSE @,
            !.real = @ \/ real]

AskRules ==
    /\ verify.at = "rules" /\ verify.todo # <<>>
    /\ LET b == Head(verify.todo)
       IN  \/ verify' = Skip(verify)
           \/ verify' = IF Rules(b) = {} THEN [verify EXCEPT !.at = "classic"]
                        ELSE Judge(verify, Rules(b))
    /\ UNCHANGED <<call, forge, harden, edits, told>>

\* For administrators only, and only where there is classic protection.
AskClassic ==
    /\ verify.at = "classic"
    /\ LET b == Head(verify.todo)
       IN  \/ verify' = [verify EXCEPT !.at = "record"]
           \/ classic[b] # {} /\ verify' = Judge(verify, classic[b])
    /\ UNCHANGED <<call, forge, harden, edits, told>>

\* A missing branch is answered with the default branch's record.
Named(b) == IF b \in remote THEN b ELSE Default
Flag(b) == classic[b] # {} \/ Rules(b) # {}
AskRecord ==
    /\ verify.at = "record"
    /\ LET b == Head(verify.todo)
       IN  \/ verify' = Unreadable(verify)
           \/ verify' = IF Named(b) # b THEN Skip(verify)
                        ELSE IF Flag(b) THEN Unreadable(verify) ELSE Judge(verify, {})
    /\ UNCHANGED <<call, forge, harden, edits, told>>

\* gh cannot be started any more.
GhGone ==
    /\ verify.at \in {"rules", "classic"} /\ verify.todo # <<>>
    /\ verify' = [NotVerifying EXCEPT !.at = "done", !.out = "degraded"]
    /\ UNCHANGED <<call, forge, harden, edits, told>>

\* The protected flag alone is good enough.
VerdictOfFlag ==
    IF ~verify.answered THEN "degraded" ELSE IF verify.gaps THEN "fail" ELSE "pass"
Verdict ==
    IF ~verify.answered THEN "degraded"
    ELSE IF verify.gaps THEN "fail"
    ELSE IF verify.unreadable THEN "degraded" ELSE "pass"

FinishVerify ==
    /\ verify.at = "rules" /\ verify.todo = <<>>
    /\ verify' = [verify EXCEPT !.at = "done", !.out = Verdict, !.answered = FALSE,
                                !.unreadable = FALSE, !.gaps = FALSE]
    /\ UNCHANGED <<call, forge, harden, edits, told>>

VerifyStep == AskRules \/ AskClassic \/ AskRecord \/ FinishVerify

(***************************************************************************)
(* An administrator.                                                       *)
(***************************************************************************)
InFlight(id) == harden.at = "put" /\ harden.id = id /\ call.alive
Edit(id, r) ==
    /\ rulesets' = [rulesets EXCEPT ![id] = r]
    /\ told' = [theirs |-> [told.theirs EXCEPT ![id] = Theirs(r)],
                raced |-> told.raced \cup (IF InFlight(id) THEN {id} ELSE {})]
    /\ UNCHANGED <<classic, remote>>
EditRuleset(id) ==
    /\ rulesets[id].there
    /\ LET r == rulesets[id]
       IN  \/ Edit(id, NoRuleset)
           \/ Edit(id, [r EXCEPT !.active = ~@])
           \/ Edit(id, [r EXCEPT !.safe = ~@])
           \/ r.pr.is = "set" /\ Edit(id, [r EXCEPT !.pr.reviews = 2 - @])
EditClassic(b) ==
    /\ classic' = [classic EXCEPT ![b] = IF @ = {} THEN Required ELSE {}]
    /\ UNCHANGED <<rulesets, remote, told>>
MakeBranch ==
    /\ remote' = remote \cup ToSet(Branches)
    /\ UNCHANGED <<rulesets, classic, told>>

Administer ==
    /\ edits < MaxEdits /\ edits' = edits + 1
    /\ \/ \E id \in ToSet(Ids) : EditRuleset(id)
       \/ \E b \in remote : EditClassic(b)
       \/ ~(ToSet(Branches) \subseteq remote) /\ MakeBranch
    /\ harden' = [harden EXCEPT !.clean = (harden.at = "idle")]
    /\ UNCHANGED <<call, verify>>

(***************************************************************************)
(* The specification: runs go on once started, and so does gh.             *)
(***************************************************************************)
Next ==
    \/ StartHarden(FALSE, 0) \/ StartHarden(TRUE, 0) \/ StartHarden(TRUE, 1)
    \/ HardenStep \/ Pipe \/ GhEnds
    \/ StartVerify \/ VerifyStep \/ GhGone
    \/ Administer

Fairness == WF_vars(HardenStep) /\ WF_vars(Pipe) /\ WF_vars(GhEnds) /\ WF_vars(VerifyStep)
Spec == Init /\ [][Next]_vars /\ Fairness

(***************************************************************************)
(* Properties.                                                             *)
(***************************************************************************)
\* The whole body is PUT back without a precondition: what an administrator
\* changed of it, or left as it was, is as they left it, unless they changed it
\* between harden's GET of this ruleset and its PUT.
AdminEditsSurvive ==
    \A id \in ToSet(Ids) \ told.raced : Theirs(rulesets[id]) = told.theirs[id]

\* When an applied run reports success, and no request of its failed and no
\* administrator came between, then each branch whose first matching ruleset is
\* enforced, really covers it and has both rules with parameters gets the
\* posture asked for. (harden does not look at enforcement, at which branch is
\* the default one, or at a second ruleset; a bare rule is skipped.)
FirstMatch(b) == Ids[Min({k \in DOMAIN Ids : Matches(Ids[k], b)})]
HardenedMeansAligned ==
    harden.at = "done" /\ harden.ok /\ harden.apply /\ harden.clean =>
        \A b \in ToSet(Branches) :
            (\E id \in ToSet(Ids) : Matches(id, b)) =>
                LET r == rulesets[FirstMatch(b)]
                IN  /\ FirstMatch(b) \in Governing(b)
                    /\ r.pr.is = "set" /\ r.checks.is = "set"
                    => r.pr.dismiss /\ r.checks.strict /\ r.pr.reviews = harden.reviews

\* A PASS of the control is earned: each configured branch had all four rule
\* types on it when it was judged, from rulesets or classic protection, or is
\* one the forge gave no answer about; and there was one that had them.
PassIsEarned ==
    verify.out = "pass" =>
        /\ verify.earned # {}
        /\ ToSet(Branches) \subseteq verify.earned \cup verify.unread

\* A FAIL is real: some branch that exists, or that rulesets apply to, lacked a
\* rule when it was judged, or has part of its rules from each mechanism, which
\* verify never adds up.
FailIsReal == verify.out = "fail" => verify.real

\* What verify says of the branches is so: a PASS is earned and a FAIL is real,
\* though each request may be refused and answers come from three endpoints
\* (audit.rs verify_branch_protection).
VerdictIsReal == PassIsEarned /\ FailIsReal

\* Every harden run ends, however much gh prints and whether or not it reads,
\* unless gh prints without having read and neither direction fits into its pipe.
HardenEnds == harden.at # "idle" ~> (harden.at = "done" \/ MayBlock)
=============================================================================
