----------------------- MODULE BranchProtectionProofs -----------------------
(***************************************************************************)
(* Proofs about BranchProtection: what administrators leave alone of a     *)
(* ruleset survives harden's PUT of the whole body, a run that reports     *)
(* success has aligned what it says, and what verify says of the branches  *)
(* is so.                                                                  *)
(***************************************************************************)
EXTENDS BranchProtection, WellFoundedInduction, TLAPS

(***************************************************************************)
(* The inductive invariants. The call of a harden run is alive only while  *)
(* the run waits for it.                                                   *)
(***************************************************************************)
Call == [at : {"none", "writing", "waiting", "returned"}, size : Nat, prints : Nat,
         habit : Habits, left : Nat, stdin : Nat, owes : Nat, stdout : Nat, alive : BOOLEAN]

Standing == [there : BOOLEAN, active : BOOLEAN, include : SUBSET STRING,
             types : SUBSET Required]

HardenFields == {"at", "apply", "reviews", "todo", "ids", "handled", "id", "body",
                 "landed", "found", "ok", "clean"}

HardenTyped ==
    /\ DOMAIN harden = HardenFields
    /\ harden.reviews \in 0..2
    /\ harden.at = "put" => harden.id \in ToSet(Ids) /\ harden.body \in Ruleset

AdminTyped ==
    /\ rulesets \in [ToSet(Ids) -> Ruleset]
    /\ told \in [theirs : [ToSet(Ids) -> Standing], raced : SUBSET ToSet(Ids)]
    /\ call \in Call
    /\ HardenTyped
    /\ call.alive => harden.at = "put"

\* The body on its way differs from the ruleset it replaces in what harden
\* owns, unless an administrator has changed the ruleset meanwhile.
BodyIsTheirs ==
    call.alive => harden.id \in told.raced \/ Theirs(harden.body) = Theirs(rulesets[harden.id])

AdminInv == AdminTyped /\ AdminEditsSurvive /\ BodyIsTheirs

\* Classic protection stands on branches that exist.
ForgeTyped ==
    /\ classic \in [remote \cup ToSet(Branches) -> SUBSET Required]
    /\ Default \in remote
    /\ \A b \in remote \cup ToSet(Branches) : classic[b] # {} => b \in remote

Verifier == [at : {"idle", "rules", "classic", "record", "done"}, todo : Seq(STRING),
             answered : BOOLEAN, unreadable : BOOLEAN, gaps : BOOLEAN,
             out : {"none", "degraded", "fail", "pass"}, earned : SUBSET STRING,
             unread : SUBSET STRING, real : BOOLEAN]

VerifyTyped ==
    /\ verify \in Verifier
    /\ verify.at \in {"classic", "record"} => verify.todo # <<>>
    /\ ToSet(verify.todo) \subseteq ToSet(Branches)

\* While verify runs: without a gap or an unreadable answer so far, each branch
\* is earned, skipped or still to come, and an answer was earned; and a gap so
\* far was real.
NothingMissed ==
    verify.at \in {"rules", "classic", "record"} /\ ~verify.gaps /\ ~verify.unreadable =>
        /\ ToSet(Branches) \subseteq verify.earned \cup verify.unread \cup ToSet(verify.todo)
        /\ verify.answered => verify.earned # {}
GapsReal == verify.gaps => verify.real
NoVerdictYet == verify.at # "done" => verify.out = "none"

VerdictInv ==
    /\ ForgeTyped /\ VerifyTyped
    /\ NothingMissed /\ GapsReal /\ NoVerdictYet
    /\ VerdictIsReal

-----------------------------------------------------------------------------
(***************************************************************************)
(* The pipe to gh: only its end stops the call.                            *)
(***************************************************************************)
LEMMA PipeTyped ==
    ASSUME call \in Call, Parent \/ ReadStdin \/ PrintStdout
    PROVE  call' \in Call /\ call'.alive = call.alive
<1>1. CASE WriteStdin
  <2>1. call.left - 1 \in Nat /\ call.stdin + 1 \in Nat
    BY <1>1 DEF WriteStdin, Call
  <2>2. QED
    BY <1>1, <2>1 DEF WriteStdin, Call
<1>2. CASE CloseStdin
  BY <1>2 DEF CloseStdin, Call
<1>3. CASE DrainStdout
  <2>1. call.stdout - 1 \in Nat
    BY <1>3 DEF DrainStdout, Call
  <2>2. QED
    BY <1>3, <2>1 DEF DrainStdout, Call
<1>4. CASE Reap
  BY <1>4 DEF Reap, Call
<1>5. CASE ReadStdin
  <2>1. call.stdin > 0 /\ call' = [call EXCEPT !.stdin = @ - 1]
    BY <1>5 DEF ReadStdin
  <2>2. call.stdin - 1 \in Nat
    BY <2>1 DEF Call
  <2>3. QED
    BY <2>1, <2>2 DEF Call
<1>6. CASE PrintStdout
  <2>1. call.owes > 0 /\ call' = [call EXCEPT !.owes = @ - 1, !.stdout = @ + 1]
    BY <1>6 DEF PrintStdout
  <2>2. call.owes - 1 \in Nat /\ call.stdout + 1 \in Nat
    BY <2>1 DEF Call
  <2>3. QED
    BY <2>1, <2>2 DEF Call
<1>7. QED
  BY <1>1, <1>2, <1>3, <1>4, <1>5, <1>6 DEF Parent

LEMMA ExitTyped == ASSUME call \in Call, Exit PROVE call' \in Call /\ ~call'.alive
BY DEF Exit, MayExit, Call

LEMMA SpawnTyped ==
    ASSUME NEW size \in {Capacity, MaxData}, NEW habit \in Habits, Spawn(size, MaxData, habit)
    PROVE  call' \in Call
BY PipesAssumption DEF Spawn, Call

LEMMA NoCallTyped == NoCall \in Call /\ ~NoCall.alive
BY DEF NoCall, Call, Habits

(***************************************************************************)
(* Rulesets: what harden writes leaves theirs alone.                       *)
(***************************************************************************)
LEMMA NoRulesetTyped == NoRuleset \in Ruleset
BY DEF NoRuleset, Ruleset, Parameters

LEMMA TheirsTyped == ASSUME NEW r \in Ruleset PROVE Theirs(r) \in Standing
<1>1. Types(r) \in SUBSET Required
  BY DEF Types, Required
<1>2. QED
  BY <1>1 DEF Theirs, Standing, Ruleset

LEMMA ApplyToTyped ==
    ASSUME NEW r \in Ruleset, harden.reviews \in 0..2
    PROVE  ApplyTo(r) \in Ruleset
<1> DEFINE pr == IF r.pr.is = "absent" THEN r.pr
                 ELSE [is |-> "set", dismiss |-> TRUE, reviews |-> harden.reviews]
           checks == IF r.checks.is = "absent" THEN r.checks ELSE [is |-> "set", strict |-> TRUE]
<1>1. pr \in [is : Parameters, dismiss : BOOLEAN, reviews : 0..2]
  BY DEF Ruleset, Parameters
<1>2. checks \in [is : Parameters, strict : BOOLEAN]
  BY DEF Ruleset, Parameters
<1>3. ApplyTo(r) = [r EXCEPT !.pr = pr, !.checks = checks]
  BY DEF ApplyTo, Ruleset
<1> HIDE DEF pr, checks
<1>4. QED
  BY <1>1, <1>2, <1>3 DEF Ruleset

LEMMA ApplyToIsTheirs ==
    ASSUME NEW r \in Ruleset, harden.reviews \in 0..2
    PROVE  Theirs(ApplyTo(r)) = Theirs(r)
<1>1. /\ ApplyTo(r).there = r.there /\ ApplyTo(r).active = r.active
      /\ ApplyTo(r).include = r.include /\ ApplyTo(r).safe = r.safe
  BY DEF ApplyTo, Ruleset
<1>2. ApplyTo(r).pr.is = "absent" <=> r.pr.is = "absent"
  BY DEF ApplyTo, Ruleset
<1>3. ApplyTo(r).checks.is = "absent" <=> r.checks.is = "absent"
  BY DEF ApplyTo, Ruleset
<1>4. QED
  BY <1>1, <1>2, <1>3 DEF Theirs, Types

LEMMA NextBranchFields ==
    ASSUME DOMAIN harden = HardenFields
    PROVE  /\ DOMAIN NextBranch(harden) = HardenFields /\ NextBranch(harden).at = "list"
           /\ NextBranch(harden).reviews = harden.reviews
BY DEF NextBranch, HardenFields

(***************************************************************************)
(* Sequences, and the first of a list.                                     *)
(***************************************************************************)
LEMMA HeadAndTail ==
    ASSUME NEW s \in Seq(STRING), s # <<>>
    PROVE  /\ Head(s) \in STRING /\ Tail(s) \in Seq(STRING)
           /\ Head(s) \in ToSet(s) /\ ToSet(Tail(s)) \subseteq ToSet(s)
           /\ ToSet(s) \subseteq {Head(s)} \cup ToSet(Tail(s))
<1>1. Len(s) \in Nat \ {0} /\ DOMAIN s = 1 .. Len(s)
  OBVIOUS
<1>2. Tail(s) \in Seq(STRING) /\ DOMAIN Tail(s) = 1 .. (Len(s) - 1)
  BY <1>1
<1>3. \A i \in DOMAIN Tail(s) : Tail(s)[i] = s[i + 1] /\ i + 1 \in DOMAIN s
  BY <1>1, <1>2
<1>4. \A i \in DOMAIN s : i = 1 \/ (i - 1 \in DOMAIN Tail(s) /\ s[i] = Tail(s)[i - 1])
  BY <1>1, <1>2
<1>5. Head(s) = s[1] /\ 1 \in DOMAIN s
  BY <1>1
<1>6. QED
  BY <1>2, <1>3, <1>4, <1>5 DEF ToSet

LEMMA LeastOf ==
    ASSUME NEW T, T \subseteq Nat, T # {} PROVE Min(T) \in T /\ \A m \in T : Min(T) <= m
<1> DEFINE Less == {ss \in Nat \X Nat : ss[1] < ss[2]}
<1>1. IsWellFoundedOn(Less, Nat)
  BY NatLessThanWellFounded DEF OpToRel
<1>2. \A m, n \in Nat : <<m, n>> \in Less <=> m < n
  OBVIOUS
<1> HIDE DEF Less
<1>3. PICK n \in T : \A m \in T : ~(<<m, n>> \in Less)
  BY <1>1, WFMin
<1>4. \A m \in T : n <= m
  <2> SUFFICES ASSUME NEW m \in T PROVE n <= m
    OBVIOUS
  <2>1. m \in Nat /\ n \in Nat
    OBVIOUS
  <2>2. ~(m < n)
    BY <1>2, <1>3, <2>1
  <2>3. QED
    BY <2>1, <2>2
<1>5. QED
  BY <1>4 DEF Min

(***************************************************************************)
(* AdminInv.                                                               *)
(***************************************************************************)
LEMMA InitAdmin == Init => AdminInv
<1> SUFFICES ASSUME Init PROVE AdminInv
  OBVIOUS
<1>1. rulesets \in [ToSet(Ids) -> Ruleset]
  BY StartsAssumption DEF Init
<1>2. told = [theirs |-> [id \in ToSet(Ids) |-> Theirs(rulesets[id])], raced |-> {}]
  BY DEF Init
<1>3. \A id \in ToSet(Ids) : Theirs(rulesets[id]) \in Standing
  BY <1>1, TheirsTyped
<1>4. told \in [theirs : [ToSet(Ids) -> Standing], raced : SUBSET ToSet(Ids)]
  BY <1>2, <1>3
<1>5. HardenTyped
  BY DEF Init, NotHardening, HardenTyped, HardenFields
<1>6. AdminEditsSurvive
  BY <1>2 DEF AdminEditsSurvive
<1>7. QED
  BY <1>1, <1>4, <1>5, <1>6, NoCallTyped DEF Init, AdminInv, AdminTyped, BodyIsTheirs

\* A step of harden that sends nothing.
LEMMA HardenQuiet ==
    ASSUME AdminInv, ~call'.alive, call' \in Call, UNCHANGED <<rulesets, told>>, HardenTyped'
    PROVE  AdminInv'
BY DEF AdminInv, AdminTyped, AdminEditsSurvive, BodyIsTheirs

LEMMA AdminKept == AdminInv /\ [Next]_vars => AdminInv'
<1> SUFFICES ASSUME AdminInv, [Next]_vars PROVE AdminInv'
  OBVIOUS
<1> USE DEF AdminInv
<1>1. ASSUME NEW apply \in BOOLEAN, NEW reviews \in {0, 1}, StartHarden(apply, reviews)
      PROVE  AdminInv'
  <2>1. HardenTyped'
    BY <1>1 DEF StartHarden, NotHardening, HardenTyped, HardenFields
  <2>2. ~call.alive
    BY <1>1 DEF StartHarden, AdminTyped
  <2>3. QED
    BY <1>1, <2>1, <2>2, HardenQuiet DEF StartHarden, AdminTyped, forge
<1>2. CASE List
  <2>1. HardenTyped'
    BY <1>2, NextBranchFields DEF List, NextBranch, AdminTyped, HardenTyped, HardenFields
  <2>2. ~call.alive
    BY <1>2 DEF List, AdminTyped
  <2>3. QED
    BY <1>2, <2>1, <2>2, HardenQuiet DEF List, AdminTyped, forge
<1>3. CASE PassOver
  <2>1. HardenTyped'
    BY <1>3 DEF PassOver, NextBranch, AdminTyped, HardenTyped, HardenFields
  <2>2. ~call.alive
    BY <1>3 DEF PassOver, AdminTyped
  <2>3. QED
    BY <1>3, <2>1, <2>2, HardenQuiet DEF PassOver, AdminTyped, forge
<1>4. CASE Answered
  <2>1. HardenTyped'
    BY <1>4 DEF Answered, NextBranch, AdminTyped, HardenTyped, HardenFields
  <2>2. QED
    BY <1>4, <2>1, NoCallTyped, HardenQuiet DEF Answered, forge
<1>5. CASE FinishHarden
  <2>1. HardenTyped'
    BY <1>5 DEF FinishHarden, AdminTyped, HardenTyped, HardenFields
  <2>2. ~call.alive
    BY <1>5 DEF FinishHarden, AdminTyped
  <2>3. QED
    BY <1>5, <2>1, <2>2, HardenQuiet DEF FinishHarden, AdminTyped, forge
<1>6. ASSUME NEW id \in ToSet(Ids), Settle(id) PROVE AdminInv'
  <2>1. HardenTyped'
    BY <1>6 DEF Settle, NextBranch, AdminTyped, HardenTyped, HardenFields
  <2>2. ~call.alive
    BY <1>6 DEF Settle, AdminTyped
  <2>3. QED
    BY <1>6, <2>1, <2>2, HardenQuiet DEF Settle, AdminTyped, forge
<1>7. ASSUME NEW id \in ToSet(Ids), Put(id) PROVE AdminInv'
  <2>1. rulesets[id] \in Ruleset /\ harden.reviews \in 0..2
    BY DEF AdminTyped, HardenTyped
  <2>2. ApplyTo(rulesets[id]) \in Ruleset
    BY <2>1, ApplyToTyped
  <2>3. /\ DOMAIN harden' = HardenFields /\ harden'.at = "put" /\ harden'.id = id
        /\ harden'.body = ApplyTo(rulesets[id]) /\ harden'.reviews = harden.reviews
    BY <1>7 DEF Put, AdminTyped, HardenTyped, HardenFields
  <2>4. call' \in Call
    BY <1>7, SpawnTyped DEF Put
  <2>5. AdminTyped'
    BY <1>7, <2>1, <2>2, <2>3, <2>4 DEF Put, AdminTyped, HardenTyped, forge
  <2>6. BodyIsTheirs'
    BY <1>7, <2>1, <2>3, ApplyToIsTheirs DEF Put, BodyIsTheirs, forge
  <2>7. QED
    BY <1>7, <2>5, <2>6 DEF Put, AdminEditsSurvive, forge
<1>8. CASE Pipe
  <2>1. call' \in Call /\ call'.alive = call.alive
    BY <1>8, PipeTyped DEF Pipe, AdminTyped
  <2>2. QED
    BY <1>8, <2>1
    DEF Pipe, AdminTyped, HardenTyped, AdminEditsSurvive, BodyIsTheirs, forge
<1>9. CASE GhFails
  <2>1. call' \in Call /\ ~call'.alive
    BY <1>9, ExitTyped DEF GhFails, AdminTyped
  <2>2. HardenTyped'
    BY <1>9 DEF GhFails, AdminTyped, HardenTyped, HardenFields
  <2>3. QED
    BY <1>9, <2>1, <2>2, HardenQuiet DEF GhFails, forge
<1>10. CASE GhPuts
  <2>1. call' \in Call /\ ~call'.alive /\ call.alive
    BY <1>10, ExitTyped DEF GhPuts, AdminTyped, Exit, MayExit
  <2>2. harden.id \in ToSet(Ids) /\ harden.body \in Ruleset
    BY <2>1 DEF AdminTyped, HardenTyped
  <2>3. rulesets' = [rulesets EXCEPT ![harden.id] = harden.body] /\ told' = told
    BY <1>10 DEF GhPuts
  <2>4. HardenTyped'
    BY <1>10, <2>2 DEF GhPuts, AdminTyped, HardenTyped, HardenFields
  <2>5. AdminTyped'
    BY <2>1, <2>2, <2>3, <2>4 DEF AdminTyped
  <2>6. AdminEditsSurvive'
    <3> SUFFICES ASSUME NEW id \in ToSet(Ids) \ told.raced
                 PROVE  Theirs(rulesets'[id]) = told.theirs[id]
      BY <2>3 DEF AdminEditsSurvive, Theirs, Types
    <3>1. CASE id = harden.id
      <4>1. rulesets'[id] = harden.body
        BY <2>2, <2>3, <3>1 DEF AdminTyped
      <4>2. Theirs(harden.body) = Theirs(rulesets[id])
        BY <2>1, <3>1 DEF BodyIsTheirs
      <4>3. QED
        BY <4>1, <4>2 DEF AdminEditsSurvive
    <3>2. CASE id # harden.id
      BY <2>3, <3>2 DEF AdminEditsSurvive, AdminTyped
    <3>3. QED
      BY <3>1, <3>2
  <2>7. QED
    BY <2>1, <2>5, <2>6 DEF BodyIsTheirs
<1>11. ASSUME NEW id \in ToSet(Ids), NEW r \in Ruleset, Edit(id, r), UNCHANGED call,
              harden' = [harden EXCEPT !.clean = (harden.at = "idle")]
       PROVE  AdminInv'
  <2>1. rulesets' = [rulesets EXCEPT ![id] = r] /\ rulesets' \in [ToSet(Ids) -> Ruleset]
    BY <1>11 DEF Edit, AdminTyped
  <2>2. /\ told'.theirs = [told.theirs EXCEPT ![id] = Theirs(r)]
        /\ told'.raced = told.raced \cup (IF InFlight(id) THEN {id} ELSE {})
        /\ told' = [theirs |-> told'.theirs, raced |-> told'.raced]
    BY <1>11 DEF Edit
  <2>3. told' \in [theirs : [ToSet(Ids) -> Standing], raced : SUBSET ToSet(Ids)]
    BY <2>2, TheirsTyped DEF AdminTyped
  <2>4. /\ HardenTyped' /\ harden'.at = harden.at /\ harden'.id = harden.id
        /\ harden'.body = harden.body
    BY <1>11 DEF AdminTyped, HardenTyped, HardenFields
  <2>5. AdminTyped'
    BY <1>11, <2>1, <2>3, <2>4 DEF AdminTyped
  <2>6. AdminEditsSurvive'
    <3> SUFFICES ASSUME NEW i \in ToSet(Ids) \ told'.raced
                 PROVE  Theirs(rulesets'[i]) = told'.theirs[i]
      BY DEF AdminEditsSurvive, Theirs, Types
    <3>1. CASE i = id
      BY <2>1, <2>2, <3>1 DEF AdminTyped
    <3>2. CASE i # id
      BY <2>1, <2>2, <3>2 DEF AdminTyped, AdminEditsSurvive
    <3>3. QED
      BY <3>1, <3>2
  <2>7. BodyIsTheirs'
    <3> SUFFICES ASSUME call.alive, harden.id \notin told'.raced
                 PROVE  Theirs(harden.body) = Theirs(rulesets'[harden.id])
      BY <1>11, <2>4 DEF BodyIsTheirs, Theirs, Types
    <3>1. harden.id # id
      BY <2>2 DEF InFlight, AdminTyped
    <3>2. rulesets'[harden.id] = rulesets[harden.id] /\ harden.id \notin told.raced
      BY <2>1, <2>2, <3>1 DEF AdminTyped, HardenTyped
    <3>3. QED
      BY <3>2 DEF BodyIsTheirs
  <2>8. QED
    BY <2>5, <2>6, <2>7
<1>12. ASSUME NEW id \in ToSet(Ids), EditRuleset(id), Administer PROVE AdminInv'
  <2>1. rulesets[id] \in Ruleset
    BY DEF AdminTyped
  <2>2. /\ [rulesets[id] EXCEPT !.active = ~@] \in Ruleset
        /\ [rulesets[id] EXCEPT !.safe = ~@] \in Ruleset
    BY <2>1 DEF Ruleset
  <2>3. [rulesets[id] EXCEPT !.pr.reviews = 2 - @] \in Ruleset
    BY <2>1 DEF Ruleset
  <2>4. PICK r \in Ruleset : Edit(id, r)
    BY <1>12, <2>2, <2>3, NoRulesetTyped DEF EditRuleset
  <2>5. QED
    BY <1>11, <1>12, <2>4 DEF Administer
<1>13. CASE Administer /\ ~(\E id \in ToSet(Ids) : EditRuleset(id))
  <2>1. UNCHANGED <<call, rulesets, told>>
    BY <1>13 DEF Administer, EditClassic, MakeBranch
  <2>2. /\ HardenTyped' /\ harden'.at = harden.at /\ harden'.id = harden.id
        /\ harden'.body = harden.body
    BY <1>13 DEF Administer, AdminTyped, HardenTyped, HardenFields
  <2>3. QED
    BY <2>1, <2>2 DEF AdminTyped, AdminEditsSurvive, BodyIsTheirs
<1>14. CASE UNCHANGED <<call, rulesets, told, harden>>
  BY <1>14 DEF AdminTyped, HardenTyped, AdminEditsSurvive, BodyIsTheirs
<1>15. StartVerify \/ VerifyStep \/ GhGone \/ UNCHANGED vars
       => UNCHANGED <<call, rulesets, told, harden>>
  BY DEF StartVerify, VerifyStep, AskRules, AskClassic, AskRecord, FinishVerify, GhGone, vars, forge
<1>16. QED
  BY <1>1, <1>2, <1>3, <1>4, <1>5, <1>6, <1>7, <1>8, <1>9, <1>10, <1>12, <1>13, <1>14, <1>15
  DEF Next, HardenStep, GhEnds

LEMMA SpecSteps == Spec => Init /\ [][Next]_vars
BY PTL DEF Spec

\* The whole body is PUT back without a precondition, and still what administrators
\* set of a ruleset outside harden's parameters is as they left it, for any rulesets,
\* branches and number of edits, unless one of them edited it between harden's GET
\* and PUT (harden.rs harden_branch_protection, apply_to_ruleset).
THEOREM TheirsSurvive == Spec => []AdminEditsSurvive
<1>1. Init => AdminInv
  BY InitAdmin
<1>2. AdminInv /\ [Next]_vars => AdminInv'
  BY AdminKept
<1>3. AdminInv => AdminEditsSurvive
  BY DEF AdminInv
<1>4. QED
  BY <1>1, <1>2, <1>3, SpecSteps, PTL

-----------------------------------------------------------------------------
(***************************************************************************)
(* AlignInv: what an applied run has dealt with so far, while no request   *)
(* of its failed and no administrator came between.                        *)
(***************************************************************************)
InPosture(r) ==
    r.pr.is = "set" /\ r.checks.is = "set"
        => r.pr.dismiss /\ r.checks.strict /\ r.pr.reviews = harden.reviews
IsFirst(k, b) == Matches(Ids[k], b) /\ \A i \in DOMAIN Ids : Matches(Ids[i], b) => k <= i
Aligned(b) == \A k \in DOMAIN Ids : IsFirst(k, b) => InPosture(rulesets[Ids[k]])

Pending == harden.at = "put"
HardenQueued ==
    /\ harden.todo \in Seq(STRING) /\ harden.ids \subseteq DOMAIN Ids
    /\ harden.handled \subseteq ToSet(Ids)
    /\ harden.at \in {"idle", "list", "get", "put", "done"}
    /\ harden.at \in {"get", "put"} => harden.todo # <<>>
    /\ harden.at = "done" => harden.todo = <<>>

\* Each branch gone past is aligned, each ruleset handled is in posture but the
\* one on its way, which is the branch's first; what the run has passed over of
\* the list does not match.
Going == harden.at # "idle" /\ harden.apply /\ harden.ok /\ harden.clean
BranchesAligned == \A b \in ToSet(Branches) \ ToSet(harden.todo) : Aligned(b)
HandledInPosture ==
    \A id \in harden.handled : InPosture(rulesets[id]) \/ (Pending /\ id = harden.id)
PassedOver ==
    harden.at = "get" =>
        \A k \in DOMAIN Ids \ harden.ids : ~Matches(Ids[k], Head(harden.todo))
OnItsWay ==
    Pending => /\ InPosture(harden.body)
               /\ \A k \in DOMAIN Ids : IsFirst(k, Head(harden.todo)) => Ids[k] = harden.id
               /\ call.alive => harden.body = ApplyTo(rulesets[harden.id])
               /\ harden.landed => rulesets[harden.id] = harden.body

AlignInv ==
    /\ HardenQueued
    /\ Going => BranchesAligned /\ HandledInPosture /\ PassedOver /\ OnItsWay

LEMMA PlacesAre == DOMAIN Ids \subseteq Nat /\ \A k \in DOMAIN Ids : Ids[k] \in ToSet(Ids)
<1>1. Ids \in Seq(ToSet(Ids))
  BY BranchProtectionAssumption
<1> HIDE DEF ToSet
<1>2. DOMAIN Ids = 1 .. Len(Ids) /\ Len(Ids) \in Nat
  BY <1>1
<1>3. QED
  BY <1>1, <1>2

\* Whatever keeps a ruleset's shape keeps what it matches.
LEMMA SameMatches ==
    ASSUME rulesets \in [ToSet(Ids) -> Ruleset], rulesets' \in [ToSet(Ids) -> Ruleset],
           \A id \in ToSet(Ids) : Theirs(rulesets'[id]) = Theirs(rulesets[id])
    PROVE  \A id \in ToSet(Ids) : \A b : Matches(id, b)' <=> Matches(id, b)
<1> SUFFICES ASSUME NEW id \in ToSet(Ids), NEW b PROVE Matches(id, b)' <=> Matches(id, b)
  OBVIOUS
<1> DEFINE old == rulesets[id]
           new == rulesets'[id]
<1>1. Theirs(new) = Theirs(old)
  OBVIOUS
<1>2. new.there = old.there /\ new.include = old.include /\ Types(new) = Types(old)
  BY <1>1 DEF Theirs
<1>3. \A r : "pull_request" \in Types(r) <=> r.pr.is # "absent"
  BY DEF Types
<1>4. new.pr.is # "absent" <=> old.pr.is # "absent"
  BY <1>2, <1>3
<1>5. QED
  BY <1>2, <1>4 DEF Matches

LEMMA InPostureWhenApplied == ASSUME NEW r PROVE InPosture(ApplyTo(r))
BY DEF InPosture, ApplyTo

LEMMA InPostureUnchanged ==
    ASSUME NEW r \in Ruleset, ~Changes(r) PROVE InPosture(r)
BY DEF InPosture, Changes, Ruleset

\* A run that sends nothing and leaves what it looks for alone.
LEMMA AlignQuiet ==
    ASSUME UNCHANGED <<rulesets, harden>>, call'.alive => call.alive, AlignInv
    PROVE  AlignInv'
BY DEF AlignInv, HardenQueued, Going, BranchesAligned, HandledInPosture, PassedOver, OnItsWay,
       Pending, Aligned, IsFirst, InPosture, Matches, ApplyTo

\* The branch at the head of the queue is done with.
LEMMA BranchDone ==
    ASSUME AdminInv, AlignInv, UNCHANGED rulesets, harden.todo # <<>>,
           DOMAIN harden' = HardenFields,
           harden'.at = "list", harden'.todo = Tail(harden.todo), harden'.ids = {},
           harden'.handled \subseteq ToSet(Ids), harden'.reviews = harden.reviews,
           Going' => /\ Going /\ Aligned(Head(harden.todo))
                     /\ \A id \in harden'.handled : InPosture(rulesets[id])
    PROVE  AlignInv'
<1>1. harden.todo \in Seq(STRING)
  BY DEF AlignInv, HardenQueued
<1>2. HardenQueued'
  BY <1>1, HeadAndTail DEF AlignInv, HardenQueued
<1>3. ASSUME Going' PROVE BranchesAligned'
  <2>1. \A b \in ToSet(Branches) \ ToSet(harden'.todo) : Aligned(b)
    <3>1. BranchesAligned
      BY <1>3 DEF AlignInv
    <3>2. ToSet(harden.todo) \subseteq {Head(harden.todo)} \cup ToSet(harden'.todo)
      BY <1>1, HeadAndTail
    <3>3. QED
      BY <1>3, <3>1, <3>2 DEF BranchesAligned
  <2>2. \A b : Aligned(b) => Aligned(b)'
    BY DEF Aligned, IsFirst, InPosture, Matches
  <2>3. QED
    BY <2>1, <2>2 DEF BranchesAligned
<1>4. ASSUME Going' PROVE HandledInPosture' /\ PassedOver' /\ OnItsWay'
  BY <1>4 DEF HandledInPosture, PassedOver, OnItsWay, Pending, InPosture
<1>5. QED
  BY <1>2, <1>3, <1>4 DEF AlignInv

LEMMA FoundIsFirst ==
    ASSUME AdminInv, AlignInv, Going, harden.at = "get", NEW id \in ToSet(Ids), Found(id)
    PROVE  \A k \in DOMAIN Ids : IsFirst(k, Head(harden.todo)) => Ids[k] = id
<1> DEFINE b == Head(harden.todo)
           m == Min(harden.ids)
<1>1. harden.ids \subseteq DOMAIN Ids /\ harden.ids # {} /\ DOMAIN Ids \subseteq Nat
  BY PlacesAre DEF AlignInv, HardenQueued, Found
<1>2. m \in harden.ids /\ \A i \in harden.ids : m <= i
  BY <1>1, LeastOf
<1>3. id = Ids[m] /\ Matches(Ids[m], b)
  BY DEF Found
<1>4. \A k \in DOMAIN Ids : Matches(Ids[k], b) => k \in harden.ids
  BY DEF AlignInv, PassedOver
<1> HIDE DEF m, b
<1>5. ASSUME NEW k \in DOMAIN Ids, IsFirst(k, b) PROVE k = m
  <2>1. k \in harden.ids /\ m <= k /\ k <= m
    BY <1>1, <1>2, <1>3, <1>4, <1>5 DEF IsFirst
  <2>2. k \in Nat /\ m \in Nat
    BY <1>1, <1>2
  <2>3. QED
    BY <2>1, <2>2
<1>6. QED
  BY <1>3, <1>5 DEF b

LEMMA InitAlign == Init => AlignInv
BY BranchProtectionAssumption DEF Init, AlignInv, HardenQueued, Going, NotHardening

LEMMA AlignKept == AdminInv /\ AlignInv /\ [Next]_vars => AlignInv'
<1> SUFFICES ASSUME AdminInv, AlignInv, [Next]_vars PROVE AlignInv'
  OBVIOUS
<1>0. DOMAIN harden = HardenFields /\ rulesets \in [ToSet(Ids) -> Ruleset]
  BY DEF AdminInv, AdminTyped, HardenTyped
<1>1. ASSUME NEW apply \in BOOLEAN, NEW reviews \in {0, 1}, StartHarden(apply, reviews)
      PROVE  AlignInv'
  <2>1. /\ harden'.at = "list" /\ harden'.todo = Branches /\ harden'.ids = {}
        /\ harden'.handled = {}
    BY <1>1 DEF StartHarden, NotHardening
  <2>2. HardenQueued'
    BY <2>1, BranchProtectionAssumption DEF HardenQueued
  <2>3. QED
    BY <2>1, <2>2 DEF AlignInv, BranchesAligned, HandledInPosture, PassedOver, OnItsWay, Pending
<1>2. CASE List
  <2>1. CASE harden' = [harden EXCEPT !.at = "get",
                            !.ids = {k \in DOMAIN Ids : rulesets[Ids[k]].there}]
    <3>1. /\ harden'.at = "get" /\ harden'.ids = {k \in DOMAIN Ids : rulesets[Ids[k]].there}
          /\ harden'.todo = harden.todo /\ harden'.handled = harden.handled
          /\ harden'.reviews = harden.reviews /\ harden'.apply = harden.apply
          /\ harden'.ok = harden.ok /\ harden'.clean = harden.clean
      BY <1>0, <2>1 DEF HardenFields
    <3>2. harden.at = "list" /\ harden.todo # <<>> /\ UNCHANGED rulesets
      BY <1>2 DEF List, forge
    <3>3. HardenQueued'
      BY <3>1, <3>2 DEF AlignInv, HardenQueued
    <3>4. Going' => Going
      BY <3>1, <3>2 DEF Going
    <3>5. Going => BranchesAligned' /\ HandledInPosture'
      BY <3>1, <3>2 DEF AlignInv, BranchesAligned, HandledInPosture, Aligned, IsFirst, InPosture,
                        Matches, Pending
    <3>6. PassedOver' /\ OnItsWay'
      BY <3>1, <3>2 DEF PassedOver, OnItsWay, Pending, Matches
    <3>7. QED
      BY <3>3, <3>4, <3>5, <3>6 DEF AlignInv
  <2>2. CASE harden' = [NextBranch(harden) EXCEPT !.clean = FALSE]
    <3>1. /\ harden'.at = "list" /\ harden'.todo = Tail(harden.todo) /\ harden'.ids = {}
          /\ harden'.handled = harden.handled /\ ~harden'.clean
      BY <1>0, <2>2 DEF NextBranch, HardenFields
    <3>2. HardenQueued'
      BY <1>2, <3>1, HeadAndTail DEF List, AlignInv, HardenQueued
    <3>3. QED
      BY <3>1, <3>2 DEF AlignInv, Going
  <2>3. QED
    BY <1>2, <2>1, <2>2 DEF List
<1>3. CASE PassOver
  <2>1. CASE harden.ids = {} /\ harden' = NextBranch(harden)
    <3>1. /\ harden'.at = "list" /\ harden'.todo = Tail(harden.todo) /\ harden'.ids = {}
          /\ harden'.handled = harden.handled /\ harden'.reviews = harden.reviews
          /\ harden'.apply = harden.apply /\ harden'.ok = harden.ok /\ harden'.clean = harden.clean
          /\ DOMAIN harden' = HardenFields
      BY <1>0, <2>1 DEF NextBranch, HardenFields
    <3>2. harden.at = "get" /\ harden.todo # <<>> /\ UNCHANGED rulesets
      BY <1>3 DEF PassOver, forge, AlignInv, HardenQueued
    <3>3. Going' => Going
      BY <3>1, <3>2 DEF Going
    <3>4. Going => Aligned(Head(harden.todo))
      BY <2>1, <3>2 DEF AlignInv, PassedOver, Aligned, IsFirst
    <3>5. Going => \A id \in harden.handled : InPosture(rulesets[id])
      BY <3>2 DEF AlignInv, HandledInPosture, Pending
    <3>6. harden'.handled \subseteq ToSet(Ids)
      BY <3>1 DEF AlignInv, HardenQueued
    <3>7. QED
      BY <3>1, <3>2, <3>3, <3>4, <3>5, <3>6, BranchDone
  <2>2. CASE /\ harden.ids # {}
             /\ harden' = [harden EXCEPT !.ids = @ \ {Min(@)},
                               !.clean = @ /\ ~Matches(Ids[Min(harden.ids)], Head(harden.todo))]
    <3> DEFINE hit == Matches(Ids[Min(harden.ids)], Head(harden.todo))
    <3>1. /\ harden'.ids = harden.ids \ {Min(harden.ids)}
          /\ harden'.clean = (harden.clean /\ ~hit)
          /\ harden'.at = harden.at /\ harden'.todo = harden.todo
          /\ harden'.handled = harden.handled /\ harden'.id = harden.id
          /\ harden'.reviews = harden.reviews /\ harden'.apply = harden.apply
          /\ harden'.ok = harden.ok
      BY <1>0, <2>2 DEF HardenFields
    <3>2. harden.at = "get" /\ UNCHANGED rulesets
      BY <1>3 DEF PassOver, forge
    <3>3. HardenQueued'
      BY <3>1 DEF AlignInv, HardenQueued
    <3>4. Going' => Going /\ ~hit
      BY <3>1 DEF Going
    <3>5. Going => BranchesAligned' /\ HandledInPosture'
      BY <3>1, <3>2 DEF AlignInv, BranchesAligned, HandledInPosture, Aligned, IsFirst, InPosture,
                        Matches, Pending
    <3>6. Going' => PassedOver'
      BY <3>1, <3>2, <3>4 DEF AlignInv, PassedOver, Matches
    <3>7. OnItsWay'
      BY <3>1, <3>2 DEF OnItsWay, Pending
    <3>8. QED
      BY <3>3, <3>4, <3>5, <3>6, <3>7 DEF AlignInv
  <2>3. QED
    BY <1>3, <2>1, <2>2 DEF PassOver
<1>4. ASSUME NEW id \in ToSet(Ids), Settle(id) PROVE AlignInv'
  <2>1. /\ harden'.at = "list" /\ harden'.todo = Tail(harden.todo) /\ harden'.ids = {}
        /\ harden'.handled = harden.handled \cup {id} /\ harden'.reviews = harden.reviews
        /\ harden'.apply = harden.apply /\ harden'.ok = harden.ok /\ harden'.clean = harden.clean
        /\ DOMAIN harden' = HardenFields
    BY <1>0, <1>4 DEF Settle, NextBranch, HardenFields
  <2>2. /\ harden.at = "get" /\ harden.todo # <<>> /\ UNCHANGED rulesets
        /\ Found(id) /\ Settled(id)
    BY <1>4 DEF Settle, forge, AlignInv, HardenQueued
  <2>3. Going' => Going
    BY <2>1, <2>2 DEF Going
  <2>4. Going => \A i \in harden.handled : InPosture(rulesets[i])
    BY <2>2 DEF AlignInv, HandledInPosture, Pending
  <2>5. Going => InPosture(rulesets[id])
    BY <1>0, <2>2, <2>4, InPostureUnchanged DEF Settled, Going
  <2>6. Going => Aligned(Head(harden.todo))
    BY <2>2, <2>5, FoundIsFirst DEF Aligned
  <2>7. harden'.handled \subseteq ToSet(Ids)
    BY <2>1 DEF AlignInv, HardenQueued
  <2>8. QED
    BY <2>1, <2>2, <2>3, <2>4, <2>5, <2>6, <2>7, BranchDone
<1>5. ASSUME NEW id \in ToSet(Ids), Put(id) PROVE AlignInv'
  <2>1. /\ harden'.at = "put" /\ harden'.id = id /\ harden'.body = ApplyTo(rulesets[id])
        /\ harden'.handled = harden.handled \cup {id} /\ ~harden'.landed
        /\ harden'.todo = harden.todo /\ harden'.ids = harden.ids
        /\ harden'.reviews = harden.reviews
        /\ harden'.apply = harden.apply /\ harden'.ok = harden.ok /\ harden'.clean = harden.clean
    BY <1>0, <1>5 DEF Put, HardenFields
  <2>2. harden.at = "get" /\ harden.todo # <<>> /\ UNCHANGED rulesets /\ Found(id)
    BY <1>5 DEF Put, forge, AlignInv, HardenQueued
  <2>3. HardenQueued'
    BY <2>1, <2>2 DEF AlignInv, HardenQueued
  <2>4. Going' => Going
    BY <2>1, <2>2 DEF Going
  <2>5. Going => BranchesAligned'
    BY <2>1, <2>2 DEF AlignInv, BranchesAligned, Aligned, IsFirst, InPosture, Matches
  <2>6. Going => HandledInPosture'
    BY <2>1, <2>2 DEF AlignInv, HandledInPosture, InPosture, Pending
  <2>7. Going => OnItsWay'
    <3>1. InPosture(ApplyTo(rulesets[id]))
      BY InPostureWhenApplied
    <3>2. Going => \A k \in DOMAIN Ids : IsFirst(k, Head(harden.todo)) => Ids[k] = id
      BY <2>2, FoundIsFirst
    <3>3. QED
      BY <2>1, <2>2, <3>1, <3>2 DEF OnItsWay, Pending, IsFirst, InPosture, Matches, ApplyTo
  <2>8. PassedOver'
    BY <2>1 DEF PassedOver
  <2>9. QED
    BY <2>3, <2>4, <2>5, <2>6, <2>7, <2>8 DEF AlignInv
<1>6. CASE Pipe
  <2>1. call'.alive = call.alive
    BY <1>6, PipeTyped DEF Pipe, AdminInv, AdminTyped
  <2>2. QED
    BY <1>6, <2>1, AlignQuiet DEF Pipe, forge
<1>7. CASE GhFails
  <2>1. ~call'.alive /\ UNCHANGED rulesets
    BY <1>7, ExitTyped DEF GhFails, forge, AdminInv, AdminTyped
  <2>2. /\ harden' = [harden EXCEPT !.landed = FALSE] /\ ~harden'.landed
    BY <1>0, <1>7 DEF GhFails, HardenFields
  <2>3. QED
    BY <1>0, <2>1, <2>2
    DEF AlignInv, HardenQueued, Going, BranchesAligned, HandledInPosture, PassedOver, OnItsWay,
        Pending, Aligned, IsFirst, InPosture, Matches, ApplyTo, HardenFields
<1>8. CASE GhPuts
  <2>1. call.alive /\ ~call'.alive /\ harden.at = "put" /\ harden.id \in ToSet(Ids)
        /\ harden.body \in Ruleset
    BY <1>8, ExitTyped DEF GhPuts, AdminInv, AdminTyped, HardenTyped, Exit, MayExit
  <2>2. rulesets' = [rulesets EXCEPT ![harden.id] = harden.body]
    BY <1>8 DEF GhPuts
  <2>3. /\ harden'.at = harden.at /\ harden'.id = harden.id /\ harden'.body = harden.body
        /\ harden'.todo = harden.todo /\ harden'.ids = harden.ids
        /\ harden'.handled = harden.handled /\ harden'.reviews = harden.reviews
        /\ harden'.apply = harden.apply /\ harden'.ok = harden.ok /\ harden'.clean = harden.clean
    BY <1>0, <1>8 DEF GhPuts, HardenFields
  <2>4. HardenQueued'
    BY <2>3 DEF AlignInv, HardenQueued
  <2>5. ASSUME Going' PROVE BranchesAligned' /\ HandledInPosture' /\ PassedOver' /\ OnItsWay'
    <3>1. Going /\ BranchesAligned /\ HandledInPosture /\ OnItsWay
      BY <2>3, <2>5 DEF Going, AlignInv
    <3>2. InPosture(harden.body) /\ harden.body = ApplyTo(rulesets[harden.id])
      BY <2>1, <3>1 DEF OnItsWay, Pending
    <3>3. rulesets'[harden.id] = harden.body
          /\ \A id \in ToSet(Ids) \ {harden.id} : rulesets'[id] = rulesets[id]
      BY <1>0, <2>1, <2>2
    <3>4. \A id \in ToSet(Ids) : Theirs(rulesets'[id]) = Theirs(rulesets[id])
      <4>1. rulesets[harden.id] \in Ruleset /\ harden.reviews \in 0..2
        BY <1>0, <2>1 DEF AdminInv, AdminTyped, HardenTyped
      <4>2. Theirs(harden.body) = Theirs(rulesets[harden.id])
        BY <3>2, <4>1, ApplyToIsTheirs
      <4>3. QED
        BY <3>3, <4>2
    <3>5. rulesets' \in [ToSet(Ids) -> Ruleset]
      BY <1>0, <2>1, <2>2
    <3>6. \A id \in ToSet(Ids) : \A b : Matches(id, b)' <=> Matches(id, b)
      BY <1>0, <3>4, <3>5, SameMatches
    <3>7. \A k \in DOMAIN Ids : \A b : IsFirst(k, b)' <=> IsFirst(k, b)
      BY <3>6, PlacesAre DEF IsFirst
    <3>8. \A r : InPosture(r)' <=> InPosture(r)
      BY <2>3 DEF InPosture
    <3>9. \A id \in ToSet(Ids) : InPosture(rulesets[id]) => InPosture(rulesets'[id])
      BY <3>2, <3>3
    <3>10. \A b : Aligned(b) => Aligned(b)'
      BY <2>3, <3>7, <3>9, PlacesAre DEF Aligned, InPosture
    <3>11. BranchesAligned'
      BY <2>3, <3>1, <3>10 DEF BranchesAligned
    <3>12. HandledInPosture'
      BY <2>3, <3>1, <3>9 DEF HandledInPosture, InPosture, Pending, AlignInv, HardenQueued
    <3>13. PassedOver'
      BY <2>1, <2>3 DEF PassedOver
    <3>14. \A k \in DOMAIN Ids : IsFirst(k, Head(harden.todo))' => Ids[k] = harden.id
      BY <2>1, <2>3, <3>1, <3>7 DEF OnItsWay, Pending
    <3>15. OnItsWay'
      BY <2>1, <2>3, <3>2, <3>3, <3>14 DEF OnItsWay, InPosture
    <3>16. QED
      BY <3>11, <3>12, <3>13, <3>15
  <2>6. QED
    BY <2>4, <2>5 DEF AlignInv
<1>9. CASE Answered
  <2>1. /\ harden'.at = "list" /\ harden'.todo = Tail(harden.todo) /\ harden'.ids = {}
        /\ harden'.handled = harden.handled /\ harden'.reviews = harden.reviews
        /\ harden'.apply = harden.apply /\ harden'.clean = harden.clean
        /\ harden'.ok = (harden.ok /\ harden.landed) /\ DOMAIN harden' = HardenFields
    BY <1>0, <1>9 DEF Answered, NextBranch, HardenFields
  <2>2. harden.at = "put" /\ harden.todo # <<>> /\ UNCHANGED rulesets
    BY <1>9 DEF Answered, forge, AlignInv, HardenQueued
  <2>3. Going' => Going /\ harden.landed
    BY <2>1, <2>2 DEF Going
  <2>4. Going /\ harden.landed => InPosture(rulesets[harden.id])
    BY <2>2 DEF AlignInv, OnItsWay, Pending
  <2>5. Going /\ harden.landed => Aligned(Head(harden.todo))
    BY <2>2, <2>4 DEF AlignInv, OnItsWay, Pending, Aligned
  <2>6. Going /\ harden.landed => \A id \in harden.handled : InPosture(rulesets[id])
    BY <2>2, <2>4 DEF AlignInv, HandledInPosture
  <2>7. harden'.handled \subseteq ToSet(Ids)
    BY <2>1 DEF AlignInv, HardenQueued
  <2>8. QED
    BY <2>1, <2>2, <2>3, <2>5, <2>6, <2>7, BranchDone
<1>10. CASE FinishHarden
  <2>1. /\ harden'.at = "done" /\ harden'.todo = harden.todo /\ harden'.ids = harden.ids
        /\ harden'.handled = {} /\ harden'.reviews = harden.reviews
        /\ harden'.apply = harden.apply /\ harden'.clean = harden.clean
        /\ harden'.ok = (harden.ok /\ harden.found)
    BY <1>0, <1>10 DEF FinishHarden, HardenFields
  <2>2. harden.at = "list" /\ harden.todo = <<>> /\ UNCHANGED rulesets
    BY <1>10 DEF FinishHarden, forge
  <2>3. HardenQueued'
    BY <2>1, <2>2 DEF AlignInv, HardenQueued
  <2>4. Going' => Going
    BY <2>1, <2>2 DEF Going
  <2>5. Going => BranchesAligned'
    BY <2>1, <2>2 DEF AlignInv, BranchesAligned, Aligned, IsFirst, InPosture, Matches
  <2>6. QED
    BY <2>1, <2>3, <2>4, <2>5 DEF AlignInv, HandledInPosture, PassedOver, OnItsWay, Pending
<1>11. CASE Administer
  <2>1. harden' = [harden EXCEPT !.clean = (harden.at = "idle")]
    BY <1>11 DEF Administer
  <2>2. HardenQueued'
    BY <1>0, <2>1 DEF AlignInv, HardenQueued, HardenFields
  <2>3. ~Going'
    BY <1>0, <2>1 DEF Going, HardenFields
  <2>4. QED
    BY <2>2, <2>3 DEF AlignInv
<1>12. CASE UNCHANGED <<call, rulesets, harden>>
  BY <1>12, AlignQuiet
<1>13. StartVerify \/ VerifyStep \/ GhGone \/ UNCHANGED vars => UNCHANGED <<call, rulesets, harden>>
  BY DEF StartVerify, VerifyStep, AskRules, AskClassic, AskRecord, FinishVerify, GhGone, vars, forge
<1>14. QED
  BY <1>1, <1>2, <1>3, <1>4, <1>5, <1>6, <1>7, <1>8, <1>9, <1>10, <1>11, <1>12, <1>13
  DEF Next, HardenStep, GhEnds

\* When an applied run reports success, each branch whose first matching ruleset
\* governs it got the posture asked for, for any rulesets and branches, unless a
\* request failed or an administrator came between (harden.rs
\* harden_branch_protection, plan_branch_protection, apply_to_ruleset).
THEOREM SuccessAligns == Spec => []HardenedMeansAligned
<1>1. Init => AdminInv /\ AlignInv
  BY InitAdmin, InitAlign
<1>2. AdminInv /\ AlignInv /\ [Next]_vars => (AdminInv /\ AlignInv)'
  BY AdminKept, AlignKept
<1>3. AlignInv => HardenedMeansAligned
  <2> SUFFICES ASSUME AlignInv, harden.at = "done", Going, NEW b \in ToSet(Branches),
                      \E id \in ToSet(Ids) : Matches(id, b)
               PROVE  InPosture(rulesets[FirstMatch(b)])
    BY DEF HardenedMeansAligned, Going, InPosture
  <2> DEFINE places == {k \in DOMAIN Ids : Matches(Ids[k], b)}
             first == Min(places)
  <2>1. places \subseteq Nat /\ places # {}
    BY PlacesAre DEF ToSet
  <2>2. first \in places /\ \A k \in places : first <= k
    BY <2>1, LeastOf
  <2>3. IsFirst(first, b) /\ first \in DOMAIN Ids
    BY <2>2 DEF IsFirst
  <2>4. ToSet(harden.todo) = {}
    BY DEF AlignInv, HardenQueued, ToSet
  <2>5. Aligned(b)
    BY <2>4 DEF AlignInv, BranchesAligned
  <2> HIDE DEF first
  <2>6. InPosture(rulesets[Ids[first]])
    BY <2>3, <2>5 DEF Aligned
  <2>7. QED
    BY <2>6 DEF FirstMatch, first
<1>4. QED
  BY <1>1, <1>2, <1>3, SpecSteps, PTL

-----------------------------------------------------------------------------
(***************************************************************************)
(* VerdictInv.                                                             *)
(***************************************************************************)
Asking == verify.at \in {"rules", "classic", "record"} /\ verify.todo # <<>>

\* A branch is popped: what it was is for the caller to say.
LEMMA Popped ==
    ASSUME VerdictInv, Asking, NEW v,
           v.at = "rules", v.todo = Tail(verify.todo), v.out = verify.out,
           verify.answered => v.answered, verify.unreadable => v.unreadable,
           verify.gaps => v.gaps, verify.real => v.real,
           verify.earned \subseteq v.earned, verify.unread \subseteq v.unread,
           v.gaps => verify.gaps \/ v.real,
           v.answered /\ ~verify.answered => v.gaps \/ v.unreadable \/ v.earned # {},
           v.gaps \/ v.unreadable \/ Head(verify.todo) \in v.earned \cup v.unread,
           v \in Verifier,
           verify' = v
    PROVE  /\ VerifyTyped' /\ NothingMissed' /\ GapsReal' /\ NoVerdictYet' /\ VerdictIsReal'
<1>1. verify.todo \in Seq(STRING) /\ verify.todo # <<>>
  BY DEF VerdictInv, Verifier, VerifyTyped, Asking
<1>2. VerifyTyped'
  BY <1>1, HeadAndTail DEF VerdictInv, Verifier, VerifyTyped
<1>3. GapsReal'
  BY DEF VerdictInv, GapsReal
<1>4. verify.out = "none"
  BY DEF VerdictInv, NoVerdictYet, Asking
<1>5. NothingMissed'
  <2> SUFFICES ASSUME ~v.gaps, ~v.unreadable
               PROVE  /\ ToSet(Branches) \subseteq v.earned \cup v.unread \cup ToSet(v.todo)
                      /\ v.answered => v.earned # {}
    BY DEF NothingMissed
  <2>1. ~verify.gaps /\ ~verify.unreadable
    OBVIOUS
  <2>2. /\ ToSet(Branches) \subseteq verify.earned \cup verify.unread \cup ToSet(verify.todo)
        /\ verify.answered => verify.earned # {}
    BY <2>1 DEF VerdictInv, NothingMissed, Asking
  <2>3. ToSet(verify.todo) \subseteq {Head(verify.todo)} \cup ToSet(v.todo)
    BY <1>1, HeadAndTail
  <2>4. QED
    BY <2>2, <2>3
<1>6. QED
  BY <1>2, <1>3, <1>4, <1>5 DEF NoVerdictYet, VerdictIsReal, PassIsEarned, FailIsReal

\* A gap that is found is a real one, and without one the branch is protected.
LEMMA Judged ==
    ASSUME VerdictInv, Asking, NEW rules,
           Required \subseteq rules => Protected(Head(verify.todo)),
           ~(Required \subseteq rules) =>
               \/ ~Protected(Head(verify.todo))
               \/ Rules(Head(verify.todo)) # {} /\ classic[Head(verify.todo)] # {},
           Head(verify.todo) \in remote \/ verify.at = "rules",
           verify' = Judge(verify, rules)
    PROVE  /\ VerifyTyped' /\ NothingMissed' /\ GapsReal' /\ NoVerdictYet' /\ VerdictIsReal'
<1> DEFINE b == Head(verify.todo)
           gap == ~(Required \subseteq rules)
           v == Judge(verify, rules)
<1>1. verify.todo \in Seq(STRING) /\ verify.todo # <<>>
  BY DEF VerdictInv, Verifier, VerifyTyped, Asking
<1>2. b \in STRING /\ Tail(verify.todo) \in Seq(STRING)
  BY <1>1, HeadAndTail
<1>3. Protected(b) \in BOOLEAN
  BY DEF Protected
<1>4. v = [verify EXCEPT !.at = "rules", !.todo = Tail(verify.todo), !.answered = TRUE,
               !.gaps = verify.gaps \/ gap,
               !.earned = IF ~gap THEN verify.earned \cup {b} ELSE verify.earned,
               !.real = verify.real \/ gap]
  <2> DEFINE mixed == Rules(b) # {} /\ classic[b] # {}
             real == /\ gap /\ (~Protected(b) \/ mixed)
                     /\ b \in remote \/ verify.at = "rules"
  <2>1. real = gap /\ (~gap /\ Protected(b)) = ~gap
    OBVIOUS
  <2> HIDE DEF mixed, gap
  <2>2. v = [[verify EXCEPT !.at = "rules", !.todo = Tail(verify.todo)] EXCEPT
                !.answered = TRUE, !.gaps = verify.gaps \/ gap,
                !.earned = IF ~gap THEN verify.earned \cup {b} ELSE verify.earned,
                !.real = verify.real \/ gap]
    BY <2>1 DEF Judge, Pop, VerdictInv, Verifier, VerifyTyped, gap, mixed
  <2>3. QED
    BY <2>2 DEF VerdictInv, Verifier, VerifyTyped
<1> HIDE DEF v, gap, b
<1>5. v \in Verifier
  BY <1>2, <1>4 DEF VerdictInv, Verifier, VerifyTyped, gap
<1>6. /\ v.at = "rules" /\ v.todo = Tail(verify.todo) /\ v.out = verify.out /\ v.answered
      /\ v.unreadable = verify.unreadable /\ v.gaps = (verify.gaps \/ gap)
      /\ v.earned = (IF ~gap THEN verify.earned \cup {b} ELSE verify.earned)
      /\ v.real = (verify.real \/ gap) /\ v.unread = verify.unread
  BY <1>4 DEF VerdictInv, Verifier, VerifyTyped
<1>7. QED
  BY <1>5, <1>6, Popped DEF v, b

LEMMA Skipped ==
    ASSUME VerdictInv, Asking, verify' \in {Skip(verify), Unreadable(verify)}
    PROVE  /\ VerifyTyped' /\ NothingMissed' /\ GapsReal' /\ NoVerdictYet' /\ VerdictIsReal'
<1>1. verify.todo \in Seq(STRING) /\ verify.todo # <<>>
  BY DEF VerdictInv, Verifier, VerifyTyped, Asking
<1>2. Head(verify.todo) \in STRING /\ Tail(verify.todo) \in Seq(STRING)
  BY <1>1, HeadAndTail
<1>3. CASE verify' = Skip(verify)
  <2>1. Skip(verify) = [verify EXCEPT !.at = "rules", !.todo = Tail(verify.todo),
                            !.unread = verify.unread \cup {Head(verify.todo)}]
    BY DEF Skip, Pop, VerdictInv, Verifier, VerifyTyped
  <2>2. verify.unread \cup {Head(verify.todo)} \in SUBSET STRING
    BY <1>2 DEF VerdictInv, VerifyTyped, Verifier
  <2>3. Skip(verify) \in Verifier
    BY <1>2, <2>1, <2>2 DEF VerdictInv, VerifyTyped, Verifier
  <2>4. QED
    BY <1>3, <2>1, <2>3, Popped DEF VerdictInv, Verifier, VerifyTyped
<1>4. CASE verify' = Unreadable(verify)
  <2>1. Unreadable(verify) = [verify EXCEPT !.at = "rules", !.todo = Tail(verify.todo),
                                  !.answered = TRUE, !.unreadable = TRUE]
    BY DEF Unreadable, Pop, VerdictInv, Verifier, VerifyTyped
  <2>2. Unreadable(verify) \in Verifier
    BY <1>2, <2>1 DEF VerdictInv, VerifyTyped, Verifier
  <2>3. QED
    BY <1>4, <2>1, <2>2, Popped DEF VerdictInv, Verifier, VerifyTyped
<1>5. QED
  BY <1>3, <1>4

LEMMA InitVerdict == Init => VerdictInv
<1> SUFFICES ASSUME Init PROVE VerdictInv
  OBVIOUS
<1>1. ForgeTyped
  <2>1. PICK start \in Starts : classic = start.classic /\ remote = start.remote
    BY DEF Init
  <2>2. classic \in [remote \cup ToSet(Branches) -> SUBSET Required]
    BY <2>1, StartsAssumption
  <2>3. QED
    BY <2>1, <2>2, StartsAssumption DEF ForgeTyped
<1>2. ToSet(<<>>) = {}
  BY DEF ToSet
<1>3. verify = NotVerifying /\ NotVerifying.at = "idle"
  BY DEF Init, NotVerifying
<1>4. VerifyTyped
  BY <1>2, <1>3 DEF NotVerifying, Verifier, VerifyTyped
<1>5. QED
  BY <1>1, <1>3, <1>4
  DEF VerdictInv, NothingMissed, GapsReal, NoVerdictYet, VerdictIsReal, PassIsEarned,
      FailIsReal, NotVerifying

LEMMA VerdictKept == VerdictInv /\ [Next]_vars => VerdictInv'
<1> SUFFICES ASSUME VerdictInv, [Next]_vars PROVE VerdictInv'
  OBVIOUS
<1>1. CASE UNCHANGED <<classic, remote, verify>>
  BY <1>1
  DEF VerdictInv, ForgeTyped, Verifier, VerifyTyped, NothingMissed, GapsReal, NoVerdictYet, VerdictIsReal,
      PassIsEarned, FailIsReal
<1>2. CASE Administer /\ ~UNCHANGED <<classic, remote>>
  <2>1. UNCHANGED verify
    BY <1>2 DEF Administer
  <2>2. ForgeTyped'
    <3>1. ASSUME NEW b \in remote, EditClassic(b) PROVE ForgeTyped'
      BY <3>1 DEF EditClassic, VerdictInv, ForgeTyped, Required
    <3>2. CASE MakeBranch
      <4>1. remote' \cup ToSet(Branches) = remote \cup ToSet(Branches) /\ classic' = classic
        BY <3>2 DEF MakeBranch
      <4>2. QED
        BY <3>2, <4>1 DEF MakeBranch, VerdictInv, ForgeTyped
    <3>3. QED
      BY <1>2, <3>1, <3>2 DEF Administer, EditRuleset, Edit
  <2>3. QED
    BY <2>1, <2>2
    DEF VerdictInv, Verifier, VerifyTyped, NothingMissed, GapsReal, NoVerdictYet, VerdictIsReal,
        PassIsEarned, FailIsReal
<1>3. ASSUME UNCHANGED forge PROVE ForgeTyped'
  BY <1>3 DEF forge, VerdictInv, ForgeTyped
<1>4. CASE StartVerify
  <2>1. verify' = [NotVerifying EXCEPT !.at = "rules", !.todo = Branches] /\ UNCHANGED forge
    BY <1>4 DEF StartVerify
  <2>2. VerifyTyped'
    BY <2>1, BranchProtectionAssumption DEF NotVerifying, Verifier, VerifyTyped
  <2>3. QED
    BY <1>3, <2>1, <2>2
    DEF VerdictInv, NothingMissed, GapsReal, NoVerdictYet, VerdictIsReal, PassIsEarned,
        FailIsReal, NotVerifying
<1>5. CASE AskRules
  <2>1. UNCHANGED forge /\ Asking /\ verify.at = "rules"
    BY <1>5 DEF AskRules, Asking
  <2>2. CASE verify' = Skip(verify)
    BY <1>3, <2>1, <2>2, Skipped DEF VerdictInv
  <2>3. CASE verify' = [verify EXCEPT !.at = "classic"]
    <3>1. VerifyTyped'
      BY <2>1, <2>3 DEF Asking, VerdictInv, Verifier, VerifyTyped
    <3>2. QED
      BY <1>3, <2>1, <2>3, <3>1
      DEF Asking, VerdictInv, Verifier, VerifyTyped, NothingMissed, GapsReal, NoVerdictYet,
          VerdictIsReal, PassIsEarned, FailIsReal
  <2>4. CASE verify' = Judge(verify, Rules(Head(verify.todo))) /\ Rules(Head(verify.todo)) # {}
    BY <1>3, <2>1, <2>4, Judged DEF VerdictInv, Protected
  <2>5. QED
    BY <1>5, <2>2, <2>3, <2>4 DEF AskRules
<1>6. CASE AskClassic
  <2>1. UNCHANGED forge /\ Asking /\ verify.at = "classic"
    BY <1>6 DEF AskClassic, Asking, VerdictInv, Verifier, VerifyTyped
  <2>2. CASE verify' = [verify EXCEPT !.at = "record"]
    <3>1. VerifyTyped'
      BY <2>1, <2>2 DEF Asking, VerdictInv, Verifier, VerifyTyped
    <3>2. QED
      BY <1>3, <2>1, <2>2, <3>1
      DEF Asking, VerdictInv, Verifier, VerifyTyped, NothingMissed, GapsReal, NoVerdictYet,
          VerdictIsReal, PassIsEarned, FailIsReal
  <2>3. CASE verify' = Judge(verify, classic[Head(verify.todo)]) /\ classic[Head(verify.todo)] # {}
    <3>1. Head(verify.todo) \in ToSet(Branches)
      BY <2>1, HeadAndTail DEF Asking, VerdictInv, Verifier, VerifyTyped
    <3>2. Head(verify.todo) \in remote
      BY <2>3, <3>1 DEF VerdictInv, ForgeTyped
    <3>3. QED
      BY <1>3, <2>1, <2>3, <3>2, Judged DEF VerdictInv, Protected
  <2>4. QED
    BY <1>6, <2>2, <2>3 DEF AskClassic
<1>7. CASE AskRecord
  <2>1. UNCHANGED forge /\ Asking /\ verify.at = "record"
    BY <1>7 DEF AskRecord, Asking, VerdictInv, Verifier, VerifyTyped
  <2>2. CASE verify' \in {Skip(verify), Unreadable(verify)}
    BY <1>3, <2>1, <2>2, Skipped DEF VerdictInv
  <2>3. CASE /\ verify' = Judge(verify, {}) /\ Named(Head(verify.todo)) = Head(verify.todo)
             /\ ~Flag(Head(verify.todo))
    <3>1. Head(verify.todo) \in remote
      BY <2>3 DEF Named, VerdictInv, ForgeTyped
    <3>2. ~Protected(Head(verify.todo)) /\ ~(Required \subseteq {})
      BY <2>3 DEF Protected, Flag, Required
    <3>3. QED
      BY <1>3, <2>1, <2>3, <3>1, <3>2, Judged DEF VerdictInv
  <2>4. QED
    BY <1>7, <2>2, <2>3 DEF AskRecord
<1>8. CASE GhGone
  <2>1. /\ verify' = [NotVerifying EXCEPT !.at = "done", !.out = "degraded"] /\ UNCHANGED forge
    BY <1>8 DEF GhGone
  <2>2. verify' = [at |-> "done", todo |-> <<>>, answered |-> FALSE, unreadable |-> FALSE,
                   gaps |-> FALSE, out |-> "degraded", earned |-> {}, unread |-> {}, real |-> FALSE]
    BY <2>1 DEF NotVerifying
  <2>3. VerifyTyped'
    BY <2>2 DEF ToSet, Verifier, VerifyTyped
  <2>4. QED
    BY <1>3, <2>1, <2>3
    DEF VerdictInv, NothingMissed, GapsReal, NoVerdictYet, VerdictIsReal, PassIsEarned,
        FailIsReal, NotVerifying
<1>9. CASE FinishVerify
  <2>1. /\ verify' = [verify EXCEPT !.at = "done", !.out = Verdict, !.answered = FALSE,
                                    !.unreadable = FALSE, !.gaps = FALSE]
        /\ verify.at = "rules" /\ verify.todo = <<>> /\ UNCHANGED forge
    BY <1>9 DEF FinishVerify
  <2>2. VerifyTyped'
    BY <2>1 DEF VerdictInv, Verifier, VerifyTyped, Verdict
  <2>3. ToSet(verify.todo) = {}
    BY <2>1 DEF ToSet
  <2>4. Verdict = "pass" => /\ verify.earned # {}
                            /\ ToSet(Branches) \subseteq verify.earned \cup verify.unread
    BY <2>1, <2>3 DEF Verdict, VerdictInv, NothingMissed
  <2>5. Verdict = "fail" => verify.real
    BY DEF Verdict, VerdictInv, GapsReal
  <2>6. VerdictIsReal'
    BY <2>1, <2>4, <2>5 DEF VerdictIsReal, PassIsEarned, FailIsReal, VerdictInv, Verifier,
        VerifyTyped
  <2>7. QED
    BY <1>3, <2>1, <2>2, <2>6 DEF VerdictInv, Verifier, VerifyTyped, NothingMissed, GapsReal,
        NoVerdictYet
<1>10. ~(Administer \/ StartVerify \/ VerifyStep \/ GhGone) => UNCHANGED <<classic, remote, verify>>
  BY DEF Next, StartHarden, HardenStep, List, PassOver, Answered, FinishHarden, Settle, Put, Pipe,
         GhEnds, GhFails, GhPuts, vars, forge
<1>11. Administer => UNCHANGED verify
  BY DEF Administer
<1>12. QED
  BY <1>1, <1>2, <1>4, <1>5, <1>6, <1>7, <1>8, <1>9, <1>10, <1>11 DEF VerifyStep

\* What verify says of the branches is so, for any branches and rulesets, whatever
\* request is refused and whatever administrators and harden change between two of
\* them: a PASS saw the required rules on each branch the forge answered about, and
\* a FAIL saw a branch without one (audit.rs verify_branch_protection).
THEOREM VerdictsReal == Spec => []VerdictIsReal
<1>1. Init => VerdictInv
  BY InitVerdict
<1>2. VerdictInv /\ [Next]_vars => VerdictInv'
  BY VerdictKept
<1>3. VerdictInv => VerdictIsReal
  BY DEF VerdictInv
<1>4. QED
  BY <1>1, <1>2, <1>3, SpecSteps, PTL
=============================================================================
