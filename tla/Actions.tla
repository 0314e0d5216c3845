------------------------------- MODULE Actions -------------------------------
(***************************************************************************)
(* GitHub Actions, as far as the comments of workflows.rs describe it: how *)
(* one run of a workflow ends. External.                                   *)
(*                                                                         *)
(* `fault` is the one step that fails in the run: <<job, position>>, or    *)
(* <<>> for none; a run has at most one fault. Conditions that are not     *)
(* constant hold, and filters that are not empty match.                    *)
(***************************************************************************)
EXTENDS Workflow

Runs(node) == node.when # "false"
Deliverable(kind) == IF kind = "sigstore-signing" THEN "sign" ELSE kind

\* A step whose token lacks a scope fails; one with an unsound body, or
\* `continue-on-error`, fails without failing its job.
Fails(kind, token, j, job, i, fault) ==
    \/ fault = <<j, i>>
    \/ job.steps[i].does = Deliverable(kind) /\ ~HasScopes(token, kind)
Breaks(kind, token, j, job, i, fault) ==
    /\ Runs(job.steps[i]) /\ Fails(kind, token, j, job, i, fault)
    /\ ~job.steps[i].coe /\ (job.steps[i].does = "sign" => job.steps[i].bound)

Reached(kind, token, j, job, i, fault) ==
    \A k \in 1 .. i - 1 : ~Breaks(kind, token, j, job, k, fault)

\* The deliverable of `kind` comes out of this job: cosign's only from the
\* binary an earlier step installed.
Made(kind, token, j, job, fault) ==
    LET ran(i) == /\ Reached(kind, token, j, job, i, fault) /\ Runs(job.steps[i])
                  /\ ~Fails(kind, token, j, job, i, fault)
    IN  CASE kind = "sigstore-signing" ->
                \E i \in Positions(job, "sign") :
                    ran(i) /\ \E k \in Positions(job, "install") : k < i /\ ran(k)
          [] kind = "slsa-provenance" ->
                /\ job.uses = "generator" /\ job.bound /\ job.ref = "tag"
                /\ fault # <<j, 0>> /\ HasScopes(token, kind)
          [] OTHER -> \E i \in Positions(job, kind) : ran(i) /\ job.steps[i].bound

\* A call of another repository's workflow fails as a whole: position 0.
Green(kind, token, j, job, fault) ==
    /\ \A i \in DOMAIN job.steps : ~Breaks(kind, token, j, job, i, fault)
    /\ job.uses = "generator" => fault # <<j, 0>> /\ HasScopes(token, kind)

\* The token of a job: what it declares, else what the workflow holds.
Token(doc, job, held) ==
    IF EffectivePermissions(doc, job).declared THEN EffectivePermissions(doc, job) ELSE held

\* The jobs that run, round by round: one is started once everything it needs
\* has succeeded, and skipped when something it needs was skipped or failed.
Started(kind, doc, held, fault) ==
    LET succeeded(j) == \/ doc.jobs[j].coe
                        \/ Green(kind, Token(doc, doc.jobs[j], held), j, doc.jobs[j], fault)
        round[n \in 0 .. Cardinality(DOMAIN doc.jobs)] ==
            IF n = 0 THEN {}
            ELSE {j \in DOMAIN doc.jobs :
                    /\ Runs(doc.jobs[j])
                    /\ \A k \in doc.jobs[j].needs : k \in round[n - 1] /\ succeeded(k)}
    IN  round[Cardinality(DOMAIN doc.jobs)]

\* How a run ends: whether it is green, whether the deliverable is there.
Outcome(kind, doc, held, fault) ==
    LET started == Started(kind, doc, held, fault)
        token(j) == Token(doc, doc.jobs[j], held)
    IN  [green |-> \A j \in started : \/ doc.jobs[j].coe
                                      \/ Green(kind, token(j), j, doc.jobs[j], fault),
         made |-> \E j \in started : Made(kind, token(j), j, doc.jobs[j], fault)]

Faults(doc) ==
    {<<>>} \cup UNION {{<<j, i>> : i \in 0 .. Len(doc.jobs[j].steps)} : j \in DOMAIN doc.jobs}

Rank == [none |-> 0, read |-> 1, write |-> 2]
AtMost(asked, held) == \A s \in Scopes : Rank[asked.grant[s]] <= Rank[held.grant[s]]

\* "GitHub refuses a called workflow that asks for more than its caller holds".
AcceptsCall(callee, held) ==
    \A j \in DOMAIN callee.jobs :
        LET asked == EffectivePermissions(callee, callee.jobs[j])
        IN  asked.declared => AtMost(asked, held)

\* An unattended event starts this document by itself.
Triggered(doc) == \E t \in DOMAIN doc.on : t \in AutomaticTriggers /\ doc.on[t] # "empty"
=============================================================================
