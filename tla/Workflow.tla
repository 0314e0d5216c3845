------------------------------ MODULE Workflow ------------------------------
(***************************************************************************)
(* Parsed workflow files, and what workflows.rs concludes from a set of    *)
(* them about a release-provenance control: the shape check, the trigger   *)
(* and caller search, the evidence of one job and the consolidated verdict *)
(* over a repository.                                                      *)
(*                                                                         *)
(*   permissions  [declared, grant]     grant: access per scope            *)
(*   step         [does, ref, when, coe, bound]                            *)
(*   job          [uses, ref, when, coe, perms, needs, bound, steps]       *)
(*   document     [on, perms, jobs]     on: filter per trigger             *)
(*   file         [at, docs]            docs: the documents with content   *)
(*                                                                         *)
(* `bound` says that a step or call names what it attests, or, of a        *)
(* signing step, that its body and shell are sound (ShellSigning).         *)
(***************************************************************************)
EXTENDS Naturals, Sequences, FiniteSets

CONSTANTS
    Paths,      \* paths under .github/workflows
    Scopes,     \* the token scopes told apart
    JobNames    \* what jobs are called

ASSUME ScopesAssumption ==
    /\ {"id-token", "attestations", "contents", "actions"} \subseteq Scopes
    /\ IsFiniteSet(JobNames)

Kinds == {"sigstore-signing", "github-attestations", "sbom-attestation", "slsa-provenance"}
AutomaticTriggers == {"push", "release", "schedule", "pull_request", "workflow_run"}

(***************************************************************************)
(* What a parsed file may be.                                              *)
(***************************************************************************)
Conditions == {"none", "some", "false"}
Permissions == [declared : BOOLEAN, grant : [Scopes -> {"none", "read", "write"}]]
Steps == [does : STRING, ref : {"sha", "tag", "none"}, when : Conditions,
          coe : BOOLEAN, bound : BOOLEAN]
NoUses == "no uses"
Callable == {"generator", "other generator", NoUses}
Jobs == [uses : Paths \cup Callable, ref : {"sha", "tag", "none"}, when : Conditions,
         coe : BOOLEAN, perms : Permissions, needs : SUBSET (JobNames \cup {"ghost"}),
         bound : BOOLEAN, steps : Seq(Steps)]
Triggers == AutomaticTriggers \cup {"workflow_call", "workflow_dispatch"}
Filters == {"none", "some", "empty"}
IsDocument(doc) ==
    /\ doc \in [on : [DOMAIN doc.on -> Filters],
               perms : Permissions,
               jobs : [DOMAIN doc.jobs -> Jobs]]
    /\ DOMAIN doc.on \subseteq Triggers /\ DOMAIN doc.jobs \subseteq JobNames
Documents(file) == {file.docs[d] : d \in DOMAIN file.docs}
IsParsed(file) ==
    /\ file \in [at : {"absent", "directory", "garbled", "yaml"}, docs : Seq(Documents(file))]
    /\ \A doc \in Documents(file) : IsDocument(doc)

\* No file, a directory of that name, bytes that are no YAML text, or YAML.
Absent == [at |-> "absent", docs |-> <<>>]
Directory == [at |-> "directory", docs |-> <<>>]
Garbled == [at |-> "garbled", docs |-> <<>>]
Yaml(docs) == [at |-> "yaml", docs |-> docs]

(***************************************************************************)
(* The shape GitHub needs to run anything.                                 *)
(***************************************************************************)
\* check_workflow: one document, jobs in it, each with steps or a call, every
\* `needs:` the name of a job.
ShapeSound(file) ==
    /\ file.at = "yaml" /\ Len(file.docs) = 1
    /\ LET jobs == file.docs[1].jobs
       IN  /\ DOMAIN jobs # {}
           /\ \A j \in DOMAIN jobs : /\ jobs[j].steps # <<>> \/ jobs[j].uses # NoUses
                                     /\ jobs[j].needs \subseteq DOMAIN jobs

(***************************************************************************)
(* Permissions, switches, pins.                                            *)
(***************************************************************************)
EffectivePermissions(doc, job) == IF job.perms.declared THEN job.perms ELSE doc.perms

Grants(perms, scope, access) ==
    /\ perms.declared
    /\ perms.grant[scope] = "write" \/ (perms.grant[scope] = "read" /\ access = "read")

RequiredScopes(kind) ==
    CASE kind = "sigstore-signing" -> {<<"id-token", "write">>}
      [] kind = "slsa-provenance" ->
            {<<"actions", "read">>, <<"id-token", "write">>, <<"contents", "write">>}
      [] OTHER -> {<<"attestations", "write">>, <<"id-token", "write">>}

HasScopes(perms, kind) == \A r \in RequiredScopes(kind) : Grants(perms, r[1], r[2])

ConstantFalse(node) == node.when = "false"

\* The switch forgotten: a job that fails nothing.
NeverRuns(job) == ConstantFalse(job)
JobSwitchedOff(job) == ConstantFalse(job) \/ job.coe

\* The generator is identified by its version tag, every action by its commit.
PinDefect(action, ref) == ref # IF action = "generator" THEN "tag" ELSE "sha"

(***************************************************************************)
(* What one job proves: "absent", "proven" or "defective".                 *)
(***************************************************************************)
Positions(job, what) == {i \in DOMAIN job.steps : job.steps[i].does = what}
First(S) == CHOOSE i \in S : \A k \in S : i <= k

StepRunsAndCounts(step) == ~ConstantFalse(step) /\ ~step.coe

Verdict(carries, sound) ==
    IF ~carries THEN "absent" ELSE IF sound THEN "proven" ELSE "defective"

SigstoreJobEvidence(doc, job) ==
    LET signing == Positions(job, "sign")
        installers == Positions(job, "install")
    IN  Verdict(signing # {},
            /\ ~JobSwitchedOff(job)
            /\ installers # {}
            /\ LET i == First(installers)
               IN  /\ ~PinDefect("install", job.steps[i].ref) /\ StepRunsAndCounts(job.steps[i])
                   /\ \A s \in signing : i < s
            /\ \A s \in signing : job.steps[s].bound /\ StepRunsAndCounts(job.steps[s])
            /\ HasScopes(EffectivePermissions(doc, job), "sigstore-signing"))

AttestJobEvidence(kind, doc, job) ==
    LET candidates == Positions(job, kind)
    IN  Verdict(candidates # {},
            /\ ~JobSwitchedOff(job)
            /\ \A c \in candidates : LET step == job.steps[c]
                                     IN  /\ ~PinDefect(kind, step.ref) /\ step.bound
                                         /\ StepRunsAndCounts(step)
            /\ HasScopes(EffectivePermissions(doc, job), kind))

\* Only the generic generator is judged; another workflow of its repository
\* carries the step in name and never proves it.
SlsaJobEvidence(doc, job) ==
    Verdict(job.uses \in {"generator", "other generator"},
        /\ job.uses = "generator"
        /\ ~JobSwitchedOff(job) /\ ~PinDefect(job.uses, job.ref) /\ job.bound
        /\ HasScopes(EffectivePermissions(doc, job), "slsa-provenance"))

JobEvidence(kind, doc, job) ==
    CASE kind = "sigstore-signing" -> SigstoreJobEvidence(doc, job)
      [] kind = "slsa-provenance" -> SlsaJobEvidence(doc, job)
      [] OTHER -> AttestJobEvidence(kind, doc, job)

DocEvidence(kind, doc) == {JobEvidence(kind, doc, doc.jobs[j]) : j \in DOMAIN doc.jobs}

(***************************************************************************)
(* Does anything run it? `files` is a function from paths to files.        *)
(***************************************************************************)
DeadTrigger(doc, t) == doc.on[t] = "empty"
Automatic(doc) == DOMAIN doc.on \cap AutomaticTriggers
AutomaticTrigger(doc) == \E t \in Automatic(doc) : ~DeadTrigger(doc, t)

\* A caller that fires, is not switched off, fails its run when the call
\* fails, and holds what the control's step needs.
AutomaticCaller(kind, files, path) ==
    \E p \in DOMAIN files \ {path} :
        /\ ShapeSound(files[p])
        /\ \E doc \in Documents(files[p]) :
              /\ AutomaticTrigger(doc)
              /\ \E j \in DOMAIN doc.jobs : LET job == doc.jobs[j]
                                            IN  /\ job.uses = path /\ ~JobSwitchedOff(job)
                                                /\ HasScopes(EffectivePermissions(doc, job), kind)

\* An automatic trigger that matches nothing is refused before any caller is
\* looked for.
Fires(kind, files, path, doc) ==
    \/ AutomaticTrigger(doc)
    \/ /\ Automatic(doc) = {}
       /\ "workflow_call" \in DOMAIN doc.on
       /\ AutomaticCaller(kind, files, path)

(***************************************************************************)
(* consolidated_evidence over the files examined, the control's modular    *)
(* path left out.                                                          *)
(***************************************************************************)
Carriers(kind, files, modular) ==
    {p \in DOMAIN files \ {modular} :
        \E doc \in Documents(files[p]) : DocEvidence(kind, doc) \ {"absent"} # {}}

ProvingFiles(kind, files, modular) ==
    {p \in Carriers(kind, files, modular) :
        /\ ShapeSound(files[p])
        /\ \E doc \in Documents(files[p]) : /\ Fires(kind, files, p, doc)
                                            /\ "proven" \in DocEvidence(kind, doc)}

\* One defective carrier is enough for a FAIL.
ConsolidatedEvidenceStrict(kind, files, modular) ==
    IF Carriers(kind, files, modular) = {} THEN "absent"
    ELSE IF ProvingFiles(kind, files, modular) = Carriers(kind, files, modular)
         THEN "proven" ELSE "defective"
\* One proving file is enough.
ConsolidatedEvidence(kind, files, modular) ==
    IF ProvingFiles(kind, files, modular) # {} THEN "proven"
    ELSE IF Carriers(kind, files, modular) # {} THEN "defective" ELSE "absent"

(***************************************************************************)
(* verify_harden_runner: every job of every workflow in a directory.       *)
(***************************************************************************)
HardenRunnerAbsent(job) ==
    ~(job.uses # NoUses /\ job.steps = <<>>)
    /\ ~(job.steps # <<>> /\ job.steps[1].does = "harden")

Unhardened(file) ==
    \/ file.at # "yaml"
    \/ \A doc \in Documents(file) : DOMAIN doc.jobs = {}
    \/ \E doc \in Documents(file) : \E j \in DOMAIN doc.jobs : HardenRunnerAbsent(doc.jobs[j])

HardenRunner(files) ==
    LET present == {p \in DOMAIN files : files[p] # Absent}
    IN  IF present = {} THEN "degraded"
        ELSE IF \E p \in present : Unhardened(files[p]) THEN "fail" ELSE "pass"
=============================================================================
