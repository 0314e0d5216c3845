-------------------------- MODULE WorkflowEvidence --------------------------
(***************************************************************************)
(* A repository under an author who edits and commits workflow files, with *)
(* `sscsb init` installing the modular templates one by one (a crash may   *)
(* leave the last one torn) and `sscsb verify` judging the release-        *)
(* provenance controls from what is committed and what is on disk.         *)
(***************************************************************************)
EXTENDS Actions

CONSTANTS
    Controls,   \* the enabled controls, in the order of ARTIFACTS
    Dest,       \* Dest[c]: the path of c's modular artifact
    Template,   \* Template[c]: the file init writes there
    Starts,     \* the repositories an author starts from
    MaxEffort   \* bound: edits and passes of init together

ASSUME ControlsAssumption ==
    /\ Controls \in Seq(Kinds)
    /\ \A k \in DOMAIN Controls : Dest[Controls[k]] \in Paths
    /\ \A k, l \in DOMAIN Controls : Dest[Controls[k]] = Dest[Controls[l]] => k = l

\* sscsb's templates are sound workflows whose every job is hardened.
ASSUME TemplatesAssumption ==
    \A k \in DOMAIN Controls : LET file == Template[Controls[k]]
                               IN  IsParsed(file) /\ ShapeSound(file) /\ ~Unhardened(file)

ASSUME StartsAssumption ==
    \A start \in Starts : /\ start \in [Paths -> {start[p] : p \in Paths}]
                          /\ \A p \in Paths : IsParsed(start[p])

VARIABLES
    git,        \* is there a repository at all?
    head,       \* the committed file of each path
    disk,       \* the working tree's
    init,       \* init's progress: next artifact (0: never run), files kept, left alone since
    effort      \* how many edits and passes of init there were

vars == <<git, head, disk, init, effort>>

ControlSet == {Controls[k] : k \in DOMAIN Controls}
Done == init.at > Len(Controls)

Init ==
    /\ git \in BOOLEAN
    /\ disk \in Starts
    /\ head \in {[p \in Paths |-> Absent]} \cup IF git THEN {disk} ELSE {}
    /\ init = [at |-> 0, kept |-> {}, calm |-> FALSE]
    /\ effort = 0

(***************************************************************************)
(* The author. One edit changes one thing in one file.                     *)
(***************************************************************************)
Undeclared == [declared |-> FALSE, grant |-> [s \in Scopes |-> "none"]]
Declared(grant) == [declared |-> TRUE, grant |-> grant]
PermsEdits(perms) ==
    {Undeclared, Declared([s \in Scopes |-> "none"])}
    \cup {Declared([perms.grant EXCEPT ![s] = "read"]) : s \in Scopes}
    \cup {Declared([perms.grant EXCEPT ![s] = "write"]) : s \in Scopes}

StepEdits(step) ==
    {[step EXCEPT !.when = c] : c \in Conditions} \cup {[step EXCEPT !.coe = ~step.coe],
     [step EXCEPT !.bound = ~step.bound], [step EXCEPT !.ref = IF step.ref = "sha" THEN "tag" ELSE "sha"]}

JobEdits(job, jobs) ==
    {[job EXCEPT !.when = c] : c \in Conditions}
    \cup {[job EXCEPT !.perms = p] : p \in PermsEdits(job.perms)}
    \cup {[job EXCEPT !.needs = @ \cup {n}] : n \in jobs}
    \cup {[job EXCEPT !.coe = ~job.coe], [job EXCEPT !.bound = ~job.bound],
          [job EXCEPT !.ref = IF job.ref = "sha" THEN "tag" ELSE "sha"]}
    \cup {[job EXCEPT !.uses = u] : u \in IF job.steps = <<>> THEN Callable ELSE {}}
    \cup {[job EXCEPT !.steps = [@ EXCEPT ![i] = s]] :
            i \in DOMAIN job.steps, s \in UNION {StepEdits(job.steps[k]) : k \in DOMAIN job.steps}}

\* Two steps of a job swapped, one deleted.
Rearranged(job) ==
    {[job EXCEPT !.steps = [@ EXCEPT ![i] = job.steps[k], ![k] = job.steps[i]]] :
        i \in DOMAIN job.steps, k \in DOMAIN job.steps}
    \cup {[job EXCEPT !.steps = SubSeq(@, 1, i - 1) \o SubSeq(@, i + 1, Len(@))] :
            i \in DOMAIN job.steps}

TriedTriggers == {"push", "schedule", "workflow_call", "workflow_dispatch"}
WithTrigger(doc, n, filter) ==
    [doc EXCEPT !.on = [t \in DOMAIN doc.on \cup {n} |-> IF t = n THEN filter ELSE doc.on[t]]]
WithoutTrigger(doc, n) == [doc EXCEPT !.on = [t \in DOMAIN doc.on \ {n} |-> doc.on[t]]]
WithoutJob(doc, j) == [doc EXCEPT !.jobs = [i \in DOMAIN doc.jobs \ {j} |-> doc.jobs[i]]]
WithJob(doc, j, job) == [doc EXCEPT !.jobs[j] = job]
DocEdits(doc) ==
    {WithTrigger(doc, n, f) : n \in TriedTriggers, f \in Filters}
    \cup {WithoutTrigger(doc, n) : n \in DOMAIN doc.on}
    \cup {[doc EXCEPT !.perms = p] : p \in PermsEdits(doc.perms)}
    \cup {WithoutJob(doc, j) : j \in DOMAIN doc.jobs}
    \cup UNION {{WithJob(doc, j, e) :
                    e \in JobEdits(doc.jobs[j], DOMAIN doc.jobs \cup {"ghost"})
                          \cup Rearranged(doc.jobs[j])} : j \in DOMAIN doc.jobs}

FileEdits(file) ==
    {Absent, Garbled, Yaml(<<>>)}
    \cup IF file.at # "yaml" \/ Len(file.docs) # 1 THEN {}
         ELSE {Yaml(<<d>>) : d \in DocEdits(file.docs[1])}
              \cup {Yaml(<<file.docs[1], file.docs[1]>>)}

Edit(p) ==
    /\ effort < MaxEffort
    /\ \E file \in IF disk[p] = Absent THEN {Directory} ELSE FileEdits(disk[p]) :
          file # disk[p] /\ disk' = [disk EXCEPT ![p] = file]
    /\ effort' = effort + 1
    /\ init' = [init EXCEPT !.calm = FALSE]
    /\ UNCHANGED <<git, head>>

\* Git keeps no directories and takes the bytes of a file as they are.
Commit(p) ==
    /\ git /\ disk[p] # Directory /\ head[p] # disk[p]
    /\ head' = [head EXCEPT ![p] = disk[p]]
    /\ init' = [init EXCEPT !.calm = FALSE]
    /\ UNCHANGED <<git, disk, effort>>

(***************************************************************************)
(* sscsb.                                                                  *)
(***************************************************************************)
\* committed_workflows: HEAD's readable files; those of the working tree only
\* where there is no repository to ask.
Readable(files) == [p \in {q \in Paths : files[q].at = "yaml"} |-> files[p]]
CommittedWorkflows(tree) == Readable(IF git THEN head ELSE tree)

\* What the author has in the editor counts.
EvidenceOnDisk(c, tree) == ConsolidatedEvidence(c, Readable(tree), Dest[c])
Evidence(c, tree) == ConsolidatedEvidence(c, CommittedWorkflows(tree), Dest[c])

\* verify_template_control in a working tree: the artifact decides if it is a
\* file, the committed workflows otherwise.
IsFile(file) == file \notin {Absent, Directory}
\* A missing artifact fails whatever stands in for it.
VerifyModular(c, tree) == IF IsFile(tree[Dest[c]]) /\ ShapeSound(tree[Dest[c]]) THEN "pass" ELSE "fail"
Verify(c, tree) ==
    IF \/ IsFile(tree[Dest[c]]) /\ ShapeSound(tree[Dest[c]])
       \/ ~IsFile(tree[Dest[c]]) /\ Evidence(c, tree) = "proven"
    THEN "pass" ELSE "fail"

\* install_all is called: a first time, or again.
StartInit ==
    /\ effort < MaxEffort
    /\ init.at = 0 \/ Done
    /\ init' = [at |-> 1, kept |-> {}, calm |-> TRUE]
    /\ effort' = effort + 1
    /\ UNCHANGED <<git, head, disk>>

Installing == init.at \in DOMAIN Controls
This == Controls[init.at]

\* "keep": whatever stands at the destination stays.
Keep ==
    /\ Installing /\ disk[Dest[This]] # Absent
    /\ init' = [init EXCEPT !.at = @ + 1, !.kept = @ \cup {Dest[This]}]
    /\ UNCHANGED <<git, head, disk, effort>>

\* "skip": a committed workflow proves the control.
Skip ==
    /\ Installing /\ disk[Dest[This]] = Absent /\ Evidence(This, disk) = "proven"
    /\ init' = [init EXCEPT !.at = @ + 1]
    /\ UNCHANGED <<git, head, disk, effort>>

Install ==
    /\ Installing /\ disk[Dest[This]] = Absent /\ Evidence(This, disk) # "proven"
    /\ disk' = [disk EXCEPT ![Dest[This]] = Template[This]]
    /\ init' = [init EXCEPT !.at = @ + 1]
    /\ UNCHANGED <<git, head, effort>>

\* What is left of a file whose writing was cut short: nothing, no YAML, or a
\* workflow that has lost the end of its last job.
CutShort(file) ==
    {Yaml(<<>>), Garbled}
    \cup {Yaml(<<[file.docs[1] EXCEPT !.jobs[j].steps = SubSeq(@, 1, Len(@) - 1)]>>) :
            j \in {i \in DOMAIN file.docs[1].jobs : file.docs[1].jobs[i].steps # <<>>}}

\* init dies: between two artifacts, or while it writes one.
CrashInit ==
    /\ Installing
    /\ \/ UNCHANGED disk
       \/ /\ disk[Dest[This]] = Absent /\ Evidence(This, disk) # "proven"
          /\ \E torn \in CutShort(Template[This]) : disk' = [disk EXCEPT ![Dest[This]] = torn]
    /\ init' = [at |-> 0, kept |-> {}, calm |-> FALSE]
    /\ UNCHANGED <<git, head, effort>>

Next ==
    \/ \E p \in Paths : Edit(p) \/ Commit(p)
    \/ StartInit \/ Keep \/ Skip \/ Install \/ CrashInit

Spec == Init /\ [][Next]_vars

(***************************************************************************)
(* What a proof is worth.                                                  *)
(***************************************************************************)
\* The deliverable is made when nothing fails, and is never missing from a
\* green run.
Assured(kind, doc, held) ==
    \A fault \in Faults(doc) :
        LET run == Outcome(kind, doc, held, fault)
        IN  /\ fault = <<>> => run.made
            /\ run.green => run.made

\* The calls of `path` that an unattended event starts.
LiveCalls(kind, files, path) ==
    UNION {UNION {{<<doc, j>> : j \in {i \in Started(kind, doc, Undeclared, <<>>) :
                                         doc.jobs[i].uses = path /\ ~doc.jobs[i].coe}} :
                  doc \in {d \in Documents(files[p]) : Triggered(d)}} :
           p \in {q \in DOMAIN files \ {path} : ShapeSound(files[q])}}
Held(call) == Token(call[1], call[1].jobs[call[2]], Undeclared)

Delivers(kind, files, path) ==
    /\ ShapeSound(files[path])
    /\ LET doc == files[path].docs[1]
       IN  \/ Triggered(doc) /\ Assured(kind, doc, Undeclared)
           \/ /\ "workflow_call" \in DOMAIN doc.on
              /\ \E call \in LiveCalls(kind, files, path) :
                    AcceptsCall(doc, Held(call)) /\ Assured(kind, doc, Held(call))

\* Limit: `needs:` is only checked to resolve. A job that needs one that is
\* switched off, or itself, never starts.
WithoutNeeds(doc) ==
    [doc EXCEPT !.jobs = [j \in DOMAIN doc.jobs |-> [doc.jobs[j] EXCEPT !.needs = {}]]]
NeedsIgnored(files) ==
    [p \in DOMAIN files |->
        [files[p] EXCEPT !.docs = [d \in DOMAIN files[p].docs |-> WithoutNeeds(files[p].docs[d])]]]

\* Limit: what a called workflow asks for beyond the control's own scopes, which
\* automatic_caller (workflows.rs:3136) does not look at, although its comment
\* has the caller grant "every scope the called job needs".
AsksMore(kind, files, path) ==
    \E call \in LiveCalls(kind, files, path) :
        \E doc \in Documents(files[path]) : ~AcceptsCall(doc, Held(call))

(***************************************************************************)
(* Properties.                                                             *)
(***************************************************************************)
\* A workflow that consolidated_evidence names as proof makes the deliverable
\* on some unattended event, and no run of it is green without it, but for
\* needs: and for callees that ask for more.
ProofDelivers ==
    \A c \in ControlSet :
        \A p \in ProvingFiles(c, CommittedWorkflows(disk), Dest[c]) :
            LET files == NeedsIgnored(CommittedWorkflows(disk))
            IN  AsksMore(c, files, p) \/ Delivers(c, files, p)

\* "init and verify must agree": once init has gone through and nobody has
\* touched anything since, a control that fails does so for a file that was
\* there before and that init kept, and harden-runner for a workflow that is
\* not of this init's making (install_all, verify_template_control,
\* verify_harden_runner).
InitAndVerifyAgree ==
    Done /\ init.calm =>
        /\ (\A c \in ControlSet : Verify(c, disk) = "fail" => Dest[c] \in init.kept)
        /\ HardenRunner(disk) = "fail" =>
                \E p \in Paths \ ({Dest[c] : c \in ControlSet} \ init.kept) : disk[p] # Absent

\* A proof is not undone by what other files carry: what a workflow and its
\* callers prove on their own, they prove in any repository.
DefectsHideNoProof ==
    \A c \in ControlSet : \A p \in DOMAIN CommittedWorkflows(disk) \ {Dest[c]} :
        LET files == CommittedWorkflows(disk)
            callers == {q \in DOMAIN files :
                           \E doc \in Documents(files[q]) :
                               \E j \in DOMAIN doc.jobs : doc.jobs[j].uses = p}
            alone == [q \in {p} \cup callers |-> files[q]]
        IN  ConsolidatedEvidence(c, alone, Dest[c]) = "proven" => Evidence(c, disk) = "proven"

\* "What is examined is what a fresh clone would carry" (committed_workflows):
\* once init has gone through undisturbed, a commit of no more than the files it
\* wrote makes every control pass in a clone too, but for files init found and
\* kept; whatever stands uncommitted in the working tree, and although init left
\* out the artifacts that a workflow stands in for. Unless the author had deleted
\* a committed artifact there: init takes its place, or leaves it, unaware.
Written == {p \in {Dest[c] : c \in ControlSet} \ init.kept : disk[p] # Absent}
Published == [p \in Paths |-> IF p \in Written THEN disk[p] ELSE head[p]]
DeletedArtifact == \E c \in ControlSet : Dest[c] \notin init.kept /\ head[Dest[c]] # Absent

PublishedPasses ==
    git /\ Done /\ init.calm /\ ~DeletedArtifact =>
        \A c \in ControlSet :
            \/ Dest[c] \in init.kept
            \/ IF IsFile(Published[Dest[c]]) THEN ShapeSound(Published[Dest[c]])
               ELSE ConsolidatedEvidence(c, Readable(Published), Dest[c]) = "proven"
=============================================================================
