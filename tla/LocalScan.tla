------------------------------ MODULE LocalScan ------------------------------
(***************************************************************************)
(* `sscsb scan --local`: runs of the local lane over one working tree.     *)
(* A run reads the trust anchor, asks git whether the tree is clean, takes *)
(* HEAD, runs the controls (which read the working tree), asks again, then *)
(* writes the record, removes the old signature, has the user's signer     *)
(* sign the file, and verifies. Editors, other git commands and hooks that *)
(* regenerate the anchor go on meanwhile, and so may a second run, which   *)
(* uses the same two output files.                                         *)
(*                                                                         *)
(* The two output files are left out of the trees: the lane ignores them   *)
(* when it asks whether the tree is clean.                                 *)
(***************************************************************************)
EXTENDS Naturals, Sequences

CONSTANTS
    Lane,           \* the runs of the command
    File,           \* the files the controls read
    Anchor,         \* .sscsb/policy/allowed_signers
    Content,        \* what a file may hold
    Absent,
    Granting,       \* the anchors that list the lane's key for its namespace
    InitialTrees,   \* what the first commit may be
    InitialWork,    \* the working trees a run may be started in
    MaxCommits,     \* bound on the length of the history
    MaxSaves,       \* bound on the saves of one behaviour
    NoRecord

Tree == [File -> Content \cup {Absent}]

ASSUME LaneAssumption ==
    /\ Anchor \in File
    /\ Absent \notin Content
    /\ Granting \subseteq Content
    /\ InitialTrees \subseteq Tree
    /\ InitialWork \subseteq Tree
    /\ MaxCommits \in Nat \ {0}
    /\ MaxSaves \in Nat

VARIABLES
    log,            \* the commits' trees
    head,           \* the commit HEAD names
    work,           \* the working tree
    record,         \* .sscsb/scan-record.local.json: a record, or NoRecord
    sig,            \* its .sig: the record that was signed, or NoRecord
    lane,           \* where each run is
    succeeded,      \* the records whose run reported success
    saves,          \* how many saves there were
    headMoved,      \* history: the runs that saw HEAD move under their controls
    saved,          \* history: saved[l]: the files saved during run l, ...
    savedTwice,     \* history: ... and those saved more than once
    disturbed       \* history: a run was overlapped, or cut, while it signed

repo == <<log, head, work>>
history == <<saves, headMoved, saved, savedTwice, disturbed>>
vars == <<repo, record, sig, lane, succeeded, history>>

Record == [by : Lane, commit : 1..MaxCommits, seen : Tree]

Phase == {"new", "anchor", "clean", "controls", "write", "remove",
          "sign", "signing", "verify", "done", "failed"}

\* bytes: what the signer has read and is about to sign.
Run == [phase : Phase, commit : 0..MaxCommits, seen : Tree, bytes : Record \cup {NoRecord}]

Unread == [f \in File |-> Absent]
Fresh == [phase |-> "new", commit |-> 0, seen |-> Unread, bytes |-> NoRecord]

TypeOK ==
    /\ log \in Seq(Tree)
    /\ Len(log) \in 1..MaxCommits
    /\ head \in DOMAIN log
    /\ work \in Tree
    /\ record \in Record \cup {NoRecord}
    /\ sig \in Record \cup {NoRecord}
    /\ lane \in [Lane -> Run]
    /\ succeeded \subseteq Record
    /\ saves \in 0..MaxSaves
    /\ headMoved \subseteq Lane
    /\ saved \in [Lane -> SUBSET File]
    /\ savedTwice \in [Lane -> SUBSET File]
    /\ disturbed \in BOOLEAN

Init ==
    /\ \E t \in InitialTrees : log = <<t>>
    /\ head = 1
    /\ work \in InitialWork
    /\ record = NoRecord /\ sig = NoRecord
    /\ lane = [l \in Lane |-> Fresh]
    /\ succeeded = {}
    /\ saves = 0
    /\ headMoved = {}
    /\ saved = [l \in Lane |-> {}]
    /\ savedTwice = [l \in Lane |-> {}]
    /\ disturbed = FALSE

-----------------------------------------------------------------------------
(***************************************************************************)
(* The rest of the world.                                                  *)
(***************************************************************************)
Measuring(l) == lane[l].phase \in {"anchor", "clean", "controls"}

SaveSeen(F) ==
    /\ saved' = [l \in Lane |-> IF Measuring(l) THEN saved[l] \cup F ELSE saved[l]]
    /\ savedTwice' = [l \in Lane |-> IF Measuring(l) THEN savedTwice[l] \cup (saved[l] \cap F)
                                     ELSE savedTwice[l]]

\* An editor, or a hook that regenerates the anchor.
Save(f, c) ==
    /\ work[f] # c
    /\ saves < MaxSaves /\ saves' = saves + 1
    /\ work' = [work EXCEPT ![f] = c]
    /\ SaveSeen({f})
    /\ UNCHANGED <<log, head, record, sig, lane, succeeded, headMoved, disturbed>>

HeadMoves == headMoved' = headMoved \cup {l \in Lane : lane[l].phase = "controls"}

\* git add F && git commit
Commit(F) ==
    /\ Len(log) < MaxCommits
    /\ \E f \in F : work[f] # log[head][f]
    /\ log' = Append(log, [f \in File |-> IF f \in F THEN work[f] ELSE log[head][f]])
    /\ head' = Len(log) + 1
    /\ HeadMoves
    /\ UNCHANGED <<work, record, sig, lane, succeeded, saves, saved, savedTwice, disturbed>>

(***************************************************************************)
(* tracked_changes, lane_relevant_changes, require_clean_worktree: `git    *)
(* status` without its `??` lines is empty.                                *)
(***************************************************************************)
CleanOutsidePolicy ==       \* mutant: all of .sscsb is the lane's own
    \A f \in File \ {Anchor} : log[head][f] # Absent => work[f] = log[head][f]

Clean == \A f \in File : log[head][f] # Absent => work[f] = log[head][f]

\* git checkout of an earlier or later commit, from a clean tree.
Checkout(i) ==
    LET F == {f \in File : log[head][f] # Absent \/ log[i][f] # Absent}
    IN  /\ i # head
        /\ Clean
        /\ \A f \in F : log[head][f] = Absent => work[f] = Absent
        /\ head' = i
        /\ work' = [f \in File |-> IF f \in F THEN log[i][f] ELSE work[f]]
        /\ SaveSeen({f \in File : work'[f] # work[f]})
        /\ HeadMoves
        /\ UNCHANGED <<log, record, sig, lane, succeeded, saves, disturbed>>

-----------------------------------------------------------------------------
(***************************************************************************)
(* prepare.                                                                *)
(***************************************************************************)
Step(l, from, to) == lane[l].phase = from /\ lane' = [lane EXCEPT ![l].phase = to]

ReadAnchor(l) ==
    /\ Step(l, "new", "anchor")
    /\ work[Anchor] \in Granting
    /\ UNCHANGED <<repo, record, sig, succeeded, history>>

CheckClean(l) ==
    /\ Step(l, "anchor", "clean")
    /\ Clean
    /\ UNCHANGED <<repo, record, sig, succeeded, history>>

ResolveHeadLater(l) ==      \* mutant: HEAD is taken after the controls, for the report only
    /\ lane[l].phase = "clean"
    /\ lane' = [lane EXCEPT ![l].phase = "controls"]
    /\ UNCHANGED <<repo, record, sig, succeeded, history>>

ResolveHead(l) ==
    /\ lane[l].phase = "clean"
    /\ lane' = [lane EXCEPT ![l].phase = "controls", ![l].commit = head]
    /\ UNCHANGED <<repo, record, sig, succeeded, history>>

\* cmd_scan_local: a control reads a file; in any order. Of the reads of one file
\* the one that decides a result is at any moment, so one is enough.
Control(l, f) ==
    /\ lane[l].phase = "controls"
    /\ lane[l].seen[f] = Absent
    /\ lane' = [lane EXCEPT ![l].seen[f] = work[f]]
    /\ UNCHANGED <<repo, record, sig, succeeded, history>>

-----------------------------------------------------------------------------
(***************************************************************************)
(* sign_record.                                                            *)
(***************************************************************************)
RecheckNever(l) ==          \* mutant: the clean check is not repeated
    /\ Step(l, "controls", "write")
    /\ UNCHANGED <<repo, record, sig, succeeded, history>>

Recheck(l) ==
    /\ Step(l, "controls", "write")
    /\ \A f \in File : lane[l].seen[f] # Absent \/ work[f] = Absent
    /\ Clean
    /\ UNCHANGED <<repo, record, sig, succeeded, history>>

RecordOf(l) == [by |-> l, commit |-> lane[l].commit, seen |-> lane[l].seen]

Signing == {"remove", "sign", "signing", "verify"}

WriteRecord(l) ==
    /\ Step(l, "write", "remove")
    /\ record' = RecordOf(l)
    /\ disturbed' = (disturbed \/ \E m \in Lane \ {l} : lane[m].phase \in Signing)
    /\ UNCHANGED <<repo, sig, succeeded, saves, headMoved, saved, savedTwice>>

RemoveOther(l) ==           \* mutant: only the name the signer did not use is removed
    /\ Step(l, "remove", "sign")
    /\ UNCHANGED <<repo, record, sig, succeeded, history>>

\* A stale signature goes, at either name a signer might use.
RemoveStale(l) ==
    /\ Step(l, "remove", "sign")
    /\ sig' = NoRecord
    /\ UNCHANGED <<repo, record, succeeded, history>>

\* The signer reads the file, waits for the user's touch, ...
SignRead(l) ==
    /\ lane[l].phase = "sign"
    /\ lane' = [lane EXCEPT ![l].phase = "signing", ![l].bytes = record]
    /\ UNCHANGED <<repo, record, sig, succeeded, history>>

\* ... and writes the signature.
SignWrite(l) ==
    /\ Step(l, "signing", "verify")
    /\ sig' = lane[l].bytes
    /\ UNCHANGED <<repo, record, succeeded, history>>

\* verify_signature: the signature on disk, over the bytes in memory, against the
\* anchor in the working tree.
Verify(l) ==
    /\ lane[l].phase = "verify"
    /\ lane' = [lane EXCEPT ![l] = [Fresh EXCEPT !.phase = "done"]]
    /\ sig = RecordOf(l)
    /\ work[Anchor] \in Granting
    /\ succeeded' = succeeded \cup {RecordOf(l)}
    /\ UNCHANGED <<repo, record, sig, history>>

\* A guard rail refuses, the signer fails, the user interrupts, the process dies.
Fail(l) ==
    /\ lane[l].phase \notin {"new", "done", "failed"}
    /\ lane' = [lane EXCEPT ![l] = [Fresh EXCEPT !.phase = "failed"]]
    /\ disturbed' = (disturbed \/ lane[l].phase = "remove")
    /\ UNCHANGED <<repo, record, sig, succeeded, saves, headMoved, saved, savedTwice>>

Next ==
    \/ \E f \in File, c \in Content : Save(f, c)
    \/ \E F \in SUBSET File : Commit(F)
    \/ \E i \in DOMAIN log : Checkout(i)
    \/ \E l \in Lane :
         \/ ReadAnchor(l) \/ CheckClean(l) \/ ResolveHead(l)
         \/ \E f \in File : Control(l, f)
         \/ Recheck(l) \/ WriteRecord(l) \/ RemoveStale(l)
         \/ SignRead(l) \/ SignWrite(l) \/ Verify(l) \/ Fail(l)

Spec == Init /\ [][Next]_vars

-----------------------------------------------------------------------------
(***************************************************************************)
(* Properties.                                                             *)
(***************************************************************************)
\* What the controls saw of a file that the record's commit tracks is what the
\* commit holds.
Describes(r, f) == log[r.commit][f] \in {Absent, r.seen[f]}

\* "The exact state this lane refuses to publish" (sign_record) is a record whose
\* controls saw other content than the commit it names. The second clean check
\* leaves two ways there: HEAD moved under the controls, or that very file was
\* saved at least twice, away from its committed content and back, while the run
\* measured. One save is always caught, whichever step it falls between, and so
\* is anything a concurrent run does (prepare, sign_record).
MisdescribesNeedsRace ==
    record # NoRecord =>
        \A f \in File : \/ Describes(record, f)
                        \/ record.by \in headMoved
                        \/ f \in savedTwice[record.by]

\* "The directory runs exactly this check" (verify_signature): when a run reports
\* success, the anchor at the record's commit, which is the one the directory
\* fetches, grants the key as the working tree's did, unless the commit does not
\* track the anchor or the anchor was saved while the run measured. A move of HEAD
\* under the controls does not matter: the commit was taken before.
RejectionNeedsRace ==
    \A r \in succeeded :
        \/ log[r.commit][Anchor] \in Granting \cup {Absent}
        \/ Anchor \in saved[r.by]

\* "A stale signature from an earlier run must never be mistaken for this one's
\* if signing fails part-way" (sign_record): at rest, a signature beside a record
\* is over that record, unless two runs overlapped while signing or one died
\* between writing the record and removing the old signature.
SignatureIsOfRecord ==
    \/ disturbed
    \/ \E l \in Lane : lane[l].phase \in Signing
    \/ NoRecord \in {record, sig}
    \/ sig = record
=============================================================================
