-------------------------- MODULE LocalScanProofs --------------------------
(***************************************************************************)
(* Proofs about LocalScan: its types, that a record which describes another *)
(* state than the commit it names took a race, that a success the directory *)
(* would reject took one, and that a signature at rest is its record's.     *)
(***************************************************************************)
EXTENDS LocalScan, TLAPS

(***************************************************************************)
(* The inductive invariant. A commit a run or a record names stays in the  *)
(* log, and until the controls start a run has seen nothing.               *)
(***************************************************************************)
Named == {"controls", "write"} \cup Signing

CommitKnown ==
    /\ \A l \in Lane : lane[l].phase \in Named => lane[l].commit \in DOMAIN log
    /\ record # NoRecord => record.commit \in DOMAIN log
    /\ \A r \in succeeded : r.commit \in DOMAIN log

Unmeasured ==
    \A l \in Lane : lane[l].phase \in {"new", "anchor", "clean"} => lane[l].seen = Unread

Typed == TypeOK /\ CommitKnown /\ Unmeasured

\* Between the first clean check and the controls a tracked file differs from
\* HEAD only when it was saved since.
StillClean(l) ==
    lane[l].phase = "clean" =>
        \A f \in File : f \in saved[l] \/ log[head][f] \in {Absent, work[f]}

HeadKept(l) == lane[l].phase = "controls" /\ l \notin headMoved => head = lane[l].commit

\* While the controls run, a tracked file that was not saved twice is either as
\* committed, and then all they can have seen is that, or saved once, and then it
\* stays dirty and the second clean check refuses.
AsCommitted(l, f, c) == work[f] = c /\ lane[l].seen[f] \in {Absent, c}

SavedOnce(l, f, c) == work[f] # c /\ f \in saved[l]

Measured(l) ==
    lane[l].phase = "controls" /\ l \notin headMoved =>
        \A f \in File :
            LET c == log[lane[l].commit][f]
            IN  c = Absent \/ f \in savedTwice[l] \/ AsCommitted(l, f, c) \/ SavedOnce(l, f, c)

\* From the second clean check on, what the run will write describes its commit.
DescribesOrRaced(r, f) == Describes(r, f) \/ r.by \in headMoved \/ f \in savedTwice[r.by]

Described(l) ==
    lane[l].phase \in {"write"} \cup Signing => \A f \in File : DescribesOrRaced(RecordOf(l), f)

SuccessDescribes == \A r \in succeeded, f \in File : DescribesOrRaced(r, f)

RaceInv ==
    /\ Typed /\ MisdescribesNeedsRace /\ SuccessDescribes
    /\ \A l \in Lane : StillClean(l) /\ HeadKept(l) /\ Measured(l) /\ Described(l)

\* The anchor a run read is the one in the tree, and with a clean tree the one
\* its commit holds, unless it was saved.
AnchorRead(l) ==
    lane[l].phase \in {"anchor", "clean"} /\ Anchor \notin saved[l] => work[Anchor] \in Granting

AnchorCommitted(l) ==
    lane[l].phase \in Named =>
        \/ log[lane[l].commit][Anchor] \in Granting \cup {Absent}
        \/ Anchor \in saved[l]

AnchorInv ==
    /\ RaceInv /\ RejectionNeedsRace
    /\ \A l \in Lane : AnchorRead(l) /\ AnchorCommitted(l)

\* One run at a time signs, and where it is tells what the two files hold.
OneSigns ==
    \A l, m \in Lane : lane[l].phase \in Signing /\ lane[m].phase \in Signing => l = m

SigningPlace ==
    \A l \in Lane :
        /\ lane[l].phase \in {"sign", "signing"} => sig = NoRecord
        /\ lane[l].phase = "signing" => lane[l].bytes = record
        /\ lane[l].phase = "verify" => sig = record

SigningInv == (disturbed \/ (OneSigns /\ SigningPlace)) /\ SignatureIsOfRecord

-----------------------------------------------------------------------------
(***************************************************************************)
(* Types.                                                                  *)
(***************************************************************************)
LEMMA FreshIsRun == ASSUME NEW p \in Phase PROVE [Fresh EXCEPT !.phase = p] \in Run
BY LaneAssumption DEF Fresh, Run, Unread, Tree

\* A step of one run that changes its phase alone.
LEMMA StepMoves ==
    ASSUME TypeOK, NEW l \in Lane, NEW from, NEW to \in Phase, Step(l, from, to)
    PROVE  /\ lane' \in [Lane -> Run]
           /\ lane[l].phase = from /\ lane'[l].phase = to
           /\ lane'[l].commit = lane[l].commit /\ lane'[l].seen = lane[l].seen
           /\ lane'[l].bytes = lane[l].bytes
           /\ RecordOf(l)' = RecordOf(l)
           /\ \A m \in Lane \ {l} : lane'[m] = lane[m]
BY DEF Step, TypeOK, Run, RecordOf

LEMMA RecordOfTyped ==
    ASSUME Typed, NEW l \in Lane, lane[l].phase \in Named
    PROVE  /\ RecordOf(l) \in Record
           /\ RecordOf(l).commit \in DOMAIN log
<1>1. lane[l] \in Run
  BY DEF Typed, TypeOK
<1>2. lane[l].commit \in DOMAIN log
  BY DEF Typed, CommitKnown
<1>3. DOMAIN log \subseteq 1..MaxCommits
  BY LaneAssumption DEF Typed, TypeOK
<1>4. QED
  BY <1>1, <1>2, <1>3 DEF RecordOf, Record, Run

\* A commit extends the log and changes none of it.
LEMMA CommitAppends ==
    ASSUME TypeOK, NEW F \in SUBSET File, Commit(F)
    PROVE  /\ log' \in Seq(Tree) /\ Len(log') \in 1..MaxCommits
           /\ DOMAIN log \subseteq DOMAIN log'
           /\ head' \in DOMAIN log'
           /\ \A i \in DOMAIN log : log'[i] = log[i]
           /\ \A f \in File : log'[head'][f] = IF f \in F THEN work[f] ELSE log[head][f]
<1> DEFINE t == [f \in File |-> IF f \in F THEN work[f] ELSE log[head][f]]
<1>1. t \in Tree
  <2>1. log[head] \in Tree
    BY DEF TypeOK
  <2>2. QED
    BY <2>1 DEF TypeOK, Tree
<1>2. log' = Append(log, t) /\ head' = Len(log) + 1 /\ Len(log) < MaxCommits
  BY DEF Commit
<1>3. \A f \in File : t[f] = IF f \in F THEN work[f] ELSE log[head][f]
  OBVIOUS
<1> HIDE DEF t
<1>4. QED
  BY <1>1, <1>2, <1>3, LaneAssumption DEF TypeOK

LEMMA NextTyped == Typed /\ [Next]_vars => Typed'
<1> SUFFICES ASSUME Typed, [Next]_vars PROVE Typed'
  OBVIOUS
<1> USE DEF Typed
<1>1. ASSUME NEW f \in File, NEW c \in Content, Save(f, c) PROVE Typed'
  <2>1. TypeOK'
    BY <1>1, LaneAssumption DEF Save, SaveSeen, TypeOK, Tree
  <2>2. QED
    BY <1>1, <2>1 DEF Save, CommitKnown, Unmeasured
<1>2. ASSUME NEW F \in SUBSET File, Commit(F) PROVE Typed'
  <2>1. TypeOK'
    BY <1>2, CommitAppends DEF Commit, HeadMoves, TypeOK
  <2>2. QED
    BY <1>2, <2>1, CommitAppends DEF Commit, CommitKnown, Unmeasured
<1>3. ASSUME NEW i \in DOMAIN log, Checkout(i) PROVE Typed'
  <2>1. log[i] \in Tree
    BY DEF TypeOK
  <2>2. work' \in Tree
    BY <1>3, <2>1 DEF Checkout, TypeOK, Tree
  <2>3. TypeOK'
    BY <1>3, <2>2 DEF Checkout, SaveSeen, HeadMoves, TypeOK
  <2>4. QED
    BY <1>3, <2>3 DEF Checkout, CommitKnown, Unmeasured
<1>4. ASSUME NEW l \in Lane, ReadAnchor(l) PROVE Typed'
  <2>1. Step(l, "new", "anchor")
    BY <1>4 DEF ReadAnchor
  <2>2. QED
    BY <1>4, <2>1, StepMoves DEF ReadAnchor, Phase, TypeOK, CommitKnown, Unmeasured, repo, history,
       Named, Signing
<1>5. ASSUME NEW l \in Lane, CheckClean(l) PROVE Typed'
  <2>1. Step(l, "anchor", "clean")
    BY <1>5 DEF CheckClean
  <2>2. QED
    BY <1>5, <2>1, StepMoves DEF CheckClean, Phase, TypeOK, CommitKnown, Unmeasured, repo, history,
       Named, Signing
<1>6. ASSUME NEW l \in Lane, ResolveHead(l) PROVE Typed'
  <2>1. head \in 0..MaxCommits
    BY LaneAssumption DEF TypeOK
  <2>2. [lane[l] EXCEPT !.phase = "controls", !.commit = head] \in Run
    BY <2>1 DEF TypeOK, Run, Phase
  <2>3. lane' = [lane EXCEPT ![l] = [lane[l] EXCEPT !.phase = "controls", !.commit = head]]
    BY <1>6 DEF ResolveHead, TypeOK
  <2>4. lane' \in [Lane -> Run]
    BY <2>2, <2>3 DEF TypeOK
  <2>5. QED
    BY <1>6, <2>4 DEF ResolveHead, TypeOK, CommitKnown, Unmeasured, repo, history, Run
<1>7. ASSUME NEW l \in Lane, NEW f \in File, Control(l, f) PROVE Typed'
  <2>1. lane' \in [Lane -> Run]
    BY <1>7 DEF Control, TypeOK, Run, Tree
  <2>2. QED
    BY <1>7, <2>1 DEF Control, TypeOK, CommitKnown, Unmeasured, repo, history, Run
<1>8. ASSUME NEW l \in Lane, Recheck(l) PROVE Typed'
  <2>1. Step(l, "controls", "write")
    BY <1>8 DEF Recheck
  <2>2. QED
    BY <1>8, <2>1, StepMoves DEF Recheck, Phase, TypeOK, CommitKnown, Unmeasured, repo, history,
       Named
<1>9. ASSUME NEW l \in Lane, WriteRecord(l) PROVE Typed'
  <2>1. Step(l, "write", "remove")
    BY <1>9 DEF WriteRecord
  <2>2. record' \in Record /\ record'.commit \in DOMAIN log
    BY <1>9, <2>1, StepMoves, RecordOfTyped DEF WriteRecord, Phase, Named
  <2>3. QED
    BY <1>9, <2>1, <2>2, StepMoves DEF WriteRecord, Phase, TypeOK, CommitKnown, Unmeasured, repo,
       Named
<1>10. ASSUME NEW l \in Lane, RemoveStale(l) PROVE Typed'
  <2>1. Step(l, "remove", "sign")
    BY <1>10 DEF RemoveStale
  <2>2. QED
    BY <1>10, <2>1, StepMoves DEF RemoveStale, Phase, TypeOK, CommitKnown, Unmeasured, repo,
       history, Named, Signing
<1>11. ASSUME NEW l \in Lane, SignRead(l) PROVE Typed'
  <2>1. lane[l] \in Run /\ lane'[l] = [lane[l] EXCEPT !.phase = "signing", !.bytes = record]
    BY <1>11 DEF SignRead, TypeOK
  <2>2. lane'[l] \in Run
    BY <2>1 DEF TypeOK, Run, Phase
  <2>3. lane' \in [Lane -> Run]
    BY <1>11, <2>1, <2>2 DEF SignRead, TypeOK
  <2>4. QED
    BY <1>11, <2>1, <2>3 DEF SignRead, TypeOK, CommitKnown, Unmeasured, repo, history, Run, Named,
       Signing
<1>12. ASSUME NEW l \in Lane, SignWrite(l) PROVE Typed'
  <2>1. Step(l, "signing", "verify")
    BY <1>12 DEF SignWrite
  <2>2. lane[l].bytes \in Record \cup {NoRecord}
    BY DEF TypeOK, Run
  <2>3. QED
    BY <1>12, <2>1, <2>2, StepMoves DEF SignWrite, Phase, TypeOK, CommitKnown, Unmeasured, repo,
       history, Named, Signing
<1>13. ASSUME NEW l \in Lane, Verify(l) \/ Fail(l) PROVE Typed'
  <2>1. /\ lane' \in [Lane -> Run]
        /\ lane'[l].phase \in {"done", "failed"}
        /\ \A m \in Lane \ {l} : lane'[m] = lane[m]
    BY <1>13, FreshIsRun DEF Verify, Fail, Fresh, TypeOK, Phase
  <2>2. Verify(l) => RecordOf(l) \in Record /\ RecordOf(l).commit \in DOMAIN log
    BY RecordOfTyped DEF Verify, Named, Signing
  <2>3. TypeOK'
    BY <1>13, <2>1, <2>2 DEF Verify, Fail, TypeOK, repo, history
  <2>4. QED
    BY <1>13, <2>1, <2>2, <2>3 DEF Verify, Fail, CommitKnown, Unmeasured, repo, Named, Signing
<1>14. CASE UNCHANGED vars
  BY <1>14 DEF vars, repo, history, TypeOK, CommitKnown, Unmeasured
<1>15. QED
  BY <1>1, <1>2, <1>3, <1>4, <1>5, <1>6, <1>7, <1>8, <1>9, <1>10, <1>11, <1>12, <1>13, <1>14
  DEF Next

LEMMA InitTyped == Init => Typed
<1> SUFFICES ASSUME Init PROVE Typed
  OBVIOUS
<1>1. PICK t \in InitialTrees : log = <<t>>
  BY DEF Init
<1>2. log \in Seq(Tree) /\ Len(log) = 1 /\ head \in DOMAIN log
  BY <1>1, LaneAssumption DEF Init
<1>3. Unread \in Tree /\ Fresh \in Run
  BY LaneAssumption DEF Fresh, Run, Unread, Tree, Phase
<1>4. TypeOK
  <2>1. Len(log) \in 1..MaxCommits /\ saves \in 0..MaxSaves
    BY <1>2, LaneAssumption DEF Init
  <2>2. work \in Tree
    BY LaneAssumption DEF Init
  <2>3. QED
    BY <1>2, <1>3, <2>1, <2>2 DEF Init, TypeOK
<1>5. QED
  BY <1>4 DEF Init, Typed, CommitKnown, Unmeasured, Fresh, Named, Signing

\* Type correctness: every reachable state of the local lanes is well formed.
THEOREM TypeCorrect == Spec => []TypeOK
<1>1. Typed => TypeOK
  BY DEF Typed
<1>2. QED
  BY <1>1, InitTyped, NextTyped, PTL DEF Spec

-----------------------------------------------------------------------------
(***************************************************************************)
(* Races.                                                                  *)
(***************************************************************************)
\* No step takes back a commit, or what the history variables noted.
LEMMA NextKeeps ==
    ASSUME Typed, [Next]_vars
    PROVE  /\ \A i \in DOMAIN log : i \in DOMAIN log' /\ log'[i] = log[i]
           /\ headMoved \subseteq headMoved'
           /\ \A l \in Lane : saved[l] \subseteq saved'[l] /\ savedTwice[l] \subseteq savedTwice'[l]
<1> USE DEF Typed
<1>1. ASSUME NEW f \in File, NEW c \in Content, Save(f, c)
      PROVE  /\ UNCHANGED <<log, headMoved>>
             /\ \A l \in Lane : saved[l] \subseteq saved'[l] /\ savedTwice[l] \subseteq savedTwice'[l]
  BY <1>1 DEF Save, SaveSeen, TypeOK
<1>2. ASSUME NEW F \in SUBSET File, Commit(F)
      PROVE  /\ \A i \in DOMAIN log : i \in DOMAIN log' /\ log'[i] = log[i]
             /\ headMoved \subseteq headMoved' /\ UNCHANGED <<saved, savedTwice>>
  BY <1>2, CommitAppends DEF Commit, HeadMoves
<1>3. ASSUME NEW i \in DOMAIN log, Checkout(i)
      PROVE  /\ UNCHANGED log /\ headMoved \subseteq headMoved'
             /\ \A l \in Lane : saved[l] \subseteq saved'[l] /\ savedTwice[l] \subseteq savedTwice'[l]
  BY <1>3 DEF Checkout, SaveSeen, HeadMoves, TypeOK
<1>4. ASSUME NEW l \in Lane,
             \/ ReadAnchor(l) \/ CheckClean(l) \/ ResolveHead(l)
             \/ \E f \in File : Control(l, f)
             \/ Recheck(l) \/ WriteRecord(l) \/ RemoveStale(l)
             \/ SignRead(l) \/ SignWrite(l) \/ Verify(l) \/ Fail(l)
      PROVE  UNCHANGED <<log, headMoved, saved, savedTwice>>
  BY <1>4 DEF ReadAnchor, CheckClean, ResolveHead, Control, Recheck, WriteRecord, RemoveStale,
     SignRead, SignWrite, Verify, Fail, repo, history
<1>5. CASE UNCHANGED vars
  BY <1>5 DEF vars, repo, history
<1>6. QED
  BY <1>1, <1>2, <1>3, <1>4, <1>5 DEF Next

\* So a record stays described.
LEMMA DescribedStays ==
    ASSUME Typed, [Next]_vars, NEW r, r.commit \in DOMAIN log, r.by \in Lane,
           NEW f \in File, DescribesOrRaced(r, f)
    PROVE  \/ log'[r.commit][f] \in {Absent, r.seen[f]}
           \/ r.by \in headMoved' \/ f \in savedTwice'[r.by]
BY NextKeeps DEF DescribesOrRaced, Describes

LEMMA RecordsRace ==
    ASSUME RaceInv, [Next]_vars
    PROVE  /\ UNCHANGED record => MisdescribesNeedsRace'
           /\ UNCHANGED succeeded => SuccessDescribes'
<1> USE DEF RaceInv
<1>1. ASSUME UNCHANGED record PROVE MisdescribesNeedsRace'
  <2> SUFFICES ASSUME record # NoRecord, NEW f \in File
               PROVE  \/ log'[record.commit][f] \in {Absent, record.seen[f]}
                      \/ record.by \in headMoved' \/ f \in savedTwice'[record.by]
    BY <1>1 DEF MisdescribesNeedsRace, Describes
  <2>1. record.commit \in DOMAIN log /\ record.by \in Lane
    BY DEF Typed, TypeOK, CommitKnown, Record
  <2>2. DescribesOrRaced(record, f)
    BY DEF MisdescribesNeedsRace, DescribesOrRaced
  <2>3. QED
    BY <2>1, <2>2, DescribedStays
<1>2. ASSUME UNCHANGED succeeded PROVE SuccessDescribes'
  <2> SUFFICES ASSUME NEW r \in succeeded, NEW f \in File
               PROVE  \/ log'[r.commit][f] \in {Absent, r.seen[f]}
                      \/ r.by \in headMoved' \/ f \in savedTwice'[r.by]
    BY <1>2 DEF SuccessDescribes, DescribesOrRaced, Describes
  <2>1. r.commit \in DOMAIN log /\ r.by \in Lane
    BY DEF Typed, TypeOK, CommitKnown, Record
  <2>2. QED
    BY <2>1, DescribedStays DEF SuccessDescribes
<1>3. QED
  BY <1>1, <1>2

\* What a run has settled stays settled while others move.
LEMMA OwnDescribed ==
    ASSUME RaceInv, [Next]_vars, NEW l \in Lane, lane[l].phase \in {"write"} \cup Signing,
           RecordOf(l)' = RecordOf(l)
    PROVE  Described(l)'
<1> SUFFICES ASSUME NEW f \in File
             PROVE  \/ log'[lane[l].commit][f] \in {Absent, lane[l].seen[f]}
                    \/ l \in headMoved' \/ f \in savedTwice'[l]
  BY DEF Described, DescribesOrRaced, Describes, RecordOf
<1>1. DescribesOrRaced(RecordOf(l), f)
  BY DEF RaceInv, Described
<1>2. lane[l].commit \in DOMAIN log
  BY DEF RaceInv, Typed, CommitKnown, Named
<1>3. QED
  BY <1>1, <1>2, NextKeeps DEF RaceInv, DescribesOrRaced, Describes, RecordOf

LEMMA OthersRace ==
    ASSUME RaceInv, [Next]_vars, UNCHANGED <<repo, headMoved, saved, savedTwice>>,
           NEW m \in Lane, lane'[m] = lane[m]
    PROVE  StillClean(m)' /\ HeadKept(m)' /\ Measured(m)' /\ Described(m)'
<1>1. StillClean(m)' /\ HeadKept(m)' /\ Measured(m)'
  BY DEF RaceInv, StillClean, HeadKept, Measured, AsCommitted, SavedOnce, repo
<1>2. Described(m)'
  <2>1. CASE lane[m].phase \in {"write"} \cup Signing
    BY <2>1, OwnDescribed DEF RecordOf
  <2>2. CASE lane[m].phase \notin {"write"} \cup Signing
    BY <2>2 DEF Described, Signing
  <2>3. QED
    BY <2>1, <2>2
<1>3. QED
  BY <1>1, <1>2

LEMMA SaveRace ==
    ASSUME RaceInv, NEW f \in File, NEW c \in Content, Save(f, c), NEW l \in Lane
    PROVE  StillClean(l)' /\ HeadKept(l)' /\ Measured(l)'
<1> USE DEF RaceInv, Typed
<1>1. /\ UNCHANGED <<log, head, lane, headMoved>>
      /\ \A g \in File : work'[g] = IF g = f THEN c ELSE work[g]
      /\ work[f] # c
      /\ Measuring(l) => /\ saved'[l] = saved[l] \cup {f}
                         /\ savedTwice'[l] = savedTwice[l] \cup (saved[l] \cap {f})
  BY DEF Save, SaveSeen, TypeOK, Tree
<1>2. StillClean(l)' /\ HeadKept(l)'
  BY <1>1 DEF StillClean, HeadKept, Measuring
<1>3. Measured(l)'
  <2> SUFFICES ASSUME lane[l].phase = "controls", l \notin headMoved,
                      NEW g \in File, NEW t, t = log[lane[l].commit][g], t # Absent,
                      g \notin savedTwice'[l]
               PROVE  (AsCommitted(l, g, t) \/ SavedOnce(l, g, t))'
    BY <1>1 DEF Measured
  <2>1. AsCommitted(l, g, t) \/ SavedOnce(l, g, t)
    BY <1>1 DEF Measured, Measuring
  <2>2. QED
    BY <1>1, <2>1 DEF AsCommitted, SavedOnce, Measuring
<1>4. QED
  BY <1>2, <1>3

\* A commit or a checkout under the controls counts as a race; before them it
\* leaves every tracked file as committed, or saved.
LEMMA CommitRace ==
    ASSUME RaceInv, NEW F \in SUBSET File, Commit(F), NEW l \in Lane
    PROVE  StillClean(l)' /\ HeadKept(l)' /\ Measured(l)'
<1> USE DEF RaceInv, Typed
<1>1. /\ UNCHANGED <<work, lane, saved, savedTwice>>
      /\ headMoved' = headMoved \cup {m \in Lane : lane[m].phase = "controls"}
      /\ \A f \in File : log'[head'][f] = IF f \in F THEN work[f] ELSE log[head][f]
  BY CommitAppends DEF Commit, HeadMoves
<1>2. StillClean(l)'
  BY <1>1 DEF StillClean
<1>3. HeadKept(l)' /\ Measured(l)'
  BY <1>1 DEF HeadKept, Measured
<1>4. QED
  BY <1>2, <1>3

LEMMA CheckoutRace ==
    ASSUME RaceInv, NEW i \in DOMAIN log, Checkout(i), NEW l \in Lane
    PROVE  StillClean(l)' /\ HeadKept(l)' /\ Measured(l)'
<1> USE DEF RaceInv, Typed
<1> DEFINE F == {f \in File : log[head][f] # Absent \/ log[i][f] # Absent}
<1>1. /\ UNCHANGED <<log, lane>> /\ head' = i
      /\ headMoved' = headMoved \cup {m \in Lane : lane[m].phase = "controls"}
      /\ \A f \in File : work'[f] = IF f \in F THEN log[i][f] ELSE work[f]
  BY DEF Checkout, HeadMoves
<1>2. \A f \in File : log'[head'][f] \in {Absent, work'[f]}
  BY <1>1
<1>3. StillClean(l)'
  BY <1>1, <1>2 DEF StillClean
<1>4. HeadKept(l)' /\ Measured(l)'
  BY <1>1 DEF HeadKept, Measured
<1>5. QED
  BY <1>3, <1>4

\* The steps of one run need only be right about that run.
RunRace(l) == StillClean(l) /\ HeadKept(l) /\ Measured(l) /\ Described(l)

LEMMA StepRace ==
    ASSUME RaceInv, [Next]_vars, NEW l \in Lane,
           UNCHANGED <<repo, headMoved, saved, savedTwice>>,
           \A m \in Lane \ {l} : lane'[m] = lane[m],
           UNCHANGED record \/ MisdescribesNeedsRace',
           UNCHANGED succeeded \/ SuccessDescribes',
           RunRace(l)'
    PROVE  RaceInv'
<1>1. \A m \in Lane \ {l} : RunRace(m)'
  BY OthersRace DEF RunRace
<1>2. Typed'
  BY NextTyped DEF RaceInv
<1>3. QED
  BY <1>1, <1>2, RecordsRace DEF RaceInv, RunRace

LEMMA NextRace == RaceInv /\ [Next]_vars => RaceInv'
<1> SUFFICES ASSUME RaceInv, [Next]_vars PROVE RaceInv'
  OBVIOUS
<1>0. TypeOK
  BY DEF RaceInv, Typed
<1>1. CASE /\ UNCHANGED <<lane, record, succeeded>>
           /\ \/ \E f \in File, c \in Content : Save(f, c)
              \/ \E F \in SUBSET File : Commit(F)
              \/ \E i \in DOMAIN log : Checkout(i)
  <2>1. ASSUME NEW l \in Lane PROVE StillClean(l)' /\ HeadKept(l)' /\ Measured(l)'
    BY <1>1, SaveRace, CommitRace, CheckoutRace
  <2>2. ASSUME NEW l \in Lane PROVE Described(l)'
    <3>1. CASE lane[l].phase \in {"write"} \cup Signing
      BY <1>1, <3>1, OwnDescribed DEF RecordOf
    <3>2. CASE lane[l].phase \notin {"write"} \cup Signing
      BY <1>1, <3>2 DEF Described, Signing
    <3>3. QED
      BY <3>1, <3>2
  <2>3. QED
    BY <1>1, <2>1, <2>2, NextTyped, RecordsRace DEF RaceInv
<1>2. ASSUME NEW l \in Lane, ReadAnchor(l) PROVE RaceInv'
  <2>1. Step(l, "new", "anchor")
    BY <1>2 DEF ReadAnchor
  <2>2. RunRace(l)'
    BY <2>1, <1>0, StepMoves DEF Phase, RunRace, StillClean, HeadKept, Measured, Described, Signing
  <2>3. QED
    BY <1>2, <2>1, <2>2, <1>0, StepMoves, StepRace DEF ReadAnchor, repo, history, Phase
<1>3. ASSUME NEW l \in Lane, CheckClean(l) PROVE RaceInv'
  <2>1. Step(l, "anchor", "clean")
    BY <1>3 DEF CheckClean
  <2>2. RunRace(l)'
    BY <1>3, <2>1, <1>0, StepMoves DEF CheckClean, Clean, Phase, RunRace, StillClean, HeadKept, Measured,
       Described, Signing, repo, history
  <2>3. QED
    BY <1>3, <2>1, <2>2, <1>0, StepMoves, StepRace DEF CheckClean, repo, history, Phase
<1>4. ASSUME NEW l \in Lane, ResolveHead(l) PROVE RaceInv'
  <2>1. /\ lane[l].phase = "clean" /\ lane'[l].phase = "controls"
        /\ lane'[l].commit = head /\ lane'[l].seen = lane[l].seen
        /\ \A m \in Lane \ {l} : lane'[m] = lane[m]
        /\ UNCHANGED <<repo, record, sig, succeeded, history>>
    BY <1>0, <1>4 DEF ResolveHead, TypeOK, Run
  <2>2. lane[l].seen = Unread
    BY <2>1 DEF RaceInv, Typed, Unmeasured
  <2>3. StillClean(l)
    BY DEF RaceInv
  <2>4. RunRace(l)'
    BY <2>1, <2>2, <2>3 DEF RunRace, StillClean, HeadKept, Measured, AsCommitted, SavedOnce, Described,
       Signing, repo, history, Unread
  <2>5. QED
    BY <2>1, <2>4, StepRace DEF repo, history
<1>5. ASSUME NEW l \in Lane, NEW f \in File, Control(l, f) PROVE RaceInv'
  <2>1. /\ lane[l].phase = "controls" /\ lane'[l].phase = "controls"
        /\ lane'[l].commit = lane[l].commit
        /\ \A g \in File : lane'[l].seen[g] = IF g = f THEN work[f] ELSE lane[l].seen[g]
        /\ \A m \in Lane \ {l} : lane'[m] = lane[m]
        /\ UNCHANGED <<repo, record, sig, succeeded, history>>
    BY <1>0, <1>5 DEF Control, TypeOK, Run, Tree
  <2>2. HeadKept(l) /\ Measured(l)
    BY DEF RaceInv
  <2>3. RunRace(l)'
    BY <2>1, <2>2 DEF RunRace, StillClean, HeadKept, Measured, AsCommitted, SavedOnce, Described,
       Signing, repo, history
  <2>4. QED
    BY <2>1, <2>3, StepRace DEF repo, history
<1>6. ASSUME NEW l \in Lane, Recheck(l) PROVE RaceInv'
  <2>1. Step(l, "controls", "write")
    BY <1>6 DEF Recheck
  <2>2. HeadKept(l) /\ Measured(l)
    BY DEF RaceInv
  <2>3. ASSUME NEW f \in File PROVE DescribesOrRaced(RecordOf(l), f)
    <3> SUFFICES ASSUME l \notin headMoved, log[head][f] # Absent, f \notin savedTwice[l]
                 PROVE  log[head][f] = lane[l].seen[f]
      BY <2>1, <2>2 DEF Step, HeadKept, DescribesOrRaced, Describes, RecordOf
    <3>1. work[f] = log[head][f]
      BY <1>6 DEF Recheck, Clean
    <3>2. AsCommitted(l, f, log[head][f])
      BY <2>1, <2>2, <3>1 DEF Step, HeadKept, Measured, SavedOnce
    <3>3. QED
      BY <1>6, <3>1, <3>2 DEF AsCommitted, Recheck
  <2>4. RunRace(l)'
    BY <1>0, <1>6, <2>1, <2>3, StepMoves DEF Recheck, Phase, RunRace, StillClean, HeadKept, Measured,
       Described, DescribesOrRaced, Describes, Signing, repo, history
  <2>5. QED
    BY <1>0, <1>6, <2>1, <2>4, StepMoves, StepRace DEF Recheck, repo, history, Phase
<1>7. ASSUME NEW l \in Lane, WriteRecord(l) PROVE RaceInv'
  <2>1. Step(l, "write", "remove")
    BY <1>7 DEF WriteRecord
  <2>2. \A f \in File : DescribesOrRaced(RecordOf(l), f)
    BY <2>1 DEF Step, RaceInv, Described
  <2>3. MisdescribesNeedsRace'
    BY <1>7, <2>2 DEF WriteRecord, MisdescribesNeedsRace, DescribesOrRaced, Describes, repo
  <2>4. RunRace(l)'
    BY <1>0, <1>7, <2>1, <2>2, StepMoves DEF WriteRecord, Phase, RunRace, StillClean, HeadKept, Measured,
       Described, DescribesOrRaced, Describes, Signing, repo
  <2>5. QED
    BY <1>0, <1>7, <2>1, <2>3, <2>4, StepMoves, StepRace DEF WriteRecord, repo, Phase
<1>8. ASSUME NEW l \in Lane, RemoveStale(l) \/ SignRead(l) \/ SignWrite(l) PROVE RaceInv'
  <2>1. /\ lane[l].phase \in Signing /\ lane'[l].phase \in Signing
        /\ RecordOf(l)' = RecordOf(l)
        /\ \A m \in Lane \ {l} : lane'[m] = lane[m]
    BY <1>0, <1>8 DEF RemoveStale, SignRead, SignWrite, Step, TypeOK, Run, RecordOf, Signing
  <2>2. RunRace(l)'
    BY <2>1, OwnDescribed DEF RunRace, StillClean, HeadKept, Measured, Signing
  <2>3. QED
    BY <1>8, <2>1, <2>2, StepRace DEF RemoveStale, SignRead, SignWrite, repo, history
<1>9. ASSUME NEW l \in Lane, Verify(l) \/ Fail(l) PROVE RaceInv'
  <2>1. /\ lane'[l].phase \in {"done", "failed"}
        /\ \A m \in Lane \ {l} : lane'[m] = lane[m]
    BY <1>0, <1>9 DEF Verify, Fail, Fresh, TypeOK
  <2>2. UNCHANGED succeeded \/ SuccessDescribes'
    <3>1. CASE Fail(l)
      BY <3>1 DEF Fail
    <3>2. CASE Verify(l)
      <4>1. \A f \in File : DescribesOrRaced(RecordOf(l), f)
        BY <3>2 DEF Verify, RaceInv, Described, Signing
      <4>2. QED
        BY <3>2, <4>1 DEF Verify, RaceInv, SuccessDescribes, DescribesOrRaced, Describes, repo, history
    <3>3. QED
      BY <1>9, <3>1, <3>2
  <2>3. RunRace(l)'
    BY <2>1 DEF RunRace, StillClean, HeadKept, Measured, Described, Signing
  <2>4. QED
    BY <1>9, <2>1, <2>2, <2>3, StepRace DEF Verify, Fail, repo, history
<1>10. CASE UNCHANGED vars
  <2>1. ASSUME NEW m \in Lane PROVE RunRace(m)'
    BY <1>10, OthersRace DEF RunRace, vars, repo, history
  <2>2. QED
    BY <1>10, <2>1, NextTyped, RecordsRace DEF RaceInv, RunRace, vars
<1>11. QED
  BY <1>1, <1>2, <1>3, <1>4, <1>5, <1>6, <1>7, <1>8, <1>9, <1>10
  DEF Next, Save, Commit, Checkout

LEMMA InitRace == Init => RaceInv
<1> SUFFICES ASSUME Init PROVE RaceInv
  OBVIOUS
<1>1. \A l \in Lane : lane[l].phase = "new"
  BY DEF Init, Fresh
<1>2. \A l \in Lane : RunRace(l)
  BY <1>1 DEF RunRace, StillClean, HeadKept, Measured, Described, Signing
<1>3. QED
  BY <1>2, InitTyped DEF Init, RaceInv, RunRace, MisdescribesNeedsRace, SuccessDescribes

\* The record on disk, whoever overlapped whom, describes the commit it names in
\* every file that was not saved twice, unless HEAD moved under its controls.
THEOREM RecordsDescribe == Spec => []MisdescribesNeedsRace
<1>1. RaceInv => MisdescribesNeedsRace
  BY DEF RaceInv
<1>2. QED
  BY <1>1, InitRace, NextRace, PTL DEF Spec

\* So does every record a run reported as signed, also when another run has
\* written over the file since.
THEOREM SuccessesDescribe == Spec => []SuccessDescribes
<1>1. RaceInv => SuccessDescribes
  BY DEF RaceInv
<1>2. QED
  BY <1>1, InitRace, NextRace, PTL DEF Spec

-----------------------------------------------------------------------------
(***************************************************************************)
(* The anchor.                                                             *)
(***************************************************************************)
LEMMA RejectionStays ==
    ASSUME AnchorInv, [Next]_vars, UNCHANGED succeeded
    PROVE  RejectionNeedsRace'
<1> SUFFICES ASSUME NEW r \in succeeded
             PROVE  \/ log'[r.commit][Anchor] \in Granting \cup {Absent}
                    \/ Anchor \in saved'[r.by]
  BY DEF RejectionNeedsRace
<1>1. r.commit \in DOMAIN log /\ r.by \in Lane
  BY DEF AnchorInv, RaceInv, Typed, TypeOK, CommitKnown, Record
<1>2. QED
  BY <1>1, NextKeeps DEF AnchorInv, RaceInv, RejectionNeedsRace

\* A run that names a commit keeps its verdict on the anchor there.
LEMMA AnchorStays ==
    ASSUME AnchorInv, [Next]_vars, NEW l \in Lane, AnchorCommitted(l),
           lane[l].phase \in Named, lane'[l].commit = lane[l].commit
    PROVE  AnchorCommitted(l)'
<1>1. lane[l].commit \in DOMAIN log
  BY DEF AnchorInv, RaceInv, Typed, CommitKnown
<1>2. QED
  BY <1>1, NextKeeps DEF AnchorInv, RaceInv, AnchorCommitted

LEMMA NextAnchor == AnchorInv /\ [Next]_vars => AnchorInv'
<1> SUFFICES ASSUME AnchorInv, [Next]_vars PROVE AnchorInv'
  OBVIOUS
<1>0. RaceInv' /\ TypeOK /\ \A l \in Lane : AnchorRead(l) /\ AnchorCommitted(l)
  BY NextRace DEF AnchorInv, RaceInv, Typed
<1>1. ASSUME NEW l \in Lane, lane'[l] = lane[l], lane[l].phase \in Named
      PROVE  AnchorRead(l)' /\ AnchorCommitted(l)'
  BY <1>0, <1>1, AnchorStays DEF AnchorRead, Named, Signing
<1>2. ASSUME NEW l \in Lane, lane'[l] = lane[l], work'[Anchor] = work[Anchor]
      PROVE  AnchorRead(l)' /\ AnchorCommitted(l)'
  <2>1. saved[l] \subseteq saved'[l]
    BY NextKeeps DEF AnchorInv, RaceInv
  <2>2. CASE lane[l].phase \notin Named
    BY <1>0, <1>2, <2>1, <2>2 DEF AnchorRead, AnchorCommitted
  <2>3. QED
    BY <1>1, <1>2, <2>2
<1>3. ASSUME NEW l \in Lane, lane'[l] = lane[l], lane[l].phase \notin Named,
             Measuring(l) => Anchor \in saved'[l]
      PROVE  AnchorRead(l)' /\ AnchorCommitted(l)'
  BY <1>3 DEF AnchorRead, AnchorCommitted, Measuring
<1>4. ASSUME NEW f \in File, NEW c \in Content, Save(f, c) PROVE AnchorInv'
  <2>1. /\ UNCHANGED <<lane, succeeded>>
        /\ f # Anchor => work'[Anchor] = work[Anchor]
        /\ \A l \in Lane : Measuring(l) => f \in saved'[l]
    BY <1>0, <1>4 DEF Save, SaveSeen, TypeOK, Tree
  <2>2. ASSUME NEW l \in Lane PROVE AnchorRead(l)' /\ AnchorCommitted(l)'
    BY <1>1, <1>2, <1>3, <2>1
  <2>3. QED
    BY <1>0, <2>1, <2>2, RejectionStays DEF AnchorInv
<1>5. ASSUME NEW F \in SUBSET File, Commit(F) PROVE AnchorInv'
  <2>1. UNCHANGED <<lane, succeeded, work>>
    BY <1>5 DEF Commit
  <2>2. QED
    BY <1>0, <1>2, <2>1, RejectionStays DEF AnchorInv
<1>6. ASSUME NEW i \in DOMAIN log, Checkout(i) PROVE AnchorInv'
  <2>1. /\ UNCHANGED <<lane, succeeded>>
        /\ work'[Anchor] = work[Anchor] \/ \A l \in Lane : Measuring(l) => Anchor \in saved'[l]
    BY <1>6, LaneAssumption DEF Checkout, SaveSeen
  <2>2. ASSUME NEW l \in Lane PROVE AnchorRead(l)' /\ AnchorCommitted(l)'
    BY <1>1, <1>2, <1>3, <2>1
  <2>3. QED
    BY <1>0, <2>1, <2>2, RejectionStays DEF AnchorInv
<1>7. ASSUME NEW l \in Lane, \A m \in Lane \ {l} : lane'[m] = lane[m], UNCHANGED <<repo, saved>>,
             AnchorRead(l)' /\ AnchorCommitted(l)', RejectionNeedsRace'
      PROVE  AnchorInv'
  BY <1>0, <1>2, <1>7 DEF AnchorInv, repo
<1>8. ASSUME NEW l \in Lane, ReadAnchor(l) PROVE AnchorInv'
  <2>1. Step(l, "new", "anchor") /\ work[Anchor] \in Granting /\ UNCHANGED <<repo, succeeded, saved>>
    BY <1>8 DEF ReadAnchor, history
  <2>2. AnchorRead(l)' /\ AnchorCommitted(l)'
    BY <1>0, <2>1, StepMoves DEF AnchorRead, AnchorCommitted, Phase, Named, Signing, repo
  <2>3. QED
    BY <1>0, <1>7, <2>1, <2>2, StepMoves, RejectionStays DEF Phase
<1>9. ASSUME NEW l \in Lane, CheckClean(l) PROVE AnchorInv'
  <2>1. Step(l, "anchor", "clean") /\ UNCHANGED <<repo, succeeded, saved>>
    BY <1>9 DEF CheckClean, history
  <2>2. AnchorRead(l)' /\ AnchorCommitted(l)'
    BY <1>0, <2>1, StepMoves DEF AnchorRead, AnchorCommitted, Phase, Named, Signing, repo
  <2>3. QED
    BY <1>0, <1>7, <2>1, <2>2, StepMoves, RejectionStays DEF Phase
<1>10. ASSUME NEW l \in Lane, ResolveHead(l) PROVE AnchorInv'
  <2>1. /\ lane[l].phase = "clean" /\ lane'[l].phase = "controls" /\ lane'[l].commit = head
        /\ \A m \in Lane \ {l} : lane'[m] = lane[m]
        /\ UNCHANGED <<repo, succeeded, saved>>
    BY <1>0, <1>10 DEF ResolveHead, TypeOK, Run, history
  <2>2. Anchor \in saved[l] \/ log[head][Anchor] \in {Absent, work[Anchor]}
    BY <2>1, LaneAssumption DEF AnchorInv, RaceInv, StillClean
  <2>3. AnchorRead(l)' /\ AnchorCommitted(l)'
    BY <1>0, <2>1, <2>2 DEF AnchorRead, AnchorCommitted, repo
  <2>4. QED
    BY <1>7, <2>1, <2>3, RejectionStays
<1>11. ASSUME NEW l \in Lane,
              \/ \E f \in File : Control(l, f)
              \/ Recheck(l) \/ WriteRecord(l) \/ RemoveStale(l) \/ SignRead(l) \/ SignWrite(l)
       PROVE  AnchorInv'
  <2>1. /\ lane[l].phase \in Named /\ lane'[l].phase \in Named
        /\ lane'[l].commit = lane[l].commit
        /\ \A m \in Lane \ {l} : lane'[m] = lane[m]
        /\ UNCHANGED <<repo, succeeded, saved>>
    BY <1>0, <1>11 DEF Control, Recheck, WriteRecord, RemoveStale, SignRead, SignWrite, Step,
       TypeOK, Run, Named, Signing, history
  <2>2. AnchorRead(l)' /\ AnchorCommitted(l)'
    BY <1>0, <2>1, AnchorStays DEF AnchorRead, Named, Signing
  <2>3. QED
    BY <1>7, <2>1, <2>2, RejectionStays
<1>12. ASSUME NEW l \in Lane, Verify(l) \/ Fail(l) PROVE AnchorInv'
  <2>1. /\ lane'[l].phase \in {"done", "failed"}
        /\ \A m \in Lane \ {l} : lane'[m] = lane[m]
        /\ UNCHANGED <<repo, saved>>
    BY <1>0, <1>12 DEF Verify, Fail, Fresh, TypeOK, history
  <2>2. RejectionNeedsRace'
    <3>1. CASE Fail(l)
      BY <3>1, RejectionStays DEF Fail
    <3>2. CASE Verify(l)
      <4>1. \/ log[RecordOf(l).commit][Anchor] \in Granting \cup {Absent}
            \/ Anchor \in saved[RecordOf(l).by]
        BY <1>0, <3>2 DEF Verify, AnchorCommitted, RecordOf, Named, Signing
      <4>2. succeeded' = succeeded \cup {RecordOf(l)}
        BY <3>2 DEF Verify
      <4>3. QED
        BY <2>1, <4>1, <4>2 DEF AnchorInv, RejectionNeedsRace, repo
    <3>3. QED
      BY <1>12, <3>1, <3>2
  <2>3. AnchorRead(l)' /\ AnchorCommitted(l)'
    BY <2>1 DEF AnchorRead, AnchorCommitted, Named, Signing
  <2>4. QED
    BY <1>7, <2>1, <2>2, <2>3
<1>13. CASE UNCHANGED vars
  BY <1>0, <1>2, <1>13, RejectionStays DEF AnchorInv, vars, repo
<1>14. QED
  BY <1>4, <1>5, <1>6, <1>8, <1>9, <1>10, <1>11, <1>12, <1>13 DEF Next

\* When a run reports success, the commit its record names either does not track
\* the anchor or holds one that grants the key, unless the anchor was saved while
\* the run measured: the directory's own check then passes.
THEOREM RejectionsNeedRace == Spec => []RejectionNeedsRace
<1>1. Init => AnchorInv
  <2> SUFFICES ASSUME Init PROVE AnchorInv
    OBVIOUS
  <2>1. \A l \in Lane : lane[l].phase = "new"
    BY DEF Init, Fresh
  <2>2. QED
    BY <2>1, InitRace DEF Init, AnchorInv, AnchorRead, AnchorCommitted, RejectionNeedsRace, Named, Signing
<1>2. AnchorInv => RejectionNeedsRace
  BY DEF AnchorInv
<1>3. QED
  BY <1>1, <1>2, NextAnchor, PTL DEF Spec

-----------------------------------------------------------------------------
(***************************************************************************)
(* The signature file. Where the one signing run is tells what record and  *)
(* sig hold; a run that dies may leave only a signature of the record.     *)
(***************************************************************************)
\* A step of a run outside the signing phases, or of the rest of the world.
LEMMA SigningStays ==
    ASSUME SigningInv, UNCHANGED <<record, sig, disturbed>>,
           \A l \in Lane : lane'[l] # lane[l] =>
               lane[l].phase \notin Signing /\ lane'[l].phase \notin Signing
    PROVE  SigningInv'
<1>1. \A l \in Lane : lane'[l].phase \in Signing => lane[l].phase \in Signing /\ lane'[l] = lane[l]
  OBVIOUS
<1>2. \A l \in Lane : lane[l].phase \in Signing => lane'[l].phase \in Signing
  OBVIOUS
<1>3. disturbed' \/ (OneSigns' /\ SigningPlace')
  BY <1>1 DEF SigningInv, OneSigns, SigningPlace, Signing
<1>4. SignatureIsOfRecord'
  BY <1>2 DEF SigningInv, SignatureIsOfRecord
<1>5. QED
  BY <1>3, <1>4 DEF SigningInv

\* A step of the one run that signs.
LEMMA SignerMoves ==
    ASSUME SigningInv, NEW l \in Lane, lane[l].phase \in Signing,
           disturbed => disturbed',
           \A m \in Lane \ {l} : lane'[m] = lane[m],
           disturbed' \/ UNCHANGED record,
           disturbed' \/
             /\ lane'[l].phase \in {"sign", "signing"} => sig' = NoRecord
             /\ lane'[l].phase = "signing" => lane'[l].bytes = record'
             /\ lane'[l].phase = "verify" => sig' = record'
             /\ lane'[l].phase \notin Signing => NoRecord \in {record', sig'} \/ sig' = record'
    PROVE  SigningInv'
<1>1. CASE disturbed'
  BY <1>1 DEF SigningInv, SignatureIsOfRecord
<1>2. CASE ~disturbed'
  <2>1. \A m \in Lane \ {l} : lane[m].phase \notin Signing /\ lane'[m].phase \notin Signing
    BY <1>2 DEF SigningInv, OneSigns
  <2>2. OneSigns'
    BY <2>1 DEF OneSigns
  <2>3. SigningPlace'
    BY <1>2, <2>1 DEF SigningPlace, Signing
  <2>4. SignatureIsOfRecord'
    BY <1>2 DEF SignatureIsOfRecord
  <2>5. QED
    BY <2>2, <2>3, <2>4 DEF SigningInv
<1>3. QED
  BY <1>1, <1>2

LEMMA NextSigning == TypeOK /\ SigningInv /\ [Next]_vars => SigningInv'
<1> SUFFICES ASSUME TypeOK, SigningInv, [Next]_vars PROVE SigningInv'
  OBVIOUS
<1>1. CASE /\ UNCHANGED lane
           /\ \/ \E f \in File, c \in Content : Save(f, c)
              \/ \E F \in SUBSET File : Commit(F)
              \/ \E i \in DOMAIN log : Checkout(i)
  BY <1>1, SigningStays DEF Save, Commit, Checkout
<1>2. ASSUME NEW l \in Lane,
             \/ ReadAnchor(l) \/ CheckClean(l) \/ ResolveHead(l)
             \/ \E f \in File : Control(l, f)
             \/ Recheck(l)
      PROVE  SigningInv'
  <2>1. /\ lane[l].phase \notin Signing /\ lane'[l].phase \notin Signing
        /\ \A m \in Lane \ {l} : lane'[m] = lane[m]
        /\ UNCHANGED <<record, sig, disturbed>>
    BY <1>2 DEF ReadAnchor, CheckClean, ResolveHead, Control, Recheck, Step, TypeOK, Run, Signing,
       history
  <2>2. QED
    BY <2>1, SigningStays
<1>3. ASSUME NEW l \in Lane, WriteRecord(l) PROVE SigningInv'
  <2>1. /\ lane'[l].phase = "remove"
        /\ \A m \in Lane \ {l} : lane'[m] = lane[m]
        /\ disturbed \/ (\E m \in Lane \ {l} : lane[m].phase \in Signing) => disturbed'
    BY <1>3 DEF WriteRecord, Step, TypeOK, Run
  <2>2. SignatureIsOfRecord'
    BY <2>1 DEF SignatureIsOfRecord, Signing
  <2>3. ~disturbed' => OneSigns' /\ SigningPlace'
    BY <2>1 DEF OneSigns, SigningPlace, Signing
  <2>4. QED
    BY <2>2, <2>3 DEF SigningInv
<1>4. ASSUME NEW l \in Lane, RemoveStale(l) PROVE SigningInv'
  <2>1. /\ lane[l].phase \in Signing /\ lane'[l].phase = "sign" /\ sig' = NoRecord
        /\ \A m \in Lane \ {l} : lane'[m] = lane[m]
        /\ UNCHANGED <<record, disturbed>>
    BY <1>4 DEF RemoveStale, Step, TypeOK, Run, Signing, history
  <2>2. QED
    BY <2>1, SignerMoves DEF Signing
<1>5. ASSUME NEW l \in Lane, SignRead(l) PROVE SigningInv'
  <2>1. /\ lane[l].phase = "sign" /\ lane'[l].phase = "signing" /\ lane'[l].bytes = record
        /\ \A m \in Lane \ {l} : lane'[m] = lane[m]
        /\ UNCHANGED <<record, sig, disturbed>>
    BY <1>5 DEF SignRead, TypeOK, Run, history
  <2>2. disturbed \/ sig = NoRecord
    BY <2>1 DEF SigningInv, SigningPlace
  <2>3. QED
    BY <2>1, <2>2, SignerMoves DEF Signing
<1>6. ASSUME NEW l \in Lane, SignWrite(l) PROVE SigningInv'
  <2>1. /\ lane[l].phase = "signing" /\ lane'[l].phase = "verify" /\ sig' = lane[l].bytes
        /\ \A m \in Lane \ {l} : lane'[m] = lane[m]
        /\ UNCHANGED <<record, disturbed>>
    BY <1>6 DEF SignWrite, Step, TypeOK, Run, history
  <2>2. disturbed \/ lane[l].bytes = record
    BY <2>1 DEF SigningInv, SigningPlace
  <2>3. QED
    BY <2>1, <2>2, SignerMoves DEF Signing
<1>7. ASSUME NEW l \in Lane, Verify(l) PROVE SigningInv'
  <2>1. /\ lane[l].phase = "verify" /\ lane'[l].phase = "done"
        /\ \A m \in Lane \ {l} : lane'[m] = lane[m]
        /\ UNCHANGED <<record, sig, disturbed>>
    BY <1>7 DEF Verify, Fresh, TypeOK, history
  <2>2. disturbed \/ sig = record
    BY <2>1 DEF SigningInv, SigningPlace
  <2>3. QED
    BY <2>1, <2>2, SignerMoves DEF Signing
<1>8. ASSUME NEW l \in Lane, Fail(l) PROVE SigningInv'
  <2>1. /\ lane'[l].phase = "failed"
        /\ \A m \in Lane \ {l} : lane'[m] = lane[m]
        /\ UNCHANGED <<record, sig>>
        /\ disturbed' = (disturbed \/ lane[l].phase = "remove")
    BY <1>8 DEF Fail, Fresh, TypeOK
  <2>2. CASE lane[l].phase \notin Signing
    BY <2>1, <2>2, SigningStays DEF Signing, TypeOK
  <2>3. CASE lane[l].phase \in Signing
    <3>1. disturbed' \/ NoRecord \in {record, sig} \/ sig = record
      BY <2>1, <2>3 DEF SigningInv, SigningPlace, Signing
    <3>2. QED
      BY <2>1, <2>3, <3>1, SignerMoves DEF Signing
  <2>4. QED
    BY <2>2, <2>3
<1>9. CASE UNCHANGED vars
  BY <1>9, SigningStays DEF vars, history
<1>10. QED
  BY <1>1, <1>2, <1>3, <1>4, <1>5, <1>6, <1>7, <1>8, <1>9 DEF Next, Save, Commit, Checkout

\* A signature at rest beside a record is over that record, unless two runs signed
\* at once or one died with its record written and the old signature not removed.
THEOREM SignatureMatches == Spec => []SignatureIsOfRecord
<1>1. Init => SigningInv
  BY DEF Init, Fresh, SigningInv, OneSigns, SigningPlace, SignatureIsOfRecord, Signing
<1>2. SigningInv => SignatureIsOfRecord
  BY DEF SigningInv
<1>3. QED
  BY <1>1, <1>2, TypeCorrect, NextSigning, PTL DEF Spec
=============================================================================
