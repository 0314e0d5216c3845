-------------------------- MODULE CommitGateProofs --------------------------
(***************************************************************************)
(* Proofs about CommitGate: its types, and that whatever lands in spite of *)
(* a gate that is on took a race with the index, file by file.             *)
(***************************************************************************)
EXTENDS CommitGate, TLAPS

(***************************************************************************)
(* The inductive invariant. A commit that does not amend has room in the   *)
(* history, and the names in use were approved.                            *)
(***************************************************************************)
RoomLeft == phase # "idle" /\ ~amend => Len(log) < MaxCommits

NamesApproved ==
    /\ baseline \cup known \subseteq everApproved
    /\ approval # <<>> => approval[2] \subseteq everApproved

Typed == TypeOK /\ RoomLeft /\ NamesApproved

\* While an arm of pre-commit copies, every staged entry nobody has moved is
\* still to be copied, or was copied as it stands.
CopiesStaged ==
    \A f \in Staged \ movedBefore :
        /\ f \in todo \cup DOMAIN copied
        /\ f \in DOMAIN copied => copied[f] = index[f]

Leaky(b) == cfg.secrets /\ \A s \in cfg.scanners : b \in Recognised[s]

\* What an arm has passed, only a move can have brought back.
ArmsPassed ==
    /\ phase \in {"copySecrets", "copySast"} => CopiesStaged
    /\ phase \in {"sast", "copySast", "write"} => \A f \in Staged \ movedBefore : ~Leaky(index[f])
    /\ phase = "write" => \A f \in Staged \ movedBefore : ~(cfg.sast /\ index[f] \in Flawed)

AfterTree == {"message", "review", "trust", "load", "compare", "land"}

FindingInv ==
    /\ ~cfg.failOpen => ArmsPassed
    /\ phase \in AfterTree /\ ~cfg.failOpen =>
       \A f \in Changed \ (movedBefore \cup TypeChanged(tree)) : ~Caught(tree[f])

\* Since git wrote the tree, the index is the tree but for the moves.
IndexIsTree == phase \in AfterTree => \A f \in File \ movedAfter : index[f] = tree[f]

ReviewPassed ==
    phase \in {"trust", "load", "compare", "land"} => Unreviewed \subseteq movedAfter \cup TypeChanged(tree)

ReviewInv == IndexIsTree /\ ReviewPassed

\* A changed manifest nobody has moved, of the type it had, is still to be compared, or holds only
\* what was approved.
Manifests == {f \in Changed \ (movedAfter \cup TypeChanged(tree)) : KindOf[f] = "manifest"}

Approved(f) ==
    /\ tree[f] \notin Unparsed
    /\ \A d \in Deps[tree[f]] \ Deps[HeadTree[f]] : d \notin External /\ NameOf[d] \in everApproved

PackagesCompared ==
    /\ phase = "load" => Manifests \subseteq todo
    /\ phase = "compare" => \A f \in Manifests \ todo : Approved(f)
    /\ phase = "land" /\ cfg.trust => \A f \in Manifests : Approved(f)

PackageInv == Typed /\ IndexIsTree /\ (~cfg.failOpen => PackagesCompared)

-----------------------------------------------------------------------------
(***************************************************************************)
(* Types.                                                                  *)
(***************************************************************************)
LEMMA EmptyTyped == Empty \in Tree /\ Unset \in Config /\ Plain \in Message
BY DEF Empty, Tree, Content, Unset, Config, Plain, Message

ApprovalSteps == {<<s, n>> : s \in {"read", "truncated"}, n \in SUBSET Package}

LEMMA ApprovalTyped ==
    ASSUME NEW s \in {"read", "truncated"}, NEW n \in SUBSET Package
    PROVE  <<s, n>> \in ApprovalSteps
BY DEF ApprovalSteps

LEMMA CopyingIs ==
    /\ Copying["secrets"] = "copySecrets" /\ Copying["sast"] = "copySast"
    /\ After["secrets"] = IF cfg.sast THEN "sast" ELSE "write"
    /\ After["sast"] = "write"
BY DEF Copying, After

LEMMA HeadTyped == TypeOK => HeadTree \in Tree
BY DEF TypeOK, HeadTree

LEMMA RestTyped ==
    ASSUME TypeOK, Rest
    PROVE  /\ phase' \in Phase /\ amend' \in BOOLEAN /\ cfg' \in Config /\ msg' \in Message
           /\ todo' \subseteq File /\ DOMAIN copied' \subseteq File
           /\ \A f \in DOMAIN copied' : copied'[f] \in Blob
           /\ known' \subseteq Package /\ tree' \in Tree
           /\ movedBefore' \subseteq File /\ movedAfter' \subseteq File
           /\ everApproved' \subseteq Package
<1>1. DOMAIN <<>> = {}
  OBVIOUS
<1>2. DOMAIN copied' = {}
  BY <1>1 DEF Rest
<1>3. everApproved' \subseteq Package
  BY DEF Rest, TypeOK
<1>4. QED
  BY <1>2, <1>3, EmptyTyped DEF Rest, Phase

LEMMA NextTyped == Typed /\ [Next]_vars => Typed'
<1> SUFFICES ASSUME Typed, [Next]_vars PROVE Typed'
  OBVIOUS
<1> USE DEF Typed
<1>1. ASSUME NEW f \in File, NEW b \in Content, Stage(f, b) PROVE Typed'
  <2>1. index' \in Tree
    BY <1>1 DEF Stage, TypeOK, Tree
  <2>2. movedBefore' \subseteq File /\ movedAfter' \subseteq File
    BY <1>1 DEF Stage, TypeOK
  <2>3. TypeOK'
    BY <1>1, <2>1, <2>2 DEF Stage, TypeOK, job
  <2>4. QED
    BY <1>1, <2>3 DEF Stage, RoomLeft, NamesApproved, job
<1>2. ASSUME NEW p \in Package, ApproveRead(p) PROVE Typed'
  <2>1. baseline \cup {p} \in SUBSET Package
    BY DEF TypeOK
  <2>2. approval' \in ApprovalSteps
    BY <1>2, <2>1, ApprovalTyped DEF ApproveRead
  <2>3. everApproved' \subseteq Package /\ UNCHANGED <<index, log, baseline, job, movedBefore, movedAfter>>
    BY <1>2 DEF ApproveRead, TypeOK
  <2>4. TypeOK'
    BY <2>2, <2>3 DEF TypeOK, ApprovalSteps, job
  <2>5. QED
    BY <1>2, <2>4 DEF ApproveRead, RoomLeft, NamesApproved, job
<1>3. CASE ApproveTruncate
  <2>1. approval[2] \subseteq Package /\ approval' = <<"truncated", approval[2]>>
    BY <1>3 DEF ApproveTruncate, TypeOK
  <2>2. TypeOK'
    BY <1>3, <2>1 DEF ApproveTruncate, TypeOK, job, history
  <2>3. QED
    BY <1>3, <2>1, <2>2 DEF ApproveTruncate, RoomLeft, NamesApproved, job, history
<1>4. ASSUME NEW completes \in BOOLEAN, ApproveWrite(completes) PROVE Typed'
  <2>1. approval[2] \subseteq Package
    BY <1>4 DEF ApproveWrite, TypeOK
  <2>2. TypeOK'
    BY <1>4, <2>1 DEF ApproveWrite, TypeOK, job, history
  <2>3. QED
    BY <1>4, <2>1, <2>2 DEF ApproveWrite, RoomLeft, NamesApproved, job, history
<1>5. ASSUME NEW a \in BOOLEAN, NEW c \in Configs, Begin(a, c) PROVE Typed'
  <2>1. TypeOK'
    BY <1>5, CommitAssumption DEF Begin, To, TypeOK, Phase, files, history
  <2>2. QED
    BY <1>5, <2>1 DEF Begin, RoomLeft, NamesApproved, files, history
<1>6. ASSUME NEW arm \in {"secrets", "sast"}, ListStaged(arm) PROVE Typed'
  <2>1. phase' \in Phase /\ Staged \subseteq File
    BY <1>6, CopyingIs DEF ListStaged, To, Phase, Staged
  <2>2. /\ DOMAIN copied' \subseteq File
        /\ \A f \in DOMAIN copied' : copied'[f] = index[f] /\ index[f] # Absent
    BY <1>6, <2>1 DEF ListStaged, Gitlink
  <2>3. \A f \in DOMAIN copied' : copied'[f] \in Blob
    BY <2>2 DEF TypeOK, Tree, Content
  <2>4. TypeOK'
    BY <1>6, <2>1, <2>2, <2>3 DEF ListStaged, TypeOK, files, history
  <2>5. QED
    BY <1>6, <2>4 DEF ListStaged, RoomLeft, NamesApproved, files, history
<1>7. ASSUME NEW arm \in {"secrets", "sast"}, NEW f \in File, CopyStaged(arm, f) PROVE Typed'
  <2>1. Shown(f) => index[f] \in Blob
    BY DEF Shown, TypeOK, Tree, Content
  <2>2. DOMAIN copied' \subseteq File /\ \A g \in DOMAIN copied' : copied'[g] \in Blob
    <3>1. CASE Shown(f)
      BY <1>7, <2>1, <3>1 DEF CopyStaged, With, TypeOK
    <3>2. CASE ~Shown(f)
      BY <1>7, <3>2 DEF CopyStaged, TypeOK
    <3>3. QED
      BY <3>1, <3>2
  <2>3. TypeOK'
    BY <1>7, <2>2 DEF CopyStaged, TypeOK, files, history
  <2>4. QED
    BY <1>7, <2>3 DEF CopyStaged, RoomLeft, NamesApproved, files, history
<1>8. ASSUME NEW arm \in {"secrets", "sast"}, phase = Copying[arm], Done(arm), UNCHANGED history
      PROVE  Typed'
  <2>1. phase' \in Phase /\ phase # "idle"
    BY <1>8, CopyingIs DEF Done, To, Phase
  <2>2. DOMAIN copied' = {}
    BY <1>8 DEF Done
  <2>3. TypeOK'
    BY <1>8, <2>1, <2>2 DEF Done, TypeOK, files, history
  <2>4. QED
    BY <1>8, <2>1, <2>3 DEF Done, RoomLeft, NamesApproved, files, history
<1>9. CASE WriteTree
  <2>1. TypeOK'
    BY <1>9 DEF WriteTree, To, TypeOK, Phase, files, history
  <2>2. QED
    BY <1>9, <2>1 DEF WriteTree, RoomLeft, NamesApproved, files, history
<1>10. ASSUME NEW m \in Messages, EnterMessage(m) PROVE Typed'
  <2>1. TypeOK'
    BY <1>10, CommitAssumption DEF EnterMessage, To, TypeOK, Phase, files, history
  <2>2. QED
    BY <1>10, <2>1 DEF EnterMessage, RoomLeft, NamesApproved, files, history
<1>11. CASE ReviewGate \/ ListManifests \/ TrustHolds
  <2>1. TypeOK'
    BY <1>11 DEF ReviewGate, ListManifests, TrustHolds, To, Staged, TypeOK, Phase, files, history
  <2>2. QED
    BY <1>11, <2>1 DEF ReviewGate, ListManifests, TrustHolds, RoomLeft, NamesApproved, files, history
<1>12. ASSUME NEW parses \in BOOLEAN, LoadApproved(parses) PROVE Typed'
  <2>1. TypeOK'
    BY <1>12 DEF LoadApproved, To, TypeOK, Phase, files, history
  <2>2. QED
    BY <1>12, <2>1 DEF LoadApproved, RoomLeft, NamesApproved, files, history
<1>13. ASSUME NEW f \in File, CompareManifest(f) PROVE Typed'
  <2>1. TypeOK'
    BY <1>13 DEF CompareManifest, TypeOK, files, history
  <2>2. QED
    BY <1>13, <2>1 DEF CompareManifest, RoomLeft, NamesApproved, files, history
<1>14. CASE Land
  <2>1. log' \in Seq(Tree) /\ Len(log') \in 1..MaxCommits
    BY <1>14, CommitAssumption DEF Land, TypeOK, RoomLeft
  <2>2. TypeOK'
    BY <1>14, <2>1, RestTyped DEF Land, TypeOK
  <2>3. QED
    BY <1>14, <2>2 DEF Land, Rest, RoomLeft, NamesApproved
<1>15. CASE Abandon
  <2>1. TypeOK'
    BY <1>15, RestTyped DEF Abandon, TypeOK, files
  <2>2. QED
    BY <1>15, <2>1 DEF Abandon, Rest, RoomLeft, NamesApproved, files
<1>16. CASE UNCHANGED vars
  BY <1>16 DEF vars, files, job, history, TypeOK, RoomLeft, NamesApproved
<1>17. ASSUME NEW arm \in {"secrets", "sast"}, LoseStaged(arm) PROVE Typed'
  BY <1>8, <1>17 DEF LoseStaged
<1>18. ASSUME NEW ran \in SUBSET Scanner, NEW crashed \in SUBSET Scanner, ScanSecrets(ran, crashed)
       PROVE  Typed'
  BY <1>8, <1>18, CopyingIs DEF ScanSecrets
<1>19. ASSUME NEW works \in BOOLEAN, ScanSast(works) PROVE Typed'
  BY <1>8, <1>19, CopyingIs DEF ScanSast
<1>20. QED
  BY <1>1, <1>2, <1>3, <1>4, <1>5, <1>6, <1>7, <1>9, <1>10, <1>11, <1>12, <1>13, <1>14, <1>15,
     <1>16, <1>17, <1>18, <1>19
  DEF Next, Environment, PreCommit, CommitMsg

LEMMA InitTyped == Init => Typed
<1> SUFFICES ASSUME Init PROVE Typed
  OBVIOUS
<1>1. log \in Seq(Tree) /\ Len(log) \in 1..MaxCommits
  BY EmptyTyped, CommitAssumption DEF Init
<1>2. DOMAIN copied = {}
  BY DEF Init
<1>3. copied = <<>> /\ \A f \in DOMAIN copied : copied[f] \in Blob
  BY <1>2 DEF Init
<1>4. TypeOK
  <2>1. /\ index \in Tree /\ baseline \subseteq Package /\ phase \in Phase
        /\ amend \in BOOLEAN /\ cfg \in Config /\ msg \in Message
    BY EmptyTyped DEF Init, Phase
  <2>2. /\ todo \subseteq File /\ known \subseteq Package /\ tree \in Tree
        /\ movedBefore \subseteq File /\ movedAfter \subseteq File /\ everApproved \subseteq Package
    BY EmptyTyped DEF Init
  <2>3. approval \in {<<>>} \cup {<<s, n>> : s \in {"read", "truncated"}, n \in SUBSET Package}
    BY DEF Init
  <2>4. QED
    BY <1>1, <1>2, <1>3, <2>1, <2>2, <2>3 DEF TypeOK
<1>5. QED
  BY <1>4 DEF Init, Typed, RoomLeft, NamesApproved

\* Type correctness: every reachable state of the commit gate is well formed.
THEOREM TypeCorrect == Spec => []TypeOK
<1>1. Typed => TypeOK
  BY DEF Typed
<1>2. QED
  BY <1>1, InitTyped, NextTyped, PTL DEF Spec

-----------------------------------------------------------------------------
(***************************************************************************)
(* Findings.                                                               *)
(***************************************************************************)
\* A step that leaves the index, HEAD and the job where they are.
LEMMA FindingStays ==
    ASSUME FindingInv, UNCHANGED <<index, log, job, movedBefore>>
    PROVE  FindingInv'
BY DEF FindingInv, ArmsPassed, CopiesStaged, Staged, Changed, HeadTree, TypeChanged, Leaky, Caught, job

LEMMA StageFinding ==
    ASSUME TypeOK, FindingInv, NEW f \in File, NEW b \in Content, Stage(f, b)
    PROVE  FindingInv'
<1>1. /\ \A g \in File \ {f} : index'[g] = index[g]
      /\ UNCHANGED <<log, phase, cfg, todo, copied, tree>>
      /\ movedBefore \subseteq movedBefore'
      /\ phase \in WritesTree => f \in movedBefore'
  BY DEF Stage, job, TypeOK, Tree
<1>2. \A g \in File : g \in (Staged \ movedBefore)' /\ phase \in WritesTree =>
          g \in Staged \ movedBefore /\ index'[g] = index[g]
  BY <1>1 DEF Staged, HeadTree, TypeChanged
<1>3. ~cfg.failOpen => ArmsPassed'
  <2> SUFFICES ASSUME ~cfg.failOpen PROVE ArmsPassed'
    OBVIOUS
  <2>1. ArmsPassed
    BY DEF FindingInv
  <2>2. (Staged \ movedBefore)' \subseteq File
    BY DEF Staged
  <2>3. phase \in {"copySecrets", "copySast"} => CopiesStaged'
    BY <1>1, <1>2, <2>1, <2>2 DEF ArmsPassed, CopiesStaged, WritesTree
  <2>4. phase \in {"sast", "copySast", "write"} => \A g \in (Staged \ movedBefore)' : ~Leaky(index[g])'
    BY <1>1, <1>2, <2>1, <2>2 DEF ArmsPassed, Leaky, WritesTree
  <2>5. phase = "write" => \A g \in (Staged \ movedBefore)' : ~(cfg.sast /\ index'[g] \in Flawed)
    BY <1>1, <1>2, <2>1, <2>2 DEF ArmsPassed, WritesTree
  <2>6. QED
    BY <1>1, <2>3, <2>4, <2>5 DEF ArmsPassed
<1>4. QED
  BY <1>1, <1>3 DEF FindingInv, Changed, HeadTree, TypeChanged, Caught

\* An arm that ends has passed: the next one, or git, starts from there.
LEMMA ArmFinding ==
    ASSUME FindingInv, NEW arm \in {"secrets", "sast"}, phase = Copying[arm], Done(arm),
           UNCHANGED history,
           ~cfg.failOpen => \A f \in Staged \ movedBefore :
               IF arm = "secrets" THEN ~Leaky(index[f]) ELSE index[f] \notin Flawed
    PROVE  FindingInv'
<1>1. /\ UNCHANGED <<index, log, cfg, tree, movedBefore>>
      /\ phase' = After[arm]
  BY DEF Done, To, files, history
<1>2. (Staged \ movedBefore)' = Staged \ movedBefore
  BY <1>1 DEF Staged, HeadTree, TypeChanged
<1>3. \A f \in Staged \ movedBefore : Leaky(index[f])' = Leaky(index[f])
  BY <1>1 DEF Leaky
<1>4. CASE arm = "secrets"
  <2>1. phase = "copySecrets" /\ phase' = IF cfg.sast THEN "sast" ELSE "write"
    BY <1>1, <1>4, CopyingIs
  <2>2. phase' \in {"sast", "write"} /\ (phase' = "write" => ~cfg.sast)
    BY <2>1
  <2>3. QED
    BY <1>1, <1>2, <1>3, <1>4, <2>2 DEF FindingInv, ArmsPassed, AfterTree
<1>5. CASE arm = "sast"
  <2>1. phase = "copySast" /\ phase' = "write"
    BY <1>1, <1>5, CopyingIs
  <2>2. QED
    BY <1>1, <1>2, <1>3, <1>5, <2>1 DEF FindingInv, ArmsPassed, AfterTree
<1>6. QED
  BY <1>4, <1>5

LEMMA NextFinding == TypeOK /\ FindingInv /\ [Next]_vars => FindingInv'
<1> SUFFICES ASSUME TypeOK, FindingInv, [Next]_vars PROVE FindingInv'
  OBVIOUS
<1>1. ASSUME NEW f \in File, NEW b \in Content, Stage(f, b) PROVE FindingInv'
  BY <1>1, StageFinding
<1>2. CASE \/ \E p \in Package : ApproveRead(p)
           \/ ApproveTruncate
           \/ \E completes \in BOOLEAN : ApproveWrite(completes)
  BY <1>2, FindingStays DEF ApproveRead, ApproveTruncate, ApproveWrite, history
<1>3. ASSUME NEW a \in BOOLEAN, NEW c \in Configs, Begin(a, c) PROVE FindingInv'
  <2>1. /\ cfg' = c /\ phase' = IF c.secrets THEN "secrets" ELSE IF c.sast THEN "sast" ELSE "write"
    BY <1>3 DEF Begin, To
  <2>2. phase' \in {"secrets", "sast", "write"} /\ (phase' \in {"sast", "write"} => ~cfg'.secrets)
        /\ (phase' = "write" => ~cfg'.sast)
    BY <2>1
  <2>3. QED
    BY <2>2 DEF FindingInv, ArmsPassed, Leaky, AfterTree
<1>4. ASSUME NEW arm \in {"secrets", "sast"}, ListStaged(arm) PROVE FindingInv'
  <2>1. /\ phase = arm /\ phase' = Copying[arm] /\ todo' = Staged
        /\ \A f \in DOMAIN copied' : copied'[f] = index[f]
        /\ UNCHANGED <<index, log, cfg, tree, movedBefore>>
    BY <1>4 DEF ListStaged, To, files, history
  <2>2. phase' = "copySecrets" \/ (phase = "sast" /\ phase' = "copySast")
    BY <2>1, CopyingIs
  <2>3. (Staged \ movedBefore)' = Staged \ movedBefore
    BY <2>1 DEF Staged, HeadTree, TypeChanged
  <2>4. CopiesStaged'
    BY <2>1, <2>3 DEF CopiesStaged
  <2>5. QED
    BY <2>1, <2>2, <2>3, <2>4 DEF FindingInv, ArmsPassed, Leaky, AfterTree
<1>5. ASSUME NEW arm \in {"secrets", "sast"}, NEW f \in File, CopyStaged(arm, f) PROVE FindingInv'
  <2>1. /\ phase \in {"copySecrets", "copySast"}
        /\ todo' = todo \ {f}
        /\ UNCHANGED <<index, log, phase, cfg, tree, movedBefore>>
    BY <1>5, CopyingIs DEF CopyStaged, files, history
  <2>2. (Staged \ movedBefore)' = Staged \ movedBefore
    BY <2>1 DEF Staged, HeadTree, TypeChanged
  <2>3. CopiesStaged => CopiesStaged'
    <3>1. CASE copied' = With(f, index[f])
      <4>1. /\ DOMAIN copied' = DOMAIN copied \cup {f}
            /\ \A g \in DOMAIN copied' : copied'[g] = IF g = f THEN index[f] ELSE copied[g]
        BY <3>1 DEF With
      <4>2. QED
        BY <2>1, <2>2, <4>1 DEF CopiesStaged
    <3>2. CASE f \in DOMAIN copied /\ copied' = copied
      BY <2>1, <2>2, <3>2 DEF CopiesStaged
    <3>3. QED
      BY <1>5, <3>1, <3>2 DEF CopyStaged
  <2>4. QED
    BY <2>1, <2>2, <2>3 DEF FindingInv, ArmsPassed, Leaky, AfterTree
<1>6. ASSUME NEW arm \in {"secrets", "sast"}, LoseStaged(arm) PROVE FindingInv'
  BY <1>6, ArmFinding DEF LoseStaged
<1>7. ASSUME NEW ran \in SUBSET Scanner, NEW crashed \in SUBSET Scanner, ScanSecrets(ran, crashed)
      PROVE  FindingInv'
  <2>1. ~cfg.failOpen => \A f \in Staged \ movedBefore : ~Leaky(index[f])
    <3> SUFFICES ASSUME ~cfg.failOpen, NEW f \in Staged \ movedBefore PROVE ~Leaky(index[f])
      OBVIOUS
    <3>1. f \in DOMAIN copied /\ copied[f] = index[f]
      BY <1>7 DEF ScanSecrets, FindingInv, ArmsPassed, CopiesStaged
    <3>2. PICK s \in ran : TRUE
      BY <1>7, <3>1 DEF ScanSecrets, SecretsPass, SecretsFailed
    <3>3. ~Sees(s)
      BY <1>7, <3>1 DEF ScanSecrets, SecretsPass
    <3>4. QED
      BY <1>7, <3>1, <3>2, <3>3 DEF ScanSecrets, Sees, Leaky
  <2>2. QED
    BY <1>7, <2>1, ArmFinding, CopyingIs DEF ScanSecrets
<1>8. ASSUME NEW works \in BOOLEAN, ScanSast(works) PROVE FindingInv'
  <2>1. ~cfg.failOpen => \A f \in Staged \ movedBefore : index[f] \notin Flawed
    BY <1>8 DEF ScanSast, FindingInv, ArmsPassed, CopiesStaged
  <2>2. QED
    BY <1>8, <2>1, ArmFinding, CopyingIs DEF ScanSast
<1>9. CASE WriteTree
  <2>1. /\ phase = "write" /\ phase' = "message" /\ tree' = index
        /\ UNCHANGED <<index, log, cfg, movedBefore>>
    BY <1>9 DEF WriteTree, To, files, history
  <2>2. (Changed \ TypeChanged(tree))' = Staged
    BY <2>1 DEF Changed, Staged, HeadTree, TypeChanged
  <2>3. QED
    BY <2>1, <2>2 DEF FindingInv, ArmsPassed, Caught, Leaky, AfterTree
<1>10. CASE \/ \E m \in Messages : EnterMessage(m)
            \/ ReviewGate \/ ListManifests
            \/ \E parses \in BOOLEAN : LoadApproved(parses)
            \/ \E f \in File : CompareManifest(f)
            \/ TrustHolds
  <2>1. /\ phase \in AfterTree /\ phase' \in AfterTree
        /\ UNCHANGED <<log, cfg, tree, movedBefore>>
    BY <1>10 DEF EnterMessage, ReviewGate, ListManifests, LoadApproved, CompareManifest, TrustHolds,
       To, AfterTree, files, history
  <2>2. QED
    BY <2>1 DEF FindingInv, ArmsPassed, AfterTree, Changed, HeadTree, TypeChanged, Caught
<1>11. CASE Land \/ Abandon
  BY <1>11 DEF Land, Abandon, Rest, FindingInv, ArmsPassed, AfterTree
<1>12. CASE UNCHANGED vars
  BY <1>12, FindingStays DEF vars, files, job, history
<1>13. QED
  BY <1>1, <1>2, <1>3, <1>4, <1>5, <1>6, <1>7, <1>8, <1>9, <1>10, <1>11, <1>12
  DEF Next, Environment, PreCommit, CommitMsg

\* With fail_open off, a secret every wanted scanner recognises, or a blocking
\* SAST finding, lands only in a file whose index entry moved while pre-commit
\* was at work, or changes its type.
THEOREM FindingsNeedRace == Spec => FindingNeedsRace
<1>1. Init => FindingInv
  BY DEF Init, FindingInv, ArmsPassed, AfterTree
<1>2. FindingInv /\ Land =>
        \A f \in Changed :
            (~cfg.failOpen /\ Caught(tree[f])) => f \in movedBefore \cup TypeChanged(tree)
  BY DEF Land, FindingInv, AfterTree
<1>3. FindingInv /\ [Next]_vars =>
        [Land => \A f \in Changed :
            (~cfg.failOpen /\ Caught(tree[f])) => f \in movedBefore \cup TypeChanged(tree)]_vars
  BY <1>2
<1>4. QED
  BY <1>1, <1>3, TypeCorrect, NextFinding, PTL DEF Spec, FindingNeedsRace

-----------------------------------------------------------------------------
(***************************************************************************)
(* Review trailers.                                                        *)
(***************************************************************************)
LEMMA NextIndexIsTree == TypeOK /\ IndexIsTree /\ [Next]_vars => IndexIsTree'
<1> SUFFICES ASSUME TypeOK, IndexIsTree, [Next]_vars PROVE IndexIsTree'
  OBVIOUS
<1>1. ASSUME NEW f \in File, NEW b \in Content, Stage(f, b) PROVE IndexIsTree'
  <2>1. /\ \A g \in File \ {f} : index'[g] = index[g]
        /\ UNCHANGED <<phase, tree>>
        /\ movedAfter \subseteq movedAfter'
        /\ phase \in AfterTree => f \in movedAfter'
    BY <1>1 DEF Stage, job, TypeOK, Tree, AfterTree, WritesTree
  <2>2. QED
    BY <2>1 DEF IndexIsTree
<1>2. CASE /\ UNCHANGED <<index, tree, movedAfter>>
           /\ phase' \in AfterTree => phase \in AfterTree
  BY <1>2 DEF IndexIsTree
<1>3. CASE WriteTree
  BY <1>3 DEF WriteTree, IndexIsTree, files
<1>4. CASE phase' \notin AfterTree
  BY <1>4 DEF IndexIsTree
<1>5. ASSUME \/ \E p \in Package : ApproveRead(p)
             \/ ApproveTruncate
             \/ \E completes \in BOOLEAN : ApproveWrite(completes)
             \/ \E m \in Messages : EnterMessage(m)
             \/ ReviewGate \/ ListManifests
             \/ \E parses \in BOOLEAN : LoadApproved(parses)
             \/ \E f \in File : CompareManifest(f)
             \/ TrustHolds
             \/ UNCHANGED vars
      PROVE  /\ UNCHANGED <<index, tree, movedAfter>>
             /\ phase' \in AfterTree => phase \in AfterTree
  BY <1>5 DEF ApproveRead, ApproveTruncate, ApproveWrite, EnterMessage, ReviewGate, ListManifests,
     LoadApproved, CompareManifest, TrustHolds, AfterTree, vars, files, job, history
<1>6. ASSUME \/ \E a \in BOOLEAN, c \in Configs : Begin(a, c)
             \/ PreCommit
             \/ Land \/ Abandon
      PROVE  phase' \notin AfterTree
  <2>1. ASSUME NEW a \in BOOLEAN, NEW c \in Configs, Begin(a, c) PROVE phase' \notin AfterTree
    BY <2>1 DEF Begin, To, AfterTree
  <2>2. ASSUME NEW arm \in {"secrets", "sast"}, ListStaged(arm) PROVE phase' \notin AfterTree
    BY <2>2, CopyingIs DEF ListStaged, To, AfterTree
  <2>3. ASSUME NEW arm \in {"secrets", "sast"}, NEW f \in File, CopyStaged(arm, f)
        PROVE  phase' \notin AfterTree
    BY <2>3, CopyingIs DEF CopyStaged, AfterTree
  <2>4. ASSUME NEW arm \in {"secrets", "sast"}, Done(arm) PROVE phase' \notin AfterTree
    BY <2>4, CopyingIs DEF Done, To, AfterTree
  <2>5. CASE Land \/ Abandon
    BY <2>5 DEF Land, Abandon, Rest, AfterTree
  <2>6. QED
    BY <1>6, <2>1, <2>2, <2>3, <2>4, <2>5 DEF PreCommit, LoseStaged, ScanSecrets, ScanSast
<1>7. QED
  BY <1>1, <1>2, <1>3, <1>4, <1>5, <1>6 DEF Next, Environment, CommitMsg

\* Past the writing of the tree, HEAD, the tree, the configuration and the message
\* stay, and what moved stays moved, until the commit ends.
LEMMA TreeStays ==
    ASSUME [Next]_vars, phase \in {"review", "trust", "load", "compare", "land"},
           phase' \in {"review", "trust", "load", "compare", "land"}
    PROVE  /\ UNCHANGED <<log, cfg, msg, tree>>
           /\ movedAfter \subseteq movedAfter' /\ everApproved \subseteq everApproved'
<1>1. ASSUME Environment PROVE /\ UNCHANGED <<log, cfg, msg, tree>>
                               /\ movedAfter \subseteq movedAfter' /\ everApproved \subseteq everApproved'
  BY <1>1 DEF Environment, Stage, ApproveRead, ApproveTruncate, ApproveWrite, job, history
<1>2. ASSUME PreCommit PROVE FALSE
  BY <1>2, CopyingIs DEF PreCommit, ListStaged, CopyStaged, LoseStaged, ScanSecrets, ScanSast
<1>3. ASSUME CommitMsg PROVE UNCHANGED <<log, cfg, msg, tree, movedAfter, everApproved>>
  BY <1>3 DEF CommitMsg, EnterMessage, ReviewGate, ListManifests, LoadApproved, CompareManifest,
     TrustHolds, files, history
<1>4. ASSUME \/ \E a \in BOOLEAN, c \in Configs : Begin(a, c)
             \/ WriteTree \/ Land \/ Abandon
      PROVE  FALSE
  BY <1>4 DEF Begin, WriteTree, Land, Abandon, Rest
<1>5. CASE UNCHANGED vars
  BY <1>5 DEF vars, files, job, history
<1>6. QED
  BY <1>1, <1>2, <1>3, <1>4, <1>5 DEF Next

\* Only the gate itself leads past it.
LEMMA EntersReviewed ==
    ASSUME [Next]_vars, phase' \in {"trust", "load", "compare", "land"}
    PROVE  phase \in {"trust", "load", "compare", "land"} \/ ReviewGate
<1>1. ASSUME PreCommit PROVE FALSE
  <2>1. ASSUME NEW arm \in {"secrets", "sast"}, ListStaged(arm) PROVE FALSE
    BY <2>1, CopyingIs DEF ListStaged, To
  <2>2. ASSUME NEW arm \in {"secrets", "sast"}, NEW f \in File, CopyStaged(arm, f) PROVE FALSE
    BY <2>2, CopyingIs DEF CopyStaged
  <2>3. ASSUME NEW arm \in {"secrets", "sast"}, Done(arm) PROVE FALSE
    BY <2>3, CopyingIs DEF Done, To
  <2>4. QED
    BY <1>1, <2>1, <2>2, <2>3 DEF PreCommit, LoseStaged, ScanSecrets, ScanSast
<1>2. ASSUME Environment \/ UNCHANGED vars PROVE phase' = phase
  BY <1>2 DEF Environment, Stage, ApproveRead, ApproveTruncate, ApproveWrite, vars, job
<1>3. ASSUME CommitMsg PROVE phase \in {"trust", "load", "compare", "land"} \/ ReviewGate
  BY <1>3 DEF CommitMsg, EnterMessage, ListManifests, LoadApproved, CompareManifest, TrustHolds, To
<1>4. ASSUME \/ \E a \in BOOLEAN, c \in Configs : Begin(a, c)
             \/ WriteTree \/ Land \/ Abandon
      PROVE  FALSE
  BY <1>4 DEF Begin, WriteTree, Land, Abandon, Rest, To
<1>5. QED
  BY <1>1, <1>2, <1>3, <1>4 DEF Next

LEMMA ReviewCovers ==
    ASSUME ReviewInv, ReviewGate PROVE Unreviewed \subseteq movedAfter \cup TypeChanged(tree)
<1> SUFFICES ASSUME NEW f \in Unreviewed, f \notin movedAfter \cup TypeChanged(tree) PROVE FALSE
  OBVIOUS
<1>1. f \in File /\ index[f] = tree[f]
  BY DEF ReviewInv, IndexIsTree, AfterTree, ReviewGate, Unreviewed, Changed
<1>2. f \in Staged
  BY <1>1 DEF Unreviewed, Changed, Staged, TypeChanged
<1>3. QED
  BY <1>2 DEF ReviewGate, Unreviewed

LEMMA NextReview == TypeOK /\ ReviewInv /\ [Next]_vars => ReviewInv'
<1> SUFFICES ASSUME TypeOK, ReviewInv, [Next]_vars PROVE ReviewInv'
  OBVIOUS
<1>1. IndexIsTree'
  BY NextIndexIsTree DEF ReviewInv
<1>2. ReviewPassed'
  <2> SUFFICES ASSUME phase' \in {"trust", "load", "compare", "land"}
               PROVE  Unreviewed' \subseteq (movedAfter \cup TypeChanged(tree))'
    BY DEF ReviewPassed
  <2>1. phase \in {"review", "trust", "load", "compare", "land"}
    BY EntersReviewed DEF ReviewGate
  <2>2. /\ Unreviewed' = Unreviewed /\ TypeChanged(tree)' = TypeChanged(tree)
        /\ movedAfter \subseteq movedAfter'
    BY <2>1, TreeStays DEF Unreviewed, Changed, HeadTree, TypeChanged
  <2>3. Unreviewed \subseteq movedAfter \cup TypeChanged(tree)
    BY EntersReviewed, ReviewCovers DEF ReviewInv, ReviewPassed
  <2>4. QED
    BY <2>2, <2>3
<1>3. QED
  BY <1>1, <1>2 DEF ReviewInv

\* An AI-assisted change to a manifest or a script lands without its review
\* trailer only where the index entry moved after git wrote the tree or changes
\* its type.
THEOREM ReviewsNeedRace == Spec => ReviewNeedsRace
<1>1. Init => ReviewInv
  BY DEF Init, ReviewInv, IndexIsTree, ReviewPassed, AfterTree
<1>2. ReviewInv /\ Land => Unreviewed \subseteq movedAfter \cup TypeChanged(tree)
  BY DEF Land, ReviewInv, ReviewPassed
<1>3. ReviewInv /\ [Next]_vars => [Land => Unreviewed \subseteq movedAfter \cup TypeChanged(tree)]_vars
  BY <1>2
<1>4. QED
  BY <1>1, <1>3, TypeCorrect, NextReview, PTL DEF Spec, ReviewNeedsRace

-----------------------------------------------------------------------------
(***************************************************************************)
(* Packages.                                                               *)
(***************************************************************************)
LEMMA ListedManifests ==
    ASSUME PackageInv, ListManifests PROVE Manifests' \subseteq todo'
<1>1. Manifests' = Manifests
  BY DEF ListManifests, Manifests, Changed, HeadTree, TypeChanged, files, history
<1>2. ASSUME NEW f \in Manifests PROVE f \in todo'
  <2>1. f \in File /\ index[f] = tree[f]
    BY DEF PackageInv, IndexIsTree, AfterTree, ListManifests, Manifests, Changed
  <2>2. f \in Staged
    BY <2>1 DEF Manifests, Changed, Staged, TypeChanged
  <2>3. QED
    BY <2>2 DEF ListManifests, Manifests
<1>3. QED
  BY <1>1, <1>2

\* A manifest that was compared and has not moved holds only approved names.
LEMMA ComparedIsApproved ==
    ASSUME PackageInv, NEW f \in Manifests, CompareManifest(f)
    PROVE  Approved(f)
<1>1. index[f] = tree[f]
  BY DEF PackageInv, IndexIsTree, AfterTree, CompareManifest, Manifests, Changed
<1>2. QED
  BY <1>1 DEF CompareManifest, Approvable, Approved, PackageInv, Typed, NamesApproved

LEMMA NextPackages ==
    ASSUME PackageInv, [Next]_vars, ~cfg'.failOpen
    PROVE  PackagesCompared'
<1> USE DEF PackageInv
<1>1. CASE phase' \notin {"load", "compare", "land"}
  BY <1>1 DEF PackagesCompared
<1>2. CASE phase' \in {"load", "compare", "land"}
  <2>1. phase \in {"review", "trust", "load", "compare", "land"}
    BY <1>2, EntersReviewed DEF ReviewGate
  <2>2. /\ UNCHANGED <<log, cfg, msg, tree>>
        /\ movedAfter \subseteq movedAfter' /\ everApproved \subseteq everApproved'
    BY <1>2, <2>1, TreeStays
  <2>3. /\ PackagesCompared
        /\ Manifests' \subseteq Manifests
        /\ \A f \in Manifests : Approved(f) => Approved(f)'
    BY <2>2 DEF Manifests, Changed, HeadTree, TypeChanged, Approved
  <2>4. ASSUME UNCHANGED <<phase, todo>> PROVE PackagesCompared'
    BY <2>2, <2>3, <2>4 DEF PackagesCompared
  <2>5. ASSUME Environment \/ UNCHANGED vars PROVE UNCHANGED <<phase, todo>>
    BY <2>5 DEF Environment, Stage, ApproveRead, ApproveTruncate, ApproveWrite, vars, job
  <2>6. CASE ReviewGate
    BY <1>2, <2>2, <2>6 DEF ReviewGate, To, PackagesCompared
  <2>7. CASE ListManifests
    BY <2>7, ListedManifests DEF ListManifests, To, PackagesCompared
  <2>8. ASSUME NEW parses \in BOOLEAN, LoadApproved(parses) PROVE PackagesCompared'
    <3>1. parses
      BY <2>2, <2>8 DEF LoadApproved
    <3>2. phase = "load" /\ phase' = "compare" /\ todo' = todo
      BY <2>8, <3>1 DEF LoadApproved, To
    <3>3. QED
      BY <2>3, <3>2 DEF PackagesCompared
  <2>9. ASSUME NEW f \in File, CompareManifest(f) PROVE PackagesCompared'
    <3>1. phase = "compare" /\ phase' = "compare" /\ todo' = todo \ {f}
      BY <2>9 DEF CompareManifest
    <3>2. f \in Manifests => Approved(f)
      BY <2>9, ComparedIsApproved
    <3>3. \A g \in Manifests \ todo' : Approved(g)
      BY <2>3, <3>1, <3>2 DEF PackagesCompared
    <3>4. QED
      BY <2>3, <3>1, <3>3 DEF PackagesCompared
  <2>10. CASE TrustHolds
    BY <2>3, <2>10 DEF TrustHolds, To, PackagesCompared
  <2>11. ASSUME PreCommit PROVE FALSE
    BY <2>1, <2>11, CopyingIs DEF PreCommit, ListStaged, CopyStaged, LoseStaged, ScanSecrets, ScanSast
  <2>12. ASSUME \/ \E a \in BOOLEAN, c \in Configs : Begin(a, c)
                \/ \E m \in Messages : EnterMessage(m)
                \/ WriteTree \/ Land \/ Abandon
         PROVE  FALSE
    BY <1>2, <2>1, <2>12 DEF Begin, EnterMessage, WriteTree, Land, Abandon, Rest, To
  <2>13. QED
    BY <2>4, <2>5, <2>6, <2>7, <2>8, <2>9, <2>10, <2>11, <2>12 DEF Next, CommitMsg
<1>3. QED
  BY <1>1, <1>2

LEMMA NextPackage == PackageInv /\ [Next]_vars => PackageInv'
<1> SUFFICES ASSUME PackageInv, [Next]_vars PROVE PackageInv'
  OBVIOUS
<1>1. Typed' /\ IndexIsTree'
  BY NextTyped, NextIndexIsTree DEF PackageInv, Typed
<1>2. QED
  BY <1>1, NextPackages DEF PackageInv

\* With package-trust on and fail_open off, a manifest lands with a dependency
\* nobody approved, one from elsewhere than its registry, or content no parser
\* accepts only where its index entry moved after git wrote the tree, or changes
\* its type, whatever happened to packages.toml meanwhile.
THEOREM PackagesNeedRace == Spec => PackageNeedsRace
<1>1. Init => PackageInv
  BY InitTyped DEF Init, PackageInv, IndexIsTree, PackagesCompared, AfterTree
<1>2. ASSUME PackageInv, Land, NEW f \in Changed \ TypeChanged(tree),
             cfg.trust /\ ~cfg.failOpen /\ KindOf[f] = "manifest" /\ f \notin movedAfter
      PROVE  /\ tree[f] \notin Unparsed
             /\ \A d \in Deps[tree[f]] \ Deps[HeadTree[f]] :
                   d \notin External /\ NameOf[d] \in everApproved
  BY <1>2 DEF Land, PackageInv, PackagesCompared, Manifests, Approved
<1>3. PackageInv /\ [Next]_vars =>
        [Land => \A f \in Changed \ TypeChanged(tree) :
            (cfg.trust /\ ~cfg.failOpen /\ KindOf[f] = "manifest" /\ f \notin movedAfter)
                => /\ tree[f] \notin Unparsed
                   /\ \A d \in Deps[tree[f]] \ Deps[HeadTree[f]] :
                         d \notin External /\ NameOf[d] \in everApproved]_vars
  BY <1>2
<1>4. QED
  BY <1>1, <1>3, NextPackage, PTL DEF Spec, PackageNeedsRace
=============================================================================
