------------------------- MODULE SigningSetupProofs -------------------------
(***************************************************************************)
(* Proofs about SigningSetup: no run costs the user what is in the files   *)
(* setup shares with them, and the agent never goes by the human's         *)
(* address, but for the named losses.                                      *)
(***************************************************************************)
EXTENDS SigningSetup, TLAPS

(***************************************************************************)
(* Types.                                                                  *)
(***************************************************************************)
Lane == {None, "human-local", "agent-claude-code"} \cup GuidedLanes
Guarded == {"key", "merge", "backup", "write"}
AgentAt == {"guard", "signers", "append"} \cup Guarded
At == {"idle", "gpg.format", "commit.gpgsign", "allowedSignersFile", "alias.sign", "store", "stamp"}
      \cup AgentAt

Run == [at : At, lane : Lane, name : Names \cup {None}, email : Emails \cup {None},
        key : File \cup {None}, own : SUBSET Entries,
        lines : SUBSET ((Emails \cup {None}) \X File), lanes : SUBSET GuidedLanes]

History == [own : SUBSET Entries, lines : SUBSET ((Emails \cup {None}) \X File),
            lanes : SUBSET GuidedLanes,
            lost : SUBSET {"settings", "pairs", "signers", "policy", "email"}]

FilesTyped ==
    /\ git \in Git /\ keys \subseteq File \X {"private", "public"}
    /\ settings \in Settings /\ backup \in Settings
    /\ signers \in Signers /\ policy \in Policy
    /\ told \in History

RunTyped ==
    /\ run \in Run
    /\ run.at \in AgentAt =>
          run.lane = "agent-claude-code" /\ run.name \in Names /\ run.email \in Emails
    /\ run.at \in {"merge", "backup", "write", "signers", "append"} => run.key \in File
    /\ run.at \in {"store", "stamp"} => run.lane \in GuidedLanes

Typed == FilesTyped /\ RunTyped

(***************************************************************************)
(* The inductive invariants.                                               *)
(***************************************************************************)
\* The user's entries are in a settings file that parses, but for pairs, which may
\* be in its backup only; while a run writes, the others are in what it read, and
\* all are in the file until they are in its backup.
SettingsInv ==
    "settings" \notin told.lost =>
        /\ told.own \ Expendable \subseteq settings.own \cup backup.own
        /\ settings.is = "good" => told.own \ GitPairs \subseteq settings.own
        /\ settings.is = "absent" => told.own = {}
        /\ run.at = "backup" => told.own \ GitPairs \subseteq settings.own \cap run.own
        /\ run.at = "write" => /\ told.own \ GitPairs \subseteq run.own
                               /\ told.own \ Expendable \subseteq backup.own

SignersInv ==
    /\ signers.is \notin {"foreign", "good"} => signers.lines = {}
    /\ "signers" \notin told.lost =>
          /\ told.lines \subseteq signers.lines
          /\ run.at = "append" => told.lines \subseteq run.lines

PolicyInv ==
    "policy" \notin told.lost =>
        /\ told.lanes \subseteq policy.lanes
        /\ run.at = "stamp" => told.lanes \subseteq run.lanes

\* No address on its way into the settings, in them or in their backup is the
\* human's.
EmailInv ==
    "email" \notin told.lost =>
        /\ ~SameEmail(settings.env.email, git.email)
        /\ ~SameEmail(backup.env.email, git.email)
        /\ run.at \in Guarded => ~SameEmail(run.email, git.email)

-----------------------------------------------------------------------------
(***************************************************************************)
(* Types are kept.                                                         *)
(***************************************************************************)
LEMMA IdleTyped == Idle \in Run /\ Idle.at = "idle"
BY DEF Idle, Run, At, Lane

LEMMA NoIdentityTyped == NoIdentity \in IdentityBlock
BY DEF NoIdentity, IdentityBlock

LEMMA IdleRun == ASSUME End PROVE RunTyped'
BY IdleTyped DEF End, RunTyped, AgentAt, Guarded

LEMMA GotoTyped ==
    ASSUME RunTyped, NEW pc \in At, Goto(pc),
           pc \in AgentAt => run.at \in AgentAt,
           pc \in {"merge", "backup", "write", "signers", "append"} => run.key \in File,
           pc \notin {"store", "stamp"}
    PROVE  RunTyped'
BY DEF RunTyped, Run, Goto

LEMMA RunKept == ASSUME RunTyped, UNCHANGED run PROVE RunTyped'
BY DEF RunTyped

LEMMA FilesKept == ASSUME FilesTyped, UNCHANGED files, told' \in History PROVE FilesTyped'
BY DEF FilesTyped, files

LEMMA ExcuseTyped ==
    ASSUME FilesTyped,
           NEW what \in SUBSET {"settings", "pairs", "signers", "policy", "email"},
           Excuse(what)
    PROVE  /\ told' \in History /\ told'.own = told.own /\ told'.lines = told.lines
           /\ told'.lanes = told.lanes /\ told'.lost = told.lost \cup what
BY DEF FilesTyped, History, Excuse

LEMMA OverwrittenTyped ==
    ASSUME FilesTyped, Overwritten
    PROVE  /\ told' \in History /\ told'.own = told.own /\ told'.lines = told.lines
           /\ told'.lanes = told.lanes /\ told.lost \subseteq told'.lost
           /\ told'.lost \subseteq told.lost \cup {"pairs"}
           /\ GitPairs \cap backup.own \subseteq settings.own \/ "pairs" \in told'.lost
BY ExcuseTyped DEF Overwritten

LEMMA InitTyped == Init => Typed
<1> SUFFICES ASSUME Init PROVE Typed
  OBVIOUS
<1>1. /\ git \in Git /\ keys \subseteq File \X {"private", "public"}
      /\ settings \in Settings /\ signers \in Signers /\ policy \in Policy
  BY StartsAssumption DEF Init
<1>2. backup \in Settings
  BY NoIdentityTyped DEF Init, Settings, Kinds
<1>3. told \in History
  <2>1. told = [own |-> settings.own, lines |-> signers.lines, lanes |-> policy.lanes, lost |-> {}]
    BY DEF Init
  <2>2. QED
    BY <1>1, <2>1 DEF History, Settings, Signers, Policy
<1>4. RunTyped
  BY IdleTyped DEF Init, RunTyped, AgentAt, Guarded
<1>5. QED
  BY <1>1, <1>2, <1>3, <1>4 DEF Typed, FilesTyped

LEMMA ConvergeTyped ==
    ASSUME Typed, NEW key \in Wanted, NEW next \in At \ (AgentAt \cup {"store", "stamp"}),
           Converge(key, next)
    PROVE  Typed'
<1>1. git.readable \in BOOLEAN /\ UNCHANGED <<keys, settings, backup, signers, policy, told>>
  BY DEF Converge, Typed, FilesTyped, Git
<1>2. CASE git.readable
  <2>1. git' = [git EXCEPT !.on = @ \cup {key}] /\ Goto(next)
    BY <1>2 DEF Converge
  <2>2. git.on \cup {key} \in SUBSET Wanted
    BY DEF Typed, FilesTyped, Git
  <2>3. git' \in Git
    BY <2>1, <2>2 DEF Typed, FilesTyped, Git
  <2>4. RunTyped'
    BY <2>1, GotoTyped DEF Typed, AgentAt, Guarded
  <2>5. QED
    BY <1>1, <2>3, <2>4 DEF Typed, FilesTyped
<1>3. CASE ~git.readable
  BY <1>1, <1>3, IdleRun DEF Converge, Typed, FilesTyped
<1>4. QED
  BY <1>1, <1>2, <1>3

LEMMA WireTyped == ASSUME Typed, WireSigners PROVE Typed'
<1>1. UNCHANGED <<keys, settings, backup, signers, policy, told>>
  BY DEF WireSigners
<1>2. git' \in Git
  BY DEF WireSigners, Typed, FilesTyped, Git, Paths
<1>3. RunTyped'
  BY IdleRun, GotoTyped DEF WireSigners, Typed, At, AgentAt, Guarded
<1>4. QED
  BY <1>1, <1>2, <1>3 DEF Typed, FilesTyped

LEMMA HumanTyped == Typed /\ HumanStep => Typed'
<1> SUFFICES ASSUME Typed, HumanStep PROVE Typed'
  OBVIOUS
<1>1. {"commit.gpgsign", "allowedSignersFile", "alias.sign"}
        \subseteq At \ (AgentAt \cup {"store", "stamp"})
  BY DEF At, AgentAt, Guarded
<1>2. CASE AliasSign
  <2>1. git.on \cup {"alias.sign"} \in SUBSET Wanted
    BY DEF Typed, FilesTyped, Git, Wanted
  <2>2. git' \in Git
    BY <1>2, <2>1 DEF AliasSign, Typed, FilesTyped, Git
  <2>3. QED
    BY <1>2, <2>2, IdleRun DEF AliasSign, Typed, FilesTyped
<1>3. QED
  BY <1>1, <1>2, ConvergeTyped, WireTyped DEF HumanStep, Wanted

LEMMA ChosenKeyTyped == ASSUME Typed, run.at = "key" PROVE ChosenKey \in File
<1>1. run.name \in Names
  BY DEF Typed, RunTyped, AgentAt, Guarded
<1>2. QED
  BY <1>1 DEF ChosenKey, File

LEMMA IdentityTyped ==
    ASSUME Typed, run.at \in {"merge", "backup", "write"}
    PROVE  Identity \in IdentityBlock /\ Identity.email = run.email
BY DEF Typed, RunTyped, Identity, IdentityBlock, AgentAt, Guarded

LEMMA AgentTyped == Typed /\ AgentStep => Typed'
<1> SUFFICES ASSUME Typed, AgentStep PROVE Typed'
  OBVIOUS
<1>1. CASE Guard
  <2>1. RunTyped'
    BY <1>1, IdleRun, GotoTyped DEF Guard, Typed, At, AgentAt, Guarded
  <2>2. QED
    BY <1>1, <2>1 DEF Guard, Typed, FilesTyped, files
<1>2. CASE AgentKey
  <2>1. ChosenKey \in File
    BY <1>2, ChosenKeyTyped DEF AgentKey
  <2>2. keys' \subseteq File \X {"private", "public"}
    BY <1>2, <2>1 DEF AgentKey, Typed, FilesTyped
  <2>3. RunTyped'
    BY <1>2, <2>1 DEF AgentKey, Typed, RunTyped, Run, At, AgentAt, Guarded
  <2>4. QED
    BY <1>2, <2>2, <2>3 DEF AgentKey, Typed, FilesTyped
<1>3. CASE Merge
  <2>1. told' \in History
    BY <1>3, ExcuseTyped DEF Merge, Typed
  <2>2. CASE End
    BY <1>3, <2>1, <2>2, IdleRun, FilesKept DEF Merge, Typed
  <2>3. CASE Goto("signers")
    <3>1. RunTyped'
      BY <1>3, <2>3, GotoTyped DEF Merge, Typed, RunTyped, At, AgentAt, Guarded
    <3>2. QED
      BY <1>3, <2>1, <3>1, FilesKept DEF Merge, Typed
  <2>4. CASE run' = [run EXCEPT !.at = "backup",
                                !.own = IF settings.is = "good" THEN settings.own \ GitPairs
                                              ELSE {}]
    <3>1. settings.own \ GitPairs \in SUBSET Entries
      BY DEF Typed, FilesTyped, Settings
    <3>2. RunTyped'
      BY <1>3, <2>4, <3>1 DEF Merge, Typed, RunTyped, Run, At, AgentAt, Guarded
    <3>3. QED
      BY <1>3, <2>1, <3>2, FilesKept DEF Merge, Typed
  <2>5. QED
    BY <1>3, <2>2, <2>3, <2>4 DEF Merge
<1>4. CASE Backup
  <2>1. RunTyped'
    BY <1>4, GotoTyped DEF Backup, Typed, RunTyped, At, AgentAt, Guarded
  <2>2. backup' \in Settings /\ told' \in History
    BY <1>4, OverwrittenTyped DEF Backup, Typed, FilesTyped
  <2>3. QED
    BY <1>4, <2>1, <2>2 DEF Backup, Typed, FilesTyped
<1>5. CASE WriteSettings
  <2>1. RunTyped'
    BY <1>5, GotoTyped DEF WriteSettings, Typed, RunTyped, At, AgentAt, Guarded
  <2>2. settings' \in Settings
    BY <1>5, IdentityTyped DEF WriteSettings, Typed, RunTyped, Run, Settings, Kinds
  <2>3. QED
    BY <1>5, <2>1, <2>2 DEF WriteSettings, Typed, FilesTyped
<1>6. CASE ReadSigners
  <2>1. told' \in History
    BY <1>6, ExcuseTyped DEF ReadSigners, Typed
  <2>2. CASE End
    BY <1>6, <2>1, <2>2, IdleRun, FilesKept DEF ReadSigners, Typed
  <2>3. CASE run' = [run EXCEPT !.at = "append",
                                !.lines = IF signers.is = "good" THEN signers.lines ELSE {}]
    <3>1. signers.lines \in SUBSET ((Emails \cup {None}) \X File)
      BY DEF Typed, FilesTyped, Signers
    <3>2. RunTyped'
      BY <1>6, <2>3, <3>1 DEF ReadSigners, Typed, RunTyped, Run, At, AgentAt, Guarded
    <3>3. QED
      BY <1>6, <2>1, <3>2, FilesKept DEF ReadSigners, Typed
  <2>4. QED
    BY <1>6, <2>2, <2>3 DEF ReadSigners
<1>7. CASE AppendSigner
  <2>1. Mapping \in (Emails \cup {None}) \X File
    BY <1>7 DEF AppendSigner, Typed, RunTyped, Mapping, AgentAt, Guarded
  <2>2. signers' \in Signers
    BY <1>7, <2>1 DEF AppendSigner, Typed, RunTyped, Run, Signers, Kinds
  <2>3. QED
    BY <1>7, <2>2, IdleRun DEF AppendSigner, Typed, FilesTyped
<1>8. QED
  BY <1>1, <1>2, <1>3, <1>4, <1>5, <1>6, <1>7 DEF AgentStep

LEMMA ConfirmTyped == Typed /\ ConfirmStep => Typed'
<1> SUFFICES ASSUME Typed, ConfirmStep PROVE Typed'
  OBVIOUS
<1>1. CASE ReadStore
  <2>1. policy.lanes \in SUBSET GuidedLanes
    BY DEF Typed, FilesTyped, Policy
  <2>2. CASE run' = [run EXCEPT !.at = "stamp", !.lanes = policy.lanes]
    BY <1>1, <2>1, <2>2
    DEF ReadStore, Typed, RunTyped, Run, At, AgentAt, Guarded, FilesTyped, files
  <2>3. QED
    BY <1>1, <2>2, IdleRun DEF ReadStore, Typed, FilesTyped, files
<1>2. CASE Stamp
  <2>1. run.lane \in GuidedLanes /\ run.lanes \in SUBSET GuidedLanes
    BY <1>2 DEF Stamp, Typed, RunTyped, Run
  <2>2. policy' \in Policy
    BY <1>2, <2>1 DEF Stamp, Policy, Kinds
  <2>3. told.lanes \cup {run.lane} \in SUBSET GuidedLanes
    BY <2>1 DEF Typed, FilesTyped, History
  <2>4. told' \in History
    BY <1>2, <2>3 DEF Stamp, Typed, FilesTyped, History
  <2>5. QED
    BY <1>2, <2>2, <2>4, IdleRun DEF Stamp, Typed, FilesTyped
<1>3. QED
  BY <1>1, <1>2 DEF ConfirmStep

LEMMA StartTyped ==
    Typed /\ (StartHuman \/ AnyAgent \/ \E lane \in ToConfirm : StartConfirm(lane)) => Typed'
<1> SUFFICES ASSUME Typed, StartHuman \/ AnyAgent \/ \E lane \in ToConfirm : StartConfirm(lane)
             PROVE  Typed'
  OBVIOUS
<1>1. CASE StartHuman
  <2>1. RunTyped'
    BY <1>1, IdleTyped DEF StartHuman, RunTyped, Run, At, Lane, AgentAt, Guarded
  <2>2. QED
    BY <1>1, <2>1 DEF StartHuman, Typed, FilesTyped, files
<1>2. ASSUME NEW lane \in ToConfirm, StartConfirm(lane) PROVE Typed'
  <2>1. lane \in GuidedLanes
    BY SetupAssumption
  <2>2. RunTyped'
    BY <1>2, <2>1, IdleTyped DEF StartConfirm, RunTyped, Run, At, Lane, AgentAt, Guarded
  <2>3. QED
    BY <1>2, <2>2 DEF StartConfirm, Typed, FilesTyped, files
<1>3. ASSUME NEW name \in Names \cup {None}, NEW email \in Emails \cup {None}, StartAgent(name, email)
      PROVE  Typed'
  <2> DEFINE kept == IF settings.is = "good" THEN settings.env ELSE NoIdentity
             chosen == [name |-> IF name = None THEN kept.name ELSE name,
                        email |-> IF email = None THEN kept.email ELSE email]
  <2>1. kept \in IdentityBlock
    BY NoIdentityTyped DEF Typed, FilesTyped, Settings
  <2>2. chosen.name \in Names \cup {None} /\ chosen.email \in Emails \cup {None}
    BY <2>1 DEF IdentityBlock
  <2>3. /\ chosen.name # None /\ chosen.email # None
        /\ run' = [Idle EXCEPT !.at = "guard", !.lane = "agent-claude-code",
                               !.name = chosen.name, !.email = chosen.email]
    BY <1>3 DEF StartAgent
  <2> HIDE DEF chosen
  <2>4. RunTyped'
    BY <2>2, <2>3, IdleTyped DEF RunTyped, Run, At, Lane, AgentAt, Guarded
  <2>5. QED
    BY <1>3, <2>4 DEF StartAgent, Typed, FilesTyped, files
<1>4. QED
  BY <1>1, <1>2, <1>3 DEF AnyAgent

LEMMA CrashTyped == Typed /\ Crash => Typed'
<1> SUFFICES ASSUME Typed, Crash PROVE FilesTyped'
  BY IdleRun DEF Typed, Crash
<1>1. CASE DieMakingKey
  <2>1. ChosenKey \in File
    BY <1>1, ChosenKeyTyped DEF DieMakingKey
  <2>2. keys' \subseteq File \X {"private", "public"}
    BY <1>1, <2>1 DEF DieMakingKey, Typed, FilesTyped
  <2>3. QED
    BY <1>1, <2>2 DEF DieMakingKey, Typed, FilesTyped
<1>2. CASE DieCopying
  BY <1>2, NoIdentityTyped, OverwrittenTyped DEF DieCopying, Typed, FilesTyped, Settings, Kinds
<1>3. CASE DieWriting
  BY <1>3, NoIdentityTyped DEF DieWriting, Typed, FilesTyped, Settings, Kinds
<1>4. CASE DieAppending
  <2>1. Mapping \in (Emails \cup {None}) \X File
    BY <1>4 DEF DieAppending, Typed, RunTyped, Mapping, AgentAt, Guarded
  <2>2. run.lines \cup {Mapping} \subseteq (Emails \cup {None}) \X File
    BY <2>1 DEF Typed, RunTyped, Run
  <2>3. signers' \in Signers
    BY <1>4, <2>2 DEF DieAppending, Signers, Kinds
  <2>4. told' \in History
    BY <1>4, ExcuseTyped DEF DieAppending, Typed
  <2>5. QED
    BY <1>4, <2>3, <2>4 DEF DieAppending, Typed, FilesTyped
<1>5. CASE DieStamping
  <2>1. told' \in History
    BY <1>5, ExcuseTyped DEF DieStamping, Typed
  <2>2. QED
    BY <1>5, <2>1 DEF DieStamping, Typed, FilesTyped, Policy, Kinds
<1>6. CASE DieElsewhere
  BY <1>6 DEF DieElsewhere, Typed, FilesTyped, files
<1>7. QED
  BY <1>1, <1>2, <1>3, <1>4, <1>5, <1>6 DEF Crash

LEMMA RepairTyped ==
    Typed /\ (MakeHumanKey \/ RepairGit \/ RepairSettings \/ RepairPolicy) => Typed'
<1> SUFFICES ASSUME Typed, MakeHumanKey \/ RepairGit \/ RepairSettings \/ RepairPolicy
             PROVE  Typed'
  OBVIOUS
<1>1. CASE MakeHumanKey
  <2>1. HumanKey \in File
    BY DEF File
  <2>2. keys' \subseteq File \X {"private", "public"}
    BY <1>1, <2>1 DEF MakeHumanKey, Typed, FilesTyped
  <2>3. git' \in Git
    BY <1>1, <2>1 DEF MakeHumanKey, Typed, FilesTyped, Git
  <2>4. QED
    BY <1>1, <2>2, <2>3, RunKept DEF MakeHumanKey, Typed, FilesTyped
<1>2. CASE RepairGit
  BY <1>2, RunKept DEF RepairGit, Typed, FilesTyped, Git
<1>3. CASE RepairSettings
  <2>1. settings.own \cup backup.own \in SUBSET Entries
    BY DEF Typed, FilesTyped, Settings
  <2>2. settings' \in Settings
    BY <1>3, <2>1 DEF RepairSettings, Typed, FilesTyped, Settings, Kinds
  <2>3. QED
    BY <1>3, <2>2, RunKept DEF RepairSettings, Typed, FilesTyped
<1>4. CASE RepairPolicy
  BY <1>4, RunKept DEF RepairPolicy, Typed, FilesTyped, Policy, Kinds
<1>5. QED
  BY <1>1, <1>2, <1>3, <1>4

LEMMA EditTyped == Typed /\ UserEdit => Typed'
<1> SUFFICES ASSUME Typed, UserEdit PROVE FilesTyped'
  BY RunKept DEF Typed, UserEdit
<1>1. ASSUME NEW e \in Entries, AddEntry(e) PROVE FilesTyped'
  <2>1. settings.own \cup {e} \in SUBSET Entries /\ told.own \cup {e} \in SUBSET Entries
    BY DEF Typed, FilesTyped, Settings, History
  <2>2. settings' \in Settings /\ told' \in History
    BY <1>1, <2>1 DEF AddEntry, Typed, FilesTyped, Settings, History
  <2>3. QED
    BY <1>1, <2>2 DEF AddEntry, Typed, FilesTyped
<1>2. ASSUME NEW l, l = <<git.email, HumanKey>>, AddLine(l) PROVE FilesTyped'
  <2>1. l \in (Emails \cup {None}) \X File
    BY <1>2 DEF Typed, FilesTyped, Git, File
  <2>2. /\ signers.lines \cup {l} \in SUBSET ((Emails \cup {None}) \X File)
        /\ told.lines \cup {l} \in SUBSET ((Emails \cup {None}) \X File)
    BY <2>1 DEF Typed, FilesTyped, Signers, History
  <2>3. signers' \in Signers /\ told' \in History
    BY <1>2, <2>2 DEF AddLine, Typed, FilesTyped, Signers, History
  <2>4. QED
    BY <1>2, <2>3 DEF AddLine, Typed, FilesTyped
<1>3. ASSUME NEW e \in Emails, ChangeEmail(e) PROVE FilesTyped'
  <2>1. told' \in History
    BY <1>3, ExcuseTyped DEF ChangeEmail, Typed
  <2>2. git' \in Git
    BY <1>3 DEF ChangeEmail, Typed, FilesTyped, Git
  <2>3. QED
    BY <1>3, <2>1, <2>2 DEF ChangeEmail, Typed, FilesTyped
<1>4. ASSUME NEW k \in {key[1] : key \in keys}, ChangeKey(k) PROVE FilesTyped'
  <2>1. k \in File
    BY DEF Typed, FilesTyped
  <2>2. QED
    BY <1>4, <2>1 DEF ChangeKey, Typed, FilesTyped, Git
<1>5. CASE BreakGit \/ \E path \in Paths : PointSigners(path)
  BY <1>5 DEF BreakGit, PointSigners, Typed, FilesTyped, Git
<1>6. CASE SlipInSettings
  BY <1>6 DEF SlipInSettings, Typed, FilesTyped, Settings, Kinds
<1>7. CASE SlipInPolicy
  BY <1>7 DEF SlipInPolicy, Typed, FilesTyped, Policy, Kinds
<1>8. QED
  BY <1>1, <1>2, <1>3, <1>4, <1>5, <1>6, <1>7 DEF UserEdit

LEMMA NextTyped == Typed /\ [Next]_vars => Typed'
<1>1. Typed /\ UNCHANGED vars => Typed'
  BY RunKept DEF vars, files, Typed, FilesTyped
<1>2. QED
  BY <1>1, HumanTyped, AgentTyped, ConfirmTyped, StartTyped, CrashTyped, RepairTyped, EditTyped
  DEF Next, RunStep

LEMMA SpecSteps == Spec => Init /\ [][Next]_vars
BY PTL DEF Spec

-----------------------------------------------------------------------------
(***************************************************************************)
(* What a step that is not about a file leaves of it.                      *)
(***************************************************************************)
\* What is excused stays so.
LEMMA LostGrows == Typed /\ [Next]_vars => told.lost \subseteq told'.lost
<1> SUFFICES ASSUME Typed, [Next]_vars PROVE told.lost \subseteq told'.lost
  OBVIOUS
<1>1. ASSUME NEW what \in SUBSET {"settings", "pairs", "signers", "policy", "email"}, Excuse(what)
      PROVE  told.lost \subseteq told'.lost
  BY <1>1, ExcuseTyped DEF Typed
<1>2. AgentStep => told.lost \subseteq told'.lost
  BY <1>1, OverwrittenTyped
  DEF Typed, AgentStep, Guard, AgentKey, Merge, Backup, WriteSettings, ReadSigners, AppendSigner
<1>3. ConfirmStep => told.lost \subseteq told'.lost
  BY DEF ConfirmStep, ReadStore, Stamp, Typed, FilesTyped, History
<1>4. Crash => told.lost \subseteq told'.lost
  BY <1>1, OverwrittenTyped
  DEF Typed, Crash, DieMakingKey, DieCopying, DieWriting, DieAppending, DieStamping, DieElsewhere
<1>5. ASSUME UserEdit PROVE told.lost \subseteq told'.lost
  <2>1. \A e \in Entries : AddEntry(e) => told.lost \subseteq told'.lost
    BY DEF AddEntry, Typed, FilesTyped, History
  <2>2. AddLine(<<git.email, HumanKey>>) => told.lost \subseteq told'.lost
    BY DEF AddLine, Typed, FilesTyped, History
  <2>3. \A e \in Emails : ChangeEmail(e) => told.lost \subseteq told'.lost
    BY <1>1 DEF ChangeEmail
  <2>4. QED
    BY <1>5, <2>1, <2>2, <2>3
    DEF UserEdit, ChangeKey, PointSigners, BreakGit, SlipInSettings, SlipInPolicy
<1>6. QED
  BY <1>2, <1>3, <1>4, <1>5
  DEF Next, RunStep, HumanStep, Converge, WireSigners, AliasSign, StartHuman, AnyAgent,
      StartAgent, StartConfirm, MakeHumanKey, RepairGit, RepairSettings, RepairPolicy, vars

Beginning == StartHuman \/ AnyAgent \/ \E lane \in ToConfirm : StartConfirm(lane)

LEMMA BeginningKeeps ==
    ASSUME Beginning
    PROVE  /\ UNCHANGED <<files, told>>
           /\ run'.at \in {"gpg.format", "guard", "store"}
BY DEF Beginning, StartHuman, AnyAgent, StartAgent, StartConfirm, Idle

LEMMA HumanKeeps ==
    ASSUME Typed, HumanStep
    PROVE  /\ UNCHANGED <<keys, settings, backup, signers, policy, told>> /\ git'.email = git.email
           /\ run'.at \in {"idle", "commit.gpgsign", "allowedSignersFile", "alias.sign"}
<1>1. \A key, next : Converge(key, next) =>
          /\ UNCHANGED <<keys, settings, backup, signers, policy, told>> /\ git'.email = git.email
          /\ run'.at \in {"idle", next}
  BY IdleTyped DEF Converge, Typed, FilesTyped, Git, RunTyped, Run, End, Goto
<1>2. AliasSign => /\ UNCHANGED <<keys, settings, backup, signers, policy, told>>
                   /\ git'.email = git.email /\ run'.at = "idle"
  BY IdleTyped DEF AliasSign, Typed, FilesTyped, Git, End
<1>3. WireSigners => /\ UNCHANGED <<keys, settings, backup, signers, policy, told>>
                     /\ git'.email = git.email /\ run'.at \in {"idle", "alias.sign"}
  BY IdleTyped DEF WireSigners, Typed, FilesTyped, Git, RunTyped, Run, End, Goto
<1>4. QED
  BY <1>1, <1>2, <1>3 DEF HumanStep

-----------------------------------------------------------------------------
(***************************************************************************)
(* The settings.                                                           *)
(***************************************************************************)
LEMMA SettingsAside ==
    ASSUME SettingsInv, UNCHANGED <<settings, backup>>, told'.own = told.own,
           told.lost \subseteq told'.lost, run'.at \notin {"backup", "write"} \/ UNCHANGED run
    PROVE  SettingsInv'
BY DEF SettingsInv, Expendable

LEMMA SettingsKept == Typed /\ SettingsInv /\ [Next]_vars => SettingsInv'
<1> SUFFICES ASSUME Typed, SettingsInv, [Next]_vars PROVE SettingsInv'
  OBVIOUS
<1>0. told.lost \subseteq told'.lost
  BY LostGrows
<1>1. CASE HumanStep
  BY <1>0, <1>1, HumanKeeps, SettingsAside
<1>2. CASE Beginning
  BY <1>0, <1>2, BeginningKeeps, SettingsAside DEF files
<1>3. CASE Guard \/ AgentKey \/ AppendSigner \/ ReadStore
  <2>1. run'.at \in {"idle", "key", "merge", "stamp"}
    BY <1>3, IdleTyped DEF Guard, AgentKey, AppendSigner, ReadStore, End, Goto, Typed, RunTyped, Run
  <2>2. QED
    BY <1>0, <1>3, <2>1, SettingsAside DEF Guard, AgentKey, AppendSigner, ReadStore, files
<1>4. CASE ReadSigners
  <2>1. run'.at \in {"idle", "append"} /\ told'.own = told.own /\ UNCHANGED <<settings, backup>>
    BY <1>4, IdleTyped, ExcuseTyped DEF ReadSigners, End, files, Typed, RunTyped, Run
  <2>2. QED
    BY <1>0, <2>1, SettingsAside
<1>5. CASE Stamp
  <2>1. run'.at = "idle" /\ told'.own = told.own /\ UNCHANGED <<settings, backup>>
    BY <1>5, IdleTyped DEF Stamp, End, Typed, FilesTyped, History
  <2>2. QED
    BY <1>0, <2>1, SettingsAside
<1>6. CASE Merge
  <2>1. /\ told'.own = told.own /\ UNCHANGED <<settings, backup>>
        /\ settings.is \in {"empty", "foreign"} => "settings" \in told'.lost
    BY <1>6, ExcuseTyped DEF Merge, files, Typed
  <2>2. CASE End \/ Goto("signers")
    BY <1>0, <2>1, <2>2, IdleTyped, SettingsAside DEF End, Goto, Typed, RunTyped, Run
  <2>3. CASE /\ settings.is # "torn"
             /\ run' = [run EXCEPT !.at = "backup",
                                   !.own = IF settings.is = "good" THEN settings.own \ GitPairs
                                              ELSE {}]
    <3>1. /\ run'.at = "backup"
          /\ run'.own = IF settings.is = "good" THEN settings.own \ GitPairs ELSE {}
      BY <2>3 DEF Typed, RunTyped, Run
    <3>2. settings.is \in {"absent", "empty", "foreign", "good"}
      BY <2>3 DEF Typed, FilesTyped, Settings, Kinds
    <3>3. QED
      BY <1>0, <2>1, <3>1, <3>2 DEF SettingsInv, Expendable
  <2>4. QED
    BY <1>6, <2>2, <2>3 DEF Merge
<1>7. CASE Backup
  <2>1. run'.at = "write" /\ run'.own = run.own /\ run.at = "backup" /\ UNCHANGED settings
    BY <1>7 DEF Backup, Goto, Typed, RunTyped, Run
  <2>2. CASE settings.is = "absent"
    BY <1>7, <2>1, <2>2 DEF Backup, SettingsInv, Expendable
  <2>3. CASE settings.is # "absent"
    <3>1. backup' = settings /\ Overwritten
      BY <1>7, <2>3 DEF Backup
    <3>2. /\ told'.own = told.own
          /\ GitPairs \cap backup.own \subseteq settings.own \/ "pairs" \in told'.lost
      BY <3>1, OverwrittenTyped DEF Typed
    <3>3. QED
      BY <1>0, <2>1, <3>1, <3>2 DEF SettingsInv, Expendable
  <2>4. QED
    BY <2>2, <2>3
<1>8. CASE WriteSettings
  <2>1. /\ run'.at = "signers" /\ run.at = "write" /\ UNCHANGED <<backup, told>>
        /\ settings'.is = "good" /\ settings'.own = run.own
    BY <1>8 DEF WriteSettings, Goto, Typed, RunTyped, Run
  <2>2. QED
    BY <2>1 DEF SettingsInv, Expendable
<1>9. CASE Crash
  <2>1. run'.at = "idle"
    BY <1>9, IdleTyped DEF Crash, End
  <2>2. CASE DieCopying
    <3>1. /\ told'.own = told.own /\ UNCHANGED settings
          /\ GitPairs \cap backup.own \subseteq settings.own \/ "pairs" \in told'.lost
      BY <2>2, OverwrittenTyped DEF DieCopying, Typed
    <3>2. run.at = "backup"
      BY <2>2 DEF DieCopying
    <3>3. QED
      BY <1>0, <2>1, <3>1, <3>2 DEF SettingsInv, Expendable
  <2>3. CASE DieWriting
    BY <2>1, <2>3 DEF DieWriting, SettingsInv, Expendable
  <2>4. CASE DieMakingKey \/ DieElsewhere
    BY <1>0, <2>1, <2>4, SettingsAside DEF DieMakingKey, DieElsewhere, files
  <2>5. CASE DieAppending \/ DieStamping
    <3>1. told'.own = told.own
      BY <2>5, ExcuseTyped DEF DieAppending, DieStamping, Typed
    <3>2. QED
      BY <1>0, <2>1, <2>5, <3>1, SettingsAside DEF DieAppending, DieStamping
  <2>6. QED
    BY <1>9, <2>2, <2>3, <2>4, <2>5 DEF Crash
<1>10. CASE MakeHumanKey \/ RepairGit \/ RepairPolicy
  BY <1>0, <1>10, SettingsAside DEF MakeHumanKey, RepairGit, RepairPolicy
<1>11. CASE RepairSettings
  BY <1>11 DEF RepairSettings, SettingsInv, Expendable
<1>12. CASE UserEdit
  <2>1. ASSUME NEW e \in Entries, AddEntry(e) PROVE SettingsInv'
    <3>1. /\ settings'.is = "good" /\ settings.is = "good" /\ settings'.own = settings.own \cup {e}
          /\ told'.own = told.own \cup {e} /\ UNCHANGED <<backup, run>>
          /\ run.at \in {"backup", "write"} => "settings" \in told'.lost
      BY <1>12, <2>1 DEF UserEdit, AddEntry, Typed, FilesTyped, Settings, History
    <3>2. QED
      BY <1>0, <3>1 DEF SettingsInv, Expendable
  <2>2. CASE AddLine(<<git.email, HumanKey>>)
    <3>1. told'.own = told.own /\ UNCHANGED <<settings, backup, run>>
      BY <1>12, <2>2 DEF UserEdit, AddLine, Typed, FilesTyped, History
    <3>2. QED
      BY <1>0, <3>1, SettingsAside
  <2>3. ASSUME NEW e \in Emails, ChangeEmail(e) PROVE SettingsInv'
    <3>1. told'.own = told.own /\ UNCHANGED <<settings, backup, run>>
      BY <1>12, <2>3, ExcuseTyped DEF UserEdit, ChangeEmail, Typed
    <3>2. QED
      BY <1>0, <3>1, SettingsAside
  <2>4. CASE SlipInSettings
    <3>1. settings'.is = "torn" /\ settings'.own = settings.own /\ UNCHANGED <<backup, told, run>>
      BY <1>12, <2>4 DEF UserEdit, SlipInSettings, Typed, FilesTyped, Settings
    <3>2. QED
      BY <3>1 DEF SettingsInv, Expendable
  <2>5. CASE \/ BreakGit \/ SlipInPolicy \/ \E path \in Paths : PointSigners(path)
             \/ \E k \in {key[1] : key \in keys} : ChangeKey(k)
    BY <1>0, <1>12, <2>5, SettingsAside
    DEF UserEdit, BreakGit, SlipInPolicy, PointSigners, ChangeKey
  <2>6. QED
    BY <1>12, <2>1, <2>2, <2>3, <2>4, <2>5 DEF UserEdit
<1>13. CASE UNCHANGED vars
  BY <1>13 DEF vars, files, SettingsInv, Expendable
<1>14. QED
  BY <1>1, <1>2, <1>3, <1>4, <1>5, <1>6, <1>7, <1>8, <1>9, <1>10, <1>11, <1>12, <1>13
  DEF Next, RunStep, AgentStep, ConfirmStep, Beginning

-----------------------------------------------------------------------------
(***************************************************************************)
(* The signers and the store of attestations.                              *)
(***************************************************************************)
LEMMA SignersAside ==
    ASSUME SignersInv, UNCHANGED signers, told'.lines = told.lines,
           told.lost \subseteq told'.lost, run'.at # "append" \/ UNCHANGED run
    PROVE  SignersInv'
BY DEF SignersInv

LEMMA SignersStay == Typed /\ SignersInv /\ [Next]_vars => SignersInv'
<1> SUFFICES ASSUME Typed, SignersInv, [Next]_vars PROVE SignersInv'
  OBVIOUS
<1>0. told.lost \subseteq told'.lost
  BY LostGrows
<1>1. CASE HumanStep
  BY <1>0, <1>1, HumanKeeps, SignersAside
<1>2. CASE Beginning
  BY <1>0, <1>2, BeginningKeeps, SignersAside DEF files
<1>3. CASE Guard \/ AgentKey \/ Backup \/ WriteSettings \/ ReadStore
  <2>1. run'.at \in {"idle", "key", "merge", "write", "signers", "stamp"}
    BY <1>3, IdleTyped
    DEF Guard, AgentKey, Backup, WriteSettings, ReadStore, End, Goto, Typed, RunTyped, Run
  <2>2. told'.lines = told.lines /\ UNCHANGED signers
    BY <1>3, OverwrittenTyped DEF Guard, AgentKey, Backup, WriteSettings, ReadStore, files, Typed
  <2>3. QED
    BY <1>0, <2>1, <2>2, SignersAside
<1>4. CASE Merge
  <2>1. run'.at # "append" /\ told'.lines = told.lines /\ UNCHANGED signers
    BY <1>4, IdleTyped, ExcuseTyped DEF Merge, End, Goto, files, Typed, RunTyped, Run
  <2>2. QED
    BY <1>0, <2>1, SignersAside
<1>5. CASE Stamp
  <2>1. run'.at = "idle" /\ told'.lines = told.lines /\ UNCHANGED signers
    BY <1>5, IdleTyped DEF Stamp, End, Typed, FilesTyped, History
  <2>2. QED
    BY <1>0, <2>1, SignersAside
<1>6. CASE ReadSigners
  <2>1. /\ told'.lines = told.lines /\ UNCHANGED signers
        /\ signers.is = "foreign" => "signers" \in told'.lost
    BY <1>6, ExcuseTyped DEF ReadSigners, files, Typed
  <2>2. CASE End
    BY <1>0, <2>1, <2>2, IdleTyped, SignersAside DEF End
  <2>3. CASE run' = [run EXCEPT !.at = "append",
                                !.lines = IF signers.is = "good" THEN signers.lines ELSE {}]
    <3>1. run'.lines = IF signers.is = "good" THEN signers.lines ELSE {}
      BY <2>3 DEF Typed, RunTyped, Run
    <3>2. QED
      BY <1>0, <2>1, <3>1 DEF SignersInv
  <2>4. QED
    BY <1>6, <2>2, <2>3 DEF ReadSigners
<1>7. CASE AppendSigner
  <2>1. /\ run'.at = "idle" /\ run.at = "append" /\ UNCHANGED told
        /\ signers'.is = "good" /\ signers'.lines = run.lines \cup {Mapping}
    BY <1>7, IdleTyped DEF AppendSigner, End
  <2>2. QED
    BY <2>1 DEF SignersInv
<1>8. CASE Crash
  <2>1. run'.at = "idle"
    BY <1>8, IdleTyped DEF Crash, End
  <2>2. CASE DieAppending
    <3>1. "signers" \in told'.lost
      BY <2>2, ExcuseTyped DEF DieAppending, Typed
    <3>2. signers'.is = "empty" => signers'.lines = {}
      BY <2>2 DEF DieAppending
    <3>3. signers'.is \in {"empty", "good"}
      BY <2>2 DEF DieAppending
    <3>4. QED
      BY <3>1, <3>2, <3>3 DEF SignersInv
  <2>3. CASE DieMakingKey \/ DieElsewhere \/ DieCopying \/ DieWriting
    <3>1. told'.lines = told.lines /\ UNCHANGED signers
      BY <2>3, OverwrittenTyped DEF DieMakingKey, DieElsewhere, DieCopying, DieWriting, files, Typed
    <3>2. QED
      BY <1>0, <2>1, <3>1, SignersAside
  <2>4. CASE DieStamping
    <3>1. told'.lines = told.lines
      BY <2>4, ExcuseTyped DEF DieStamping, Typed
    <3>2. QED
      BY <1>0, <2>1, <2>4, <3>1, SignersAside DEF DieStamping
  <2>5. QED
    BY <1>8, <2>2, <2>3, <2>4 DEF Crash
<1>9. CASE MakeHumanKey \/ RepairGit \/ RepairSettings \/ RepairPolicy
  BY <1>0, <1>9, SignersAside DEF MakeHumanKey, RepairGit, RepairSettings, RepairPolicy
<1>10. CASE UserEdit
  <2>1. CASE AddLine(<<git.email, HumanKey>>)
    <3> DEFINE l == <<git.email, HumanKey>>
    <3>1. /\ signers.is = "good" /\ signers'.is = "good" /\ signers'.lines = signers.lines \cup {l}
          /\ told'.lines = told.lines \cup {l} /\ UNCHANGED run
          /\ run.at = "append" => "signers" \in told'.lost
      BY <1>10, <2>1 DEF UserEdit, AddLine, Typed, FilesTyped, Signers, History
    <3>2. QED
      BY <1>0, <3>1 DEF SignersInv
  <2>2. ASSUME NEW e \in Entries, AddEntry(e) PROVE SignersInv'
    <3>1. told'.lines = told.lines /\ UNCHANGED <<signers, run>>
      BY <1>10, <2>2 DEF UserEdit, AddEntry, Typed, FilesTyped, History
    <3>2. QED
      BY <1>0, <3>1, SignersAside
  <2>3. ASSUME NEW e \in Emails, ChangeEmail(e) PROVE SignersInv'
    <3>1. told'.lines = told.lines /\ UNCHANGED <<signers, run>>
      BY <1>10, <2>3, ExcuseTyped DEF UserEdit, ChangeEmail, Typed
    <3>2. QED
      BY <1>0, <3>1, SignersAside
  <2>4. CASE \/ BreakGit \/ SlipInSettings \/ SlipInPolicy
             \/ \E path \in Paths : PointSigners(path)
             \/ \E k \in {key[1] : key \in keys} : ChangeKey(k)
    BY <1>0, <1>10, <2>4, SignersAside
    DEF UserEdit, BreakGit, SlipInSettings, SlipInPolicy, PointSigners, ChangeKey
  <2>5. QED
    BY <1>10, <2>1, <2>2, <2>3, <2>4 DEF UserEdit
<1>11. CASE UNCHANGED vars
  BY <1>11 DEF vars, files, SignersInv
<1>12. QED
  BY <1>1, <1>2, <1>3, <1>4, <1>5, <1>6, <1>7, <1>8, <1>9, <1>10, <1>11
  DEF Next, RunStep, AgentStep, ConfirmStep, Beginning

LEMMA PolicyAside ==
    ASSUME PolicyInv, UNCHANGED policy, told'.lanes = told.lanes,
           told.lost \subseteq told'.lost, run'.at # "stamp" \/ UNCHANGED run
    PROVE  PolicyInv'
BY DEF PolicyInv

LEMMA PolicyStays == Typed /\ PolicyInv /\ [Next]_vars => PolicyInv'
<1> SUFFICES ASSUME Typed, PolicyInv, [Next]_vars PROVE PolicyInv'
  OBVIOUS
<1>0. told.lost \subseteq told'.lost
  BY LostGrows
<1>1. CASE HumanStep
  BY <1>0, <1>1, HumanKeeps, PolicyAside
<1>2. CASE Beginning
  BY <1>0, <1>2, BeginningKeeps, PolicyAside DEF files
<1>3. CASE AgentStep
  <2>1. told'.lanes = told.lanes /\ UNCHANGED policy
    BY <1>3, ExcuseTyped, OverwrittenTyped
    DEF AgentStep, Guard, AgentKey, Merge, Backup, WriteSettings, ReadSigners, AppendSigner, files,
        Typed
  <2>2. run'.at # "stamp"
    BY <1>3, IdleTyped
    DEF AgentStep, Guard, AgentKey, Merge, Backup, WriteSettings, ReadSigners, AppendSigner,
        End, Goto, Typed, RunTyped, Run
  <2>3. QED
    BY <1>0, <2>1, <2>2, PolicyAside
<1>4. CASE ReadStore
  <2>1. CASE End
    BY <1>0, <1>4, <2>1, IdleTyped, PolicyAside DEF ReadStore, End, files
  <2>2. CASE run' = [run EXCEPT !.at = "stamp", !.lanes = policy.lanes]
    <3>1. run'.lanes = policy.lanes /\ UNCHANGED <<policy, told>>
      BY <1>4, <2>2 DEF ReadStore, files, Typed, RunTyped, Run
    <3>2. QED
      BY <3>1 DEF PolicyInv
  <2>3. QED
    BY <1>4, <2>1, <2>2 DEF ReadStore
<1>5. CASE Stamp
  <2>1. /\ run'.at = "idle" /\ run.at = "stamp" /\ policy'.lanes = run.lanes \cup {run.lane}
        /\ told'.lanes = told.lanes \cup {run.lane} /\ told'.lost = told.lost
    BY <1>5, IdleTyped DEF Stamp, End, Typed, FilesTyped, History
  <2>2. QED
    BY <2>1 DEF PolicyInv
<1>6. CASE Crash
  <2>1. run'.at = "idle"
    BY <1>6, IdleTyped DEF Crash, End
  <2>2. CASE DieStamping
    BY <2>2, ExcuseTyped DEF DieStamping, Typed, PolicyInv
  <2>3. CASE DieMakingKey \/ DieElsewhere \/ DieCopying \/ DieWriting
    <3>1. told'.lanes = told.lanes /\ UNCHANGED policy
      BY <2>3, OverwrittenTyped DEF DieMakingKey, DieElsewhere, DieCopying, DieWriting, files, Typed
    <3>2. QED
      BY <1>0, <2>1, <3>1, PolicyAside
  <2>4. CASE DieAppending
    <3>1. told'.lanes = told.lanes
      BY <2>4, ExcuseTyped DEF DieAppending, Typed
    <3>2. QED
      BY <1>0, <2>1, <2>4, <3>1, PolicyAside DEF DieAppending
  <2>5. QED
    BY <1>6, <2>2, <2>3, <2>4 DEF Crash
<1>7. CASE MakeHumanKey \/ RepairGit \/ RepairSettings
  BY <1>0, <1>7, PolicyAside DEF MakeHumanKey, RepairGit, RepairSettings
<1>8. ASSUME policy'.lanes = policy.lanes, UNCHANGED <<told, run>> PROVE PolicyInv'
  BY <1>8 DEF PolicyInv
<1>9. CASE RepairPolicy
  BY <1>8, <1>9 DEF RepairPolicy, Typed, FilesTyped, Policy
<1>10. CASE UserEdit
  <2>1. UNCHANGED run
    BY <1>10 DEF UserEdit
  <2>2. CASE SlipInPolicy
    BY <1>8, <2>1, <2>2 DEF SlipInPolicy, Typed, FilesTyped, Policy
  <2>3. ASSUME NEW e \in Entries, AddEntry(e) PROVE PolicyInv'
    <3>1. told'.lanes = told.lanes /\ UNCHANGED policy
      BY <2>3 DEF AddEntry, Typed, FilesTyped, History
    <3>2. QED
      BY <1>0, <2>1, <3>1, PolicyAside
  <2>4. ASSUME NEW l, AddLine(l) PROVE PolicyInv'
    <3>1. told'.lanes = told.lanes /\ UNCHANGED policy
      BY <2>4 DEF AddLine, Typed, FilesTyped, History
    <3>2. QED
      BY <1>0, <2>1, <3>1, PolicyAside
  <2>5. ASSUME NEW e \in Emails, ChangeEmail(e) PROVE PolicyInv'
    <3>1. told'.lanes = told.lanes /\ UNCHANGED policy
      BY <2>5, ExcuseTyped DEF ChangeEmail, Typed
    <3>2. QED
      BY <1>0, <2>1, <3>1, PolicyAside
  <2>6. CASE \/ BreakGit \/ SlipInSettings \/ \E path \in Paths : PointSigners(path)
             \/ \E k \in {key[1] : key \in keys} : ChangeKey(k)
    BY <1>0, <2>1, <2>6, PolicyAside DEF BreakGit, SlipInSettings, PointSigners, ChangeKey
  <2>7. QED
    BY <1>10, <2>2, <2>3, <2>4, <2>5, <2>6 DEF UserEdit
<1>11. CASE UNCHANGED vars
  BY <1>11 DEF vars, files, PolicyInv
<1>12. QED
  BY <1>1, <1>2, <1>3, <1>4, <1>5, <1>6, <1>7, <1>9, <1>10, <1>11
  DEF Next, RunStep, ConfirmStep, Beginning

LEMMA InitKept == Init => SettingsInv /\ SignersInv /\ PolicyInv
<1> SUFFICES ASSUME Init PROVE SettingsInv /\ SignersInv /\ PolicyInv
  OBVIOUS
<1>1. PICK start \in Starts :
          /\ settings = start.settings /\ signers = start.signers /\ policy = start.policy
          /\ told = [own |-> start.settings.own, lines |-> start.signers.lines,
                     lanes |-> start.policy.lanes, lost |-> {}]
  BY DEF Init
<1>2. /\ told.own = settings.own /\ told.lines = signers.lines /\ told.lanes = policy.lanes
      /\ settings.is = "absent" => settings.own = {}
      /\ signers.is \notin {"foreign", "good"} => signers.lines = {}
  BY <1>1, StartsAssumption
<1>3. run.at = "idle"
  BY IdleTyped DEF Init
<1>4. QED
  BY <1>2, <1>3 DEF SettingsInv, SignersInv, PolicyInv

\* No run of `signing setup` costs the user an entry of the settings, a line of
\* allowed_signers or an attestation, for any machine, identities, edits and
\* deaths, but for the losses each part names (signing_setup.rs, the three
\* in-place writes).
THEOREM DataSurvives == Spec => []UserDataSurvives
<1> DEFINE Inv == Typed /\ SettingsInv /\ SignersInv /\ PolicyInv
<1>1. Init => Inv
  BY InitTyped, InitKept
<1>2. Inv /\ [Next]_vars => Inv'
  BY NextTyped, SettingsKept, SignersStay, PolicyStays
<1>3. Inv => UserDataSurvives
  BY DEF SettingsInv, SignersInv, PolicyInv, UserDataSurvives, ContentSurvives, SignersKept,
         AttestationsKept
<1>4. QED
  BY <1>1, <1>2, <1>3, SpecSteps, PTL

-----------------------------------------------------------------------------
(***************************************************************************)
(* The agent's address.                                                    *)
(***************************************************************************)
LEMMA NobodyElse == \A e : ~SameEmail(NoIdentity.email, e)
BY DEF SameEmail, NoIdentity

LEMMA EmailAside ==
    ASSUME EmailInv, git'.email = git.email,
           settings'.env \in {settings.env, backup.env, NoIdentity},
           backup'.env \in {settings.env, backup.env, NoIdentity},
           told.lost \subseteq told'.lost,
           \/ run'.at \notin Guarded
           \/ run.at \in Guarded /\ run'.email = run.email
    PROVE  EmailInv'
BY NobodyElse DEF EmailInv, SameEmail

LEMMA EmailKept == Typed /\ EmailInv /\ [Next]_vars => EmailInv'
<1> SUFFICES ASSUME Typed, EmailInv, [Next]_vars PROVE EmailInv'
  OBVIOUS
<1>0. told.lost \subseteq told'.lost
  BY LostGrows
<1>1. CASE HumanStep
  BY <1>0, <1>1, HumanKeeps, EmailAside DEF Guarded
<1>2. CASE Beginning
  BY <1>0, <1>2, BeginningKeeps, EmailAside DEF files, Guarded
<1>3. CASE Guard
  <2>1. CASE End
    BY <1>0, <1>3, <2>1, IdleTyped, EmailAside DEF Guard, End, files, Guarded
  <2>2. CASE Goto("key") /\ ~SameEmail(run.email, git.email)
    <3>1. run'.email = run.email /\ UNCHANGED <<files, told>>
      BY <1>3, <2>2 DEF Guard, Goto, Typed, RunTyped, Run
    <3>2. QED
      BY <2>2, <3>1 DEF EmailInv, SameEmail, files
  <2>3. QED
    BY <1>3, <2>1, <2>2 DEF Guard
<1>4. CASE AgentKey
  <2>1. run.at = "key" /\ run'.email = run.email /\ UNCHANGED <<git, settings, backup, told>>
    BY <1>4 DEF AgentKey, Typed, RunTyped, Run
  <2>2. QED
    BY <1>0, <2>1, EmailAside DEF Guarded
<1>5. CASE Merge
  <2>1. run.at = "merge" /\ UNCHANGED files
    BY <1>5 DEF Merge
  <2>2. run'.at \notin Guarded \/ run'.email = run.email
    BY <1>5, IdleTyped DEF Merge, End, Goto, Typed, RunTyped, Run, Guarded
  <2>3. QED
    BY <1>0, <2>1, <2>2, EmailAside DEF files, Guarded
<1>6. CASE Backup
  <2>1. /\ run.at = "backup" /\ run'.email = run.email /\ UNCHANGED <<git, settings>>
        /\ backup' \in {settings, backup}
    BY <1>6 DEF Backup, Goto, Typed, RunTyped, Run
  <2>2. QED
    BY <1>0, <2>1, EmailAside DEF Guarded
<1>7. CASE WriteSettings
  <2>1. run.at = "write" /\ run'.at = "signers" /\ UNCHANGED <<git, backup, told>>
    BY <1>7 DEF WriteSettings, Goto, Typed, RunTyped, Run
  <2>2. settings'.env.email = run.email
    BY <1>7 DEF WriteSettings, Identity
  <2>3. QED
    BY <2>1, <2>2 DEF EmailInv, Guarded, SameEmail
<1>8. CASE ReadSigners \/ AppendSigner \/ ConfirmStep
  <2>1. UNCHANGED <<git, settings, backup>>
    BY <1>8 DEF ReadSigners, AppendSigner, ConfirmStep, ReadStore, Stamp, files
  <2>2. run'.at \in {"idle", "append", "stamp"}
    BY <1>8, IdleTyped
    DEF ReadSigners, AppendSigner, ConfirmStep, ReadStore, Stamp, End, Typed, RunTyped, Run
  <2>3. QED
    BY <1>0, <2>1, <2>2, EmailAside DEF Guarded
<1>9. CASE Crash
  <2>1. run'.at = "idle"
    BY <1>9, IdleTyped DEF Crash, End
  <2>2. /\ git' = git /\ settings'.env \in {settings.env, NoIdentity}
        /\ backup'.env \in {backup.env, NoIdentity}
    BY <1>9
    DEF Crash, DieMakingKey, DieCopying, DieWriting, DieAppending, DieStamping, DieElsewhere, files
  <2>3. QED
    BY <1>0, <2>1, <2>2, EmailAside DEF Guarded
<1>10. CASE MakeHumanKey \/ RepairGit \/ RepairSettings \/ RepairPolicy
  <2>1. git'.email = git.email /\ UNCHANGED <<backup, run>>
    BY <1>10
    DEF MakeHumanKey, RepairGit, RepairSettings, RepairPolicy, Typed, FilesTyped, Git
  <2>2. settings'.env \in {settings.env, backup.env}
    BY <1>10 DEF MakeHumanKey, RepairGit, RepairSettings, RepairPolicy
  <2>3. QED
    BY <1>0, <2>1, <2>2, EmailAside
<1>11. CASE UserEdit
  <2>1. UNCHANGED run
    BY <1>11 DEF UserEdit
  <2>2. ASSUME NEW e \in Emails, ChangeEmail(e) PROVE EmailInv'
    <3>1. UNCHANGED <<settings, backup>>
      BY <2>2 DEF ChangeEmail
    <3>2. CASE {settings.env, backup.env} # {NoIdentity} \/ run.lane = "agent-claude-code"
      <4>1. "email" \in told'.lost
        BY <2>2, <3>2, ExcuseTyped DEF ChangeEmail, Typed
      <4>2. QED
        BY <4>1 DEF EmailInv
    <3>3. CASE {settings.env, backup.env} = {NoIdentity} /\ run.lane # "agent-claude-code"
      <4>1. run.at \notin Guarded
        BY <3>3 DEF Typed, RunTyped, AgentAt
      <4>2. settings.env = NoIdentity /\ backup.env = NoIdentity
        BY <3>3
      <4>3. QED
        BY <2>1, <3>1, <4>1, <4>2, NobodyElse DEF EmailInv, SameEmail
    <3>4. QED
      BY <3>2, <3>3
  <2>3. CASE \/ \E e \in Entries : AddEntry(e)
             \/ AddLine(<<git.email, HumanKey>>)
             \/ SlipInSettings \/ SlipInPolicy
    <3>1. UNCHANGED <<git, backup>> /\ settings'.env = settings.env
      BY <2>3 DEF AddEntry, AddLine, SlipInSettings, SlipInPolicy, Typed, FilesTyped, Settings
    <3>2. QED
      BY <1>0, <2>1, <3>1, EmailAside
  <2>4. CASE \/ BreakGit \/ \E path \in Paths : PointSigners(path)
             \/ \E k \in {key[1] : key \in keys} : ChangeKey(k)
    <3>1. UNCHANGED <<settings, backup>> /\ git'.email = git.email
      BY <2>4 DEF BreakGit, PointSigners, ChangeKey, Typed, FilesTyped, Git
    <3>2. QED
      BY <1>0, <2>1, <3>1, EmailAside
  <2>5. QED
    BY <1>11, <2>2, <2>3, <2>4 DEF UserEdit
<1>12. CASE UNCHANGED vars
  BY <1>0, <1>12, EmailAside DEF vars, files
<1>13. QED
  BY <1>1, <1>2, <1>3, <1>4, <1>5, <1>6, <1>7, <1>8, <1>9, <1>10, <1>11, <1>12
  DEF Next, RunStep, AgentStep, Beginning

LEMMA InitEmail == Init => EmailInv
<1> SUFFICES ASSUME Init PROVE EmailInv
  OBVIOUS
<1>1. ~SameEmail(settings.env.email, git.email)
  BY StartsAssumption DEF Init
<1>2. backup.env = NoIdentity /\ run.at \notin Guarded
  BY IdleTyped DEF Init, Guarded
<1>3. QED
  BY <1>1, <1>2, NobodyElse DEF EmailInv

\* The settings never carry an address that is the human's to a forge, for any
\* names, addresses and spellings of them, whatever dies and is repaired, unless
\* the human took the agent's address once it was accepted (the identity-blur
\* guard of signing_setup.rs).
THEOREM NoBlur == Spec => []NoEmailBlur
<1>1. Init => Typed /\ EmailInv
  BY InitTyped, InitEmail
<1>2. (Typed /\ EmailInv) /\ [Next]_vars => (Typed /\ EmailInv)'
  BY NextTyped, EmailKept
<1>3. Typed /\ EmailInv => NoEmailBlur
  BY DEF EmailInv, NoEmailBlur
<1>4. QED
  BY <1>1, <1>2, <1>3, SpecSteps, PTL
=============================================================================
