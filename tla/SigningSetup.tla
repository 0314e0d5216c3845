---------------------------- MODULE SigningSetup ----------------------------
(***************************************************************************)
(* `sscsb signing setup` on one machine. The human-local lane converges    *)
(* the human's global git configuration; the agent-claude-code lane a key, *)
(* the agent harness's settings file and allowed_signers; `--confirm`      *)
(* stamps a guided lane into the attestation store. Every file is read,    *)
(* changed and written back in place, so a run that dies leaves a file cut *)
(* short; and the user edits the same files before, after and during a run.*)
(*                                                                         *)
(* A file `is` "absent", "empty" (truncated), "torn" (does not parse),     *)
(* "foreign" (not UTF-8) or "good"; what else its record holds is in its   *)
(* bytes, whether or not they parse.                                       *)
(***************************************************************************)
EXTENDS Naturals, FiniteSets

CONSTANTS
    Names,          \* names an agent may go by
    Emails,         \* addresses
    Person,         \* Person[e]: whom a forge takes e for (letter case aside)
    KeyFile,        \* KeyFile[n]: the key file named after n
    LegacyKey,      \* the key file of v0.2.0
    HumanKey,       \* the key file the human makes
    GuidedLanes,    \* lanes that are attested, not probed
    ToConfirm,      \* those this user confirms
    Entries,        \* the user's own settings entries
    GitPairs,       \* those that are GIT_CONFIG_* pairs: git settings for the agent
    Starts,         \* the machines a user starts from
    MaxCrashes,     \* bound: runs that die
    MaxEdits        \* bound: changes of the user's mind or files

ASSUME SetupAssumption ==
    /\ DOMAIN Person = Emails /\ DOMAIN KeyFile = Names
    /\ HumanKey \notin {KeyFile[n] : n \in Names} \cup {LegacyKey}
    /\ ToConfirm \subseteq GuidedLanes /\ GitPairs \subseteq Entries
    /\ MaxCrashes \in Nat /\ MaxEdits \in Nat

VARIABLES
    git,        \* the human's global configuration
    keys,       \* key files on disk: <<file, "private">> and <<file, "public">>
    settings,   \* the harness settings: the user's own entries, the identity block
    backup,     \* their .sscsb-backup
    signers,    \* allowed_signers: its lines, <<email, key>>
    policy,     \* the attestation store: the lanes stamped in it
    run,        \* the run in progress
    asked,      \* the agent identity the user last asked for
    budget,     \* crashes and edits so far
    told        \* history: what was put into the files, and how some of it may be lost

files == <<git, keys, settings, backup, signers, policy>>
vars == <<files, run, asked, budget, told>>

None == "none"
NoIdentity == [key |-> None, name |-> None, email |-> None]
Idle == [at |-> "idle", lane |-> None, name |-> None, email |-> None, key |-> None,
         own |-> {}, lines |-> {}, lanes |-> {}]

SameEmail(a, b) == a # None /\ b # None /\ Person[a] = Person[b]

File == {KeyFile[n] : n \in Names} \cup {LegacyKey, HumanKey}
Kinds == {"absent", "empty", "torn", "foreign", "good"}
IdentityBlock == [key : File \cup {None}, name : Names \cup {None}, email : Emails \cup {None}]
Wanted == {"gpg.format", "commit.gpgsign", "alias.sign"}
\* gpg.ssh.allowedSignersFile: ~/.ssh/allowed_signers, another file, no file.
Paths == {"home", "elsewhere", "nowhere"}
Git == [readable : BOOLEAN, email : Emails \cup {None}, key : File \cup {None},
        allowed : Paths \cup {None}, on : SUBSET Wanted]
Settings == [is : Kinds, own : SUBSET Entries, env : IdentityBlock]
Signers == [is : Kinds, lines : SUBSET ((Emails \cup {None}) \X File)]
Policy == [is : Kinds, lanes : SUBSET GuidedLanes]

\* What is not there holds nothing, and no machine starts out with the human's
\* address as the agent's.
ASSUME StartsAssumption ==
    \A start \in Starts :
        /\ start.git \in Git /\ start.keys \subseteq File \X {"private", "public"}
        /\ start.settings \in Settings /\ start.signers \in Signers /\ start.policy \in Policy
        /\ start.settings.is = "absent" => start.settings.own = {}
        /\ start.signers.is \notin {"foreign", "good"} => start.signers.lines = {}
        /\ ~SameEmail(start.settings.env.email, start.git.email)

Init ==
    /\ \E start \in Starts :
          /\ git = start.git /\ keys = start.keys /\ settings = start.settings
          /\ signers = start.signers /\ policy = start.policy
          /\ told = [own |-> start.settings.own, lines |-> start.signers.lines,
                     lanes |-> start.policy.lanes, lost |-> {}]
    /\ backup = [is |-> "absent", own |-> {}, env |-> NoIdentity]
    /\ run = Idle
    /\ asked = [name |-> None, email |-> None]
    /\ budget = [crashes |-> 0, edits |-> 0]

Excuse(what) == told' = [told EXCEPT !.lost = @ \cup what]
Goto(pc) == run' = [run EXCEPT !.at = pc]
End == run' = Idle
Spend == /\ budget.edits < MaxEdits
         /\ budget' = [budget EXCEPT !.edits = @ + 1]

(***************************************************************************)
(* The human-local lane. `git config` replaces the configuration whole, so *)
(* each setting is one step; on a configuration git cannot read it fails,  *)
(* and the run ends there.                                                 *)
(***************************************************************************)
StartHuman ==
    /\ run.at = "idle"
    /\ run' = [Idle EXCEPT !.at = "gpg.format", !.lane = "human-local"]
    /\ UNCHANGED <<files, asked, budget, told>>

\* gpg.format, commit.gpgsign: set if not so set.
Converge(key, next) ==
    /\ run.at = key
    /\ IF git.readable THEN git' = [git EXCEPT !.on = @ \cup {key}] /\ Goto(next)
                       ELSE End /\ UNCHANGED git
    /\ UNCHANGED <<keys, settings, backup, signers, policy, asked, budget, told>>

\* gpg.ssh.allowedSignersFile counts as set whatever path it holds.
WireSigners ==
    /\ run.at = "allowedSignersFile"
    /\ IF git.readable
       THEN git' = [git EXCEPT !.allowed = IF @ = None THEN "home" ELSE @] /\ Goto("alias.sign")
       ELSE End /\ UNCHANGED git
    /\ UNCHANGED <<keys, settings, backup, signers, policy, asked, budget, told>>

\* The alias needs a key; without one the user is told to make it and re-run.
AliasSign ==
    /\ run.at = "alias.sign"
    /\ git' = IF git.readable /\ git.key # None
              THEN [git EXCEPT !.on = @ \cup {"alias.sign"}] ELSE git
    /\ End
    /\ UNCHANGED <<keys, settings, backup, signers, policy, asked, budget, told>>

HumanStep ==
    \/ Converge("gpg.format", "commit.gpgsign")
    \/ Converge("commit.gpgsign", "allowedSignersFile")
    \/ WireSigners
    \/ AliasSign

(***************************************************************************)
(* The agent-claude-code lane.                                             *)
(***************************************************************************)
\* With --agent-name and --agent-email or without. What is not given is kept
\* from the settings; a run that finds an identity nowhere only gives advice.
\* Another identity than the last is an edit.
StartAgent(name, email) ==
    /\ run.at = "idle"
    /\ LET kept == IF settings.is = "good" THEN settings.env ELSE NoIdentity
           chosen == [name |-> IF name = None THEN kept.name ELSE name,
                      email |-> IF email = None THEN kept.email ELSE email]
       IN  /\ chosen.name # None /\ chosen.email # None
           /\ asked' = chosen
           /\ IF asked.name = None \/ asked = chosen THEN UNCHANGED budget ELSE Spend
           /\ run' = [Idle EXCEPT !.at = "guard", !.lane = "agent-claude-code",
                                  !.name = chosen.name, !.email = chosen.email]
    /\ UNCHANGED <<files, told>>

\* The guard fails open.
GuardOfReadable ==
    /\ run.at = "guard"
    /\ IF git.readable /\ SameEmail(run.email, git.email) THEN End ELSE Goto("key")
    /\ UNCHANGED <<files, asked, budget, told>>

\* Refused when the human's own address cannot be read, or is this one.
Guard ==
    /\ run.at = "guard"
    /\ IF ~git.readable \/ SameEmail(run.email, git.email) THEN End ELSE Goto("key")
    /\ UNCHANGED <<files, asked, budget, told>>

\* The key named after the agent, else v0.2.0's, else a new one.
ChosenKey ==
    LET derived == KeyFile[run.name]
    IN  IF <<derived, "private">> \notin keys /\ <<LegacyKey, "private">> \in keys
        THEN LegacyKey ELSE derived
AgentKey ==
    /\ run.at = "key"
    /\ keys' = IF <<ChosenKey, "private">> \in keys THEN keys
               ELSE keys \cup {<<ChosenKey, "private">>, <<ChosenKey, "public">>}
    /\ run' = [run EXCEPT !.at = "merge", !.key = ChosenKey]
    /\ UNCHANGED <<git, settings, backup, signers, policy, asked, budget, told>>

Identity == [key |-> run.key, name |-> run.name, email |-> run.email]

\* The block is there, and no other pair.
Verbatim ==
    settings.is = "good" /\ settings.env = Identity /\ settings.own \cap GitPairs = {}

\* A file that does not parse is taken for an empty one.
MergeAnything ==
    /\ run.at = "merge"
    /\ IF Verbatim THEN Goto("signers")
       ELSE run' = [run EXCEPT !.at = "backup",
                               !.own = IF settings.is = "good" THEN settings.own \ GitPairs ELSE {}]
    /\ Excuse(IF settings.is \in {"empty", "foreign"} THEN {"settings"} ELSE {})
    /\ UNCHANGED <<files, asked, budget>>

\* The settings are read (a file that is no text as none) and the block merged
\* into them in place of every GIT_CONFIG_* pair, the user's own included, unless
\* it is there; a file that does not parse ends the run. Lost without blame: a
\* file a dead run emptied, and one that is no text, have nothing to merge into,
\* and are replaced.
Merge ==
    /\ run.at = "merge"
    /\ IF settings.is = "torn" THEN End
       ELSE IF Verbatim THEN Goto("signers")
       ELSE run' = [run EXCEPT !.at = "backup",
                               !.own = IF settings.is = "good" THEN settings.own \ GitPairs ELSE {}]
    /\ Excuse(IF settings.is \in {"empty", "foreign"} THEN {"settings"} ELSE {})
    /\ UNCHANGED <<files, asked, budget>>

\* Lost without blame: a pair of the user's whose only copy is the one written over.
Overwritten ==
    Excuse(IF GitPairs \cap backup.own \subseteq settings.own THEN {} ELSE {"pairs"})

Backup ==
    /\ run.at = "backup"
    /\ IF settings.is = "absent" THEN UNCHANGED <<backup, told>>
                                 ELSE backup' = settings /\ Overwritten
    /\ Goto("write")
    /\ UNCHANGED <<git, keys, settings, signers, policy, asked, budget>>

\* Written in place, and read back.
WriteSettings ==
    /\ run.at = "write"
    /\ settings' = [is |-> "good", own |-> run.own, env |-> Identity]
    /\ Goto("signers")
    /\ UNCHANGED <<git, keys, backup, signers, policy, asked, budget, told>>

\* Its key is not looked for.
MentionedByAddress(email, key) ==
    /\ signers.is = "good"
    /\ \E l \in signers.lines : l[1] = email

\* The agent counts as mapped when its address occurs and its key occurs.
Mentioned(email, key) ==
    /\ signers.is = "good"
    /\ \E l \in signers.lines : l[1] = email
    /\ \E l \in signers.lines : l[2] = key

ReadSigners ==
    /\ run.at = "signers"
    /\ IF <<run.key, "public">> \notin keys \/ Mentioned(run.email, run.key) THEN End
       ELSE run' = [run EXCEPT !.at = "append",
                               !.lines = IF signers.is = "good" THEN signers.lines ELSE {}]
    /\ Excuse(IF signers.is = "foreign" THEN {"signers"} ELSE {})
    /\ UNCHANGED <<files, asked, budget>>

Mapping == <<run.email, run.key>>
AppendSigner ==
    /\ run.at = "append"
    /\ signers' = [is |-> "good", lines |-> run.lines \cup {Mapping}]
    /\ End
    /\ UNCHANGED <<git, keys, settings, backup, policy, asked, budget, told>>

AgentStep == Guard \/ AgentKey \/ Merge \/ Backup \/ WriteSettings \/ ReadSigners \/ AppendSigner

(***************************************************************************)
(* --confirm. A store that cannot be read or parsed is a hard error.       *)
(***************************************************************************)
StartConfirm(lane) ==
    /\ run.at = "idle"
    /\ run' = [Idle EXCEPT !.at = "store", !.lane = lane]
    /\ UNCHANGED <<files, asked, budget, told>>

ReadStore ==
    /\ run.at = "store"
    /\ IF policy.is \in {"torn", "foreign"} THEN End
       ELSE run' = [run EXCEPT !.at = "stamp", !.lanes = policy.lanes]
    /\ UNCHANGED <<files, asked, budget, told>>

Stamp ==
    /\ run.at = "stamp"
    /\ policy' = [is |-> "good", lanes |-> run.lanes \cup {run.lane}]
    /\ told' = [told EXCEPT !.lanes = @ \cup {run.lane}]
    /\ End
    /\ UNCHANGED <<git, keys, settings, backup, signers, asked, budget>>

ConfirmStep == ReadStore \/ Stamp
RunStep == HumanStep \/ AgentStep \/ ConfirmStep

(***************************************************************************)
(* A run dies. ssh-keygen writes the private half first; a file being      *)
(* written is left empty or cut short.                                     *)
(***************************************************************************)
DieMakingKey ==
    /\ run.at = "key"
    /\ \E half \in SUBSET {<<ChosenKey, "private">>} : keys' = keys \cup half
    /\ UNCHANGED <<git, settings, backup, signers, policy, told>>
DieCopying ==
    /\ run.at = "backup" /\ settings.is # "absent"
    /\ \E is \in {"empty", "torn"} : backup' = [is |-> is, own |-> {}, env |-> NoIdentity]
    /\ Overwritten
    /\ UNCHANGED <<git, keys, settings, signers, policy>>
DieWriting ==
    /\ run.at = "write"
    /\ \E is \in {"empty", "torn"} : settings' = [is |-> is, own |-> {}, env |-> NoIdentity]
    /\ UNCHANGED <<git, keys, backup, signers, policy, told>>
DieAppending ==
    /\ run.at = "append"
    /\ \E lines \in SUBSET (run.lines \cup {Mapping}) :
          signers' = [is |-> IF lines = {} THEN "empty" ELSE "good", lines |-> lines]
    /\ Excuse({"signers"})
    /\ UNCHANGED <<git, keys, settings, backup, policy>>
DieStamping ==
    /\ run.at = "stamp"
    /\ \E is \in {"empty", "torn"} : policy' = [is |-> is, lanes |-> {}]
    /\ Excuse({"policy"})
    /\ UNCHANGED <<git, keys, settings, backup, signers>>
DieElsewhere ==
    /\ run.at # "idle"
    /\ UNCHANGED <<files, told>>

Crash ==
    /\ budget.crashes < MaxCrashes
    /\ \/ DieMakingKey \/ DieCopying \/ DieWriting
       \/ DieAppending \/ DieStamping \/ DieElsewhere
    /\ End
    /\ budget' = [budget EXCEPT !.crashes = @ + 1]
    /\ UNCHANGED asked

(***************************************************************************)
(* The user: what the guided steps and error messages ask for...           *)
(***************************************************************************)
MakeHumanKey ==
    /\ git.readable /\ git.key = None
    /\ git' = [git EXCEPT !.key = HumanKey]
    /\ keys' = keys \cup {<<HumanKey, "private">>, <<HumanKey, "public">>}
    /\ UNCHANGED <<settings, backup, signers, policy, run, asked, budget, told>>

RepairGit ==
    /\ ~git.readable
    /\ git' = [git EXCEPT !.readable = TRUE]
    /\ UNCHANGED <<keys, settings, backup, signers, policy, run, asked, budget, told>>

\* From what is left of the file and of its backup.
RepairSettings ==
    /\ settings.is = "torn"
    /\ \E env \in {settings.env, backup.env} :
          settings' = [is |-> "good", own |-> settings.own \cup backup.own, env |-> env]
    /\ UNCHANGED <<git, keys, backup, signers, policy, run, asked, budget, told>>

RepairPolicy ==
    /\ policy.is \in {"torn", "foreign"}
    /\ policy' = [policy EXCEPT !.is = "good"]
    /\ UNCHANGED <<git, keys, settings, backup, signers, run, asked, budget, told>>

(***************************************************************************)
(* ...and what nobody asked for. Lost without blame: an entry or a line    *)
(* saved between a run's reading of the file and its writing of it; and    *)
(* the human's address, changed once an agent's was accepted.              *)
(***************************************************************************)
AddEntry(e) ==
    /\ settings.is = "good" /\ e \notin settings.own
    /\ settings' = [settings EXCEPT !.own = @ \cup {e}]
    /\ told' = [told EXCEPT !.own = @ \cup {e},
                    !.lost = @ \cup IF run.at \in {"backup", "write"} THEN {"settings"} ELSE {}]
    /\ UNCHANGED <<git, keys, backup, signers, policy>>
AddLine(l) ==
    /\ signers.is = "good" /\ l \notin signers.lines /\ l[1] # None
    /\ signers' = [signers EXCEPT !.lines = @ \cup {l}]
    /\ told' = [told EXCEPT !.lines = @ \cup {l},
                    !.lost = @ \cup IF run.at = "append" THEN {"signers"} ELSE {}]
    /\ UNCHANGED <<git, keys, settings, backup, policy>>
ChangeEmail(e) ==
    /\ git.readable /\ e # git.email
    /\ git' = [git EXCEPT !.email = e]
    /\ Excuse(IF {settings.env, backup.env} # {NoIdentity} \/ run.lane = "agent-claude-code"
              THEN {"email"} ELSE {})
    /\ UNCHANGED <<keys, settings, backup, signers, policy>>
\* user.signingkey pointed at a key file that is there, the agent's among them.
ChangeKey(file) ==
    /\ git.readable /\ <<file, "private">> \in keys /\ file # git.key
    /\ git' = [git EXCEPT !.key = file]
    /\ UNCHANGED <<keys, settings, backup, signers, policy, told>>
\* gpg.ssh.allowedSignersFile pointed at a file of the user's choice.
PointSigners(path) ==
    /\ git.readable /\ path # git.allowed
    /\ git' = [git EXCEPT !.allowed = path]
    /\ UNCHANGED <<keys, settings, backup, signers, policy, told>>
BreakGit ==
    /\ git.readable
    /\ git' = [git EXCEPT !.readable = FALSE]
    /\ UNCHANGED <<keys, settings, backup, signers, policy, told>>
SlipInSettings ==
    /\ settings.is = "good"
    /\ settings' = [settings EXCEPT !.is = "torn"]
    /\ UNCHANGED <<git, keys, backup, signers, policy, told>>
SlipInPolicy ==
    /\ policy.is = "good"
    /\ policy' = [policy EXCEPT !.is = "torn"]
    /\ UNCHANGED <<git, keys, settings, backup, signers, told>>

UserEdit ==
    /\ Spend
    /\ \/ \E e \in Entries : AddEntry(e)
       \/ AddLine(<<git.email, HumanKey>>)
       \/ \E e \in Emails : ChangeEmail(e)
       \/ \E k \in {key[1] : key \in keys} : ChangeKey(k)
       \/ \E path \in Paths : PointSigners(path)
       \/ BreakGit
       \/ SlipInSettings
       \/ SlipInPolicy
    /\ UNCHANGED <<run, asked>>

(***************************************************************************)
(* The specification. A run that does not die ends; the user answers each  *)
(* guided step and error message, and goes on running each lane, with the  *)
(* identity last asked for.                                                *)
(***************************************************************************)
AnyAgent == \E name \in Names \cup {None}, email \in Emails \cup {None} : StartAgent(name, email)
SameAgent == IF asked.name = None THEN AnyAgent ELSE StartAgent(asked.name, asked.email)

Next ==
    \/ RunStep
    \/ StartHuman
    \/ AnyAgent
    \/ \E lane \in ToConfirm : StartConfirm(lane)
    \/ Crash
    \/ MakeHumanKey \/ RepairGit \/ RepairSettings \/ RepairPolicy
    \/ UserEdit

Fairness ==
    /\ WF_vars(RunStep)
    /\ WF_vars(MakeHumanKey) /\ WF_vars(RepairGit)
    /\ WF_vars(RepairSettings) /\ WF_vars(RepairPolicy)
    /\ SF_vars(StartHuman) /\ SF_vars(SameAgent)
    /\ \A lane \in ToConfirm : SF_vars(StartConfirm(lane))

Spec == Init /\ [][Next]_vars /\ Fairness

(***************************************************************************)
(* The probes behind `signing status` and `verify`.                        *)
(***************************************************************************)
HumanConfigured ==
    /\ git.readable
    /\ Wanted \subseteq git.on
    /\ <<git.key, "private">> \in keys
    /\ \/ git.allowed = "elsewhere"
       \/ git.allowed = "home" /\ signers.is # "absent"

AgentConfigured ==
    /\ settings.is = "good" /\ settings.env # NoIdentity
    /\ git.readable
    /\ <<settings.env.key, "private">> \in keys
    /\ settings.env.key # git.key
    /\ ~SameEmail(settings.env.email, git.email)

Attested(lane) == policy.is = "good" /\ lane \in policy.lanes

(***************************************************************************)
(* Properties.                                                             *)
(***************************************************************************)
\* "Never-clobber" (signing_setup.rs:1217): an entry the user put into the
\* settings is in them or in their backup, whichever run died and whatever was
\* re-run, but for three named losses: the file was empty or no text when it was
\* merged into; the entry was saved while a run was between its reading and its
\* writing of the file; or it is a GIT_CONFIG_* pair, which one merge took out of
\* the settings (1014-1023) and the next backed up over.
Expendable == IF "pairs" \in told.lost THEN GitPairs ELSE {}
ContentSurvives ==
    told.own \ Expendable \subseteq settings.own \cup backup.own \/ "settings" \in told.lost

\* A line of allowed_signers that others rely on (the human's own, an earlier
\* agent's) is dropped by no run that lives, unless the file was no text or the
\* line was saved in the run's window.
SignersKept ==
    told.lines \subseteq signers.lines \/ "signers" \in told.lost

\* A --confirm keeps what other lanes were confirmed (744-753), also after a
\* slip in the hand-edited store; only a run that dies writing the store loses it.
AttestationsKept ==
    told.lanes \subseteq policy.lanes \/ "policy" \in told.lost

\* No run costs the user what is in the three files setup shares with them (the
\* harness settings, allowed_signers, the attestation store), but for the losses
\* named at each part (the three in-place writes of signing_setup.rs).
UserDataSurvives == ContentSurvives /\ SignersKept /\ AttestationsKept

\* The identity-blur guard: the settings never carry an address that is the
\* human's to a forge, though the human's may be unset, unreadable or change
\* between runs, and settings be restored from a backup; unless the human took
\* the agent's address after the guard had passed it.
NoEmailBlur ==
    settings.env # NoIdentity /\ SameEmail(settings.env.email, git.email)
        => "email" \in told.lost

\* Setup converges: whatever died or was edited on the way, in the end both
\* probed lanes stay CONFIGURED, the agent's signatures verify locally and every
\* lane confirmed stays attested, or the machine is in one of five states setup
\* does not lead out of: the human's key, or address, is the agent's; the public
\* half of the agent's key is not there; allowed_signers has its address and its
\* key on different lines only; git reads another allowed_signers than the one
\* setup writes, or none.
Stuck ==
    \/ settings.env.key = git.key
    \/ SameEmail(asked.email, git.email)
    \/ /\ <<settings.env.key, "public">> \notin keys
       /\ <<settings.env.key, "private">> \in keys
    \/ git.allowed \in Paths \ {"home"}
    \/ /\ \E l, m \in signers.lines : l[1] = settings.env.email /\ m[2] = settings.env.key
       /\ <<settings.env.email, settings.env.key>> \notin signers.lines

LanesConverge ==
    <>[](\/ Stuck
         \/ /\ HumanConfigured /\ AgentConfigured
            /\ <<settings.env.email, settings.env.key>> \in signers.lines
            /\ \A lane \in ToConfirm : Attested(lane))
=============================================================================
