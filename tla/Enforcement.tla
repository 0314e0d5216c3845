---------------------------- MODULE Enforcement ----------------------------
(***************************************************************************)
(* What stands between a developer and a commit or a push that breaks the  *)
(* policy: the configuration, the hooks `sscsb init` writes, what git and  *)
(* the shims make of them, and what `sscsb verify` says about it all. init *)
(* and `sscsb enable / disable` write every file in place, a run may die   *)
(* at any step, and the user edits the same files meanwhile. What a gate   *)
(* decides about one commit or push is here a function of the settings:    *)
(* how it looks at commits is PushGate's and CommitGate's.                 *)
(*                                                                         *)
(* A hook's `body` is "ours" (what init writes), "edited live" or "edited  *)
(* dead" (still names `sscsb hook`, and reaches it or not), "wrapper" or   *)
(* "replaced" (does not name it, and reaches the engine all the same or    *)
(* not), "empty" or "absent".                                              *)
(***************************************************************************)
EXTENDS Naturals, Sequences, FiniteSets

CONSTANTS
    Settings,       \* the settings the user touches
    Edited,         \* the events whose hooks the user edits
    Starts,         \* the repositories a user starts from
    MaxActs,        \* bound: changes by the user
    MaxDeaths       \* bound: runs that die

Events == <<"pre-commit", "commit-msg", "pre-push">>
Event == {Events[i] : i \in DOMAIN Events}
Controls == {"secrets", "commit-signing", "ai-trailers", "ai-dep-gate", "package-trust"}
Scanners == {"trufflehog", "gitleaks"}
AllSettings == Controls \cup Scanners \cup
    {"pre_push_range_scan", "require_hardware_backed", "fail_open", "protected_branches"}

ASSUME EnforcementAssumption ==
    /\ Settings \subseteq AllSettings /\ Edited \subseteq Event
    /\ MaxActs \in Nat /\ MaxDeaths \in Nat

VARIABLES
    config,     \* .sscsb/config.toml: [is, set], set[s] \in Values(s) or "unset"
    hook,       \* hook[e] = [body, exec]
    hooksPath,  \* core.hooksPath: "ours", "spelled" (our directory, spelt otherwise), ...
    signersFile,\* gpg.ssh.allowedSignersFile: "ours" or "other"
    signers,    \* what signers.toml lists
    packages,   \* the approved-packages baseline
    ignore,     \* .gitignore: [rules: the user's, by version; ours; utf8]
    tools,      \* the scanners installed
    cli,        \* whether the shims find sscsb
    run,        \* the command in progress
    read,       \* what it read
    told,       \* history: what the user asked for, switched off, and may lose
    budget      \* acts and deaths so far

policies == <<signers, packages>>
machine == <<tools, cli>>
vars == <<config, hook, hooksPath, signersFile, policies, ignore, machine, run, read, told, budget>>

Unset == [s \in AllSettings |-> "unset"]
NoIgnore == [rules |-> 0, ours |-> FALSE, utf8 |-> TRUE]
Idle == [at |-> "idle", event |-> 0, key |-> "none", value |-> "none"]
Nothing == [set |-> Unset, ignore |-> NoIgnore]

\* What switches a gate off, on purpose.
Opens(s, v) == \/ v = "off" /\ s \in Controls \cup {"pre_push_range_scan"}
               \/ v = "on" /\ s = "fail_open"
               \/ v = "none"

Values(s) == IF s = "protected_branches" THEN {"main and release", "none"} ELSE {"on", "off"}
AnyValue == {"unset", "wrong", "on", "off", "main and release", "none"}
Tables == {set \in [AllSettings -> AnyValue] :
             \A s \in AllSettings : set[s] \in Values(s) \cup {"unset", "wrong"}}
Configs == {c \in [is : {"absent", "torn", "file"}, set : Tables] :
              c.is = "absent" => c.set = Unset}
Shims == {h \in [body : {"absent", "empty", "ours", "edited live", "edited dead", "wrapper",
                         "replaced"}, exec : BOOLEAN] :
            h.body = "absent" => ~h.exec}
HooksPaths == {"unset", "ours", "spelled", "other"}
SignerPolicies == {"absent", "none", "human", "soft human", "agents", "invalid"}
Baselines == {"absent", "good", "invalid"}
IgnoreFiles == [rules : Nat, ours : BOOLEAN, utf8 : BOOLEAN]

ASSUME StartsAssumption ==
    \A start \in Starts :
        /\ start.config \in Configs /\ start.hook \in [Event -> Shims]
        /\ start.hooksPath \in HooksPaths /\ start.signers \in SignerPolicies
        /\ start.packages \in Baselines /\ start.ignore \in IgnoreFiles

Init ==
    /\ \E start \in Starts :
          /\ config = start.config /\ hook = start.hook /\ hooksPath = start.hooksPath
          /\ signers = start.signers /\ packages = start.packages
          /\ ignore = start.ignore
          /\ told = [wish |-> start.config.set, rules |-> start.ignore.rules,
                     foreign |-> ~start.ignore.utf8, lost |-> {},
                     opened |-> IF \E s \in AllSettings : Opens(s, start.config.set[s])
                                THEN {"config"} ELSE {},
                     complete |-> FALSE]
    /\ signersFile = "other"
    /\ tools = Scanners /\ cli = TRUE
    /\ run = Idle /\ read = Nothing
    /\ budget = [acts |-> 0, deaths |-> 0]

(***************************************************************************)
(* The configuration. A key that is absent means the registry's default; a *)
(* key of the wrong type stops every command.                              *)
(***************************************************************************)
Default(s) == CASE s = "fail_open" -> "off"
                [] s = "protected_branches" -> "main"
                [] OTHER -> "on"
Loads == config.is = "file" /\ \A s \in AllSettings : config.set[s] # "wrong"
Setting(s) == IF config.set[s] = "unset" THEN Default(s) ELSE config.set[s]
On(s) == Setting(s) = "on"
Protected(branch) == \/ branch = "main" /\ Setting("protected_branches") # "none"
                     \/ branch = "release" /\ Setting("protected_branches") = "main and release"

(***************************************************************************)
(* The gates, as functions of what they are shown.                         *)
(***************************************************************************)
\* A scan that could not run finds nothing.
ScanOrPass(ran, secret) == ran = {} \/ ~secret

\* ran: the scanners that did. None of them is an error, which fail_open decides.
Scan(ran, secret) == IF ran = {} THEN On("fail_open") ELSE ~secret

Wanted == {t \in Scanners : On(t)}
PreCommit(faults) == On("secrets") => Scan(Wanted \cap tools, "secret" \in faults)
PackageTrust(new) == IF packages = "invalid" THEN On("fail_open") ELSE ~new
CommitMsg(faults) ==
    /\ On("ai-trailers") => "trailers" \notin faults
    /\ On("ai-dep-gate") => "manifest" \notin faults
    /\ On("package-trust") => PackageTrust("package" \in faults)

\* A file of the user's own may know a stranger's key by a human's name.
KnownToGit(by) == by = "human" \/ (by = "stranger" /\ signersFile = "other")
ApprovedHuman == \/ signers = "human"
                 \/ signers = "soft human" /\ ~On("require_hardware_backed")
SigningCheck(by) == KnownToGit(by) /\ ApprovedHuman
\* The range scan does not look at which scanners are wanted.
PrePush(branch, by, faults) ==
    /\ Protected(branch) /\ On("commit-signing") => SigningCheck(by)
    /\ On("secrets") /\ On("pre_push_range_scan") => Scan(tools, "secret" \in faults)

(***************************************************************************)
(* From git to the gates. git passes over a hook that is missing or not    *)
(* executable; an empty one runs and says yes; the shim says no when it    *)
(* does not find sscsb; sscsb says no when the configuration does not load *)
(* and yes when there is none.                                             *)
(***************************************************************************)
Reaches(e) == /\ hooksPath \in {"ours", "spelled"}
              /\ hook[e].exec /\ hook[e].body \in {"ours", "edited live", "wrapper"}
Engine(gates) == cli /\ (config.is = "absent" \/ (Loads /\ gates))
Allows(e, gates) == Reaches(e) => Engine(gates)

CommitLands(faults) == /\ Allows("pre-commit", PreCommit(faults))
                       /\ Allows("commit-msg", CommitMsg(faults))
PushLands(branch, by, faults) == Allows("pre-push", PrePush(branch, by, faults))

Violations == {"secret committed", "secret pushed", "trailers missing", "manifest unreviewed",
               "package unapproved", "unsigned on main", "stranger on main", "unsigned on release"}
ControlOf(v) ==
    CASE v \in {"secret committed", "secret pushed"} -> "secrets"
      [] v = "trailers missing" -> "ai-trailers"
      [] v = "manifest unreviewed" -> "ai-dep-gate"
      [] v = "package unapproved" -> "package-trust"
      [] OTHER -> "commit-signing"
EventOf(v) == CASE v = "secret committed" -> "pre-commit"
                [] ControlOf(v) \in {"ai-trailers", "ai-dep-gate", "package-trust"} -> "commit-msg"
                [] OTHER -> "pre-push"
Lands(v) ==
    CASE v = "secret committed" -> CommitLands({"secret"})
      [] v = "trailers missing" -> CommitLands({"trailers"})
      [] v = "manifest unreviewed" -> CommitLands({"manifest"})
      [] v = "package unapproved" -> CommitLands({"package"})
      [] v = "secret pushed" -> PushLands("topic", "human", {"secret"})
      [] v = "unsigned on main" -> PushLands("main", "nobody", {})
      [] v = "stranger on main" -> PushLands("main", "stranger", {})
      [] v = "unsigned on release" -> PushLands("release", "nobody", {})

(***************************************************************************)
(* verify.                                                                 *)
(***************************************************************************)
Broken(e) == ~hook[e].exec \/ hook[e].body \in {"absent", "empty", "wrapper", "replaced"}
Drifted(e) == hook[e].body \in {"edited live", "edited dead"}
\* Presence, taken for enforcement.
IntegrityByPresence ==
    IF hooksPath # "ours" \/ \E e \in Event : ~hook[e].exec THEN "FAIL" ELSE "PASS"

Integrity == IF hooksPath # "ours" \/ \E e \in Event : Broken(e) THEN "FAIL"
             ELSE IF \E e \in Event : Drifted(e) THEN "DEGRADED" ELSE "PASS"

\* A baseline nobody can read, taken for one of no packages.
EvidenceOfPresence(c) ==
    CASE c = "secrets" /\ ~(Wanted \subseteq tools) -> "DEGRADED"
      [] c = "commit-signing" /\ signers = "invalid" -> "FAIL"
      [] c = "commit-signing" /\ signers \in {"absent", "none"} -> "DEGRADED"
      [] c = "package-trust" /\ packages = "absent" -> "DEGRADED"
      [] OTHER -> "PASS"

\* What a control's verifier finds beside the hooks.
Evidence(c) ==
    CASE c = "secrets" /\ ~(Wanted \subseteq tools) -> "DEGRADED"
      [] c = "commit-signing" /\ signers = "invalid" -> "FAIL"
      [] c = "commit-signing" /\ signers \in {"absent", "none"} -> "DEGRADED"
      [] c = "package-trust" /\ packages # "good" -> "DEGRADED"
      [] OTHER -> "PASS"

Weakest(outcomes) == IF "FAIL" \in outcomes THEN "FAIL"
                     ELSE IF "DEGRADED" \in outcomes THEN "DEGRADED" ELSE "PASS"
Verdict(c) == IF On(c) THEN Weakest({Integrity, Evidence(c)}) ELSE "disabled"
StrictSuccess == Loads /\ \A c \in Controls : Verdict(c) \in {"PASS", "disabled"}

(***************************************************************************)
(* init. fs::write truncates, then writes; a file it creates is not        *)
(* executable, one it finds keeps its mode.                                *)
(***************************************************************************)
Goto(at) == run' = [run EXCEPT !.at = at]
End == run' = Idle /\ read' = Nothing
Restored(what) == told' = [told EXCEPT !.opened = @ \ {what}]

\* A configuration that does not load ends the run before it starts.
StartInit ==
    /\ run.at = "idle"
    /\ Loads \/ config.is = "absent"
    /\ Goto("config")
    /\ UNCHANGED <<config, hook, hooksPath, signersFile, policies, ignore, machine, read, told, budget>>

CreateConfig ==
    /\ run.at = "config"
    /\ IF config.is = "absent"
       THEN config' = [is |-> "file", set |-> Unset] /\ Goto("default config")
       ELSE Goto("discover") /\ UNCHANGED config
    /\ UNCHANGED <<hook, hooksPath, signersFile, policies, ignore, machine, read, told, budget>>

\* The defaults written out mean what an empty file means.
WriteDefaults ==
    /\ run.at = "default config"
    /\ config' = [is |-> "file", set |-> Unset]
    /\ Goto("discover")
    /\ Restored("config")
    /\ UNCHANGED <<hook, hooksPath, signersFile, policies, ignore, machine, read, budget>>

Discover ==
    /\ run.at = "discover"
    /\ IF Loads THEN run' = [run EXCEPT !.at = "shim", !.event = 1] /\ UNCHANGED read ELSE End
    /\ UNCHANGED <<config, hook, hooksPath, signersFile, policies, ignore, machine, told, budget>>

\* A shim that exists is kept.
TruncateShimIfAbsent ==
    /\ run.at = "shim"
    /\ IF hook[Events[run.event]].body = "absent"
       THEN /\ hook' = [hook EXCEPT ![Events[run.event]].body = "empty"]
            /\ Goto("fill shim")
       ELSE Goto("chmod") /\ UNCHANGED hook
    /\ UNCHANGED <<config, hooksPath, signersFile, policies, ignore, machine, read, told, budget>>

TruncateShim ==
    /\ run.at = "shim"
    /\ hook' = [hook EXCEPT ![Events[run.event]] =
                   [body |-> "empty", exec |-> @.body # "absent" /\ @.exec]]
    /\ Goto("fill shim")
    /\ UNCHANGED <<config, hooksPath, signersFile, policies, ignore, machine, read, told, budget>>

\* A file deleted meanwhile stays so.
FillShim ==
    /\ run.at = "fill shim"
    /\ hook' = [hook EXCEPT ![Events[run.event]].body = IF @ = "absent" THEN @ ELSE "ours"]
    /\ Goto("chmod")
    /\ UNCHANGED <<config, hooksPath, signersFile, policies, ignore, machine, read, told, budget>>

\* The mode is set, whatever is there.
ChmodAnyway ==
    /\ run.at = "chmod"
    /\ hook' = [hook EXCEPT ![Events[run.event]].exec = TRUE]
    /\ run' = IF run.event < Len(Events) THEN [run EXCEPT !.at = "shim", !.event = @ + 1]
                                         ELSE [run EXCEPT !.at = "hooksPath"]
    /\ UNCHANGED <<config, hooksPath, signersFile, policies, ignore, machine, read, told, budget>>

Chmod ==
    /\ run.at = "chmod"
    /\ LET e == Events[run.event]
       IN  IF hook[e].body = "absent"
           THEN End /\ UNCHANGED <<hook, told>>
           ELSE /\ hook' = [hook EXCEPT ![e].exec = TRUE]
                /\ told' = [told EXCEPT !.opened = IF hook[e].body = "ours" THEN @ \ {e} ELSE @]
                /\ run' = IF run.event < Len(Events)
                          THEN [run EXCEPT !.at = "shim", !.event = @ + 1]
                          ELSE [run EXCEPT !.at = "hooksPath"]
                /\ UNCHANGED read
    /\ UNCHANGED <<config, hooksPath, signersFile, policies, ignore, machine, budget>>

SetHooksPath ==
    /\ run.at = "hooksPath"
    /\ hooksPath' = "ours"
    /\ Restored("hooksPath")
    /\ Goto("signersFile")
    /\ UNCHANGED <<config, hook, signersFile, policies, ignore, machine, read, budget>>

SetSignersFile ==
    /\ run.at = "signersFile"
    /\ signersFile' = "ours"
    /\ Restored("signersFile")
    /\ Goto("policies")
    /\ UNCHANGED <<config, hook, hooksPath, policies, ignore, machine, read, budget>>

\* write_if_absent, then allowed_signers, which an invalid policy ends the run at.
WritePolicies ==
    /\ run.at = "policies"
    /\ signers' = IF signers = "absent" THEN "none" ELSE signers
    /\ packages' = IF packages = "absent" THEN "good" ELSE packages
    /\ IF signers = "invalid" THEN End ELSE Goto("ignore") /\ UNCHANGED read
    /\ UNCHANGED <<config, hook, hooksPath, signersFile, ignore, machine, told, budget>>

\* What cannot be read as UTF-8 is taken for empty.
ReadIgnore ==
    /\ run.at = "ignore"
    /\ IF ignore.ours
       THEN End /\ told' = [told EXCEPT !.complete = TRUE]
       ELSE /\ read' = [read EXCEPT !.ignore = IF ignore.utf8 THEN ignore ELSE NoIgnore]
            /\ Goto("truncate ignore")
            /\ UNCHANGED told
    /\ UNCHANGED <<config, hook, hooksPath, signersFile, policies, ignore, machine, budget>>

TruncateIgnore ==
    /\ run.at = "truncate ignore"
    /\ ignore' = NoIgnore
    /\ Goto("fill ignore")
    /\ UNCHANGED <<config, hook, hooksPath, signersFile, policies, machine, read, told, budget>>

AppendIgnore ==
    /\ run.at = "fill ignore"
    /\ ignore' = [read.ignore EXCEPT !.ours = TRUE]
    /\ told' = [told EXCEPT !.complete = TRUE]
    /\ End
    /\ UNCHANGED <<config, hook, hooksPath, signersFile, policies, machine, budget>>

InitStep ==
    \/ CreateConfig \/ WriteDefaults \/ Discover \/ TruncateShim \/ FillShim \/ Chmod
    \/ SetHooksPath \/ SetSignersFile \/ WritePolicies
    \/ ReadIgnore \/ TruncateIgnore \/ AppendIgnore

(***************************************************************************)
(* enable and disable. Like every command they need a configuration that   *)
(* loads.                                                                  *)
(***************************************************************************)
Spend == /\ budget.acts < MaxActs
         /\ budget' = [budget EXCEPT !.acts = @ + 1]

Asked(s, v) == [told EXCEPT !.wish[s] = v,
                            !.opened = IF Opens(s, v) THEN @ \cup {"config"} ELSE @]

StartToggle(c, v) ==
    /\ run.at = "idle" /\ Spend
    /\ Loads
    /\ read' = [read EXCEPT !.set = config.set]
    /\ run' = [run EXCEPT !.at = "truncate config", !.key = c, !.value = v]
    /\ UNCHANGED <<config, hook, hooksPath, signersFile, policies, ignore, machine, told>>

TruncateConfig ==
    /\ run.at = "truncate config"
    /\ config' = [is |-> "file", set |-> Unset]
    /\ Goto("fill config")
    /\ UNCHANGED <<hook, hooksPath, signersFile, policies, ignore, machine, read, told, budget>>

\* The table is written afresh.
FillConfigAfresh ==
    /\ run.at = "fill config"
    /\ config' = [is |-> "file", set |-> [Unset EXCEPT ![run.key] = run.value]]
    /\ told' = Asked(run.key, run.value)
    /\ End
    /\ UNCHANGED <<hook, hooksPath, signersFile, policies, ignore, machine, budget>>

FillConfig ==
    /\ run.at = "fill config"
    /\ config' = [is |-> "file", set |-> [read.set EXCEPT ![run.key] = run.value]]
    /\ told' = Asked(run.key, run.value)
    /\ End
    /\ UNCHANGED <<hook, hooksPath, signersFile, policies, ignore, machine, budget>>

ToggleStep == TruncateConfig \/ FillConfig

\* A run dies: what it had truncated stays empty.
Die ==
    /\ run.at # "idle" /\ budget.deaths < MaxDeaths
    /\ budget' = [budget EXCEPT !.deaths = @ + 1]
    /\ told' = [told EXCEPT !.lost = @ \cup (CASE run.at = "fill config" -> {"config"}
                                               [] run.at = "fill ignore" -> {"ignore"}
                                               [] OTHER -> {})]
    /\ End
    /\ UNCHANGED <<config, hook, hooksPath, signersFile, policies, ignore, machine>>

(***************************************************************************)
(* The user.                                                               *)
(***************************************************************************)
\* A command in progress will write over what is saved now.
WritingConfig == run.at \in {"default config", "truncate config", "fill config"}
WritingIgnore == run.at \in {"truncate ignore", "fill ignore"}
Overlap(t, busy, what) == IF busy THEN [t EXCEPT !.lost = @ \cup {what}] ELSE t

SaveSetting(s, v) ==
    /\ Spend
    /\ config' = [is |-> "file", set |-> [config.set EXCEPT ![s] = v]]
    /\ told' = Overlap(Asked(s, v), WritingConfig, "config")
    /\ UNCHANGED <<hook, hooksPath, signersFile, policies, ignore, machine, run, read>>

DeleteConfig ==
    /\ config.is # "absent" /\ Spend
    /\ config' = [is |-> "absent", set |-> Unset]
    /\ told' = Overlap([told EXCEPT !.wish = Unset, !.opened = @ \cup {"config"}],
                       WritingConfig, "config")
    /\ UNCHANGED <<hook, hooksPath, signersFile, policies, ignore, machine, run, read>>

\* A slip of the editor: the file no longer parses.
GarbleConfig ==
    /\ config.is = "file" /\ Spend
    /\ config' = [config EXCEPT !.is = "torn"]
    /\ told' = Overlap(told, WritingConfig, "config")
    /\ UNCHANGED <<hook, hooksPath, signersFile, policies, ignore, machine, run, read>>

EditHook(e) ==
    /\ Spend
    /\ \E new \in [body : {"edited live", "edited dead", "wrapper", "replaced"}, exec : {hook[e].exec}]
                  \cup {[body |-> "absent", exec |-> FALSE], [hook[e] EXCEPT !.exec = FALSE]} :
          /\ new # hook[e]
          /\ hook[e].body = "absent" => new.body # "edited live"
          /\ hook' = [hook EXCEPT ![e] = new]
          /\ told' = [told EXCEPT !.opened =
                        IF new.exec /\ new.body \in {"ours", "edited live", "wrapper"} THEN @ ELSE @ \cup {e}]
    /\ UNCHANGED <<config, hooksPath, signersFile, policies, ignore, machine, run, read>>

PointElsewhere ==
    /\ Spend
    /\ \/ /\ \E path \in {"unset", "other", "spelled"} :
                /\ hooksPath' = path
                /\ told' = [told EXCEPT !.opened = IF path = "spelled" THEN @ ELSE @ \cup {"hooksPath"}]
          /\ UNCHANGED signersFile
       \/ /\ signersFile' = "other" /\ UNCHANGED hooksPath
          /\ told' = [told EXCEPT !.opened = @ \cup {"signersFile"}]
    /\ UNCHANGED <<config, hook, policies, ignore, machine, run, read>>

EditPolicies ==
    /\ Spend
    /\ \/ signers' \in {"none", "human", "soft human", "agents", "invalid"} /\ UNCHANGED packages
       \/ packages' \in {"absent", "good", "invalid"} /\ UNCHANGED signers
    /\ UNCHANGED <<config, hook, hooksPath, signersFile, ignore, machine, run, read, told>>

EditIgnore ==
    /\ Spend
    /\ \E utf8 \in BOOLEAN :
          /\ ignore' = [ignore EXCEPT !.rules = told.rules + 1, !.utf8 = utf8]
          /\ told' = Overlap([told EXCEPT !.rules = @ + 1, !.foreign = @ \/ ~utf8],
                             WritingIgnore, "ignore")
    /\ UNCHANGED <<config, hook, hooksPath, signersFile, policies, machine, run, read>>

ChangeMachine ==
    /\ Spend
    /\ \/ tools' \in SUBSET Scanners /\ UNCHANGED cli
       \/ cli' = ~cli /\ UNCHANGED tools
    /\ UNCHANGED <<config, hook, hooksPath, signersFile, policies, ignore, run, read, told>>

User ==
    \/ \E s \in Settings : \E v \in Values(s) \cup {"unset", "wrong"} : SaveSetting(s, v)
    \/ \E c \in Settings \cap Controls, v \in {"on", "off"} : StartToggle(c, v)
    \/ \E e \in Edited : EditHook(e)
    \/ DeleteConfig \/ GarbleConfig \/ PointElsewhere \/ EditPolicies \/ EditIgnore \/ ChangeMachine

Next == StartInit \/ InitStep \/ ToggleStep \/ Die \/ User

\* A command that was started runs on, unless it dies; the user runs init again.
Fairness == WF_vars(InitStep) /\ WF_vars(ToggleStep) /\ SF_vars(StartInit)
Spec == Init /\ [][Next]_vars /\ Fairness

(***************************************************************************)
(* Properties.                                                             *)
(***************************************************************************)
\* Every variable has its type.
TypeOK ==
    /\ config \in Configs /\ hook \in [Event -> Shims]
    /\ hooksPath \in HooksPaths /\ signersFile \in {"ours", "other"}
    /\ signers \in SignerPolicies /\ packages \in Baselines /\ ignore \in IgnoreFiles
    /\ tools \subseteq Scanners /\ cli \in BOOLEAN
    /\ run.event \in 0 .. Len(Events) /\ (run.at \in {"shim", "fill shim", "chmod"} => run.event # 0)
    /\ told.opened \subseteq Event \cup {"hooksPath", "signersFile", "config"}
    /\ budget.acts \in 0 .. MaxActs /\ budget.deaths \in 0 .. MaxDeaths

(* What no verdict speaks of: a release branch nobody asked to protect, an *)
(* empty list of protected branches, the range scan switched off, a file   *)
(* of signers of the user's own; and, with fail_open, both scanners off.   *)
Unspoken(v) ==
    \/ v \in {"unsigned on main", "stranger on main"} /\ ~Protected("main")
    \/ v = "unsigned on release" /\ ~Protected("release")
    \/ v = "stranger on main" /\ signersFile = "other"
    \/ v = "secret pushed" /\ ~On("pre_push_range_scan")
    \/ ControlOf(v) = "secrets" /\ Wanted = {} /\ On("fail_open")

\* A control that verify passes is enforced: what breaks its policy is blocked, whatever the
\* state of the hooks, the configuration and the policies (hooks.rs hook_integrity and the
\* verifiers against the hooks), but for what no verdict speaks of.
PassEnforces ==
    \A v \in Violations :
        Loads /\ Verdict(ControlOf(v)) = "PASS" /\ ~Unspoken(v) => ~Lands(v)

\* After `verify --strict` succeeds, sound work gets through: a commit with nothing wrong, and
\* a push of commits an approved human signed (the hooks against cmd_verify). verify does not
\* see that the shims cannot find sscsb, that no scanner is wanted, or that no human's key may
\* sign for main.
WorkBlocked ==
    \/ ~cli
    \/ On("secrets") /\ Wanted = {} /\ ~On("fail_open")
    \/ On("commit-signing") /\ Protected("main") /\ ~ApprovedHuman
CleanLands ==
    StrictSuccess /\ ~WorkBlocked => CommitLands({}) /\ PushLands("main", "human", {})

\* "Shims fail CLOSED when sscsb is missing so enabled controls can never be silently skipped"
\* (hooks.rs): once an init is through and until the user opens a gate on purpose, nothing
\* lands that breaks the policy, whatever becomes of the tools, of sscsb, of the policies and
\* of the configuration. Two windows are excepted: an event whose shim an init is rewriting,
\* or died rewriting; and what was protected beyond the defaults, once enable or disable has
\* truncated the configuration.
FailsClosed ==
    \A v \in Violations :
        /\ told.complete /\ told.opened = {} /\ Lands(v)
        /\ v = "unsigned on release" => told.wish["protected_branches"] = "main and release"
        => \/ hook[EventOf(v)].body = "empty"
           \/ v = "unsigned on release" /\ (run.at = "fill config" \/ "config" \in told.lost)

\* What the user set and what .gitignore said survive every command ("Enable/disable edits
\* preserve user comments", config.rs; "Appended, never rewritten", init.rs), but for a run
\* that died in the write, a save that a run under way wrote over, and a .gitignore that was
\* not UTF-8.
EditsSurvive ==
    /\ run.at = "fill config" \/ "config" \in told.lost \/ config.set = told.wish
    /\ \/ run.at = "fill ignore" \/ "ignore" \in told.lost \/ told.foreign
       \/ ignore.rules = told.rules

(* What init cannot get past: a configuration that does not load, and a    *)
(* signer policy that does not parse.                                      *)
Stuck == (config.is # "absent" /\ ~Loads) \/ signers = "invalid"
Installed == Loads /\ Integrity = "PASS" /\ signersFile = "ours" /\ ignore.ours

\* Running init again gets every half-done repository installed, whatever died on the way, or
\* stands before one of the two files it cannot get past (init.rs bootstrap).
InitConverges == []<>(Installed \/ Stuck)
=============================================================================
